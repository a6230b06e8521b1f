----------------------------- MODULE Ext2Proofs -----------------------------
(***************************************************************************)
(* Proofs about ext2_init: with whatever volume, its reads and those of    *)
(* the other tasks are a behaviour of the driver of module Ata, and on a   *)
(* supported volume it lists the root directory.                           *)
(***************************************************************************)
EXTENDS Ext2, AtaProofs, FiniteSetTheorems

(* What the walk may be at, whatever the volume: behind the checks of the  *)
(* superblock the blocks fit a page, and root_inode is zeros or an inode   *)
(* of the volume.                                                          *)
KeptInodes(v) ==
  UNION {{v.blocks[b].inodes[x] : x \in DOMAIN v.blocks[b].inodes} : b \in DOMAIN v.blocks}

WalkInv ==
  /\ vol \in Volumes /\ i \in Nat
  /\ epc \in {"descriptors", "inode", "blocks", "entries"} => ext2_block_size(vol) <= PAGE_SIZE
  /\ root = ZeroInode \/ root \in KeptInodes(vol)

(* Task 1's last request was for block b. *)
AskedFor(b) ==
  /\ req[1].lba = SectorsPerBlock(vol) * b
  /\ req[1].seccount = SectorsPerBlock(vol)

(* The block with the root's inode, in terms of the format. *)
RootInodeBlock(v) == v.blocks[1].table[0] + InodeSize(v) \div ext2_block_size(v)

IsRootInode(inode) ==
  /\ inode.i_blocks = vol.i_blocks
  /\ \A k \in 1 .. Len(vol.root) : inode.ptr[k] = vol.root[k]

(* What the walk knows at each place, on a supported volume: what its last *)
(* read was for, and in the loops that head is at an entry or at the end   *)
(* of the block.                                                           *)
PlaceInv ==
  /\ epc = "descriptors" => AskedFor(1)
  /\ epc = "inode" => AskedFor(RootInodeBlock(vol))
  /\ epc \in {"blocks", "entries", "done"} => IsRootInode(root)
  /\ i <= Len(vol.root)
  /\ epc = "entries" =>
       /\ i < Len(vol.root)
       /\ AskedFor(vol.root[i + 1])
       /\ head \in DOMAIN vol.blocks[vol.root[i + 1]].entries \cup {ext2_block_size(vol)}
  /\ epc \in {"superblock", "check", "descriptors", "inode"} => i = 0
  /\ epc = "done" => i = Len(vol.root)
  /\ epc # "for_ever"

ListingInv == listed = EntriesBefore(vol, Reached)

Ext2Inv == AtaInv /\ WalkInv /\ (Supported => PlaceInv /\ ListingInv)

-----------------------------------------------------------------------------
(* Sizes. *)
LEMMA PowerOfTwo ==
  ASSUME NEW n \in 0 .. 21
  PROVE  2 ^ n \in Nat \ {0}
<1>1. \/ n = 0 \/ n = 1 \/ n = 2 \/ n = 3 \/ n = 4 \/ n = 5 \/ n = 6 \/ n = 7
      \/ n = 8 \/ n = 9 \/ n = 10 \/ n = 11 \/ n = 12 \/ n = 13 \/ n = 14
      \/ n = 15 \/ n = 16 \/ n = 17 \/ n = 18 \/ n = 19 \/ n = 20 \/ n = 21
  OBVIOUS
<1>2. CASE n = 0
  BY <1>2
<1>3. CASE n = 1
  BY <1>3
<1>4. CASE n = 2
  BY <1>4
<1>5. CASE n = 3
  BY <1>5
<1>6. CASE n = 4
  BY <1>6
<1>7. CASE n = 5
  BY <1>7
<1>8. CASE n = 6
  BY <1>8
<1>9. CASE n = 7
  BY <1>9
<1>10. CASE n = 8
  BY <1>10
<1>11. CASE n = 9
  BY <1>11
<1>12. CASE n = 10
  BY <1>12
<1>13. CASE n = 11
  BY <1>13
<1>14. CASE n = 12
  BY <1>14
<1>15. CASE n = 13
  BY <1>15
<1>16. CASE n = 14
  BY <1>16
<1>17. CASE n = 15
  BY <1>17
<1>18. CASE n = 16
  BY <1>18
<1>19. CASE n = 17
  BY <1>19
<1>20. CASE n = 18
  BY <1>20
<1>21. CASE n = 19
  BY <1>21
<1>22. CASE n = 20
  BY <1>22
<1>23. CASE n = 21
  BY <1>23
<1>24. QED
  BY <1>1, <1>2, <1>3, <1>4, <1>5, <1>6, <1>7, <1>8, <1>9, <1>10, <1>11, <1>12,
     <1>13, <1>14, <1>15, <1>16, <1>17, <1>18, <1>19, <1>20, <1>21, <1>22, <1>23

(* Dividing takes back a multiplication. *)
LEMMA DivMul ==
  ASSUME NEW d \in Nat \ {0}, NEW n \in Nat
  PROVE  (d * n) \div d = n
OBVIOUS

(* The blocks of a supported volume have 4 or 8 sectors. *)
LEMMA SupportedSizes ==
  ASSUME NEW v, SupportedVolume(v)
  PROVE  \/ ext2_block_size(v) = 2048 /\ SectorsPerBlock(v) = 4 /\ 2 * 2 ^ v.log = 4
         \/ ext2_block_size(v) = 4096 /\ SectorsPerBlock(v) = 8 /\ 2 * 2 ^ v.log = 8
<1>1. v.log \in 1 .. 2
  BY DEF SupportedVolume
<1>2. CASE v.log = 1
  <2>1. 2 ^ v.log = 2
    BY <1>2
  <2>2. ext2_block_size(v) = 2048
    BY <2>1 DEF ext2_block_size
  <2>3. QED
    BY <2>1, <2>2 DEF SectorsPerBlock
<1>3. CASE v.log = 2
  <2>1. 2 ^ v.log = 4
    BY <1>3
  <2>2. ext2_block_size(v) = 4096
    BY <2>1 DEF ext2_block_size
  <2>3. QED
    BY <2>1, <2>2 DEF SectorsPerBlock
<1>4. QED
  BY <1>1, <1>2, <1>3

(* What the format says of a supported volume. *)
LEMMA SupportedOnDisk ==
  ASSUME NEW v \in Volumes, SupportedVolume(v)
  PROVE  RootInodeOnDisk(v) /\ DirectoryOnDisk(v)
BY Ext2Assumption

(* A directory is a sequence of block numbers. *)
LEMMA SupportedRoot ==
  ASSUME NEW v \in Volumes, SupportedVolume(v)
  PROVE  v.root \in Seq(Nat) /\ Len(v.root) \in Nat
<1>1. v.root \in Seq(Nat)
  BY SupportedOnDisk DEF RootInodeOnDisk
<1>2. QED
  BY <1>1

(* The walk's count of blocks is that of the directory. *)
LEMMA SupportedMaxBlocks ==
  ASSUME NEW v \in Volumes, SupportedVolume(v), NEW inode, inode.i_blocks = v.i_blocks
  PROVE  /\ max_blocks(v, inode) = Len(v.root)
         /\ Len(v.root) \in Nat /\ v.root \in Seq(Nat)
<1>1. v.root \in Seq(Nat)
  BY SupportedRoot
<1>2. PICK n \in Nat : n = Len(v.root)
  BY <1>1
<1>3. inode.i_blocks = n * SectorsPerBlock(v)
  BY <1>2 DEF SupportedVolume
<1>4. \/ SectorsPerBlock(v) = 4 /\ 2 * 2 ^ v.log = 4
      \/ SectorsPerBlock(v) = 8 /\ 2 * 2 ^ v.log = 8
  BY SupportedSizes
<1>5. (n * 4) \div 4 = n /\ (n * 8) \div 8 = n
  OBVIOUS
<1>6. max_blocks(v, inode) = n
  BY <1>3, <1>4, <1>5 DEF max_blocks
<1>7. QED
  BY <1>1, <1>2, <1>6

-----------------------------------------------------------------------------
(* The places of a directory.                                              *)
EntriesIn(v, k) == v.blocks[v.root[k]].entries

(* A place is a block of the directory with an offset of an entry in it.   *)
LEMMA PlaceParts ==
  ASSUME NEW v, NEW k \in Nat, NEW o
  PROVE  <<k, o>> \in Places(v) <=> k \in 1 .. Len(v.root) /\ o \in DOMAIN EntriesIn(v, k)
BY DEF Places, EntriesIn

(* The places of a supported volume are finitely many pairs of numbers.    *)
LEMMA PlacesFinite ==
  ASSUME NEW v \in Volumes, SupportedVolume(v)
  PROVE  /\ IsFiniteSet(Places(v))
         /\ Places(v) \subseteq Nat \X Nat
<1>1. PICK n \in Nat : n = Len(v.root)
  BY SupportedRoot
<1>2. PICK m \in Nat : m = ext2_block_size(v)
  BY SupportedSizes
<1>3. \A k \in 1 .. n : DOMAIN EntriesIn(v, k) \subseteq 0 .. (m - 1)
  BY <1>1, <1>2, SupportedOnDisk DEF DirectoryOnDisk, DirectoryBlock, EntriesIn
<1>4. Places(v) \subseteq (1 .. n) \X (0 .. (m - 1))
  BY <1>1, <1>3 DEF Places, EntriesIn
<1>5. IsFiniteSet(1 .. n) /\ IsFiniteSet(0 .. (m - 1))
  BY FS_Interval
<1>6. IsFiniteSet((1 .. n) \X (0 .. (m - 1)))
  BY <1>5, FS_Product
<1>7. IsFiniteSet(Places(v))
  BY <1>4, <1>6, FS_Subset
<1>8. (1 .. n) \X (0 .. (m - 1)) \subseteq Nat \X Nat
  OBVIOUS
<1>9. QED
  BY <1>4, <1>7, <1>8

(* The places before one are finitely many. *)
LEMMA BeforeFinite ==
  ASSUME NEW v \in Volumes, SupportedVolume(v), NEW q
  PROVE  IsFiniteSet(PlacesBefore(v, q)) /\ Cardinality(PlacesBefore(v, q)) \in Nat
<1>1. PlacesBefore(v, q) \subseteq Places(v)
  BY DEF PlacesBefore
<1>2. IsFiniteSet(PlacesBefore(v, q))
  BY <1>1, PlacesFinite, FS_Subset
<1>3. QED
  BY <1>2, FS_CardinalityType

(* Fewer places lie before an earlier one. *)
LEMMA RankStrict ==
  ASSUME NEW v \in Volumes, SupportedVolume(v), NEW p \in Places(v), NEW q \in Places(v),
         p \in PlacesBefore(v, q)
  PROVE  Cardinality(PlacesBefore(v, p)) < Cardinality(PlacesBefore(v, q))
<1> DEFINE P == PlacesBefore(v, p)
           Q == PlacesBefore(v, q)
<1>1. Places(v) \subseteq Nat \X Nat
  BY PlacesFinite
<1>2. PICK a \in Nat, b \in Nat : p = <<a, b>>
  BY <1>1
<1>3. PICK c \in Nat, d \in Nat : q = <<c, d>>
  BY <1>1
<1>4. a < c \/ (a = c /\ b < d)
  BY <1>2, <1>3 DEF PlacesBefore
<1>5. P \subseteq Q
  <2>1. SUFFICES ASSUME NEW x \in P PROVE x \in Q
    OBVIOUS
  <2>2. x \in Places(v)
    BY <2>1 DEF PlacesBefore
  <2>3. PICK e \in Nat, f \in Nat : x = <<e, f>>
    BY <1>1, <2>2
  <2>4. e < a \/ (e = a /\ f < b)
    BY <1>2, <2>1, <2>3 DEF PlacesBefore
  <2>5. e < c \/ (e = c /\ f < d)
    BY <1>4, <2>4
  <2>6. QED
    BY <1>3, <2>2, <2>3, <2>5 DEF PlacesBefore
<1>6. p \notin P
  BY <1>2 DEF PlacesBefore
<1>7. P # Q
  BY <1>6
<1>8. IsFiniteSet(P) /\ IsFiniteSet(Q) /\ Cardinality(P) \in Nat /\ Cardinality(Q) \in Nat
  BY BeforeFinite
<1> HIDE DEF P, Q
<1>9. Cardinality(P) <= Cardinality(Q) /\ Cardinality(P) # Cardinality(Q)
  BY <1>5, <1>7, <1>8, FS_Subset
<1>10. Cardinality(P) < Cardinality(Q)
  BY <1>8, <1>9
<1>11. QED
  BY <1>10 DEF P, Q

(* The place with as many places before it as q has is q. *)
LEMMA PlaceOfRank ==
  ASSUME NEW v \in Volumes, SupportedVolume(v), NEW q \in Places(v),
         NEW n \in Nat, n = Cardinality(PlacesBefore(v, q))
  PROVE  NthPlace(v, n + 1) = q
<1> DEFINE Rank(p) == Cardinality(PlacesBefore(v, p))
<1>1. Places(v) \subseteq Nat \X Nat
  BY PlacesFinite
<1>2. ASSUME NEW p \in Places(v), Rank(p) = n PROVE p = q
  <2>1. PICK a \in Nat, b \in Nat : p = <<a, b>>
    BY <1>1
  <2>2. PICK c \in Nat, d \in Nat : q = <<c, d>>
    BY <1>1
  <2>3. \/ a < c \/ (a = c /\ b < d)
        \/ c < a \/ (c = a /\ d < b)
        \/ a = c /\ b = d
    OBVIOUS
  <2>4. p \notin PlacesBefore(v, q)
    BY <1>2, RankStrict
  <2>5. q \notin PlacesBefore(v, p)
    BY <1>2, RankStrict
  <2>6. ~(a < c \/ (a = c /\ b < d)) /\ ~(c < a \/ (c = a /\ d < b))
    BY <2>1, <2>2, <2>4, <2>5 DEF PlacesBefore
  <2>7. QED
    BY <2>1, <2>2, <2>3, <2>6
<1>3. Rank(q) = n
  OBVIOUS
<1> HIDE DEF Rank
<1>4. NthPlace(v, n + 1) = CHOOSE p \in Places(v) : Rank(p) = (n + 1) - 1
  BY DEF NthPlace, Rank
<1>5. (n + 1) - 1 = n
  OBVIOUS
<1>6. NthPlace(v, n + 1) = CHOOSE p \in Places(v) : Rank(p) = n
  BY <1>4, <1>5
<1>7. QED
  BY <1>2, <1>3, <1>6

(* Where the loop over a block goes on: at the next entry, or at the end.  *)
LEMMA EntryFacts ==
  ASSUME NEW v \in Volumes, SupportedVolume(v), NEW k \in 1 .. Len(v.root),
         NEW h \in DOMAIN EntriesIn(v, k)
  PROVE  /\ k \in Nat /\ h \in Nat /\ h < ext2_block_size(v)
         /\ EntriesIn(v, k)[h].rec_len \in Nat \ {0}
         /\ h + EntriesIn(v, k)[h].rec_len
              \in DOMAIN EntriesIn(v, k) \cup {ext2_block_size(v)}
         /\ \A p \in DOMAIN EntriesIn(v, k) :
              p \in Nat /\ (p <= h \/ h + EntriesIn(v, k)[h].rec_len <= p)
<1>1. DirectoryBlock(EntriesIn(v, k), ext2_block_size(v))
  BY SupportedOnDisk DEF DirectoryOnDisk, EntriesIn
<1>2. Len(v.root) \in Nat
  BY SupportedRoot
<1>3. PICK m \in Nat : m = ext2_block_size(v)
  BY SupportedSizes
<1>4. DOMAIN EntriesIn(v, k) \subseteq 0 .. (m - 1)
  BY <1>1, <1>3 DEF DirectoryBlock
<1>5. /\ EntriesIn(v, k)[h].rec_len \in Nat \ {0}
      /\ h + EntriesIn(v, k)[h].rec_len \in DOMAIN EntriesIn(v, k) \cup {m}
      /\ \A p \in DOMAIN EntriesIn(v, k) : p <= h \/ h + EntriesIn(v, k)[h].rec_len <= p
  BY <1>1, <1>3 DEF DirectoryBlock
<1>6. k \in Nat /\ h \in Nat /\ h < m
  BY <1>2, <1>4
<1>7. \A p \in DOMAIN EntriesIn(v, k) : p \in Nat
  BY <1>4
<1>8. QED
  BY <1>3, <1>5, <1>6, <1>7

(* Behind an entry lie all places before it, and the entry's. *)
LEMMA BeforeNextEntry ==
  ASSUME NEW v \in Volumes, SupportedVolume(v), NEW k \in 1 .. Len(v.root),
         NEW h \in DOMAIN EntriesIn(v, k), NEW d \in Nat, d = EntriesIn(v, k)[h].rec_len
  PROVE  /\ PlacesBefore(v, <<k, h + d>>) = PlacesBefore(v, <<k, h>>) \cup {<<k, h>>}
         /\ <<k, h>> \notin PlacesBefore(v, <<k, h>>)
         /\ <<k, h>> \in Places(v)
<1>1. /\ k \in Nat /\ h \in Nat /\ d > 0
      /\ \A p \in DOMAIN EntriesIn(v, k) : p \in Nat /\ (p <= h \/ h + d <= p)
  BY EntryFacts
<1>2. <<k, h>> \in Places(v)
  BY <1>1, PlaceParts
<1>3. ASSUME NEW a \in Nat, NEW b \in Nat, <<a, b>> \in Places(v)
      PROVE  a < k \/ (a = k /\ b < h + d) <=> a < k \/ (a = k /\ b < h) \/ (a = k /\ b = h)
  <2>1. a = k => b \in DOMAIN EntriesIn(v, k)
    BY <1>3, PlaceParts
  <2>2. a = k => (b <= h \/ h + d <= b)
    BY <1>1, <2>1
  <2>3. QED
    BY <1>1, <2>2
<1>4. ASSUME NEW x \in Places(v)
      PROVE  x \in PlacesBefore(v, <<k, h + d>>) <=> x \in PlacesBefore(v, <<k, h>>) \cup {<<k, h>>}
  <2>1. PICK a \in Nat, b \in Nat : x = <<a, b>>
    BY PlacesFinite
  <2>2. a < k \/ (a = k /\ b < h + d) <=> a < k \/ (a = k /\ b < h) \/ (a = k /\ b = h)
    BY <1>3, <2>1
  <2>3. x = <<k, h>> <=> a = k /\ b = h
    BY <2>1
  <2>4. x \in PlacesBefore(v, <<k, h + d>>) <=> a < k \/ (a = k /\ b < h + d)
    BY <2>1 DEF PlacesBefore
  <2>5. x \in PlacesBefore(v, <<k, h>>) <=> a < k \/ (a = k /\ b < h)
    BY <2>1 DEF PlacesBefore
  <2>6. QED
    BY <2>2, <2>3, <2>4, <2>5
<1>5. /\ PlacesBefore(v, <<k, h + d>>) \subseteq Places(v)
      /\ PlacesBefore(v, <<k, h>>) \subseteq Places(v)
  BY DEF PlacesBefore
<1>6. <<k, h>> \notin PlacesBefore(v, <<k, h>>)
  BY <1>1 DEF PlacesBefore
<1>7. QED
  BY <1>2, <1>4, <1>5, <1>6

(* One more entry is listed when the loop goes on behind it. *)
LEMMA ListEntry ==
  ASSUME NEW v \in Volumes, SupportedVolume(v), NEW k \in 1 .. Len(v.root),
         NEW h \in DOMAIN EntriesIn(v, k), NEW d \in Nat, d = EntriesIn(v, k)[h].rec_len
  PROVE  EntriesBefore(v, <<k, h + d>>)
           = Append(EntriesBefore(v, <<k, h>>), EntryAt(v, <<k, h>>))
<1> DEFINE nth(n) == EntryAt(v, NthPlace(v, n))
           S == {nth(n) : n \in Nat}
           Q == PlacesBefore(v, <<k, h>>)
<1>1. /\ PlacesBefore(v, <<k, h + d>>) = Q \cup {<<k, h>>}
      /\ <<k, h>> \notin Q /\ <<k, h>> \in Places(v)
  BY BeforeNextEntry
<1>2. IsFiniteSet(Q) /\ Cardinality(Q) \in Nat
  BY BeforeFinite
<1>3. PICK n \in Nat : n = Cardinality(Q)
  BY <1>2
<1>4. Cardinality(Q \cup {<<k, h>>}) = n + 1
  BY <1>1, <1>2, <1>3, FS_AddElement
<1>5. NthPlace(v, n + 1) = <<k, h>>
  BY <1>1, <1>3, PlaceOfRank
<1>6. EntriesBefore(v, <<k, h>>) = [j \in 1 .. n |-> nth(j)]
  BY <1>3 DEF EntriesBefore
<1>7. EntriesBefore(v, <<k, h + d>>) = [j \in 1 .. (n + 1) |-> nth(j)]
  BY <1>1, <1>4 DEF EntriesBefore
<1>8. nth(n + 1) = EntryAt(v, <<k, h>>)
  BY <1>5
<1> HIDE DEF nth, Q
<1>9. Append([j \in 1 .. n |-> nth(j)], nth(n + 1)) = [j \in 1 .. (n + 1) |-> nth(j)]
  <2>1. [j \in 1 .. n |-> nth(j)] \in Seq(S) /\ Len([j \in 1 .. n |-> nth(j)]) = n
    OBVIOUS
  <2>2. QED
    BY <2>1
<1>10. QED
  BY <1>6, <1>7, <1>8, <1>9

(* At the end of a block the walk is where it is before the next one. *)
LEMMA ListBlock ==
  ASSUME NEW v \in Volumes, SupportedVolume(v), NEW k \in 1 .. Len(v.root)
  PROVE  EntriesBefore(v, <<k + 1, 0>>) = EntriesBefore(v, <<k, ext2_block_size(v)>>)
<1>1. k \in Nat
  BY SupportedRoot
<1>2. PICK m \in Nat : m = ext2_block_size(v)
  BY SupportedSizes
<1>3. ASSUME NEW x \in Places(v)
      PROVE  x \in PlacesBefore(v, <<k + 1, 0>>) <=> x \in PlacesBefore(v, <<k, m>>)
  <2>1. PICK a \in Nat, b \in Nat : x = <<a, b>>
    BY PlacesFinite
  <2>2. a = k => b < m
    <3>1. a \in 1 .. Len(v.root) /\ b \in DOMAIN EntriesIn(v, a)
      BY <1>3, <2>1, PlaceParts
    <3>2. QED
      BY <1>2, <3>1, EntryFacts
  <2>3. a < k + 1 \/ (a = k + 1 /\ b < 0) <=> a < k \/ (a = k /\ b < m)
    BY <1>1, <2>2
  <2>4. x \in PlacesBefore(v, <<k + 1, 0>>) <=> a < k + 1 \/ (a = k + 1 /\ b < 0)
    BY <2>1 DEF PlacesBefore
  <2>5. x \in PlacesBefore(v, <<k, m>>) <=> a < k \/ (a = k /\ b < m)
    BY <2>1 DEF PlacesBefore
  <2>6. QED
    BY <2>3, <2>4, <2>5
<1>4. PlacesBefore(v, <<k + 1, 0>>) = PlacesBefore(v, <<k, m>>)
  <2>1. /\ PlacesBefore(v, <<k + 1, 0>>) \subseteq Places(v)
        /\ PlacesBefore(v, <<k, m>>) \subseteq Places(v)
    BY DEF PlacesBefore
  <2>2. QED
    BY <1>3, <2>1
<1>5. QED
  BY <1>2, <1>4 DEF EntriesBefore

(* Nothing lies before the first entry. *)
LEMMA ListStart ==
  ASSUME NEW v \in Volumes, SupportedVolume(v)
  PROVE  EntriesBefore(v, <<1, 0>>) = <<>>
<1>1. ASSUME NEW x \in PlacesBefore(v, <<1, 0>>) PROVE FALSE
  <2>1. x \in Places(v)
    BY <1>1 DEF PlacesBefore
  <2>2. PICK a \in Nat, b \in Nat : x = <<a, b>>
    BY <2>1, PlacesFinite
  <2>3. a \in 1 .. Len(v.root)
    BY <2>1, <2>2, PlaceParts
  <2>4. a >= 1
    BY <2>3, SupportedRoot
  <2>5. a < 1 \/ (a = 1 /\ b < 0)
    BY <1>1, <2>2 DEF PlacesBefore
  <2>6. QED
    BY <2>2, <2>4, <2>5
<1>2. PlacesBefore(v, <<1, 0>>) = {}
  BY <1>1
<1>3. Cardinality(PlacesBefore(v, <<1, 0>>)) = 0
  BY <1>2, FS_EmptySet
<1>4. QED
  BY <1>3 DEF EntriesBefore

-----------------------------------------------------------------------------
(* The walk is a user of the driver.                                       *)
LEMMA VolumeTypes ==
  ASSUME NEW v \in Volumes
  PROVE  /\ ext2_block_size(v) \in Nat \ {0} /\ 2 * 2 ^ v.log \in Nat \ {0}
         /\ InodeOffset(v, Root) \in Nat
         /\ InodeOffset(v, Root) \div ext2_block_size(v) \in Nat
<1>1. v.log \in 0 .. 21 /\ v.inodes_per_group \in Nat \ {0} /\ InodeSize(v) \in Nat
  BY Ext2Assumption
<1>2. 2 ^ v.log \in Nat \ {0}
  BY <1>1, PowerOfTwo
<1>3. PICK z \in Nat \ {0} : z = 2 ^ v.log
  BY <1>2
<1>4. ext2_block_size(v) \in Nat \ {0} /\ 2 * 2 ^ v.log \in Nat \ {0}
  <2>1. 1024 * z \in Nat \ {0} /\ 2 * z \in Nat \ {0}
    OBVIOUS
  <2>2. QED
    BY <1>3, <2>1 DEF ext2_block_size
<1>5. PICK g \in Nat \ {0} : g = v.inodes_per_group
  BY <1>1
<1>6. (Root - 1) % g \in Nat
  BY DEF Root
<1>7. InodeOffset(v, Root) \in Nat
  <2>1. PICK a \in Nat, b \in Nat : a = (Root - 1) % g /\ b = InodeSize(v)
    BY <1>1, <1>6
  <2>2. a * b \in Nat
    OBVIOUS
  <2>3. QED
    BY <1>5, <2>1, <2>2 DEF InodeOffset
<1>8. InodeOffset(v, Root) \div ext2_block_size(v) \in Nat
  <2>1. PICK a \in Nat, b \in Nat \ {0} : a = InodeOffset(v, Root) /\ b = ext2_block_size(v)
    BY <1>4, <1>7
  <2>2. a \div b \in Nat
    OBVIOUS
  <2>3. QED
    BY <2>1, <2>2
<1>9. QED
  BY <1>4, <1>7, <1>8

(* The block of the root's inode lies on the drive, whatever was read as   *)
(* the group descriptors.                                                  *)
LEMMA InodeReadFits ==
  ASSUME vol \in Volumes, ext2_block_size(vol) <= PAGE_SIZE
  PROVE  BlockRequest(vol, Field("table", Group(vol, Root), 0)
                             + InodeOffset(vol, Root) \div ext2_block_size(vol)) \in Requests
<1>1. ReadsFit(vol)
  BY Ext2Assumption
<1>2. PICK off \in Nat : off = InodeOffset(vol, Root) \div ext2_block_size(vol)
  BY VolumeTypes
<1>3. PICK g : g = Group(vol, Root)
  OBVIOUS
<1>4. CASE BlockRead \in DOMAIN vol.blocks /\ g \in DOMAIN vol.blocks[BlockRead].table
  <2>1. Field("table", g, 0) = vol.blocks[BlockRead].table[g]
    BY <1>4 DEF Field
  <2>2. BlockRequest(vol, vol.blocks[BlockRead].table[g] + off) \in Requests
    BY <1>1, <1>2, <1>4 DEF ReadsFit
  <2>3. QED
    BY <1>2, <1>3, <2>1, <2>2
<1>5. CASE ~(BlockRead \in DOMAIN vol.blocks /\ g \in DOMAIN vol.blocks[BlockRead].table)
  <2>1. Field("table", g, 0) = 0
    BY <1>5 DEF Field
  <2>2. BlockRequest(vol, off) \in Requests
    BY <1>1, <1>2 DEF ReadsFit
  <2>3. 0 + off = off
    OBVIOUS
  <2>4. QED
    BY <1>2, <1>3, <2>1, <2>2, <2>3
<1>6. QED
  BY <1>4, <1>5

(* What is copied to root_inode is zeros or an inode of the volume. *)
LEMMA InodeFieldKept ==
  ASSUME NEW x
  PROVE  LET f == Field("inodes", x, ZeroInode) IN f = ZeroInode \/ f \in KeptInodes(vol)
<1>1. CASE BlockRead \in DOMAIN vol.blocks /\ x \in DOMAIN vol.blocks[BlockRead].inodes
  <2>1. Field("inodes", x, ZeroInode) = vol.blocks[BlockRead].inodes[x]
    BY <1>1 DEF Field
  <2>2. QED
    BY <1>1, <2>1 DEF KeptInodes
<1>2. CASE ~(BlockRead \in DOMAIN vol.blocks /\ x \in DOMAIN vol.blocks[BlockRead].inodes)
  BY <1>2 DEF Field
<1>3. QED
  BY <1>1, <1>2

(* A block that the directory loop reads lies on the drive. *)
LEMMA BlockReadFits ==
  ASSUME WalkInv, ext2_block_size(vol) <= PAGE_SIZE, i < max_blocks(vol, root)
  PROVE  BlockRequest(vol, root.ptr[i + 1]) \in Requests
<1>1. i \in Nat /\ vol \in Volumes
  BY DEF WalkInv
<1>2. ReadsFit(vol)
  BY <1>1, Ext2Assumption
<1>3. PICK d \in Nat \ {0} : d = 2 * 2 ^ vol.log
  BY <1>1, VolumeTypes
<1>4. CASE root = ZeroInode
  <2>1. root.i_blocks = 0
    BY <1>4 DEF ZeroInode
  <2>2. 0 \div d = 0
    OBVIOUS
  <2>3. max_blocks(vol, root) = 0
    BY <1>3, <2>1, <2>2 DEF max_blocks
  <2>4. QED
    BY <1>1, <2>3
<1>5. CASE root \in KeptInodes(vol)
  <2>0. PICK b \in DOMAIN vol.blocks :
          \E x \in DOMAIN vol.blocks[b].inodes : root = vol.blocks[b].inodes[x]
    BY <1>5 DEF KeptInodes
  <2>1. PICK x \in DOMAIN vol.blocks[b].inodes : root = vol.blocks[b].inodes[x]
    BY <2>0
  <2>2. /\ root.i_blocks \in Nat
        /\ \A k \in 1 .. max_blocks(vol, root) : BlockRequest(vol, root.ptr[k]) \in Requests
    BY <1>2, <2>1 DEF ReadsFit
  <2>3. PICK n \in Nat : n = max_blocks(vol, root)
    <3>1. \A m \in Nat : m \div d \in Nat
      OBVIOUS
    <3>2. QED
      BY <1>3, <2>2, <3>1 DEF max_blocks
  <2>4. i + 1 \in 1 .. n
    BY <1>1, <2>3
  <2>5. QED
    BY <2>2, <2>3, <2>4
<1>6. QED
  BY <1>4, <1>5 DEF WalkInv

(* A read of the walk is one the driver may be asked for. *)
LEMMA WalkReadIsAta ==
  ASSUME panic = NoPanic, NEW block, NEW page, NEW label,
         page => BlockRequest(vol, block) \in Requests, ext2_read_block(block, page, label)
  PROVE  [AtaNext]_atavars
<1>1. 1 \in Tasks
  BY AtaAssumption DEF Tasks
<1>2. CASE page
  BY <1>1, <1>2 DEF ext2_read_block, AtaNext
<1>3. CASE ~page
  BY <1>3 DEF ext2_read_block
<1>4. QED
  BY <1>2, <1>3

(* The first read and the checks of the superblock. *)
LEMMA SuperblockWalk ==
  ASSUME WalkInv, panic = NoPanic, ReadSuperblock \/ CheckSuperblock
  PROVE  WalkInv' /\ [AtaNext]_atavars
<1>1. 1 \in Tasks
  BY AtaAssumption DEF Tasks
<1>2. vol' = vol /\ i' = i /\ root' = root
  BY DEF ReadSuperblock, CheckSuperblock, Goto, walkVars
<1>3. CASE ReadSuperblock
  <2>1. epc' = "check"
    BY <1>3 DEF ReadSuperblock
  <2>2. AtaNext
    BY <1>1, <1>3, Ext2Assumption DEF ReadSuperblock, AtaNext
  <2>3. QED
    BY <1>2, <2>1, <2>2 DEF WalkInv
<1>4. CASE CheckSuperblock
  <2>1. ext2_block_size(vol) \in Nat /\ vol.total_blocks \div vol.blocks_per_group \in Nat
    <3>1. vol.total_blocks \in Nat /\ vol.blocks_per_group \in Nat \ {0}
      BY Ext2Assumption DEF WalkInv
    <3>2. \A a \in Nat, b \in Nat \ {0} : a \div b \in Nat
      OBVIOUS
    <3>3. QED
      BY <3>1, <3>2, VolumeTypes DEF WalkInv
  <2>2. \/ /\ epc' \in {"invalid_signature", "BUG_ON_groups", "BUG_ON_block_size"}
           /\ UNCHANGED atavars
        \/ ext2_block_size(vol) <= PAGE_SIZE /\ ext2_read_block(1, pages >= 1, "descriptors")
    BY <1>4, <2>1 DEF CheckSuperblock, Goto, PAGE_SIZE
  <2>3. CASE epc' \in {"invalid_signature", "BUG_ON_groups", "BUG_ON_block_size"} /\ UNCHANGED atavars
    BY <1>2, <2>3 DEF WalkInv
  <2>4. CASE ext2_block_size(vol) <= PAGE_SIZE /\ ext2_read_block(1, pages >= 1, "descriptors")
    <3>1. BlockRequest(vol, 1) \in Requests
      BY <2>4, Ext2Assumption DEF WalkInv, ReadsFit
    <3>2. [AtaNext]_atavars
      BY <2>4, <3>1, WalkReadIsAta
    <3>3. QED
      BY <1>2, <2>4, <3>2 DEF WalkInv
  <2>5. QED
    BY <2>2, <2>3, <2>4
<1>5. QED
  BY <1>3, <1>4

(* The inode of the root directory. *)
LEMMA InodeWalk ==
  ASSUME WalkInv, panic = NoPanic, ReadRootInode \/ GetRootInode
  PROVE  WalkInv' /\ [AtaNext]_atavars
<1>1. vol' = vol /\ i' = i /\ ext2_block_size(vol) <= PAGE_SIZE
  BY DEF ReadRootInode, GetRootInode, walkVars, At, WalkInv
<1>2. CASE ReadRootInode
  <2>1. root' = root
    BY <1>2 DEF ReadRootInode, walkVars
  <2>2. PICK block : block = Field("table", Group(vol, Root), 0)
                               + InodeOffset(vol, Root) \div ext2_block_size(vol)
    OBVIOUS
  <2>3. ext2_read_block(block, pages >= 2, "inode")
    BY <1>2, <2>2 DEF ReadRootInode
  <2>4. BlockRequest(vol, block) \in Requests
    BY <1>1, <2>2, InodeReadFits DEF WalkInv
  <2>5. QED
    BY <1>1, <2>1, <2>3, <2>4, WalkReadIsAta DEF WalkInv
<1>3. CASE GetRootInode
  <2>1. root' = ZeroInode \/ root' \in KeptInodes(vol)
    BY <1>3, InodeFieldKept DEF GetRootInode
  <2>2. QED
    BY <1>1, <1>3, <2>1 DEF GetRootInode, WalkInv
<1>4. QED
  BY <1>2, <1>3

(* The loop over the blocks and that over the entries of one. *)
LEMMA LoopWalk ==
  ASSUME WalkInv, panic = NoPanic, NextBlock \/ NextEntry
  PROVE  WalkInv' /\ [AtaNext]_atavars
<1>1. vol' = vol /\ root' = root /\ ext2_block_size(vol) <= PAGE_SIZE
  BY DEF NextBlock, NextEntry, Goto, walkVars, At, WalkInv
<1>2. CASE NextBlock /\ i < max_blocks(vol, root)
  <2>1. PICK block : block = root.ptr[i + 1]
    OBVIOUS
  <2>2. ext2_read_block(block, TRUE, "entries") /\ i' = i
    BY <1>2, <2>1 DEF NextBlock
  <2>3. BlockRequest(vol, block) \in Requests
    BY <1>1, <1>2, <2>1, BlockReadFits
  <2>4. [AtaNext]_atavars
    BY <2>2, <2>3, WalkReadIsAta
  <2>5. QED
    BY <1>1, <2>2, <2>4 DEF WalkInv
<1>3. CASE NextBlock /\ ~(i < max_blocks(vol, root))
  BY <1>1, <1>3 DEF NextBlock, Goto, walkVars, WalkInv
<1>4. CASE NextEntry
  <2>1. UNCHANGED atavars
    BY <1>4 DEF NextEntry
  <2>2. i' \in Nat
    BY <1>4 DEF NextEntry, WalkInv
  <2>3. QED
    BY <1>1, <2>1, <2>2 DEF WalkInv
<1>5. QED
  BY <1>2, <1>3, <1>4

(* The other tasks, the drive and its interrupt. *)
LEMMA OthersWalk ==
  ASSUME WalkInv, panic = NoPanic, OtherRead \/ Interrupt \/ Transfer
  PROVE  WalkInv' /\ [AtaNext]_atavars
<1>1. epc' = epc /\ vol' = vol /\ i' = i /\ root' = root
  BY DEF OtherRead, Interrupt, Transfer, walkVars
<1>2. CASE OtherRead
  <2>1. PICK t \in Tasks, r \in OtherReads : ata_read(t, r)
    BY <1>2 DEF OtherRead
  <2>2. r \in Requests
    BY Ext2Assumption
  <2>3. QED
    BY <1>1, <2>1, <2>2 DEF AtaNext, WalkInv
<1>3. CASE Interrupt \/ Transfer
  BY <1>1, <1>3 DEF Interrupt, Transfer, AtaNext, WalkInv
<1>4. QED
  BY <1>2, <1>3

LEMMA WalkStep ==
  ASSUME WalkInv, [Ext2Next]_extVars
  PROVE  WalkInv' /\ [AtaNext]_atavars
<1>1. CASE Running(ext2_init \/ OtherRead \/ Interrupt \/ Transfer)
  <2>1. panic = NoPanic /\ (ext2_init \/ OtherRead \/ Interrupt \/ Transfer)
    BY <1>1 DEF Running
  <2>2. QED
    BY <2>1, SuperblockWalk, InodeWalk, LoopWalk, OthersWalk DEF ext2_init
<1>2. CASE UNCHANGED extVars
  BY <1>2 DEF extVars, walkVars, WalkInv
<1>3. QED
  BY <1>1, <1>2 DEF Ext2Next

LEMMA WalkInit == Ext2Init => WalkInv /\ AtaInit
BY DEF Ext2Init, WalkInv

(* However ext2_init and the other tasks are interleaved, and whatever is  *)
(* on the volume, the driver sees a behaviour of the closed system of      *)
(* module Ata: all that is proved of that system holds of the reads of     *)
(* ext2_read_block and of those they compete with.                         *)
THEOREM Ext2ImplementsAta == Ext2Spec => AtaSpec
<1>1. Ext2Init => WalkInv /\ AtaInit
  BY WalkInit
<1>2. WalkInv /\ [Ext2Next]_extVars => WalkInv' /\ [AtaNext]_atavars
  BY WalkStep
<1>3. QED
  BY <1>1, <1>2, PTL DEF Ext2Spec, AtaSpec

(* So every ata_read of the walk and of the tasks beside it is answered as *)
(* the disk service of module DiskService promises: in the order of the    *)
(* requests, and whole.                                                    *)
THEOREM Ext2ReadsServed ==
  ASSUME AtaInitDone
  PROVE  Ext2Spec => ImplementsDiskService
<1>1. Ext2Spec => AtaSpec
  BY Ext2ImplementsAta
<1>2. AtaSpec => ImplementsDiskService
  BY AtaRefinesDiskService
<1>3. QED
  BY <1>1, <1>2, PTL

-----------------------------------------------------------------------------
(* What the walk reads on a supported volume.                              *)

(* When the read has returned, the block in the buffer is the one that was *)
(* asked for.                                                              *)
LEMMA GotBlock ==
  ASSUME AtaInv, Supported, state[1] = TASK_RUNNING, NEW b \in Nat, AskedFor(b)
  PROVE  BlockRead = b
<1>1. 1 \in Tasks
  BY AtaAssumption DEF Tasks
<1>2. PICK d \in Nat \ {0} : d = SectorsPerBlock(vol)
  BY SupportedSizes DEF Supported
<1>3. req[1].buf = Sectors(req[1], d)
  BY <1>1, <1>2, InvReadComplete DEF ReadComplete, AskedFor
<1>4. req[1].lba = d * b /\ d * b \in Nat
  BY <1>2 DEF AskedFor
<1>5. req[1].buf[1] = d * b
  BY <1>2, <1>3, <1>4 DEF Sectors
<1>6. QED
  BY <1>2, <1>5, DivMul DEF BlockRead

(* A read leaves the request in the frame of its task. *)
LEMMA Asks ==
  ASSUME AtaInv, NEW block, NEW label, ext2_read_block(block, TRUE, label), vol' = vol
  PROVE  AskedFor(block)' /\ epc' = label
<1>1. 1 \in Tasks
  BY AtaAssumption DEF Tasks
<1>2. epc' = label /\ ata_read(1, BlockRequest(vol, block))
  BY DEF ext2_read_block
<1>3. req'[1] = NewReq(BlockRequest(vol, block))
  BY <1>1, <1>2 DEF ata_read, AtaInv, AtaTypeOK, DriverTypeOK
<1>4. /\ req'[1].lba = SectorsPerBlock(vol) * block
      /\ req'[1].seccount = SectorsPerBlock(vol)
  BY <1>3 DEF NewReq, BlockRequest
<1>5. QED
  BY <1>2, <1>4 DEF AskedFor, SectorsPerBlock, ext2_block_size

(* No one else changes what it asks for. *)
LEMMA OthersKeepRequest ==
  ASSUME AtaInv, OtherRead \/ Interrupt \/ Transfer, epc # "done"
  PROVE  req'[1].lba = req[1].lba /\ req'[1].seccount = req[1].seccount
<1>1. 1 \in Tasks
  BY AtaAssumption DEF Tasks
<1>2. DOMAIN req = Tasks
  BY DEF AtaInv, AtaTypeOK, DriverTypeOK
<1>3. CASE OtherRead
  <2>1. PICK t \in Tasks, r \in OtherReads : t # 1 /\ ata_read(t, r)
    BY <1>3 DEF OtherRead
  <2>2. req'[1] = req[1]
    BY <1>1, <1>2, <2>1 DEF ata_read
  <2>3. QED
    BY <2>2
<1>4. CASE Interrupt
  <2>1. ata_process_request
    BY <1>4 DEF Interrupt, ide_irq1
  <2>2. req' = req \/ \E t : req' = [req EXCEPT ![t] = WithSector(req[t])]
    BY <2>1 DEF ata_process_request
  <2>3. req'[1] = req[1] \/ req'[1] = WithSector(req[1])
    BY <1>1, <1>2, <2>2
  <2>4. QED
    BY <2>3 DEF WithSector
<1>5. CASE Transfer
  BY <1>5 DEF Transfer, DevSectorReady
<1>6. QED
  BY <1>3, <1>4, <1>5

(* What was listed stays right while the walk stays where it is. *)
LEMMA ListingKept ==
  ASSUME ListingInv, vol' = vol, listed' = listed, Reached' = Reached
  PROVE  ListingInv'
BY DEF ListingInv

(* The root's inode is the second of the table of group 0. *)
LEMMA RootInodePlace ==
  ASSUME NEW v \in Volumes, SupportedVolume(v)
  PROVE  /\ Group(v, Root) = 0 /\ InodeOffset(v, Root) = InodeSize(v)
         /\ InodePos(v, Root) = InodeSize(v) % ext2_block_size(v)
<1>1. v.inodes_per_group \in Nat /\ InodeSize(v) \in Nat
  BY Ext2Assumption
<1>2. v.inodes_per_group > 1
  BY SupportedOnDisk DEF RootInodeOnDisk
<1>3. PICK g \in Nat : g = v.inodes_per_group /\ g > 1
  BY <1>1, <1>2
<1>4. (Root - 1) \div g = 0 /\ (Root - 1) % g = 1
  BY <1>3 DEF Root
<1>5. PICK s \in Nat : s = InodeSize(v)
  BY <1>1
<1>6. 1 * s = s
  OBVIOUS
<1>7. Group(v, Root) = 0
  BY <1>3, <1>4 DEF Group
<1>8. InodeOffset(v, Root) = InodeSize(v)
  BY <1>3, <1>4, <1>5, <1>6 DEF InodeOffset
<1>9. QED
  BY <1>7, <1>8 DEF InodePos

(* What the format says of that inode, in named parts. *)
LEMMA RootInodeFacts ==
  ASSUME vol \in Volumes, Supported
  PROVE  /\ 1 \in DOMAIN vol.blocks /\ 0 \in DOMAIN vol.blocks[1].table
         /\ RootInodeBlock(vol) \in Nat /\ RootInodeBlock(vol) \in DOMAIN vol.blocks
         /\ InodePos(vol, Root) \in DOMAIN vol.blocks[RootInodeBlock(vol)].inodes
         /\ IsRootInode(vol.blocks[RootInodeBlock(vol)].inodes[InodePos(vol, Root)])
<1>1. PICK b : b = RootInodeBlock(vol)
  OBVIOUS
<1>2. PICK x : x = InodePos(vol, Root) /\ x = InodeSize(vol) % ext2_block_size(vol)
  BY RootInodePlace DEF Supported
<1>3. RootInodeOnDisk(vol)
  BY SupportedOnDisk DEF Supported
<1>4. /\ 1 \in DOMAIN vol.blocks /\ 0 \in DOMAIN vol.blocks[1].table
      /\ vol.blocks[1].table[0] \in Nat
  BY <1>3 DEF RootInodeOnDisk
<1>5. /\ b \in DOMAIN vol.blocks /\ x \in DOMAIN vol.blocks[b].inodes
      /\ vol.blocks[b].inodes[x].i_blocks = vol.i_blocks
      /\ \A k \in 1 .. Len(vol.root) : vol.blocks[b].inodes[x].ptr[k] = vol.root[k]
  BY <1>1, <1>2, <1>3 DEF RootInodeOnDisk, RootInodeBlock
<1>6. b \in Nat
  <2>1. InodeSize(vol) \div ext2_block_size(vol) \in Nat
    BY VolumeTypes, RootInodePlace DEF Supported
  <2>2. PICK p \in Nat, q \in Nat : p = vol.blocks[1].table[0]
                                    /\ q = InodeSize(vol) \div ext2_block_size(vol)
    BY <1>4, <2>1
  <2>3. p + q \in Nat
    OBVIOUS
  <2>4. QED
    BY <1>1, <2>2, <2>3 DEF RootInodeBlock
<1>7. QED
  BY <1>1, <1>2, <1>4, <1>5, <1>6 DEF IsRootInode

(* The first read and the checks. *)
LEMMA SuperblockPlace ==
  ASSUME AtaInv, WalkInv, Supported, PlaceInv, ListingInv, ReadSuperblock \/ CheckSuperblock
  PROVE  PlaceInv' /\ ListingInv'
<1>1. vol' = vol /\ i' = i /\ root' = root /\ listed' = listed
  BY DEF ReadSuperblock, CheckSuperblock, Goto, walkVars
<1>2. i = 0 /\ epc \notin {"entries", "blocks", "done"} /\ i <= Len(vol.root)
  BY DEF PlaceInv, ReadSuperblock, CheckSuperblock, At
<1>3. \/ epc' \in {"check", "pagefault", "invalid_signature", "BUG_ON_groups", "BUG_ON_block_size"}
      \/ epc' = "descriptors" /\ AskedFor(1)'
  <2>1. CASE ReadSuperblock
    BY <2>1 DEF ReadSuperblock
  <2>2. CASE CheckSuperblock
    <3>1. \/ epc' \in {"invalid_signature", "BUG_ON_groups", "BUG_ON_block_size"}
          \/ ext2_read_block(1, pages >= 1, "descriptors")
      BY <2>2 DEF CheckSuperblock, Goto
    <3>2. ASSUME ext2_read_block(1, pages >= 1, "descriptors")
          PROVE  epc' = "pagefault" \/ ext2_read_block(1, TRUE, "descriptors")
      BY <3>2 DEF ext2_read_block
    <3>3. QED
      BY <1>1, <3>1, <3>2, Asks
  <2>3. QED
    BY <2>1, <2>2
<1>4. PlaceInv'
  BY <1>1, <1>2, <1>3 DEF PlaceInv
<1>5. Reached' = Reached
  BY <1>1, <1>2, <1>3 DEF Reached
<1>6. QED
  BY <1>1, <1>4, <1>5, ListingKept

(* The group descriptors are those of block 1, so the read is for the      *)
(* block of the root's inode.                                              *)
LEMMA ReadInodePlace ==
  ASSUME AtaInv, WalkInv, Supported, PlaceInv, ListingInv, ReadRootInode
  PROVE  PlaceInv' /\ ListingInv'
<1>1. vol' = vol /\ i' = i /\ root' = root /\ listed' = listed
  BY DEF ReadRootInode, walkVars
<1>2. epc = "descriptors" /\ state[1] = TASK_RUNNING
  BY DEF ReadRootInode, At
<1>3. i = 0 /\ i <= Len(vol.root)
  BY <1>2 DEF PlaceInv
<1>4. BlockRead = 1
  BY <1>2, GotBlock DEF PlaceInv
<1>5. vol \in Volumes
  BY DEF WalkInv
<1>6. Group(vol, Root) = 0 /\ InodeOffset(vol, Root) = InodeSize(vol)
  BY <1>5, RootInodePlace DEF Supported
<1>7. Field("table", 0, 0) = vol.blocks[1].table[0]
  BY <1>4, <1>5, RootInodeFacts DEF Field
<1>8. ext2_read_block(RootInodeBlock(vol), pages >= 2, "inode")
  BY <1>6, <1>7 DEF ReadRootInode, RootInodeBlock
<1>9. epc' = "pagefault" \/ ext2_read_block(RootInodeBlock(vol), TRUE, "inode")
  BY <1>8 DEF ext2_read_block
<1>10. epc' = "pagefault" \/ (epc' = "inode" /\ AskedFor(RootInodeBlock(vol))')
  <2>1. PICK b : b = RootInodeBlock(vol)
    OBVIOUS
  <2>2. ASSUME ext2_read_block(b, TRUE, "inode") PROVE epc' = "inode" /\ AskedFor(b)'
    BY <1>1, <2>2, Asks
  <2>3. RootInodeBlock(vol)' = RootInodeBlock(vol)
    BY <1>1
  <2>4. QED
    BY <1>1, <1>9, <2>1, <2>2, <2>3 DEF AskedFor
<1>11. PlaceInv'
  BY <1>1, <1>3, <1>10 DEF PlaceInv
<1>12. Reached' = Reached
  BY <1>1, <1>2, <1>10 DEF Reached
<1>13. QED
  BY <1>1, <1>11, <1>12, ListingKept

(* What is copied is the root's inode. *)
LEMMA GetInodePlace ==
  ASSUME AtaInv, WalkInv, Supported, PlaceInv, ListingInv, GetRootInode
  PROVE  PlaceInv' /\ ListingInv'
<1>1. /\ vol' = vol /\ i' = i /\ listed' = listed /\ epc' = "blocks"
      /\ root' = Field("inodes", InodePos(vol, Root), ZeroInode)
  BY DEF GetRootInode
<1>2. epc = "inode" /\ state[1] = TASK_RUNNING
  BY DEF GetRootInode, At
<1>3. i = 0 /\ i <= Len(vol.root)
  BY <1>2 DEF PlaceInv
<1>4. vol \in Volumes
  BY DEF WalkInv
<1>5. BlockRead = RootInodeBlock(vol)
  BY <1>2, <1>4, RootInodeFacts, GotBlock DEF PlaceInv
<1>6. root' = vol.blocks[RootInodeBlock(vol)].inodes[InodePos(vol, Root)]
  BY <1>1, <1>4, <1>5, RootInodeFacts DEF Field
<1>7. IsRootInode(root')
  BY <1>4, <1>6, RootInodeFacts
<1>8. IsRootInode(root)'
  BY <1>1, <1>7 DEF IsRootInode
<1>9. PlaceInv'
  BY <1>1, <1>3, <1>8 DEF PlaceInv
<1>10. Reached' = Reached
  BY <1>1, <1>2 DEF Reached
<1>11. QED
  BY <1>1, <1>9, <1>10, ListingKept

(* The block that is read next is the directory's next one, and the loop   *)
(* ends behind its last.                                                   *)
LEMMA NextBlockPlace ==
  ASSUME AtaInv, WalkInv, Supported, PlaceInv, ListingInv, NextBlock
  PROVE  PlaceInv' /\ ListingInv'
<1>1. vol' = vol /\ i' = i /\ root' = root /\ listed' = listed
  BY DEF NextBlock, Goto, walkVars
<1>2. epc = "blocks" /\ i \in Nat /\ vol \in Volumes /\ SupportedVolume(vol)
  BY DEF NextBlock, At, WalkInv, Supported
<1>3. i <= Len(vol.root) /\ IsRootInode(root)
  BY <1>2 DEF PlaceInv
<1>4. IsRootInode(root)'
  BY <1>1, <1>3 DEF IsRootInode
<1>5. max_blocks(vol, root) = Len(vol.root) /\ Len(vol.root) \in Nat
  BY <1>2, <1>3, SupportedMaxBlocks DEF IsRootInode
<1>6. CASE i < Len(vol.root)
  <2>1. PICK k \in 1 .. Len(vol.root) : k = i + 1
    BY <1>2, <1>5, <1>6
  <2>2. PICK b : b = vol.root[k] /\ b = root.ptr[k]
    BY <1>3 DEF IsRootInode
  <2>3. ext2_read_block(b, TRUE, "entries") /\ head' = 0
    BY <1>5, <1>6, <2>1, <2>2 DEF NextBlock
  <2>4. epc' = "entries" /\ AskedFor(b)'
    BY <1>1, <2>3, Asks
  <2>5. AskedFor(vol.root[i + 1])'
    BY <1>1, <2>1, <2>2, <2>4 DEF AskedFor
  <2>6. 0 \in DOMAIN vol.blocks[vol.root[i + 1]].entries
    BY <1>2, <2>1, SupportedOnDisk DEF DirectoryOnDisk, DirectoryBlock
  <2>7. PlaceInv'
    BY <1>1, <1>3, <1>4, <1>6, <2>3, <2>4, <2>5, <2>6 DEF PlaceInv
  <2>8. Reached' = Reached
    BY <1>1, <1>2, <2>3, <2>4 DEF Reached
  <2>9. QED
    BY <1>1, <2>7, <2>8, ListingKept
<1>7. CASE ~(i < Len(vol.root))
  <2>1. epc' = "done"
    BY <1>5, <1>7 DEF NextBlock, Goto
  <2>2. i = Len(vol.root)
    BY <1>2, <1>3, <1>5, <1>7
  <2>3. PlaceInv'
    BY <1>1, <1>3, <1>4, <2>1, <2>2 DEF PlaceInv
  <2>4. Reached' = Reached
    BY <1>1, <1>2, <2>1 DEF Reached
  <2>5. QED
    BY <1>1, <2>3, <2>4, ListingKept
<1>8. QED
  BY <1>6, <1>7

(* What the loop over a block takes for an entry is one, it is printed     *)
(* with its own name, and the loop is left at the end of the block.        *)
LEMMA NextEntryPlace ==
  ASSUME AtaInv, WalkInv, Supported, PlaceInv, ListingInv, NextEntry
  PROVE  PlaceInv' /\ ListingInv'
<1>1. vol' = vol /\ root' = root /\ UNCHANGED atavars
  BY DEF NextEntry
<1>2. /\ epc = "entries" /\ state[1] = TASK_RUNNING
      /\ i \in Nat /\ vol \in Volumes /\ SupportedVolume(vol)
  BY DEF NextEntry, At, WalkInv, Supported
<1>3. /\ i < Len(vol.root) /\ AskedFor(vol.root[i + 1]) /\ IsRootInode(root)
      /\ head \in DOMAIN vol.blocks[vol.root[i + 1]].entries \cup {ext2_block_size(vol)}
  BY <1>2 DEF PlaceInv
<1>4. vol.root \in Seq(Nat) /\ Len(vol.root) \in Nat
  BY <1>2, SupportedRoot
<1>5. PICK k \in 1 .. Len(vol.root) : k = i + 1
  BY <1>2, <1>3, <1>4
<1>6. PICK b \in Nat : b = vol.root[k]
  BY <1>4
<1>7. BlockRead = b
  BY <1>2, <1>3, <1>5, <1>6, GotBlock
<1>8. PICK size \in Nat : size = ext2_block_size(vol)
  BY <1>2, SupportedSizes
<1>9. b \in DOMAIN vol.blocks /\ EntriesIn(vol, k) = vol.blocks[b].entries
  BY <1>2, <1>6, SupportedOnDisk DEF DirectoryOnDisk, EntriesIn
<1>10. head \in DOMAIN EntriesIn(vol, k) \cup {size}
  BY <1>3, <1>5, <1>6, <1>8, <1>9
<1>11. IsRootInode(root)'
  BY <1>1, <1>3 DEF IsRootInode
<1>12. listed = EntriesBefore(vol, <<k, head>>)
  BY <1>2, <1>5 DEF ListingInv, Reached
<1>13. CASE head \in DOMAIN EntriesIn(vol, k)
  <2>1. PICK h \in DOMAIN EntriesIn(vol, k) : h = head
    BY <1>13
  <2>2. PICK e : e = EntriesIn(vol, k)[h]
    OBVIOUS
  <2>3. /\ h \in Nat /\ h < size /\ e.rec_len \in Nat \ {0}
        /\ h + e.rec_len \in DOMAIN EntriesIn(vol, k) \cup {size}
    BY <1>2, <1>8, <2>2, EntryFacts
  <2>4. PICK d \in Nat \ {0} : d = e.rec_len
    BY <2>3
  <2>5. Field("entries", head, ZeroEntry) = e
    BY <1>7, <1>9, <2>1, <2>2 DEF Field
  <2>6. InBlock(head)
    BY <1>8, <2>1, <2>3 DEF InBlock
  <2>7. /\ listed' = Append(listed, Printed(e)) /\ head' = h + d /\ i' = i
        /\ epc' = "entries"
    BY <2>1, <2>4, <2>5, <2>6 DEF NextEntry
  <2>8. e.rec_len > 8 + e.name_len
    BY <1>2, <2>1, <2>2 DEF SupportedVolume, EntriesIn
  <2>9. Printed(e) = EntryAt(vol, <<k, h>>)
    BY <2>2, <2>8 DEF Printed, EntryAt, EntriesIn
  <2>10. EntriesBefore(vol, <<k, h + d>>)
           = Append(EntriesBefore(vol, <<k, h>>), EntryAt(vol, <<k, h>>))
    BY <1>2, <2>2, <2>4, ListEntry
  <2>11. listed' = EntriesBefore(vol, <<k, h + d>>)
    BY <1>12, <2>1, <2>7, <2>9, <2>10
  <2>12. Reached' = <<k, h + d>>
    BY <1>5, <2>7 DEF Reached
  <2>13. ListingInv'
    BY <1>1, <2>11, <2>12 DEF ListingInv
  <2>14. AskedFor(vol.root[i + 1])'
    BY <1>1, <1>3, <2>7 DEF AskedFor, atavars, ataVars
  <2>15. head' \in DOMAIN vol.blocks[vol.root[i + 1]].entries \cup {ext2_block_size(vol)}
    BY <1>5, <1>6, <1>8, <1>9, <2>3, <2>4, <2>7
  <2>16. PlaceInv'
    BY <1>1, <1>2, <1>3, <1>4, <1>11, <2>7, <2>14, <2>15 DEF PlaceInv
  <2>17. QED
    BY <2>13, <2>16
<1>14. CASE head = size
  <2>1. ~InBlock(head)
    BY <1>8, <1>14 DEF InBlock
  <2>2. i' = i + 1 /\ epc' = "blocks" /\ listed' = listed
    BY <2>1 DEF NextEntry
  <2>3. EntriesBefore(vol, <<k + 1, 0>>) = EntriesBefore(vol, <<k, size>>)
    BY <1>2, <1>8, ListBlock
  <2>4. Reached' = <<k + 1, 0>>
    BY <1>5, <2>2 DEF Reached
  <2>5. ListingInv'
    BY <1>1, <1>12, <1>14, <2>2, <2>3, <2>4 DEF ListingInv
  <2>6. i' <= Len(vol.root)
    BY <1>2, <1>3, <1>4, <2>2
  <2>7. PlaceInv'
    BY <1>1, <1>11, <2>2, <2>6 DEF PlaceInv
  <2>8. QED
    BY <2>5, <2>7
<1>15. QED
  BY <1>10, <1>13, <1>14

(* The reads of others and the interrupts do not disturb the walk. *)
LEMMA OthersPlace ==
  ASSUME AtaInv, WalkInv, Supported, PlaceInv, ListingInv, OtherRead \/ Interrupt \/ Transfer
  PROVE  PlaceInv' /\ ListingInv'
<1>1. epc' = epc /\ vol' = vol /\ i' = i /\ root' = root /\ head' = head /\ listed' = listed
  BY DEF OtherRead, Interrupt, Transfer, walkVars
<1>2. Reached' = Reached
  BY <1>1 DEF Reached
<1>3. IsRootInode(root)' <=> IsRootInode(root)
  BY <1>1 DEF IsRootInode
<1>4. CASE epc = "done"
  BY <1>1, <1>2, <1>3, <1>4, ListingKept DEF PlaceInv
<1>5. CASE epc # "done"
  <2>1. req'[1].lba = req[1].lba /\ req'[1].seccount = req[1].seccount
    BY <1>5, OthersKeepRequest
  <2>2. \A b : req'[1].lba = SectorsPerBlock(vol') * b /\ req'[1].seccount = SectorsPerBlock(vol')
               <=> AskedFor(b)
    BY <1>1, <2>1 DEF AskedFor
  <2>3. /\ AskedFor(1)' <=> AskedFor(1)
        /\ AskedFor(RootInodeBlock(vol))' <=> AskedFor(RootInodeBlock(vol))
        /\ AskedFor(vol.root[i + 1])' <=> AskedFor(vol.root[i + 1])
    BY <1>1, <2>2 DEF AskedFor
  <2>4. PlaceInv'
    BY <1>1, <1>3, <2>3 DEF PlaceInv
  <2>5. QED
    BY <1>1, <1>2, <2>4, ListingKept
<1>6. QED
  BY <1>4, <1>5

(* The invariant holds at the start and is inductive. *)
LEMMA Ext2InitInv == Ext2Init => Ext2Inv
<1>1. SUFFICES ASSUME Ext2Init PROVE Ext2Inv
  OBVIOUS
<1>2. AtaInv /\ WalkInv
  BY <1>1, WalkInit, AtaInitInv
<1>3. ASSUME Supported PROVE PlaceInv /\ ListingInv
  <2>1. vol \in Volumes /\ epc = "superblock" /\ i = 0 /\ listed = <<>>
    BY <1>1 DEF Ext2Init
  <2>2. Len(vol.root) \in Nat
    BY <1>3, <2>1, SupportedRoot DEF Supported
  <2>3. PlaceInv
    BY <2>1, <2>2 DEF PlaceInv
  <2>4. Reached = <<1, 0>>
    BY <2>1 DEF Reached
  <2>5. ListingInv
    BY <1>3, <2>1, <2>4, ListStart DEF ListingInv, Supported
  <2>6. QED
    BY <2>3, <2>5
<1>4. QED
  BY <1>2, <1>3 DEF Ext2Inv

LEMMA Ext2NextInv ==
  ASSUME AtaInitDone, Ext2Inv, [Ext2Next]_extVars
  PROVE  Ext2Inv'
<1>1. AtaInv /\ WalkInv
  BY DEF Ext2Inv
<1>2. WalkInv' /\ [AtaNext]_atavars
  BY <1>1, WalkStep
<1>3. AtaInv'
  BY <1>1, <1>2, AtaNextInv
<1>4. CASE Running(ext2_init \/ OtherRead \/ Interrupt \/ Transfer)
  <2>1. ext2_init \/ OtherRead \/ Interrupt \/ Transfer
    BY <1>4 DEF Running
  <2>2. vol' = vol
    BY <2>1 DEF ext2_init, ReadSuperblock, CheckSuperblock, ReadRootInode, GetRootInode,
       NextBlock, NextEntry, OtherRead, Interrupt, Transfer, Goto, walkVars
  <2>3. ASSUME Supported PROVE PlaceInv' /\ ListingInv'
    <3>1. PlaceInv /\ ListingInv
      BY <2>3 DEF Ext2Inv
    <3>2. QED
      BY <1>1, <2>1, <2>3, <3>1, SuperblockPlace, ReadInodePlace, GetInodePlace,
         NextBlockPlace, NextEntryPlace, OthersPlace DEF ext2_init
  <2>4. Supported' => Supported
    BY <2>2 DEF Supported
  <2>5. QED
    BY <1>2, <1>3, <2>3, <2>4 DEF Ext2Inv
<1>5. CASE UNCHANGED extVars
  <2>1. /\ epc' = epc /\ vol' = vol /\ i' = i /\ root' = root /\ head' = head
        /\ listed' = listed /\ req' = req
    BY <1>5 DEF extVars, walkVars, atavars, ataVars
  <2>2. Supported' => Supported
    BY <2>1 DEF Supported
  <2>3. ASSUME Supported PROVE PlaceInv' /\ ListingInv'
    <3>1. PlaceInv /\ ListingInv
      BY <2>3 DEF Ext2Inv
    <3>2. PlaceInv'
      BY <2>1, <3>1 DEF PlaceInv, AskedFor, IsRootInode
    <3>3. Reached' = Reached
      BY <2>1 DEF Reached
    <3>4. QED
      BY <2>1, <3>1, <3>2, <3>3, ListingKept
  <2>4. QED
    BY <1>2, <1>3, <2>2, <2>3 DEF Ext2Inv
<1>6. QED
  BY <1>4, <1>5 DEF Ext2Next

(* On every supported volume, with any number of tasks reading beside it   *)
(* and however their requests and interrupts are interleaved, ext2_init    *)
(* has at every moment printed exactly the entries of the root directory   *)
(* that lie before the place it has reached, each once and in their order  *)
(* on the disk, and by its end all of them.                                *)
THEOREM Ext2ListsRootDirectory ==
  ASSUME AtaInitDone
  PROVE  Ext2Spec => []ListsRootDirectory
<1>1. Ext2Init => Ext2Inv
  BY Ext2InitInv
<1>2. Ext2Inv /\ [Ext2Next]_extVars => Ext2Inv'
  BY Ext2NextInv
<1>3. Ext2Inv => ListsRootDirectory
  BY DEF Ext2Inv, PlaceInv, ListingInv, ListsRootDirectory
<1>4. QED
  BY <1>1, <1>2, <1>3, PTL DEF Ext2Spec

(* The safety half of WalkEnds: on a supported volume the loop over the    *)
(* entries of a block never stays at an entry whose rec_len is 0, not even *)
(* at the end of a block or behind a read that competed with others.       *)
THEOREM Ext2LoopAdvances ==
  ASSUME AtaInitDone
  PROVE  Ext2Spec => [](Supported => epc # "for_ever")
<1>1. Ext2Init => Ext2Inv
  BY Ext2InitInv
<1>2. Ext2Inv /\ [Ext2Next]_extVars => Ext2Inv'
  BY Ext2NextInv
<1>3. Ext2Inv => (Supported => epc # "for_ever")
  BY DEF Ext2Inv, PlaceInv
<1>4. QED
  BY <1>1, <1>2, <1>3, PTL DEF Ext2Spec
=============================================================================
