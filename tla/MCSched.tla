------------------------------ MODULE MCSched ------------------------------
(***************************************************************************)
(* Instances of Sched for TLC.                                             *)
(***************************************************************************)
EXTENDS Sched

Call(nr, ebx) == [nr |-> nr, ebx |-> ebx]

(* userspace_fn of syscall.S: print(1), wait(5), print(2), read(), print(3). *)
UserspaceFn == <<Call(NR_PRINT, 1), Call(NR_WAIT, 5), Call(NR_PRINT, 2),
                 Call(NR_READ, 2), Call(NR_PRINT, 3)>>

(* A shorter program in which every way through syscall_irq occurs. *)
AllCalls == <<Call(NR_WAIT, 2), Call(NR_READ, 0), Call(NR_WAIT, 0), Call(NR_CALLS, 0)>>

(* The least that blocks in both ways. *)
WaitAndRead == <<Call(NR_WAIT, 1), Call(NR_READ, 0)>>

(* syscall_read asks for 4 sectors from 12 on. *)
Read12x4 == [lba |-> 12, seccount |-> 4]
Read12x2 == [lba |-> 12, seccount |-> 2]
Read12x1 == [lba |-> 12, seccount |-> 1]

(* init_ext2: the superblock is two sectors from 2 on. *)
Superblock == [lba |-> 2, seccount |-> 2]
Boot1 == [lba |-> 2, seccount |-> 1]

ShippedRequests  == {Read12x4, Superblock}
ShippedInitReads == <<Superblock>>
TwoTaskRequests  == {Read12x2, Boot1}
TwoTaskInitReads == <<Boot1>>
LiveRequests  == {Read12x1}
LiveInitReads == <<Read12x1>>
Pages0to3 == 0 .. 3
PagesEnough == {8}
=============================================================================
