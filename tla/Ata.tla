-------------------------------- MODULE Ata --------------------------------
(***************************************************************************)
(* The ATA PIO read path of ata.c: the request queue, the handler of IRQ   *)
(* 14 and the drive as the driver sees it.                                 *)
(*                                                                         *)
(* A struct ata_req lives in the stack frame of the ata_read call that     *)
(* made it, and a task is inside at most one such call, so a request is    *)
(* named by its task: req[t] is the request in t's frame, and the linked   *)
(* list that starts at req_queue is a sequence of tasks.  A sector's       *)
(* content is named by its LBA.                                            *)
(*                                                                         *)
(* The operators on the queue are used twice: here, with AtaNext, in a     *)
(* closed system in which every task may call ata_read at any time, and in *)
(* module Sched, where the scheduler, the system calls and the interrupts  *)
(* of the kernel drive them.                                               *)
(*                                                                         *)
(* A definition whose comment begins with "Mutant" is no part of the       *)
(* model: it is the definition behind it with a mistake, which one of the  *)
(* properties has to catch.                                                *)
(***************************************************************************)
EXTENDS Integers, Sequences

CONSTANTS
  MaxTasks,    \* MAX_TASKS of sched.c: the number of slots of tasks[]
  Requests,    \* the (lba, seccount) arguments ata_read is called with
  AtaInitDone  \* whether ata_init() has put the port numbers in primary_master

(* A pid; slot i of tasks[] holds pid i + 1. *)
Tasks == 1 .. MaxTasks

(* task->state. *)
TASK_NOT_ALLOCATED == "not_allocated"
TASK_RUNNING       == "running"
TASK_WAITING       == "waiting"
TASK_DISK_READ     == "disk_read"
TaskStates == {TASK_NOT_ALLOCATED, TASK_RUNNING, TASK_WAITING, TASK_DISK_READ}

(* LBA28 addressing: 4 bits in the drive register, 8 in each LBA register: *)
(* 2^28 sectors.                                                           *)
LbaLimit == 268435456

(* What the data port yields when no sector is ready. *)
Garbage == -1

ASSUME AtaAssumption ==
  /\ MaxTasks \in Nat \ {0}
  /\ Requests \subseteq [lba : Nat, seccount : Nat]
  /\ \A r \in Requests : r.seccount \in 1 .. 255 /\ r.lba + r.seccount <= LbaLimit
  /\ AtaInitDone \in BOOLEAN

VARIABLES
  req_queue,  \* the linked list of pending requests, oldest first
  req,        \* req[t]: the struct ata_req in the frame of t's ata_read
  dev,        \* the drive: next lba, sectors left to transfer, data ready
  irq14,      \* the drive's interrupt, latched until the CPU takes it
  state,      \* state[t]: tasks[t - 1].state
  panic       \* "none", or the assertion that stopped the machine

ataVars == <<req_queue, req, dev, irq14>>
atavars == <<ataVars, state, panic>>

NoPanic == "none"

(* No command has been given to the drive. *)
IdleDev == [lba |-> 0, left |-> 0, drq |-> FALSE]

(* The frame of a task that has made no request. *)
NoReq == [lba |-> 0, seccount |-> 0, sectors_count |-> 0, buf |-> <<>>]

(* The initialiser of the local variable req in ata_read. *)
NewReq(r) == [lba |-> r.lba, seccount |-> r.seccount,
              sectors_count |-> r.seccount, buf |-> <<>>]

-----------------------------------------------------------------------------
(* Mutant: one sector more than the request waits for. *)
CommandedOneMore(r) ==
  [lba |-> r.lba % LbaLimit, left |-> r.sectors_count + 1, drq |-> FALSE]

(* The drive after command READ SECTORS.  The registers carry 28 bits of   *)
(* the LBA.  Before ata_init the ports are those of io_base = 0, which are *)
(* not the drive's, and the drive sees nothing.                            *)
Commanded(r) ==
  IF AtaInitDone
    THEN [lba |-> r.lba % LbaLimit, left |-> r.sectors_count, drq |-> FALSE]
    ELSE dev

ata_issue_read_sectors(r) ==
  IF r.sectors_count >= 256
    THEN panic' = "BUG_ON(sectors_count >= 256)" /\ UNCHANGED dev
    ELSE dev' = Commanded(r) /\ UNCHANGED panic

(* Mutant: the command is given without looking whether the drive is busy. *)
QueueRequestIssues(t, r) ==
  req_queue' = Append(req_queue, t) /\ ata_issue_read_sectors(r)

(* Mutant: a request is linked behind the first one, not behind the last.  *)
QueueRequestSecond(t, r) ==
  IF req_queue = <<>>
    THEN req_queue' = <<t>> /\ ata_issue_read_sectors(r)
    ELSE /\ req_queue' = <<Head(req_queue), t>> \o Tail(req_queue)
         /\ UNCHANGED <<dev, panic>>

(* The part of ata_read between DISABLE_IRQ_BEGIN and DISABLE_IRQ_END that *)
(* puts task t's request r on the queue.                                   *)
QueueRequest(t, r) ==
  IF req_queue = <<>>
    THEN /\ req_queue' = <<t>>
         /\ ata_issue_read_sectors(r)
    ELSE /\ req_queue' = Append(req_queue, t)
         /\ UNCHANGED <<dev, panic>>

(* 256 words read from the data port: one sector, if one is ready. *)
SectorRead == IF dev.drq THEN dev.lba ELSE Garbage

DevAfterRead ==
  IF dev.drq
    THEN [lba |-> dev.lba + 1, left |-> dev.left - 1, drq |-> FALSE]
    ELSE dev

(* Mutant: the buffer pointer is not moved on. *)
WithSectorSameBuf(r) == [lba |-> r.lba, seccount |-> r.seccount,
                         sectors_count |-> r.sectors_count - 1, buf |-> <<SectorRead>>]

(* The request with one more sector in its buffer. *)
WithSector(r) == [lba |-> r.lba, seccount |-> r.seccount,
                  sectors_count |-> r.sectors_count - 1,
                  buf |-> Append(r.buf, SectorRead)]

(* Mutant: the task is woken one sector early. *)
LastSectorEarly(r) == r.sectors_count <= 2

(* Mutant: the count is tested before it is decremented. *)
LastSectorNever(r) == r.sectors_count = 0

(* The sector that arrives is the last one the request waits for. *)
LastSector(r) == r.sectors_count = 1

(* Mutant: the next request is never started. *)
StartNextMissing(rest) == dev' = DevAfterRead /\ UNCHANGED panic

(* The drive after the last sector of a request: it gets the command of    *)
(* the request that is now the first, if there is one.                     *)
StartNext(rest) ==
  IF rest # <<>>
    THEN ata_issue_read_sectors(req[Head(rest)])
    ELSE dev' = DevAfterRead /\ UNCHANGED panic

(* One sector arrives for the request at the head of the queue.  The last  *)
(* one wakes its task, unlinks it and starts the next request.             *)
ata_process_request ==
  IF req_queue = <<>>
    THEN /\ panic' = "BUG_ON_NULL(req_queue)"
         /\ UNCHANGED <<req_queue, req, dev, state>>
    ELSE
      LET t == Head(req_queue)
      IN  IF req[t].sectors_count = 0
            THEN /\ panic' = "BUG_ON(sectors_count == 0)"
                 /\ UNCHANGED <<req_queue, req, dev, state>>
            ELSE /\ req' = [req EXCEPT ![t] = WithSector(req[t])]
                 /\ IF LastSector(req[t])
                      THEN /\ state' = [state EXCEPT ![t] = TASK_RUNNING]
                           /\ req_queue' = Tail(req_queue)
                           /\ StartNext(Tail(req_queue))
                      ELSE /\ dev' = DevAfterRead
                           /\ UNCHANGED <<req_queue, state, panic>>

(* Mutant: the interrupt is served but not acknowledged. *)
ide_irq1NoEoi == irq14 /\ UNCHANGED irq14 /\ ata_process_request

(* The handler of vector 41; the EOI lets the next request of the drive in.*)
ide_irq1 ==
  /\ irq14
  /\ irq14' = FALSE
  /\ ata_process_request

(* The drive has the next sector in its buffer and raises its interrupt.   *)
DevSectorReady ==
  /\ dev.left > 0
  /\ ~dev.drq
  /\ dev' = [dev EXCEPT !.drq = TRUE]
  /\ irq14' = TRUE
  /\ UNCHANGED <<req_queue, req, state, panic>>

-----------------------------------------------------------------------------
(* The closed system: a running task calls ata_read, whose critical        *)
(* section runs with interrupts off, and is then blocked.                  *)
ata_read(t, r) ==
  /\ state[t] = TASK_RUNNING
  /\ req' = [req EXCEPT ![t] = NewReq(r)]
  /\ state' = [state EXCEPT ![t] = TASK_DISK_READ]
  /\ QueueRequest(t, NewReq(r))
  /\ UNCHANGED irq14

AtaInit ==
  /\ req_queue = <<>>
  /\ req = [t \in Tasks |-> NoReq]
  /\ dev = IdleDev
  /\ irq14 = FALSE
  /\ state = [t \in Tasks |-> TASK_RUNNING]
  /\ panic = NoPanic

AtaNext ==
  /\ panic = NoPanic
  /\ \/ \E t \in Tasks, r \in Requests : ata_read(t, r)
     \/ ide_irq1
     \/ DevSectorReady

(* The drive transfers what it was asked for, and a latched interrupt is   *)
(* eventually taken.                                                       *)
AtaFairness ==
  /\ WF_atavars(panic = NoPanic /\ ide_irq1)
  /\ WF_atavars(panic = NoPanic /\ DevSectorReady)

AtaSpec == AtaInit /\ [][AtaNext]_atavars
AtaFairSpec == AtaSpec /\ AtaFairness

-----------------------------------------------------------------------------
Queued(t) == \E k \in 1 .. Len(req_queue) : req_queue[k] = t

(* The first n sectors that request r asks for. *)
Sectors(r, n) == [k \in 1 .. n |-> r.lba + k - 1]

DriverTypeOK ==
  /\ req_queue \in Seq(Tasks)
  /\ req \in [Tasks -> [lba : Nat, seccount : Nat, sectors_count : Nat, buf : Seq(Int)]]
  /\ dev \in [lba : Nat, left : Nat, drq : BOOLEAN]
  /\ irq14 \in BOOLEAN

(* Every variable of the driver and of the drive keeps its type (for panic *)
(* see AtaNoBug).                                                          *)
AtaTypeOK ==
  /\ DriverTypeOK
  /\ state \in [Tasks -> TaskStates]

(* No task is on the queue twice. *)
QueueDistinct ==
  \A j, k \in 1 .. Len(req_queue) : req_queue[j] = req_queue[k] => j = k

(* A task is on the queue exactly while it is blocked in ata_read, and on  *)
(* it once: a request that stays linked after its task was woken would be  *)
(* a pointer into a stack frame that is gone.                              *)
QueueIsBlockedTasks ==
  /\ \A t \in Tasks : Queued(t) <=> state[t] = TASK_DISK_READ
  /\ QueueDistinct

(* The command the drive is executing is the request at the head of the    *)
(* queue, at the sector that request waits for: no command is given to a   *)
(* drive that has not finished the one before, and no interrupt is left    *)
(* over when the queue is empty.                                           *)
DriveServesHead ==
  /\ irq14 = dev.drq
  /\ dev.drq => dev.left > 0
  /\ IF req_queue = <<>>
       THEN dev.left = 0
       ELSE LET r == req[Head(req_queue)]
            IN  dev.left = r.sectors_count /\ dev.lba = r.lba + Len(r.buf)

(* The sectors stored in a task's buffer are the ones it asked for, from   *)
(* the first on and in order, and sectors_count counts the missing ones.   *)
DataInOrder ==
  \A t \in Tasks :
    /\ req[t].buf = Sectors(req[t], Len(req[t].buf))
    /\ Len(req[t].buf) + req[t].sectors_count = req[t].seccount

(* A task that is running again after ata_read has all of its data.        *)
ReadComplete ==
  \A t \in Tasks :
    state[t] = TASK_RUNNING => req[t].buf = Sectors(req[t], req[t].seccount)

(* What the proofs need besides: a request fits the registers, so that the *)
(* drive is given the LBA and the count it asks for; a waiting request is  *)
(* as ata_read made it, a queued one has sectors to come, the others none. *)
RequestsFit ==
  \A t \in Tasks : req[t].seccount <= 255 /\ req[t].lba + req[t].seccount <= LbaLimit

WaitersUntouched ==
  \A k \in 2 .. Len(req_queue) : req[req_queue[k]].buf = <<>>

CountMatchesQueue ==
  \A t \in Tasks : Queued(t) <=> req[t].sectors_count > 0

(* None of the BUG_ON assertions of ata.c fires. *)
AtaNoBug == panic = NoPanic

(* The inductive invariant of queue and drive, whoever calls the driver. *)
DriverInv ==
  /\ DriverTypeOK
  /\ QueueDistinct
  /\ DriveServesHead
  /\ DataInOrder
  /\ RequestsFit
  /\ WaitersUntouched
  /\ CountMatchesQueue

(* The inductive invariant of the closed system. *)
AtaInv ==
  /\ DriverInv
  /\ AtaTypeOK
  /\ QueueIsBlockedTasks
  /\ AtaNoBug

(* The driver implements the disk service of module DiskService: requests  *)
(* are served one at a time, in the order in which they were made, each    *)
(* with all of its data at once.  The service's data of a request that is  *)
(* still being transferred is the empty buffer.                            *)
Disk == INSTANCE DiskService WITH
  pending <- req_queue,
  ask     <- [t \in Tasks |-> [lba |-> req[t].lba, seccount |-> req[t].seccount]],
  data    <- [t \in Tasks |-> IF Queued(t) THEN <<>> ELSE req[t].buf]

ImplementsDiskService == Disk!Spec
=============================================================================
