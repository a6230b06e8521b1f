----------------------------- MODULE AtaProofs -----------------------------
(***************************************************************************)
(* Proofs about the driver of module Ata, for every number of tasks and    *)
(* every set of requests that fit LBA28.                                   *)
(***************************************************************************)
EXTENDS Ata, TLAPS

(* An LBA below the limit passes through the registers unchanged. *)
LEMMA LbaFits ==
  ASSUME NEW a \in Nat, NEW n \in Nat \ {0}, a + n <= LbaLimit
  PROVE  a % LbaLimit = a
BY SMT DEF LbaLimit

(* A request of a caller fits the registers of the drive. *)
LEMMA RequestFits ==
  ASSUME NEW r \in Requests
  PROVE  /\ r.lba \in Nat /\ r.seccount \in Nat
         /\ 0 < r.seccount /\ r.seccount <= 255
         /\ r.lba + r.seccount <= LbaLimit
         /\ r.lba % LbaLimit = r.lba
<1>1. r.lba \in Nat /\ r.seccount \in Nat
  BY AtaAssumption
<1>2. r.seccount \in 1 .. 255 /\ r.lba + r.seccount <= LbaLimit
  BY AtaAssumption
<1>4. r.lba % LbaLimit = r.lba
  BY <1>1, <1>2, LbaFits
<1>5. QED
  BY <1>1, <1>2, <1>4

(* What Append and Tail do to the positions of a queue. *)
LEMMA AppendFacts ==
  ASSUME NEW S, NEW q \in Seq(S), NEW x \in S
  PROVE  /\ Append(q, x) \in Seq(S)
         /\ Len(Append(q, x)) = Len(q) + 1
         /\ \A k \in 1 .. Len(q) : Append(q, x)[k] = q[k]
         /\ Append(q, x)[Len(q) + 1] = x
         /\ Append(q, x) # <<>>
         /\ q # <<>> => Head(Append(q, x)) = Head(q)
         /\ q = <<>> => Head(Append(q, x)) = x
OBVIOUS

LEMMA AppendEmpty == \A x : Append(<<>>, x) = <<x>>
OBVIOUS

LEMMA TailFacts ==
  ASSUME NEW S, NEW q \in Seq(S), q # <<>>
  PROVE  /\ Len(q) \in Nat \ {0}
         /\ Head(q) = q[1]
         /\ Head(q) \in S
         /\ Tail(q) \in Seq(S)
         /\ Len(Tail(q)) = Len(q) - 1
         /\ \A k \in 1 .. Len(q) - 1 : Tail(q)[k] = q[k + 1]
         /\ Tail(q) # <<>> => Len(q) >= 2 /\ Head(Tail(q)) = q[2]
         /\ Tail(q) = <<>> => Len(q) = 1
<1>1. /\ Len(q) \in Nat \ {0}
      /\ Head(q) = q[1]
      /\ Head(q) \in S
  OBVIOUS
<1>2. Tail(q) \in Seq(S) /\ Len(Tail(q)) = Len(q) - 1
  BY <1>1
<1>3. \A k \in 1 .. Len(q) - 1 : Tail(q)[k] = q[k + 1]
  BY <1>1
<1>4. ASSUME Tail(q) # <<>>
      PROVE  Len(q) >= 2 /\ Head(Tail(q)) = q[2]
  <2>1. Len(Tail(q)) # 0
    BY <1>2, <1>4
  <2>2. Len(q) >= 2
    BY <1>1, <1>2, <2>1
  <2>3. Head(Tail(q)) = Tail(q)[1]
    BY <1>2, <1>4
  <2>4. QED
    BY <1>1, <1>3, <2>2, <2>3
<1>5. Tail(q) = <<>> => Len(q) = 1
  BY <1>1, <1>2
<1>6. QED
  BY <1>1, <1>2, <1>3, <1>4, <1>5

(* A buffer that holds the first sectors of its request still does when    *)
(* the next one is appended.                                               *)
LEMMA SectorsExtend ==
  ASSUME NEW r, r.lba \in Nat, NEW b \in Seq(Int), b = Sectors(r, Len(b))
  PROVE  /\ Append(b, r.lba + Len(b)) = Sectors(r, Len(b) + 1)
         /\ Len(Append(b, r.lba + Len(b))) = Len(b) + 1
<1>1. Append(b, r.lba + Len(b)) = [k \in 1 .. Len(b) + 1 |-> r.lba + k - 1]
  <2>1. \A k \in 1 .. Len(b) : b[k] = r.lba + k - 1
    BY DEF Sectors
  <2>2. QED
    BY <2>1
<1>2. QED
  BY <1>1 DEF Sectors

(* An empty queue and an idle drive satisfy the invariant. *)
LEMMA IdleDriverInv ==
  ASSUME req_queue = <<>>, req = [t \in Tasks |-> NoReq], dev = IdleDev, irq14 = FALSE
  PROVE  DriverInv /\ \A t \in Tasks : ~Queued(t)
<1>1. DriverTypeOK
  <2>1. req_queue \in Seq(Tasks)
    OBVIOUS
  <2>2. NoReq \in [lba : Nat, seccount : Nat, sectors_count : Nat, buf : Seq(Int)]
    BY DEF NoReq
  <2>3. dev \in [lba : Nat, left : Nat, drq : BOOLEAN]
    BY DEF IdleDev
  <2>4. QED
    BY <2>1, <2>2, <2>3 DEF DriverTypeOK
<1>2. \A t \in Tasks : ~Queued(t)
  BY DEF Queued
<1>3. QueueDistinct /\ WaitersUntouched
  BY DEF QueueDistinct, WaitersUntouched
<1>4. DriveServesHead
  BY DEF DriveServesHead, IdleDev
<1>5. DataInOrder /\ RequestsFit /\ CountMatchesQueue
  BY <1>2 DEF DataInOrder, RequestsFit, CountMatchesQueue, NoReq, Sectors, LbaLimit
<1>6. QED
  BY <1>1, <1>2, <1>3, <1>4, <1>5 DEF DriverInv

(* Linking the request of a task that has none keeps the invariant, and no *)
(* assertion of ata_issue_read_sectors fires.                              *)
LEMMA LinkStep ==
  ASSUME AtaInitDone, DriverInv, NEW t \in Tasks, NEW r \in Requests,
         ~Queued(t),
         req' = [req EXCEPT ![t] = NewReq(r)],
         QueueRequest(t, NewReq(r)),
         irq14' = irq14
  PROVE  /\ DriverInv'
         /\ panic' = panic
         /\ \A u \in Tasks : Queued(u)' <=> Queued(u) \/ u = t
<1>1. /\ r.lba \in Nat /\ r.seccount \in Nat
      /\ 0 < r.seccount /\ r.seccount <= 255
      /\ r.lba + r.seccount <= LbaLimit
      /\ r.lba % LbaLimit = r.lba
  BY RequestFits
<1>2. ~Queued(t)
  OBVIOUS
<1>3. /\ req' = [req EXCEPT ![t] = NewReq(r)]
      /\ irq14' = irq14
      /\ QueueRequest(t, NewReq(r))
  OBVIOUS
<1>4. /\ req_queue \in Seq(Tasks)
      /\ req_queue' = Append(req_queue, t)
  BY <1>3, AppendEmpty DEF QueueRequest, DriverInv, DriverTypeOK
<1>5. /\ panic' = panic
      /\ dev' = IF req_queue = <<>>
                  THEN [lba |-> r.lba, left |-> r.seccount, drq |-> FALSE]
                  ELSE dev
  <2>1. ~(NewReq(r).sectors_count >= 256)
    BY <1>1 DEF NewReq
  <2>2. Commanded(NewReq(r)) = [lba |-> r.lba, left |-> r.seccount, drq |-> FALSE]
    BY <1>1 DEF NewReq, Commanded
  <2>3. QED
    BY <1>3, <2>1, <2>2 DEF QueueRequest, ata_issue_read_sectors
<1>6. /\ req_queue' \in Seq(Tasks)
      /\ Len(req_queue') = Len(req_queue) + 1
      /\ \A k \in 1 .. Len(req_queue) : req_queue'[k] = req_queue[k]
      /\ req_queue'[Len(req_queue) + 1] = t
      /\ req_queue' # <<>>
      /\ req_queue # <<>> => Head(req_queue') = Head(req_queue)
      /\ req_queue = <<>> => Head(req_queue') = t
  BY <1>4, AppendFacts
<1>7. Len(req_queue) \in Nat
  BY <1>4
<1>8. \A u \in Tasks : Queued(u)' <=> Queued(u) \/ u = t
  BY <1>6, <1>7 DEF Queued
<1>9. /\ req'[t].lba = r.lba /\ req'[t].seccount = r.seccount
      /\ req'[t].sectors_count = r.seccount /\ req'[t].buf = <<>>
      /\ \A u \in Tasks \ {t} : req'[u] = req[u]
  BY <1>3 DEF DriverInv, DriverTypeOK, NewReq
<1>10. DriverTypeOK'
  <2>1. NewReq(r) \in [lba : Nat, seccount : Nat, sectors_count : Nat, buf : Seq(Int)]
    BY <1>1 DEF NewReq
  <2>2. req' \in [Tasks -> [lba : Nat, seccount : Nat, sectors_count : Nat, buf : Seq(Int)]]
    BY <1>3, <2>1 DEF DriverInv, DriverTypeOK
  <2>3. dev' \in [lba : Nat, left : Nat, drq : BOOLEAN]
    BY <1>1, <1>5 DEF DriverInv, DriverTypeOK
  <2>4. QED
    BY <1>3, <1>6, <2>2, <2>3 DEF DriverInv, DriverTypeOK
<1>11. QueueDistinct'
  <2>2. \A k \in 1 .. Len(req_queue) : req_queue[k] # t
    BY <1>2 DEF Queued
  <2>3. \A j, k \in 1 .. Len(req_queue') : req_queue'[j] = req_queue'[k] => j = k
    BY <1>6, <1>7, <2>2 DEF DriverInv, QueueDistinct
  <2>4. QED
    BY <2>3 DEF QueueDistinct
<1>12. DriveServesHead'
  <2>1. CASE req_queue = <<>>
    <3>1. dev'.lba = r.lba /\ dev'.left = r.seccount /\ dev'.drq = FALSE
      BY <1>5, <2>1
    <3>2. irq14 = FALSE
      BY <2>1 DEF DriverInv, DriverTypeOK, DriveServesHead
    <3>3. Len(req'[t].buf) = 0
      BY <1>9
    <3>4. irq14' = dev'.drq /\ (dev'.drq => dev'.left > 0)
      BY <1>3, <3>1, <3>2
    <3>5. dev'.left = req'[t].sectors_count /\ dev'.lba = req'[t].lba + Len(req'[t].buf)
      BY <1>1, <1>9, <3>1, <3>3
    <3>6. QED
      BY <1>6, <2>1, <3>4, <3>5 DEF DriveServesHead
  <2>2. CASE req_queue # <<>>
    <3>1. Head(req_queue) = req_queue[1] /\ 1 \in 1 .. Len(req_queue) /\ Head(req_queue) \in Tasks
      BY <1>4, <2>2, TailFacts
    <3>2. Head(req_queue) # t
      BY <1>2, <3>1 DEF Queued
    <3>3. req'[Head(req_queue')] = req[Head(req_queue)]
      BY <1>6, <1>9, <2>2, <3>1, <3>2
    <3>4. QED
      BY <1>3, <1>5, <1>6, <2>2, <3>3 DEF DriverInv, DriveServesHead
  <2>3. QED
    BY <2>1, <2>2
<1>13. DataInOrder'
  <2>1. Len(req'[t].buf) = 0 /\ req'[t].buf = Sectors(req'[t], Len(req'[t].buf))
    BY <1>9 DEF Sectors
  <2>2. Len(req'[t].buf) + req'[t].sectors_count = req'[t].seccount
    BY <1>1, <1>9, <2>1
  <2>3. ASSUME NEW u \in Tasks, u # t
        PROVE  /\ req'[u].buf = Sectors(req'[u], Len(req'[u].buf))
               /\ Len(req'[u].buf) + req'[u].sectors_count = req'[u].seccount
    <3>1. req'[u] = req[u]
      BY <1>9, <2>3
    <3>2. QED
      BY <3>1 DEF DriverInv, DataInOrder
  <2>4. \A u \in Tasks : /\ req'[u].buf = Sectors(req'[u], Len(req'[u].buf))
                        /\ Len(req'[u].buf) + req'[u].sectors_count = req'[u].seccount
    BY <2>1, <2>2, <2>3
  <2>5. QED
    BY <2>4 DEF DataInOrder, Sectors
<1>14. RequestsFit'
  BY <1>1, <1>9 DEF DriverInv, RequestsFit
<1>15. WaitersUntouched'
  <2>1. \A k \in 1 .. Len(req_queue) : req_queue[k] \in Tasks /\ req_queue[k] # t
    BY <1>2, <1>4 DEF Queued
  <2>2. ASSUME NEW k \in 2 .. Len(req_queue')
        PROVE  req'[req_queue'[k]].buf = <<>>
    BY <1>6, <1>7, <1>9, <2>1 DEF DriverInv, WaitersUntouched
  <2>3. QED
    BY <2>2 DEF WaitersUntouched
<1>16. CountMatchesQueue'
  BY <1>1, <1>8, <1>9 DEF DriverInv, CountMatchesQueue
<1>17. QED
  BY <1>5, <1>8, <1>10, <1>11, <1>12, <1>13, <1>14, <1>15, <1>16 DEF DriverInv

(* A sector in the drive's buffer keeps the invariant. *)
LEMMA ReadyStep ==
  ASSUME DriverInv, DevSectorReady
  PROVE  DriverInv'
<1>1. /\ dev.left > 0 /\ dev.drq = FALSE
      /\ dev' = [dev EXCEPT !.drq = TRUE]
      /\ irq14' = TRUE
      /\ req_queue' = req_queue /\ req' = req /\ state' = state /\ panic' = panic
  BY DEF DevSectorReady, DriverInv, DriverTypeOK
<1>2. dev'.lba = dev.lba /\ dev'.left = dev.left /\ dev'.drq = TRUE
  BY <1>1 DEF DriverInv, DriverTypeOK
<1>3. DriverTypeOK'
  BY <1>1 DEF DriverInv, DriverTypeOK
<1>4. DriveServesHead'
  <2>1. irq14' = dev'.drq /\ (dev'.drq => dev'.left > 0)
    BY <1>1, <1>2
  <2>2. QED
    BY <1>1, <1>2, <2>1 DEF DriverInv, DriveServesHead
<1>5. \A t \in Tasks : Queued(t)' = Queued(t)
  BY <1>1 DEF Queued
<1>6. QED
  BY <1>1, <1>3, <1>4, <1>5 DEF DriverInv, QueueDistinct, DataInOrder, Sectors,
     RequestsFit, WaitersUntouched, CountMatchesQueue

(* An interrupt of the drive finds the request it is for at the head of    *)
(* the queue, with a sector ready for it: no assertion of                  *)
(* ata_process_request fires.                                              *)
LEMMA IrqFindsRequest ==
  ASSUME DriverInv, irq14
  PROVE  /\ req_queue # <<>>
         /\ Head(req_queue) \in Tasks
         /\ req[Head(req_queue)].sectors_count \in Nat \ {0}
         /\ dev.drq = TRUE
         /\ dev.left = req[Head(req_queue)].sectors_count
         /\ dev.lba = req[Head(req_queue)].lba + Len(req[Head(req_queue)].buf)
<1>1. dev.drq = TRUE /\ dev.left > 0
  BY DEF DriverInv, DriverTypeOK, DriveServesHead
<1>2. req_queue # <<>>
  BY <1>1 DEF DriverInv, DriveServesHead
<1>3. Head(req_queue) \in Tasks
  BY <1>2, TailFacts DEF DriverInv, DriverTypeOK
<1>4. /\ dev.left = req[Head(req_queue)].sectors_count
      /\ dev.lba = req[Head(req_queue)].lba + Len(req[Head(req_queue)].buf)
  BY <1>2 DEF DriverInv, DriveServesHead
<1>5. req[Head(req_queue)].sectors_count \in Nat
  BY <1>3 DEF DriverInv, DriverTypeOK
<1>6. QED
  BY <1>1, <1>2, <1>3, <1>4, <1>5

(* The interrupt handler keeps the invariant. *)
LEMMA IrqStep ==
  ASSUME AtaInitDone, DriverInv, ide_irq1
  PROVE  /\ DriverInv'
         /\ panic' = panic
         /\ \/ state' = state /\ \A u \in Tasks : Queued(u)' <=> Queued(u)
            \/ \E t \in Tasks :
                 /\ Queued(t)
                 /\ state' = [state EXCEPT ![t] = TASK_RUNNING]
                 /\ \A u \in Tasks : Queued(u)' <=> Queued(u) /\ u # t
<1>17. Head(req_queue) \in Tasks
  BY IrqFindsRequest DEF ide_irq1
<1>18. PICK t \in Tasks : t = Head(req_queue)
  BY <1>17
<1> DEFINE rest == Tail(req_queue)
<1> DEFINE n == req[t].sectors_count
<1>1. /\ req_queue # <<>> /\ t \in Tasks /\ n \in Nat \ {0}
      /\ dev.drq = TRUE /\ dev.left = n
      /\ dev.lba = req[t].lba + Len(req[t].buf)
  BY <1>18, IrqFindsRequest DEF ide_irq1
<1>0. req_queue \in Seq(Tasks)
  BY DEF DriverInv, DriverTypeOK
<1>2. /\ Len(req_queue) \in Nat \ {0}
      /\ t = req_queue[1]
      /\ rest \in Seq(Tasks)
      /\ Len(rest) = Len(req_queue) - 1
      /\ \A k \in 1 .. Len(req_queue) - 1 : rest[k] = req_queue[k + 1]
      /\ rest # <<>> => Len(req_queue) >= 2 /\ Head(rest) = req_queue[2]
      /\ rest = <<>> => Len(req_queue) = 1
  BY <1>0, <1>1, <1>18, TailFacts
<1>3. SectorRead = dev.lba
  BY <1>1 DEF SectorRead
<1>4. /\ irq14' = FALSE
      /\ req' = [req EXCEPT ![t] = WithSector(req[t])]
      /\ n # 1 => dev' = DevAfterRead /\ UNCHANGED <<req_queue, state, panic>>
      /\ n = 1 => /\ state' = [state EXCEPT ![t] = TASK_RUNNING]
                  /\ req_queue' = rest
                  /\ rest = <<>> => dev' = DevAfterRead /\ panic' = panic
                  /\ rest # <<>> => ata_issue_read_sectors(req[Head(rest)])
  BY <1>1, <1>3, <1>18 DEF ide_irq1, ata_process_request, LastSector, StartNext
<1>15. n = req[t].sectors_count /\ t = Head(req_queue)
  BY <1>18
<1> HIDE DEF rest, n
<1>5. /\ req[t].lba \in Nat /\ req[t].seccount \in Nat /\ req[t].buf \in Seq(Int)
      /\ Len(req[t].buf) \in Nat /\ dev.lba \in Int /\ dev.lba \in Nat
  BY <1>1 DEF DriverInv, DriverTypeOK
<1>6. /\ req'[t].lba = req[t].lba
      /\ req'[t].seccount = req[t].seccount
      /\ req'[t].sectors_count = n - 1
      /\ req'[t].buf = Append(req[t].buf, dev.lba)
      /\ \A u \in Tasks \ {t} : req'[u] = req[u]
  BY <1>1, <1>3, <1>4, <1>15 DEF DriverInv, DriverTypeOK, WithSector
<1>7. /\ req'[t].buf \in Seq(Int)
      /\ Len(req'[t].buf) = Len(req[t].buf) + 1
  BY <1>5, <1>6, AppendFacts
<1>8. req' \in [Tasks -> [lba : Nat, seccount : Nat, sectors_count : Nat, buf : Seq(Int)]]
  <2>1. WithSector(req[t]) \in [lba : Nat, seccount : Nat, sectors_count : Nat, buf : Seq(Int)]
    <3>1. n - 1 \in Nat /\ Append(req[t].buf, dev.lba) \in Seq(Int)
      BY <1>1, <1>5, <1>6, <1>7
    <3>2. QED
      BY <1>3, <1>5, <1>15, <3>1 DEF WithSector
  <2>2. QED
    BY <1>4, <2>1 DEF DriverInv, DriverTypeOK
<1>9. DataInOrder'
  <2>1. req[t].buf = Sectors(req[t], Len(req[t].buf))
    BY <1>1 DEF DriverInv, DataInOrder
  <2>2. Append(req[t].buf, req[t].lba + Len(req[t].buf)) = Sectors(req[t], Len(req[t].buf) + 1)
    BY <1>5, <2>1, SectorsExtend
  <2>3. req'[t].buf = Sectors(req'[t], Len(req'[t].buf))
    BY <1>1, <1>6, <1>7, <2>2 DEF Sectors
  <2>4. Len(req[t].buf) + n = req[t].seccount
    BY <1>1, <1>15 DEF DriverInv, DataInOrder
  <2>5. Len(req'[t].buf) + req'[t].sectors_count = req'[t].seccount
    BY <1>1, <1>5, <1>6, <1>7, <2>4
  <2>6. ASSUME NEW u \in Tasks, u # t
        PROVE  /\ req'[u].buf = Sectors(req'[u], Len(req'[u].buf))
               /\ Len(req'[u].buf) + req'[u].sectors_count = req'[u].seccount
    <3>1. req'[u] = req[u]
      BY <1>6, <2>6
    <3>2. QED
      BY <3>1 DEF DriverInv, DataInOrder
  <2>7. QED
    BY <2>3, <2>5, <2>6 DEF DataInOrder, Sectors
<1>10. RequestsFit'
  BY <1>6 DEF DriverInv, RequestsFit
<1>11. DevAfterRead = [lba |-> dev.lba + 1, left |-> n - 1, drq |-> FALSE]
  BY <1>1 DEF DevAfterRead
<1>12. CASE n # 1
  <2>1. /\ req_queue' = req_queue /\ state' = state /\ panic' = panic
        /\ dev' = [lba |-> dev.lba + 1, left |-> n - 1, drq |-> FALSE]
    BY <1>4, <1>11, <1>12
  <2>2. \A u \in Tasks : Queued(u)' <=> Queued(u)
    BY <2>1 DEF Queued
  <2>3. DriverTypeOK'
    <3>1. dev' \in [lba : Nat, left : Nat, drq : BOOLEAN]
      BY <1>1, <1>5, <2>1
    <3>2. QED
      BY <1>4, <1>8, <2>1, <3>1 DEF DriverInv, DriverTypeOK
  <2>4. QueueDistinct'
    BY <2>1 DEF DriverInv, QueueDistinct
  <2>5. DriveServesHead'
    <3>1. dev'.lba = dev.lba + 1 /\ dev'.left = n - 1 /\ dev'.drq = FALSE
      BY <2>1
    <3>2. irq14' = dev'.drq /\ (dev'.drq => dev'.left > 0)
      BY <1>4, <3>1
    <3>3. dev'.left = req'[t].sectors_count /\ dev'.lba = req'[t].lba + Len(req'[t].buf)
      BY <1>1, <1>5, <1>6, <1>7, <3>1
    <3>4. QED
      BY <1>1, <1>15, <2>1, <3>2, <3>3 DEF DriveServesHead
  <2>6. WaitersUntouched'
    <3>1. \A k \in 2 .. Len(req_queue) : req_queue[k] \in Tasks \ {t}
      BY <1>0, <1>2 DEF DriverInv, QueueDistinct
    <3>2. QED
      BY <1>6, <2>1, <3>1 DEF DriverInv, WaitersUntouched
  <2>7. CountMatchesQueue'
    <3>1. Queued(t)' <=> req'[t].sectors_count > 0
      BY <1>1, <1>6, <1>12, <1>15, <2>2 DEF DriverInv, CountMatchesQueue
    <3>2. QED
      BY <1>6, <2>2, <3>1 DEF DriverInv, CountMatchesQueue
  <2>8. QED
    BY <1>9, <1>10, <2>1, <2>2, <2>3, <2>4, <2>5, <2>6, <2>7 DEF DriverInv
<1>13. CASE n = 1
  <2>1. /\ state' = [state EXCEPT ![t] = TASK_RUNNING]
        /\ req_queue' = rest
        /\ rest = <<>> => dev' = DevAfterRead /\ panic' = panic
        /\ rest # <<>> => ata_issue_read_sectors(req[Head(rest)])
    BY <1>4, <1>13
  <2>2. \A j, k \in 1 .. Len(req_queue) : req_queue[j] = req_queue[k] => j = k
    BY DEF DriverInv, QueueDistinct
  <2>3. \A u \in Tasks : Queued(u)' <=> Queued(u) /\ u # t
    <3>1. ASSUME NEW u \in Tasks, Queued(u)' PROVE Queued(u) /\ u # t
      <4>1. PICK k \in 1 .. Len(rest) : rest[k] = u
        BY <2>1, <3>1 DEF Queued
      <4>2. k + 1 \in 1 .. Len(req_queue) /\ 1 \in 1 .. Len(req_queue)
              /\ k + 1 # 1 /\ req_queue[k + 1] = u
        BY <1>0, <1>2, <4>1
      <4>3. QED
        BY <1>0, <1>2, <2>2, <4>2 DEF Queued
    <3>2. ASSUME NEW u \in Tasks, Queued(u), u # t PROVE Queued(u)'
      <4>1. PICK k \in 1 .. Len(req_queue) : req_queue[k] = u
        BY <3>2 DEF Queued
      <4>2. k - 1 \in 1 .. Len(rest) /\ rest[k - 1] = u
        BY <1>0, <1>2, <3>2, <4>1
      <4>3. QED
        BY <2>1, <4>2 DEF Queued
    <3>3. QED
      BY <3>1, <3>2
  <2>4. QueueDistinct'
    <3>2. \A j, k \in 1 .. Len(rest) : rest[j] = rest[k] => j = k
      <4>1. SUFFICES ASSUME NEW j \in 1 .. Len(rest), NEW k \in 1 .. Len(rest), rest[j] = rest[k]
                     PROVE  j = k
        OBVIOUS
      <4>2. /\ j + 1 \in 1 .. Len(req_queue) /\ k + 1 \in 1 .. Len(req_queue)
            /\ req_queue[j + 1] = req_queue[k + 1]
        BY <1>0, <1>2, <4>1
      <4>3. j + 1 = k + 1
        BY <2>2, <4>2
      <4>4. QED
        BY <4>3
    <3>3. QED
      BY <2>1, <3>2 DEF QueueDistinct
  <2>5. CountMatchesQueue'
    BY <1>1, <1>6, <1>13, <2>3 DEF DriverInv, CountMatchesQueue
  <2>6. WaitersUntouched'
    <3>1. SUFFICES ASSUME NEW k \in 2 .. Len(rest)
                   PROVE  req'[rest[k]].buf = <<>>
      BY <2>1 DEF WaitersUntouched
    <3>2. /\ k + 1 \in 2 .. Len(req_queue) /\ rest[k] = req_queue[k + 1]
          /\ req_queue[k + 1] \in Tasks /\ req_queue[k + 1] # t
      BY <1>0, <1>2, <2>2
    <3>3. req'[rest[k]] = req[req_queue[k + 1]]
      BY <1>6, <3>2
    <3>4. QED
      BY <3>2, <3>3 DEF DriverInv, WaitersUntouched
  <2>7. Queued(t)
    BY <1>1, <1>15 DEF DriverInv, CountMatchesQueue
  <2>8. CASE rest = <<>>
    <3>1. dev' = [lba |-> dev.lba + 1, left |-> 0, drq |-> FALSE] /\ panic' = panic
      BY <1>11, <1>13, <2>1, <2>8
    <3>2. dev' \in [lba : Nat, left : Nat, drq : BOOLEAN]
      BY <1>5, <3>1
    <3>3. DriverTypeOK'
      BY <1>0, <1>2, <1>4, <1>8, <2>1, <3>2 DEF DriverTypeOK
    <3>4. DriveServesHead'
      <4>1. irq14' = dev'.drq /\ (dev'.drq => dev'.left > 0)
        BY <1>4, <3>1
      <4>2. dev'.left = 0
        BY <3>1
      <4>3. QED
        BY <2>1, <2>8, <4>1, <4>2 DEF DriveServesHead
    <3>5. QED
      BY <1>9, <1>10, <2>1, <2>3, <2>4, <2>5, <2>6, <2>7, <3>1, <3>3, <3>4 DEF DriverInv
  <2>9. CASE rest # <<>>
    <3> DEFINE u == Head(rest)
    <3>12. u = Head(rest)
      OBVIOUS
    <3> HIDE DEF u
    <3>1. /\ u = req_queue[2] /\ 2 \in 2 .. Len(req_queue) /\ 2 \in 1 .. Len(req_queue)
          /\ 1 \in 1 .. Len(req_queue)
      BY <1>2, <2>9, <3>12
    <3>2. u \in Tasks /\ u # t
      BY <1>0, <1>2, <2>2, <3>1
    <3>3. req[u].buf = <<>> /\ Len(req[u].buf) = 0
      BY <3>1 DEF DriverInv, WaitersUntouched
    <3>4. /\ req[u].lba \in Nat /\ req[u].seccount \in Nat /\ req[u].sectors_count \in Nat
      BY <3>2 DEF DriverInv, DriverTypeOK
    <3>5. req[u].sectors_count = req[u].seccount /\ req[u].sectors_count > 0
      <4>1. Len(req[u].buf) + req[u].sectors_count = req[u].seccount
        BY <3>2 DEF DriverInv, DataInOrder
      <4>2. Queued(u)
        BY <3>1 DEF Queued
      <4>3. QED
        BY <3>2, <3>3, <3>4, <4>1, <4>2 DEF DriverInv, CountMatchesQueue
    <3>6. ~(req[u].sectors_count >= 256) /\ req[u].lba % LbaLimit = req[u].lba
      <4>1. req[u].seccount <= 255 /\ req[u].lba + req[u].seccount <= LbaLimit
        BY <3>2 DEF DriverInv, RequestsFit
      <4>2. req[u].seccount \in Nat \ {0}
        BY <3>4, <3>5
      <4>3. req[u].lba % LbaLimit = req[u].lba
        BY <3>4, <4>1, <4>2, LbaFits
      <4>4. QED
        BY <3>4, <3>5, <4>1, <4>3
    <3>7. /\ dev' = [lba |-> req[u].lba, left |-> req[u].sectors_count, drq |-> FALSE]
          /\ panic' = panic
      BY <2>1, <2>9, <3>6, <3>12 DEF ata_issue_read_sectors, Commanded
    <3>8. dev' \in [lba : Nat, left : Nat, drq : BOOLEAN]
      BY <3>4, <3>7
    <3>9. DriverTypeOK'
      BY <1>0, <1>2, <1>4, <1>8, <2>1, <3>8 DEF DriverTypeOK
    <3>10. DriveServesHead'
      <4>1. dev'.lba = req[u].lba /\ dev'.left = req[u].sectors_count /\ dev'.drq = FALSE
        BY <3>7
      <4>2. irq14' = dev'.drq /\ (dev'.drq => dev'.left > 0)
        BY <1>4, <4>1
      <4>3. req'[u] = req[u]
        BY <1>6, <3>2
      <4>4. dev'.left = req'[u].sectors_count /\ dev'.lba = req'[u].lba + Len(req'[u].buf)
        BY <3>3, <3>4, <4>1, <4>3
      <4>5. QED
        BY <2>1, <2>9, <3>12, <4>2, <4>4 DEF DriveServesHead
    <3>11. QED
      BY <1>9, <1>10, <2>1, <2>3, <2>4, <2>5, <2>6, <2>7, <3>7, <3>9, <3>10 DEF DriverInv
  <2>10. QED
    BY <2>8, <2>9
<1>14. QED
  BY <1>12, <1>13

(* The closed system starts in its inductive invariant. *)
LEMMA AtaInitInv == AtaInit => AtaInv
<1>1. ASSUME AtaInit PROVE AtaInv
  <2>1. DriverInv /\ \A t \in Tasks : ~Queued(t)
    BY <1>1, IdleDriverInv DEF AtaInit
  <2>2. AtaTypeOK
    BY <1>1, <2>1 DEF AtaInit, DriverInv, AtaTypeOK, TaskStates
  <2>3. QueueIsBlockedTasks /\ AtaNoBug
    BY <1>1, <2>1 DEF AtaInit, DriverInv, QueueIsBlockedTasks, AtaNoBug,
       TASK_RUNNING, TASK_DISK_READ
  <2>4. QED
    BY <2>1, <2>2, <2>3 DEF AtaInv
<1>2. QED
  BY <1>1

(* A call of ata_read keeps the invariant. *)
LEMMA ReadStep ==
  ASSUME AtaInitDone, AtaInv, NEW t \in Tasks, NEW r \in Requests, ata_read(t, r)
  PROVE  AtaInv'
<1>1. ~Queued(t)
  BY DEF ata_read, AtaInv, QueueIsBlockedTasks, TASK_RUNNING, TASK_DISK_READ
<1>2. /\ DriverInv' /\ panic' = panic
      /\ \A u \in Tasks : Queued(u)' <=> Queued(u) \/ u = t
  BY <1>1, LinkStep DEF ata_read, AtaInv
<1>3. state' = [state EXCEPT ![t] = TASK_DISK_READ]
  BY DEF ata_read
<1>4. AtaTypeOK'
  BY <1>2, <1>3 DEF AtaInv, AtaTypeOK, DriverInv, TaskStates
<1>5. QueueIsBlockedTasks'
  BY <1>2, <1>3 DEF AtaInv, AtaTypeOK, DriverInv, QueueIsBlockedTasks
<1>6. QED
  BY <1>2, <1>4, <1>5 DEF AtaInv, AtaNoBug

(* An interrupt of the drive keeps it. *)
LEMMA AtaIrqStep ==
  ASSUME AtaInitDone, AtaInv, ide_irq1
  PROVE  AtaInv'
<1>1. /\ DriverInv' /\ panic' = panic
      /\ \/ state' = state /\ \A u \in Tasks : Queued(u)' <=> Queued(u)
         \/ \E t \in Tasks :
              /\ Queued(t)
              /\ state' = [state EXCEPT ![t] = TASK_RUNNING]
              /\ \A u \in Tasks : Queued(u)' <=> Queued(u) /\ u # t
  BY IrqStep DEF AtaInv
<1>2. AtaTypeOK'
  BY <1>1 DEF AtaInv, AtaTypeOK, DriverInv, TaskStates
<1>3. QueueIsBlockedTasks'
  BY <1>1 DEF AtaInv, AtaTypeOK, DriverInv, QueueIsBlockedTasks, TASK_RUNNING, TASK_DISK_READ
<1>4. QED
  BY <1>1, <1>2, <1>3 DEF AtaInv, AtaNoBug

(* A sector in the drive's buffer keeps it. *)
LEMMA AtaReadyStep ==
  ASSUME AtaInv, DevSectorReady
  PROVE  AtaInv'
<1>1. DriverInv' /\ req_queue' = req_queue /\ state' = state /\ panic' = panic
  BY ReadyStep DEF AtaInv, DevSectorReady
<1>2. \A t \in Tasks : Queued(t)' <=> Queued(t)
  BY <1>1 DEF Queued
<1>3. QED
  BY <1>1, <1>2 DEF AtaInv, AtaTypeOK, DriverInv, QueueIsBlockedTasks, AtaNoBug

(* The driver's invariant depends on its own variables only. *)
LEMMA DriverStutter ==
  ASSUME DriverInv, UNCHANGED ataVars
  PROVE  DriverInv' /\ \A t \in Tasks : Queued(t)' <=> Queued(t)
<1>1. req_queue' = req_queue /\ req' = req /\ dev' = dev /\ irq14' = irq14
  BY DEF ataVars
<1>2. \A t \in Tasks : Queued(t)' <=> Queued(t)
  BY <1>1 DEF Queued
<1>3. DriverTypeOK' /\ DriveServesHead'
  BY <1>1 DEF DriverInv, DriverTypeOK, DriveServesHead
<1>4. QED
  BY <1>1, <1>2, <1>3 DEF DriverInv, QueueDistinct, DataInOrder, Sectors,
     RequestsFit, WaitersUntouched, CountMatchesQueue

(* The invariant is inductive, once ata_init has found the drive. *)
LEMMA AtaNextInv ==
  ASSUME AtaInitDone, AtaInv, [AtaNext]_atavars
  PROVE  AtaInv'
<1>1. CASE AtaNext
  BY <1>1, ReadStep, AtaReadyStep, AtaIrqStep DEF AtaNext
<1>2. CASE UNCHANGED atavars
  <2>1. UNCHANGED ataVars /\ state' = state /\ panic' = panic
    BY <1>2 DEF atavars
  <2>2. DriverInv' /\ \A t \in Tasks : Queued(t)' <=> Queued(t)
    BY <2>1, DriverStutter DEF AtaInv
  <2>3. QED
    BY <2>1, <2>2 DEF AtaInv, AtaTypeOK, DriverInv, QueueIsBlockedTasks, AtaNoBug
<1>3. QED
  BY <1>1, <1>2

(* Queue, drive and buffers agree in every state of the driver: the        *)
(* request queue of ata.c holds exactly the blocked tasks, and the drive   *)
(* executes the command of its head.                                       *)
THEOREM AtaInvariant ==
  ASSUME AtaInitDone
  PROVE  AtaSpec => []AtaInv
<1>1. AtaInit => AtaInv
  BY AtaInitInv
<1>2. AtaInv /\ [AtaNext]_atavars => AtaInv'
  BY AtaNextInv
<1>3. QED
  BY <1>1, <1>2, PTL DEF AtaSpec

(* The drive is idle when no request is queued, and otherwise transfers    *)
(* the sectors that the head of req_queue still misses: ata_process_request*)
(* never stores a sector of one request into the buffer of another.        *)
THEOREM AtaDriveServesHead ==
  ASSUME AtaInitDone
  PROVE  AtaSpec => []DriveServesHead
<1>1. AtaInv => DriveServesHead
  BY DEF AtaInv, DriverInv
<1>2. QED
  BY <1>1, AtaInvariant, PTL

(* Every buffer holds, in order and without a gap, the first sectors of    *)
(* the request it belongs to, whatever requests came in between.           *)
THEOREM AtaDataInOrder ==
  ASSUME AtaInitDone
  PROVE  AtaSpec => []DataInOrder
<1>1. AtaInv => DataInOrder
  BY DEF AtaInv, DriverInv
<1>2. QED
  BY <1>1, AtaInvariant, PTL

(* A request that is off the queue misses nothing. *)
LEMMA InvReadComplete ==
  ASSUME AtaInv
  PROVE  ReadComplete
<1>1. SUFFICES ASSUME NEW t \in Tasks, state[t] = TASK_RUNNING
               PROVE  req[t].buf = Sectors(req[t], req[t].seccount)
  BY DEF ReadComplete
<1>2. ~Queued(t)
  BY <1>1 DEF AtaInv, QueueIsBlockedTasks, TASK_RUNNING, TASK_DISK_READ
<1>3. /\ req[t].sectors_count \in Nat /\ req[t].buf \in Seq(Int)
      /\ Len(req[t].buf) \in Nat
  BY DEF AtaInv, AtaTypeOK, DriverTypeOK
<1>4. req[t].sectors_count = 0
  BY <1>2, <1>3 DEF AtaInv, DriverInv, CountMatchesQueue
<1>5. Len(req[t].buf) = req[t].seccount
  BY <1>3, <1>4 DEF AtaInv, DriverInv, DataInOrder
<1>6. QED
  BY <1>5 DEF AtaInv, DriverInv, DataInOrder

(* A task that runs again after ata_read has the sectors it asked for.     *)
THEOREM AtaReadComplete ==
  ASSUME AtaInitDone
  PROVE  AtaSpec => []ReadComplete
<1>1. AtaInv => ReadComplete
  BY InvReadComplete
<1>2. QED
  BY <1>1, AtaInvariant, PTL

-----------------------------------------------------------------------------
(* The refinement of DiskService.  AskOf and DataOf are the values its     *)
(* variables ask and data have in a state of the driver.                   *)
AskOf == [t \in Tasks |-> [lba |-> req[t].lba, seccount |-> req[t].seccount]]
DataOf == [t \in Tasks |-> IF Queued(t) THEN <<>> ELSE req[t].buf]

(* The call of ata_read submits the request. *)
LEMMA ReadSubmits ==
  ASSUME AtaInv, AtaInv', NEW t \in Tasks, NEW r \in Requests, ata_read(t, r)
  PROVE  /\ ~Queued(t)
         /\ req_queue' = Append(req_queue, t)
         /\ AskOf' = [AskOf EXCEPT ![t] = r]
         /\ DataOf' = [DataOf EXCEPT ![t] = <<>>]
<1>1. ~Queued(t)
  BY DEF ata_read, AtaInv, QueueIsBlockedTasks, TASK_RUNNING, TASK_DISK_READ
<1>2. req_queue' = Append(req_queue, t)
  BY AppendEmpty DEF ata_read, QueueRequest
<1>3. /\ req' = [req EXCEPT ![t] = NewReq(r)]
      /\ state' = [state EXCEPT ![t] = TASK_DISK_READ]
  BY DEF ata_read
<1>4. /\ req'[t].lba = r.lba /\ req'[t].seccount = r.seccount
      /\ \A u \in Tasks \ {t} : req'[u] = req[u]
  BY <1>3 DEF AtaInv, AtaTypeOK, DriverTypeOK, NewReq
<1>5. r = [lba |-> r.lba, seccount |-> r.seccount]
  BY AtaAssumption
<1>6. AskOf' = [AskOf EXCEPT ![t] = r]
  BY <1>4, <1>5 DEF AskOf
<1>7. Queued(t)' /\ \A u \in Tasks \ {t} : Queued(u)' <=> Queued(u)
  BY <1>3 DEF AtaInv, AtaTypeOK, QueueIsBlockedTasks
<1>8. DataOf' = [DataOf EXCEPT ![t] = <<>>]
  BY <1>4, <1>7 DEF DataOf
<1>9. QED
  BY <1>1, <1>2, <1>6, <1>8

(* An interrupt of the drive changes nothing that the service shows, or    *)
(* answers the oldest request.                                             *)
LEMMA IrqAnswers ==
  ASSUME AtaInv, AtaInv', ide_irq1
  PROVE  \/ /\ req_queue' = req_queue /\ AskOf' = AskOf /\ DataOf' = DataOf
         \/ /\ req_queue # <<>>
            /\ req_queue' = Tail(req_queue)
            /\ AskOf' = AskOf
            /\ DataOf' = [DataOf EXCEPT ![Head(req_queue)] =
                 [k \in 1 .. AskOf[Head(req_queue)].seccount |->
                    AskOf[Head(req_queue)].lba + k - 1]]
<1>1. /\ req_queue # <<>> /\ Head(req_queue) \in Tasks
      /\ req[Head(req_queue)].sectors_count \in Nat \ {0}
      /\ dev.drq = TRUE
  BY IrqFindsRequest DEF ide_irq1, AtaInv
<1>2. PICK t \in Tasks : t = Head(req_queue)
  BY <1>1
<1>3. /\ req' = [req EXCEPT ![t] = WithSector(req[t])]
      /\ req[t].sectors_count # 1 => req_queue' = req_queue
      /\ req[t].sectors_count = 1 => req_queue' = Tail(req_queue)
  BY <1>1, <1>2 DEF ide_irq1, ata_process_request, LastSector, StartNext
<1>4. /\ req'[t].lba = req[t].lba /\ req'[t].seccount = req[t].seccount
      /\ req'[t].sectors_count = req[t].sectors_count - 1
      /\ \A u \in Tasks \ {t} : req'[u] = req[u]
  BY <1>3 DEF AtaInv, AtaTypeOK, DriverTypeOK, WithSector
<1>5. AskOf' = AskOf
  BY <1>4 DEF AskOf
<1>6. Queued(t) /\ \A u \in Tasks \ {t} : Queued(u)' <=> Queued(u)
  BY <1>1, <1>2, <1>4 DEF AtaInv, DriverInv, CountMatchesQueue
<1>7. CASE req[t].sectors_count # 1
  <2>1. Queued(t)'
    BY <1>1, <1>2, <1>4, <1>7 DEF AtaInv, DriverInv, CountMatchesQueue
  <2>2. DataOf' = DataOf
    BY <1>4, <1>6, <2>1 DEF DataOf
  <2>3. QED
    BY <1>3, <1>5, <1>7, <2>2
<1>8. CASE req[t].sectors_count = 1
  <2>1. ~Queued(t)' /\ req'[t].sectors_count = 0
    BY <1>4, <1>8 DEF AtaInv, DriverInv, CountMatchesQueue
  <2>2. req'[t].buf \in Seq(Int) /\ Len(req'[t].buf) \in Nat
    BY DEF AtaInv, AtaTypeOK, DriverTypeOK
  <2>3. Len(req'[t].buf) = req'[t].seccount
    BY <2>1, <2>2 DEF AtaInv, DriverInv, DataInOrder
  <2>4. req'[t].buf = Sectors(req'[t], Len(req'[t].buf))
    BY DEF AtaInv, DriverInv, DataInOrder, Sectors
  <2>5. req'[t].buf = [k \in 1 .. req[t].seccount |-> req[t].lba + k - 1]
    BY <1>4, <2>3, <2>4 DEF Sectors
  <2>6. AskOf[t].seccount = req[t].seccount /\ AskOf[t].lba = req[t].lba
    BY DEF AskOf
  <2>7. DataOf' = [DataOf EXCEPT ![t] = req'[t].buf]
    BY <1>4, <1>6, <2>1 DEF DataOf
  <2>8. QED
    BY <1>1, <1>2, <1>3, <1>5, <1>8, <2>5, <2>6, <2>7
<1>9. QED
  BY <1>7, <1>8

(* The interrupt-driven driver of ata.c implements the disk service: to    *)
(* its callers, requests are answered one by one, in the order in which    *)
(* they were made, each with all of its sectors.                           *)
THEOREM AtaRefinesDiskService ==
  ASSUME AtaInitDone
  PROVE  AtaSpec => ImplementsDiskService
<1>1. AtaInit => Disk!Init
  <2>1. SUFFICES ASSUME AtaInit PROVE Disk!Init
    OBVIOUS
  <2>2. \A t \in Tasks : ~Queued(t)
    BY <2>1 DEF AtaInit, Queued
  <2>3. QED
    BY <2>1, <2>2 DEF AtaInit, NoReq, Disk!Init, Disk!Clients, Tasks
<1>2. ASSUME AtaInv, AtaInv', [AtaNext]_atavars
      PROVE  [Disk!Next]_(Disk!vars)
  <2>1. ASSUME NEW t \in Tasks, NEW r \in Requests, ata_read(t, r)
        PROVE  Disk!Submit(t, r)
    BY <1>2, <2>1, ReadSubmits DEF AskOf, DataOf, Disk!Submit, Disk!Waiting, Queued
  <2>2. ASSUME ide_irq1
        PROVE  Disk!Answer \/ UNCHANGED Disk!vars
    BY <1>2, <2>2, IrqAnswers DEF AskOf, DataOf, Disk!Answer, Disk!vars
  <2>3. ASSUME DevSectorReady \/ UNCHANGED atavars
        PROVE  UNCHANGED Disk!vars
    <3>1. req_queue' = req_queue /\ req' = req
      BY <2>3 DEF DevSectorReady, atavars, ataVars
    <3>2. QED
      BY <3>1 DEF Disk!vars, Queued
  <2>4. QED
    BY <1>2, <2>1, <2>2, <2>3 DEF AtaNext, Disk!Next, Disk!Clients, Tasks
<1>3. AtaInv /\ AtaInv' /\ [AtaNext]_atavars => [Disk!Next]_(Disk!vars)
  BY <1>2
<1>4. QED
  BY <1>1, <1>3, AtaInvariant, PTL DEF AtaSpec, ImplementsDiskService, Disk!Spec
=============================================================================
