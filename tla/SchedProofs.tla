---------------------------- MODULE SchedProofs ----------------------------
(***************************************************************************)
(* Proofs about the kernel of module Sched, for every number of tasks,     *)
(* every user program and every interleaving with the interrupts.          *)
(***************************************************************************)
EXTENDS Sched, AtaProofs

(* A pid is positive, so that no task is NULL. *)
LEMMA TaskNat == \A t \in Tasks : t \in Nat /\ t # NULL
BY DEF Tasks, NULL

(* The code of a task that is not about to leave the CPU runs with current *)
(* set to that task.                                                       *)
LEMMA CurrentOnCpu ==
  ASSUME SchedInv, NEW t \in Tasks, cpu = t, ~At(t, "switch_to")
  PROVE  current = t /\ current # NULL
BY TaskNat DEF SchedInv, CurrentIsCpu

(* What syscall_irq calls: wait only with a positive number of ticks. *)
LEMMA DispatchCases ==
  ASSUME NEW call
  PROVE  /\ Dispatch(call) \in {"ata_read", "wait", "sysret"}
         /\ Dispatch(call) = "wait" => call.ebx > 0
BY DEF Dispatch, NR_READ, NR_WAIT

(* The arguments of the system calls are integers. *)
LEMMA ProgramEbx == \A i \in 1 .. Len(Program) : Program[i].ebx \in Int
<1> DEFINE Calls == [nr : Nat, ebx : Int]
<1>1. Program \in Seq(Calls)
  BY SchedAssumption
<1>2. ASSUME NEW C, Program \in Seq(C)
      PROVE  \A i \in 1 .. Len(Program) : Program[i] \in C
  BY <1>2
<1>3. \A i \in 1 .. Len(Program) : Program[i] \in Calls
  BY <1>1, <1>2
<1>4. QED
  BY <1>3

(* The loop of scheduler_tick keeps what SleepOfPlace says of every task.  *)
LEMMA TickKeepsSleep ==
  ASSUME SchedInv, TickSleepers, ra' = ra,
         \A u \in Tasks : pc'[u] \in {pc[u], "lost"}
  PROVE  SleepOfPlace'
<1> USE DEF TASK_NOT_ALLOCATED, TASK_RUNNING, TASK_WAITING, TASK_DISK_READ
<1>1. ASSUME NEW u \in Tasks
      PROVE  /\ state'[u] = TASK_WAITING \/ pc'[u] = "wait_state" => ticks_remaining'[u] > 0
             /\ Returns(u, "wait_ret")' /\ state'[u] = TASK_RUNNING => ticks_remaining'[u] = 0
  <2>1. /\ ticks_remaining[u] \in Int
        /\ state[u] = TASK_WAITING \/ pc[u] = "wait_state" => ticks_remaining[u] > 0
        /\ Returns(u, "wait_ret") /\ state[u] = TASK_RUNNING => ticks_remaining[u] = 0
        /\ state[u] = TASK_WAITING => Returns(u, "wait_ret")
    BY DEF SchedInv, TypeOK, SleepOfPlace, StateOfPlace
  <2>2. /\ pc'[u] \in {pc[u], "lost"}
        /\ Returns(u, "wait_ret")' => Returns(u, "wait_ret")
    BY DEF Returns
  <2>3. CASE state[u] = TASK_WAITING /\ ticks_remaining[u] = 1
    <3>1. state'[u] = TASK_RUNNING /\ ticks_remaining'[u] = 0 /\ pc[u] # "wait_state"
      BY <2>1, <2>3 DEF TickSleepers, Returns
    <3>2. QED
      BY <2>2, <3>1
  <2>4. CASE state[u] = TASK_WAITING /\ ticks_remaining[u] # 1
    <3>1. state'[u] = TASK_WAITING /\ ticks_remaining'[u] = ticks_remaining[u] - 1
      BY <2>4 DEF TickSleepers
    <3>2. QED
      BY <2>1, <2>4, <3>1
  <2>5. CASE state[u] # TASK_WAITING
    <3>1. state'[u] = state[u] /\ ticks_remaining'[u] = ticks_remaining[u]
      BY <2>5 DEF TickSleepers
    <3>2. QED
      BY <2>1, <2>2, <2>5, <3>1
  <2>6. QED
    BY <2>3, <2>4, <2>5
<1>2. QED
  BY <1>1 DEF SleepOfPlace

(* The loop of scheduler_start begins. *)
LEMMA StartedInv ==
  ASSUME SchedInv, panic = NoPanic, Started
  PROVE  SchedInv'
<1> USE SchedAssumption, TaskNat DEF NULL, TASK_NOT_ALLOCATED, TASK_RUNNING, TASK_WAITING, TASK_DISK_READ
<1>1. /\ spc = "start"
      /\ spc' = "scan" /\ slot' = 1
      /\ UNCHANGED <<req_queue, req, dev, irq14, state, panic, ticks_remaining, pc,
                    ra, irq_state, nest, upc, nread, current, esp0, cpu, iflag, found, kstack,
                    pages>>
  BY DEF Started, atavars, ataVars, taskVars, cpuVars, schedVars, memVars
<1>2. DriverInv' /\ \A u \in Tasks : Queued(u)' <=> Queued(u)
  BY <1>1, DriverStutter DEF SchedInv, ataVars
<1>3. TypeOK'
  BY <1>1, <1>2 DEF SchedInv, TypeOK, AtaTypeOK, DriverInv, TaskStates, Labels,
     SchedLabels
<1>4. CpuOwner'
  BY <1>1 DEF SchedInv, TypeOK, AtaTypeOK, CpuOwner
<1>5. CurrentIsCpu'
  BY <1>1 DEF SchedInv, TypeOK, AtaTypeOK, CurrentIsCpu, At
<1>6. OwnKernelStack'
  BY <1>1 DEF SchedInv, TypeOK, AtaTypeOK, OwnKernelStack
<1>7. AllocatedHaveStack'
  BY <1>1 DEF SchedInv, TypeOK, AtaTypeOK, AllocatedHaveStack
<1>8. PlaceWhenOff'
  BY <1>1 DEF SchedInv, TypeOK, AtaTypeOK, PlaceWhenOff
<1>9. StateOfPlace'
  BY <1>1, <1>2 DEF SchedInv, TypeOK, AtaTypeOK, StateOfPlace, Returns
<1>10. SleepOfPlace'
  BY <1>1 DEF SchedInv, TypeOK, AtaTypeOK, SleepOfPlace, Returns
<1>11. ProgramOfPlace'
  BY <1>1 DEF SchedInv, TypeOK, AtaTypeOK, ProgramOfPlace, Returns
<1>12. IrqDiscipline'
  BY <1>1 DEF SchedInv, TypeOK, AtaTypeOK, IrqDiscipline, At
<1>13. NoBug'
  BY <1>1 DEF SchedInv, TypeOK, AtaTypeOK, NoBug
<1>14. QED
  BY <1>2, <1>3, <1>4, <1>5, <1>6, <1>7, <1>8, <1>9, <1>10, <1>11, <1>12, <1>13 DEF SchedInv

(* switch_to sets TSS.esp0 and current. *)
LEMMA SelectTaskInv ==
  ASSUME SchedInv, panic = NoPanic, SelectTask
  PROVE  SchedInv'
<1> USE SchedAssumption, TaskNat DEF NULL, TASK_NOT_ALLOCATED, TASK_RUNNING, TASK_WAITING, TASK_DISK_READ
<1>1. /\ spc = "scan" /\ slot \in Tasks /\ state[slot] = TASK_RUNNING
      /\ esp0' = slot /\ current' = slot /\ spc' = "jump"
      /\ UNCHANGED <<req_queue, req, dev, irq14, state, panic, ticks_remaining, pc,
                    ra, irq_state, nest, upc, nread, cpu, iflag, slot, found, kstack, pages>>
  BY DEF SelectTask, atavars, ataVars, taskVars, cpuVars, schedVars, memVars
<1>2. DriverInv' /\ \A u \in Tasks : Queued(u)' <=> Queued(u)
  BY <1>1, DriverStutter DEF SchedInv, ataVars
<1>3. TypeOK'
  BY <1>1, <1>2 DEF SchedInv, TypeOK, AtaTypeOK, DriverInv, TaskStates, Labels,
     SchedLabels
<1>4. CpuOwner'
  BY <1>1 DEF SchedInv, TypeOK, AtaTypeOK, CpuOwner
<1>5. CurrentIsCpu'
  BY <1>1 DEF SchedInv, TypeOK, AtaTypeOK, CurrentIsCpu, At, CpuOwner
<1>6. OwnKernelStack'
  BY <1>1 DEF SchedInv, TypeOK, AtaTypeOK, OwnKernelStack, CpuOwner
<1>7. AllocatedHaveStack'
  BY <1>1 DEF SchedInv, TypeOK, AtaTypeOK, AllocatedHaveStack
<1>8. PlaceWhenOff'
  BY <1>1 DEF SchedInv, TypeOK, AtaTypeOK, PlaceWhenOff
<1>9. StateOfPlace'
  BY <1>1, <1>2 DEF SchedInv, TypeOK, AtaTypeOK, StateOfPlace, Returns
<1>10. SleepOfPlace'
  BY <1>1 DEF SchedInv, TypeOK, AtaTypeOK, SleepOfPlace, Returns
<1>11. ProgramOfPlace'
  BY <1>1 DEF SchedInv, TypeOK, AtaTypeOK, ProgramOfPlace, Returns
<1>12. IrqDiscipline'
  BY <1>1 DEF SchedInv, TypeOK, AtaTypeOK, IrqDiscipline, At
<1>13. NoBug'
  BY <1>1 DEF SchedInv, TypeOK, AtaTypeOK, NoBug
<1>14. QED
  BY <1>2, <1>3, <1>4, <1>5, <1>6, <1>7, <1>8, <1>9, <1>10, <1>11, <1>12, <1>13 DEF SchedInv

(* A slot without a runnable task is passed over. *)
LEMMA SkipSlotInv ==
  ASSUME SchedInv, panic = NoPanic, SkipSlot
  PROVE  SchedInv'
<1> USE SchedAssumption, TaskNat DEF NULL, TASK_NOT_ALLOCATED, TASK_RUNNING, TASK_WAITING, TASK_DISK_READ
<1>0. slot + 1 \in Nat
  BY DEF SchedInv, TypeOK
<1>1. /\ spc = "scan" /\ slot \in Tasks
      /\ slot' = slot + 1
      /\ UNCHANGED <<req_queue, req, dev, irq14, state, panic, ticks_remaining, pc,
                    ra, irq_state, nest, upc, nread, current, esp0, cpu, iflag, spc, found,
                    kstack, pages>>
  BY <1>0 DEF SkipSlot, atavars, ataVars, taskVars, cpuVars, schedVars, memVars
<1>2. DriverInv' /\ \A u \in Tasks : Queued(u)' <=> Queued(u)
  BY <1>1, DriverStutter DEF SchedInv, ataVars
<1>3. TypeOK'
  BY <1>0, <1>1, <1>2 DEF SchedInv, TypeOK, AtaTypeOK, DriverInv, TaskStates,
     Labels, SchedLabels
<1>4. CpuOwner'
  BY <1>0, <1>1 DEF SchedInv, TypeOK, AtaTypeOK, CpuOwner
<1>5. CurrentIsCpu'
  BY <1>0, <1>1 DEF SchedInv, TypeOK, AtaTypeOK, CurrentIsCpu, At
<1>6. OwnKernelStack'
  BY <1>0, <1>1 DEF SchedInv, TypeOK, AtaTypeOK, OwnKernelStack
<1>7. AllocatedHaveStack'
  BY <1>0, <1>1 DEF SchedInv, TypeOK, AtaTypeOK, AllocatedHaveStack
<1>8. PlaceWhenOff'
  BY <1>0, <1>1 DEF SchedInv, TypeOK, AtaTypeOK, PlaceWhenOff
<1>9. StateOfPlace'
  BY <1>0, <1>1, <1>2 DEF SchedInv, TypeOK, AtaTypeOK, StateOfPlace, Returns
<1>10. SleepOfPlace'
  BY <1>0, <1>1 DEF SchedInv, TypeOK, AtaTypeOK, SleepOfPlace, Returns
<1>11. ProgramOfPlace'
  BY <1>0, <1>1 DEF SchedInv, TypeOK, AtaTypeOK, ProgramOfPlace, Returns
<1>12. IrqDiscipline'
  BY <1>0, <1>1 DEF SchedInv, TypeOK, AtaTypeOK, IrqDiscipline, At
<1>13. NoBug'
  BY <1>0, <1>1 DEF SchedInv, TypeOK, AtaTypeOK, NoBug
<1>14. QED
  BY <1>2, <1>3, <1>4, <1>5, <1>6, <1>7, <1>8, <1>9, <1>10, <1>11, <1>12, <1>13 DEF SchedInv

(* A pass over tasks[] ends. *)
LEMMA EndOfPassInv ==
  ASSUME SchedInv, panic = NoPanic, EndOfPass
  PROVE  SchedInv'
<1> USE SchedAssumption, TaskNat DEF NULL, TASK_NOT_ALLOCATED, TASK_RUNNING, TASK_WAITING, TASK_DISK_READ
<1>1. /\ spc = "scan"
      /\ slot' = 1 /\ found' = FALSE
      /\ spc' \in {"scan", "sti"}
      /\ UNCHANGED <<req_queue, req, dev, irq14, state, panic, ticks_remaining, pc,
                    ra, irq_state, nest, upc, nread, current, esp0, cpu, iflag, kstack, pages>>
  BY DEF EndOfPass, atavars, ataVars, taskVars, cpuVars, schedVars, memVars
<1>2. DriverInv' /\ \A u \in Tasks : Queued(u)' <=> Queued(u)
  BY <1>1, DriverStutter DEF SchedInv, ataVars
<1>3. TypeOK'
  BY <1>1, <1>2 DEF SchedInv, TypeOK, AtaTypeOK, DriverInv, TaskStates, Labels,
     SchedLabels
<1>4. CpuOwner'
  BY <1>1 DEF SchedInv, TypeOK, AtaTypeOK, CpuOwner
<1>5. CurrentIsCpu'
  BY <1>1 DEF SchedInv, TypeOK, AtaTypeOK, CurrentIsCpu, At
<1>6. OwnKernelStack'
  BY <1>1 DEF SchedInv, TypeOK, AtaTypeOK, OwnKernelStack
<1>7. AllocatedHaveStack'
  BY <1>1 DEF SchedInv, TypeOK, AtaTypeOK, AllocatedHaveStack
<1>8. PlaceWhenOff'
  BY <1>1 DEF SchedInv, TypeOK, AtaTypeOK, PlaceWhenOff
<1>9. StateOfPlace'
  BY <1>1, <1>2 DEF SchedInv, TypeOK, AtaTypeOK, StateOfPlace, Returns
<1>10. SleepOfPlace'
  BY <1>1 DEF SchedInv, TypeOK, AtaTypeOK, SleepOfPlace, Returns
<1>11. ProgramOfPlace'
  BY <1>1 DEF SchedInv, TypeOK, AtaTypeOK, ProgramOfPlace, Returns
<1>12. IrqDiscipline'
  BY <1>1 DEF SchedInv, TypeOK, AtaTypeOK, IrqDiscipline, At
<1>13. NoBug'
  BY <1>1 DEF SchedInv, TypeOK, AtaTypeOK, NoBug
<1>14. QED
  BY <1>2, <1>3, <1>4, <1>5, <1>6, <1>7, <1>8, <1>9, <1>10, <1>11, <1>12, <1>13 DEF SchedInv

(* Idle: sti. *)
LEMMA EnableIrqInv ==
  ASSUME SchedInv, panic = NoPanic, EnableIrq
  PROVE  SchedInv'
<1> USE SchedAssumption, TaskNat DEF NULL, TASK_NOT_ALLOCATED, TASK_RUNNING, TASK_WAITING, TASK_DISK_READ
<1>1. /\ spc = "sti"
      /\ iflag' = TRUE /\ spc' = "pre_hlt"
      /\ UNCHANGED <<req_queue, req, dev, irq14, state, panic, ticks_remaining, pc,
                    ra, irq_state, nest, upc, nread, current, esp0, cpu, slot, found, kstack,
                    pages>>
  BY DEF EnableIrq, atavars, ataVars, taskVars, cpuVars, schedVars, memVars
<1>2. DriverInv' /\ \A u \in Tasks : Queued(u)' <=> Queued(u)
  BY <1>1, DriverStutter DEF SchedInv, ataVars
<1>3. TypeOK'
  BY <1>1, <1>2 DEF SchedInv, TypeOK, AtaTypeOK, DriverInv, TaskStates, Labels,
     SchedLabels
<1>4. CpuOwner'
  BY <1>1 DEF SchedInv, TypeOK, AtaTypeOK, CpuOwner
<1>5. CurrentIsCpu'
  BY <1>1 DEF SchedInv, TypeOK, AtaTypeOK, CurrentIsCpu, At
<1>6. OwnKernelStack'
  BY <1>1 DEF SchedInv, TypeOK, AtaTypeOK, OwnKernelStack
<1>7. AllocatedHaveStack'
  BY <1>1 DEF SchedInv, TypeOK, AtaTypeOK, AllocatedHaveStack
<1>8. PlaceWhenOff'
  BY <1>1 DEF SchedInv, TypeOK, AtaTypeOK, PlaceWhenOff
<1>9. StateOfPlace'
  BY <1>1, <1>2 DEF SchedInv, TypeOK, AtaTypeOK, StateOfPlace, Returns
<1>10. SleepOfPlace'
  BY <1>1 DEF SchedInv, TypeOK, AtaTypeOK, SleepOfPlace, Returns
<1>11. ProgramOfPlace'
  BY <1>1 DEF SchedInv, TypeOK, AtaTypeOK, ProgramOfPlace, Returns
<1>12. IrqDiscipline'
  BY <1>1 DEF SchedInv, TypeOK, AtaTypeOK, IrqDiscipline, At, CpuOwner
<1>13. NoBug'
  BY <1>1 DEF SchedInv, TypeOK, AtaTypeOK, NoBug
<1>14. QED
  BY <1>2, <1>3, <1>4, <1>5, <1>6, <1>7, <1>8, <1>9, <1>10, <1>11, <1>12, <1>13 DEF SchedInv

(* Idle: hlt. *)
LEMMA DoIdleInv ==
  ASSUME SchedInv, panic = NoPanic, DoIdle
  PROVE  SchedInv'
<1> USE SchedAssumption, TaskNat DEF NULL, TASK_NOT_ALLOCATED, TASK_RUNNING, TASK_WAITING, TASK_DISK_READ
<1>1. /\ spc = "pre_hlt"
      /\ spc' = "hlt"
      /\ UNCHANGED <<req_queue, req, dev, irq14, state, panic, ticks_remaining, pc,
                    ra, irq_state, nest, upc, nread, current, esp0, cpu, iflag, slot, found,
                    kstack, pages>>
  BY DEF DoIdle, atavars, ataVars, taskVars, cpuVars, schedVars, memVars
<1>2. DriverInv' /\ \A u \in Tasks : Queued(u)' <=> Queued(u)
  BY <1>1, DriverStutter DEF SchedInv, ataVars
<1>3. TypeOK'
  BY <1>1, <1>2 DEF SchedInv, TypeOK, AtaTypeOK, DriverInv, TaskStates, Labels,
     SchedLabels
<1>4. CpuOwner'
  BY <1>1 DEF SchedInv, TypeOK, AtaTypeOK, CpuOwner
<1>5. CurrentIsCpu'
  BY <1>1 DEF SchedInv, TypeOK, AtaTypeOK, CurrentIsCpu, At
<1>6. OwnKernelStack'
  BY <1>1 DEF SchedInv, TypeOK, AtaTypeOK, OwnKernelStack
<1>7. AllocatedHaveStack'
  BY <1>1 DEF SchedInv, TypeOK, AtaTypeOK, AllocatedHaveStack
<1>8. PlaceWhenOff'
  BY <1>1 DEF SchedInv, TypeOK, AtaTypeOK, PlaceWhenOff
<1>9. StateOfPlace'
  BY <1>1, <1>2 DEF SchedInv, TypeOK, AtaTypeOK, StateOfPlace, Returns
<1>10. SleepOfPlace'
  BY <1>1 DEF SchedInv, TypeOK, AtaTypeOK, SleepOfPlace, Returns
<1>11. ProgramOfPlace'
  BY <1>1 DEF SchedInv, TypeOK, AtaTypeOK, ProgramOfPlace, Returns
<1>12. IrqDiscipline'
  BY <1>1 DEF SchedInv, TypeOK, AtaTypeOK, IrqDiscipline, At
<1>13. NoBug'
  BY <1>1 DEF SchedInv, TypeOK, AtaTypeOK, NoBug
<1>14. QED
  BY <1>2, <1>3, <1>4, <1>5, <1>6, <1>7, <1>8, <1>9, <1>10, <1>11, <1>12, <1>13 DEF SchedInv

(* Idle: cli. *)
LEMMA DisableIrqInv ==
  ASSUME SchedInv, panic = NoPanic, DisableIrq
  PROVE  SchedInv'
<1> USE SchedAssumption, TaskNat DEF NULL, TASK_NOT_ALLOCATED, TASK_RUNNING, TASK_WAITING, TASK_DISK_READ
<1>1. /\ spc = "cli"
      /\ iflag' = FALSE /\ spc' = "scan"
      /\ UNCHANGED <<req_queue, req, dev, irq14, state, panic, ticks_remaining, pc,
                    ra, irq_state, nest, upc, nread, current, esp0, cpu, slot, found, kstack,
                    pages>>
  BY DEF DisableIrq, atavars, ataVars, taskVars, cpuVars, schedVars, memVars
<1>2. DriverInv' /\ \A u \in Tasks : Queued(u)' <=> Queued(u)
  BY <1>1, DriverStutter DEF SchedInv, ataVars
<1>3. TypeOK'
  BY <1>1, <1>2 DEF SchedInv, TypeOK, AtaTypeOK, DriverInv, TaskStates, Labels,
     SchedLabels
<1>4. CpuOwner'
  BY <1>1 DEF SchedInv, TypeOK, AtaTypeOK, CpuOwner
<1>5. CurrentIsCpu'
  BY <1>1 DEF SchedInv, TypeOK, AtaTypeOK, CurrentIsCpu, At
<1>6. OwnKernelStack'
  BY <1>1 DEF SchedInv, TypeOK, AtaTypeOK, OwnKernelStack
<1>7. AllocatedHaveStack'
  BY <1>1 DEF SchedInv, TypeOK, AtaTypeOK, AllocatedHaveStack
<1>8. PlaceWhenOff'
  BY <1>1 DEF SchedInv, TypeOK, AtaTypeOK, PlaceWhenOff
<1>9. StateOfPlace'
  BY <1>1, <1>2 DEF SchedInv, TypeOK, AtaTypeOK, StateOfPlace, Returns
<1>10. SleepOfPlace'
  BY <1>1 DEF SchedInv, TypeOK, AtaTypeOK, SleepOfPlace, Returns
<1>11. ProgramOfPlace'
  BY <1>1 DEF SchedInv, TypeOK, AtaTypeOK, ProgramOfPlace, Returns
<1>12. IrqDiscipline'
  BY <1>1 DEF SchedInv, TypeOK, AtaTypeOK, IrqDiscipline, At, CpuOwner
<1>13. NoBug'
  BY <1>1 DEF SchedInv, TypeOK, AtaTypeOK, NoBug
<1>14. QED
  BY <1>2, <1>3, <1>4, <1>5, <1>6, <1>7, <1>8, <1>9, <1>10, <1>11, <1>12, <1>13 DEF SchedInv

(* A new task starts. *)
LEMMA TaskInitInv ==
  ASSUME SchedInv, panic = NoPanic, NEW t \in Tasks, task_init(t)
  PROVE  SchedInv'
<1> USE SchedAssumption, TaskNat DEF NULL, TASK_NOT_ALLOCATED, TASK_RUNNING, TASK_WAITING, TASK_DISK_READ
<1>0. current = t /\ current # NULL /\ cpu = t /\ nest[t] = 0 /\ pc[t] = "task_init"
  BY CurrentOnCpu DEF At, task_init
<1>1. /\ cpu = t /\ nest[t] = 0 /\ pc[t] = "task_init"
      /\ pc' = [pc EXCEPT ![t] = IF t = 1 THEN "init_late" ELSE "jump_userspace"]
      /\ UNCHANGED <<req_queue, req, dev, irq14, state, panic, ticks_remaining, ra,
                    irq_state, nest, upc, nread, current, esp0, cpu, iflag, spc, slot, found,
                    kstack, pages>>
  BY <1>0 DEF task_init, At, Goto, atavars, ataVars, taskVars, cpuVars, schedVars,
     memVars
<1>2. DriverInv' /\ \A u \in Tasks : Queued(u)' <=> Queued(u)
  BY <1>1, DriverStutter DEF SchedInv, ataVars
<1>3. TypeOK'
  BY <1>0, <1>1, <1>2 DEF SchedInv, TypeOK, AtaTypeOK, DriverInv, TaskStates,
     Labels, SchedLabels
<1>4. CpuOwner'
  BY <1>0, <1>1 DEF SchedInv, TypeOK, AtaTypeOK, CpuOwner
<1>5. CurrentIsCpu'
  BY <1>0, <1>1 DEF SchedInv, TypeOK, AtaTypeOK, CurrentIsCpu, At
<1>6. OwnKernelStack'
  BY <1>0, <1>1 DEF SchedInv, TypeOK, AtaTypeOK, OwnKernelStack
<1>7. AllocatedHaveStack'
  BY <1>0, <1>1 DEF SchedInv, TypeOK, AtaTypeOK, AllocatedHaveStack
<1>8. PlaceWhenOff'
  BY <1>0, <1>1 DEF SchedInv, TypeOK, AtaTypeOK, PlaceWhenOff
<1>9. StateOfPlace'
  BY <1>0, <1>1, <1>2 DEF SchedInv, TypeOK, AtaTypeOK, StateOfPlace, Returns
<1>10. SleepOfPlace'
  BY <1>0, <1>1 DEF SchedInv, TypeOK, AtaTypeOK, SleepOfPlace, Returns
<1>11. ProgramOfPlace'
  BY <1>0, <1>1 DEF SchedInv, TypeOK, AtaTypeOK, ProgramOfPlace, Returns
<1>12. IrqDiscipline'
  BY <1>0, <1>1 DEF SchedInv, TypeOK, AtaTypeOK, IrqDiscipline, At
<1>13. NoBug'
  BY <1>0, <1>1 DEF SchedInv, TypeOK, AtaTypeOK, NoBug
<1>14. QED
  BY <1>2, <1>3, <1>4, <1>5, <1>6, <1>7, <1>8, <1>9, <1>10, <1>11, <1>12, <1>13 DEF SchedInv

(* init_late reads the next block or returns. *)
LEMMA InitLateInv ==
  ASSUME SchedInv, panic = NoPanic, NEW t \in Tasks, init_late(t)
  PROVE  SchedInv'
<1> USE SchedAssumption, TaskNat DEF NULL, TASK_NOT_ALLOCATED, TASK_RUNNING, TASK_WAITING, TASK_DISK_READ
<1>0. current = t /\ current # NULL /\ cpu = t /\ nest[t] = 0 /\ pc[t] = "init_late"
  BY CurrentOnCpu DEF At, init_late
<1>1. /\ cpu = t /\ nest[t] = 0 /\ pc[t] = "init_late"
      /\ pc' = [pc EXCEPT ![t] = IF nread < Len(InitReads) THEN "ata_read" ELSE "jump_userspace"]
      /\ UNCHANGED <<req_queue, req, dev, irq14, state, panic, ticks_remaining, ra,
                    irq_state, nest, upc, nread, current, esp0, cpu, iflag, spc, slot, found,
                    kstack, pages>>
  BY <1>0 DEF init_late, At, Goto, atavars, ataVars, taskVars, cpuVars, schedVars,
     memVars
<1>2. DriverInv' /\ \A u \in Tasks : Queued(u)' <=> Queued(u)
  BY <1>1, DriverStutter DEF SchedInv, ataVars
<1>3. TypeOK'
  BY <1>0, <1>1, <1>2 DEF SchedInv, TypeOK, AtaTypeOK, DriverInv, TaskStates,
     Labels, SchedLabels
<1>4. CpuOwner'
  BY <1>0, <1>1 DEF SchedInv, TypeOK, AtaTypeOK, CpuOwner
<1>5. CurrentIsCpu'
  BY <1>0, <1>1 DEF SchedInv, TypeOK, AtaTypeOK, CurrentIsCpu, At
<1>6. OwnKernelStack'
  BY <1>0, <1>1 DEF SchedInv, TypeOK, AtaTypeOK, OwnKernelStack
<1>7. AllocatedHaveStack'
  BY <1>0, <1>1 DEF SchedInv, TypeOK, AtaTypeOK, AllocatedHaveStack
<1>8. PlaceWhenOff'
  BY <1>0, <1>1 DEF SchedInv, TypeOK, AtaTypeOK, PlaceWhenOff
<1>9. StateOfPlace'
  BY <1>0, <1>1, <1>2 DEF SchedInv, TypeOK, AtaTypeOK, StateOfPlace, Returns
<1>10. SleepOfPlace'
  BY <1>0, <1>1 DEF SchedInv, TypeOK, AtaTypeOK, SleepOfPlace, Returns
<1>11. ProgramOfPlace'
  BY <1>0, <1>1 DEF SchedInv, TypeOK, AtaTypeOK, ProgramOfPlace, Returns
<1>12. IrqDiscipline'
  BY <1>0, <1>1 DEF SchedInv, TypeOK, AtaTypeOK, IrqDiscipline, At
<1>13. NoBug'
  BY <1>0, <1>1 DEF SchedInv, TypeOK, AtaTypeOK, NoBug
<1>14. QED
  BY <1>2, <1>3, <1>4, <1>5, <1>6, <1>7, <1>8, <1>9, <1>10, <1>11, <1>12, <1>13 DEF SchedInv

(* A task enters user space. *)
LEMMA JumpUserspaceInv ==
  ASSUME SchedInv, panic = NoPanic, NEW t \in Tasks, jump_userspace(t)
  PROVE  SchedInv'
<1> USE SchedAssumption, TaskNat DEF NULL, TASK_NOT_ALLOCATED, TASK_RUNNING, TASK_WAITING, TASK_DISK_READ
<1>0. current = t /\ current # NULL /\ cpu = t /\ nest[t] = 0 /\ pc[t] = "jump_userspace"
  BY CurrentOnCpu DEF At, jump_userspace
<1>1. /\ cpu = t /\ nest[t] = 0 /\ pc[t] = "jump_userspace"
      /\ pc' = [pc EXCEPT ![t] = "user"]
      /\ iflag' = TRUE /\ upc' = [upc EXCEPT ![t] = 1]
      /\ UNCHANGED <<req_queue, req, dev, irq14, state, panic, ticks_remaining, ra,
                    irq_state, nest, nread, current, esp0, cpu, spc, slot, found, kstack,
                    pages>>
  BY <1>0 DEF jump_userspace, At, Goto, atavars, ataVars, taskVars, cpuVars,
     schedVars, memVars
<1>2. DriverInv' /\ \A u \in Tasks : Queued(u)' <=> Queued(u)
  BY <1>1, DriverStutter DEF SchedInv, ataVars
<1>3. TypeOK'
  BY <1>0, <1>1, <1>2 DEF SchedInv, TypeOK, AtaTypeOK, DriverInv, TaskStates,
     Labels, SchedLabels
<1>4. CpuOwner'
  BY <1>0, <1>1 DEF SchedInv, TypeOK, AtaTypeOK, CpuOwner
<1>5. CurrentIsCpu'
  BY <1>0, <1>1 DEF SchedInv, TypeOK, AtaTypeOK, CurrentIsCpu, At
<1>6. OwnKernelStack'
  BY <1>0, <1>1 DEF SchedInv, TypeOK, AtaTypeOK, OwnKernelStack
<1>7. AllocatedHaveStack'
  BY <1>0, <1>1 DEF SchedInv, TypeOK, AtaTypeOK, AllocatedHaveStack
<1>8. PlaceWhenOff'
  BY <1>0, <1>1 DEF SchedInv, TypeOK, AtaTypeOK, PlaceWhenOff
<1>9. StateOfPlace'
  BY <1>0, <1>1, <1>2 DEF SchedInv, TypeOK, AtaTypeOK, StateOfPlace, Returns
<1>10. SleepOfPlace'
  BY <1>0, <1>1 DEF SchedInv, TypeOK, AtaTypeOK, SleepOfPlace, Returns
<1>11. ProgramOfPlace'
  BY <1>0, <1>1 DEF SchedInv, TypeOK, AtaTypeOK, ProgramOfPlace, Returns
<1>12. IrqDiscipline'
  BY <1>0, <1>1 DEF SchedInv, TypeOK, AtaTypeOK, IrqDiscipline, At
<1>13. NoBug'
  BY <1>0, <1>1 DEF SchedInv, TypeOK, AtaTypeOK, NoBug
<1>14. QED
  BY <1>2, <1>3, <1>4, <1>5, <1>6, <1>7, <1>8, <1>9, <1>10, <1>11, <1>12, <1>13 DEF SchedInv

(* A task makes a system call. *)
LEMMA Int80Inv ==
  ASSUME SchedInv, panic = NoPanic, NEW t \in Tasks, Int80(t)
  PROVE  SchedInv'
<1> USE SchedAssumption, TaskNat DEF NULL, TASK_NOT_ALLOCATED, TASK_RUNNING, TASK_WAITING, TASK_DISK_READ
<1>0. current = t /\ current # NULL /\ cpu = t /\ nest[t] = 0 /\ pc[t] = "user"
  BY CurrentOnCpu DEF At, Int80
<1>1. /\ cpu = t /\ nest[t] = 0 /\ pc[t] = "user"
      /\ pc' = [pc EXCEPT ![t] = "syscall_irq"]
      /\ UNCHANGED <<req_queue, req, dev, irq14, state, panic, ticks_remaining, ra,
                    irq_state, nest, upc, nread, current, esp0, cpu, iflag, spc, slot, found,
                    kstack, pages>>
  BY <1>0 DEF Int80, At, Goto, atavars, ataVars, taskVars, cpuVars, schedVars,
     memVars
<1>2. DriverInv' /\ \A u \in Tasks : Queued(u)' <=> Queued(u)
  BY <1>1, DriverStutter DEF SchedInv, ataVars
<1>3. TypeOK'
  BY <1>0, <1>1, <1>2 DEF SchedInv, TypeOK, AtaTypeOK, DriverInv, TaskStates,
     Labels, SchedLabels
<1>4. CpuOwner'
  BY <1>0, <1>1 DEF SchedInv, TypeOK, AtaTypeOK, CpuOwner
<1>5. CurrentIsCpu'
  BY <1>0, <1>1 DEF SchedInv, TypeOK, AtaTypeOK, CurrentIsCpu, At
<1>6. OwnKernelStack'
  BY <1>0, <1>1 DEF SchedInv, TypeOK, AtaTypeOK, OwnKernelStack
<1>7. AllocatedHaveStack'
  BY <1>0, <1>1 DEF SchedInv, TypeOK, AtaTypeOK, AllocatedHaveStack
<1>8. PlaceWhenOff'
  BY <1>0, <1>1 DEF SchedInv, TypeOK, AtaTypeOK, PlaceWhenOff
<1>9. StateOfPlace'
  BY <1>0, <1>1, <1>2 DEF SchedInv, TypeOK, AtaTypeOK, StateOfPlace, Returns
<1>10. SleepOfPlace'
  BY <1>0, <1>1 DEF SchedInv, TypeOK, AtaTypeOK, SleepOfPlace, Returns
<1>11. ProgramOfPlace'
  BY <1>0, <1>1 DEF SchedInv, TypeOK, AtaTypeOK, ProgramOfPlace, Returns
<1>12. IrqDiscipline'
  BY <1>0, <1>1 DEF SchedInv, TypeOK, AtaTypeOK, IrqDiscipline, At
<1>13. NoBug'
  BY <1>0, <1>1 DEF SchedInv, TypeOK, AtaTypeOK, NoBug
<1>14. QED
  BY <1>2, <1>3, <1>4, <1>5, <1>6, <1>7, <1>8, <1>9, <1>10, <1>11, <1>12, <1>13 DEF SchedInv

(* syscall_irq calls the handler of the system call. *)
LEMMA SyscallInv ==
  ASSUME SchedInv, panic = NoPanic, NEW t \in Tasks, syscall_irq(t)
  PROVE  SchedInv'
<1> USE SchedAssumption, TaskNat DEF NULL, TASK_NOT_ALLOCATED, TASK_RUNNING, TASK_WAITING, TASK_DISK_READ
<1>0. current = t /\ current # NULL /\ cpu = t /\ nest[t] = 0 /\ pc[t] = "syscall_irq"
  BY CurrentOnCpu DEF At, syscall_irq
<1>1. /\ cpu = t /\ nest[t] = 0 /\ pc[t] = "syscall_irq"
      /\ pc' = [pc EXCEPT ![t] = Dispatch(Program[upc[t]])]
      /\ UNCHANGED <<req_queue, req, dev, irq14, state, panic, ticks_remaining, ra,
                    irq_state, nest, upc, nread, current, esp0, cpu, iflag, spc, slot, found,
                    kstack, pages>>
  BY <1>0 DEF syscall_irq, At, Goto, atavars, ataVars, taskVars, cpuVars, schedVars,
     memVars
<1>2. DriverInv' /\ \A u \in Tasks : Queued(u)' <=> Queued(u)
  BY <1>1, DriverStutter DEF SchedInv, ataVars
<1>3. TypeOK'
  BY <1>0, <1>1, <1>2, DispatchCases DEF SchedInv, TypeOK, AtaTypeOK, DriverInv,
     TaskStates, Labels, SchedLabels
<1>4. CpuOwner'
  BY <1>0, <1>1 DEF SchedInv, TypeOK, AtaTypeOK, CpuOwner
<1>5. CurrentIsCpu'
  BY <1>0, <1>1, DispatchCases DEF SchedInv, TypeOK, AtaTypeOK, CurrentIsCpu, At
<1>6. OwnKernelStack'
  BY <1>0, <1>1 DEF SchedInv, TypeOK, AtaTypeOK, OwnKernelStack
<1>7. AllocatedHaveStack'
  BY <1>0, <1>1 DEF SchedInv, TypeOK, AtaTypeOK, AllocatedHaveStack
<1>8. PlaceWhenOff'
  BY <1>0, <1>1, DispatchCases DEF SchedInv, TypeOK, AtaTypeOK, PlaceWhenOff
<1>9. StateOfPlace'
  BY <1>0, <1>1, <1>2, DispatchCases DEF SchedInv, TypeOK, AtaTypeOK, StateOfPlace,
     Returns
<1>10. SleepOfPlace'
  BY <1>0, <1>1, DispatchCases DEF SchedInv, TypeOK, AtaTypeOK, SleepOfPlace,
     Returns
<1>11. ProgramOfPlace'
  BY <1>0, <1>1, DispatchCases DEF SchedInv, TypeOK, AtaTypeOK, ProgramOfPlace,
     Returns
<1>12. IrqDiscipline'
  BY <1>0, <1>1, DispatchCases DEF SchedInv, TypeOK, AtaTypeOK, IrqDiscipline, At
<1>13. NoBug'
  BY <1>0, <1>1 DEF SchedInv, TypeOK, AtaTypeOK, NoBug
<1>14. QED
  BY <1>2, <1>3, <1>4, <1>5, <1>6, <1>7, <1>8, <1>9, <1>10, <1>11, <1>12, <1>13 DEF SchedInv

(* syscall_wait sets ticks_remaining. *)
LEMMA WaitInv ==
  ASSUME SchedInv, panic = NoPanic, NEW t \in Tasks, syscall_wait(t)
  PROVE  SchedInv'
<1> USE SchedAssumption, TaskNat DEF NULL, TASK_NOT_ALLOCATED, TASK_RUNNING, TASK_WAITING, TASK_DISK_READ
<1>0. /\ current = t /\ cpu = t /\ nest[t] = 0 /\ pc[t] = "wait"
      /\ upc[t] \in 1 .. Len(Program)
  <2>1. current = t /\ cpu = t /\ nest[t] = 0 /\ pc[t] = "wait"
    BY CurrentOnCpu DEF At, syscall_wait
  <2>2. QED
    BY <2>1 DEF SchedInv, TypeOK, ProgramOfPlace
<1>1. /\ cpu = t /\ nest[t] = 0 /\ pc[t] = "wait"
      /\ pc' = [pc EXCEPT ![t] = "wait_state"]
      /\ ticks_remaining' = [ticks_remaining EXCEPT ![t] = Program[upc[t]].ebx]
      /\ UNCHANGED <<req_queue, req, dev, irq14, state, panic, ra, irq_state, nest,
                    upc, nread, current, esp0, cpu, iflag, spc, slot, found, kstack, pages>>
  BY <1>0 DEF syscall_wait, At, Goto, atavars, ataVars, taskVars, cpuVars,
     schedVars, memVars
<1>2. DriverInv' /\ \A u \in Tasks : Queued(u)' <=> Queued(u)
  BY <1>1, DriverStutter DEF SchedInv, ataVars
<1>3. TypeOK'
  BY <1>0, <1>1, <1>2, ProgramEbx DEF SchedInv, TypeOK, AtaTypeOK, DriverInv,
     TaskStates, Labels, SchedLabels
<1>4. CpuOwner'
  BY <1>0, <1>1 DEF SchedInv, TypeOK, AtaTypeOK, CpuOwner
<1>5. CurrentIsCpu'
  BY <1>0, <1>1 DEF SchedInv, TypeOK, AtaTypeOK, CurrentIsCpu, At
<1>6. OwnKernelStack'
  BY <1>0, <1>1 DEF SchedInv, TypeOK, AtaTypeOK, OwnKernelStack
<1>7. AllocatedHaveStack'
  BY <1>0, <1>1 DEF SchedInv, TypeOK, AtaTypeOK, AllocatedHaveStack
<1>8. PlaceWhenOff'
  BY <1>0, <1>1 DEF SchedInv, TypeOK, AtaTypeOK, PlaceWhenOff
<1>9. StateOfPlace'
  BY <1>0, <1>1, <1>2 DEF SchedInv, TypeOK, AtaTypeOK, StateOfPlace, Returns
<1>10. SleepOfPlace'
  BY <1>0, <1>1, ProgramEbx DEF SchedInv, TypeOK, AtaTypeOK, SleepOfPlace, Returns,
     ProgramOfPlace, StateOfPlace
<1>11. ProgramOfPlace'
  BY <1>0, <1>1 DEF SchedInv, TypeOK, AtaTypeOK, ProgramOfPlace, Returns
<1>12. IrqDiscipline'
  BY <1>0, <1>1 DEF SchedInv, TypeOK, AtaTypeOK, IrqDiscipline, At
<1>13. NoBug'
  BY <1>0, <1>1 DEF SchedInv, TypeOK, AtaTypeOK, NoBug
<1>14. QED
  BY <1>2, <1>3, <1>4, <1>5, <1>6, <1>7, <1>8, <1>9, <1>10, <1>11, <1>12, <1>13 DEF SchedInv

(* syscall_wait puts the task to sleep. *)
LEMMA WaitStateInv ==
  ASSUME SchedInv, panic = NoPanic, NEW t \in Tasks, syscall_wait_state(t)
  PROVE  SchedInv'
<1> USE SchedAssumption, TaskNat DEF NULL, TASK_NOT_ALLOCATED, TASK_RUNNING, TASK_WAITING, TASK_DISK_READ
<1>0. current = t /\ current # NULL /\ cpu = t /\ nest[t] = 0 /\ pc[t] = "wait_state"
  BY CurrentOnCpu DEF At, syscall_wait_state
<1>1. /\ cpu = t /\ nest[t] = 0 /\ pc[t] = "wait_state"
      /\ pc' = [pc EXCEPT ![t] = "reschedule"]
      /\ state' = [state EXCEPT ![t] = TASK_WAITING]
      /\ ra' = [ra EXCEPT ![t] = "wait_ret"]
      /\ UNCHANGED <<req_queue, req, dev, irq14, panic, ticks_remaining, irq_state,
                    nest, upc, nread, current, esp0, cpu, iflag, spc, slot, found, kstack,
                    pages>>
  BY <1>0 DEF syscall_wait_state, At, Goto, atavars, ataVars, taskVars, cpuVars,
     schedVars, memVars
<1>2. DriverInv' /\ \A u \in Tasks : Queued(u)' <=> Queued(u)
  BY <1>1, DriverStutter DEF SchedInv, ataVars
<1>3. TypeOK'
  BY <1>0, <1>1, <1>2 DEF SchedInv, TypeOK, AtaTypeOK, DriverInv, TaskStates,
     Labels, SchedLabels
<1>4. CpuOwner'
  BY <1>0, <1>1 DEF SchedInv, TypeOK, AtaTypeOK, CpuOwner
<1>5. CurrentIsCpu'
  BY <1>0, <1>1 DEF SchedInv, TypeOK, AtaTypeOK, CurrentIsCpu, At
<1>6. OwnKernelStack'
  BY <1>0, <1>1 DEF SchedInv, TypeOK, AtaTypeOK, OwnKernelStack
<1>7. AllocatedHaveStack'
  BY <1>0, <1>1 DEF SchedInv, TypeOK, AtaTypeOK, AllocatedHaveStack, StateOfPlace,
     OwnKernelStack
<1>8. PlaceWhenOff'
  BY <1>0, <1>1 DEF SchedInv, TypeOK, AtaTypeOK, PlaceWhenOff
<1>9. StateOfPlace'
  BY <1>0, <1>1, <1>2 DEF SchedInv, TypeOK, AtaTypeOK, StateOfPlace, Returns
<1>10. SleepOfPlace'
  BY <1>0, <1>1 DEF SchedInv, TypeOK, AtaTypeOK, SleepOfPlace, Returns
<1>11. ProgramOfPlace'
  BY <1>0, <1>1 DEF SchedInv, TypeOK, AtaTypeOK, ProgramOfPlace, Returns
<1>12. IrqDiscipline'
  BY <1>0, <1>1 DEF SchedInv, TypeOK, AtaTypeOK, IrqDiscipline, At
<1>13. NoBug'
  BY <1>0, <1>1 DEF SchedInv, TypeOK, AtaTypeOK, NoBug
<1>14. QED
  BY <1>2, <1>3, <1>4, <1>5, <1>6, <1>7, <1>8, <1>9, <1>10, <1>11, <1>12, <1>13 DEF SchedInv

(* ata_read disables interrupts. *)
LEMMA ReadBeginInv ==
  ASSUME SchedInv, panic = NoPanic, NEW t \in Tasks, ata_read_begin(t)
  PROVE  SchedInv'
<1> USE SchedAssumption, TaskNat DEF NULL, TASK_NOT_ALLOCATED, TASK_RUNNING, TASK_WAITING, TASK_DISK_READ
<1>0. current = t /\ current # NULL /\ cpu = t /\ nest[t] = 0 /\ pc[t] = "ata_read"
  BY CurrentOnCpu DEF At, ata_read_begin
<1>1. /\ cpu = t /\ nest[t] = 0 /\ pc[t] = "ata_read"
      /\ pc' = [pc EXCEPT ![t] = "ata_state"]
      /\ irq_state' = [irq_state EXCEPT ![t] = iflag]
      /\ iflag' = FALSE
      /\ UNCHANGED <<req_queue, req, dev, irq14, state, panic, ticks_remaining, ra,
                    nest, upc, nread, current, esp0, cpu, spc, slot, found, kstack, pages>>
  BY <1>0 DEF ata_read_begin, At, Goto, atavars, ataVars, taskVars, cpuVars,
     schedVars, memVars
<1>2. DriverInv' /\ \A u \in Tasks : Queued(u)' <=> Queued(u)
  BY <1>1, DriverStutter DEF SchedInv, ataVars
<1>3. TypeOK'
  BY <1>0, <1>1, <1>2 DEF SchedInv, TypeOK, AtaTypeOK, DriverInv, TaskStates,
     Labels, SchedLabels
<1>4. CpuOwner'
  BY <1>0, <1>1 DEF SchedInv, TypeOK, AtaTypeOK, CpuOwner
<1>5. CurrentIsCpu'
  BY <1>0, <1>1 DEF SchedInv, TypeOK, AtaTypeOK, CurrentIsCpu, At
<1>6. OwnKernelStack'
  BY <1>0, <1>1 DEF SchedInv, TypeOK, AtaTypeOK, OwnKernelStack
<1>7. AllocatedHaveStack'
  BY <1>0, <1>1 DEF SchedInv, TypeOK, AtaTypeOK, AllocatedHaveStack
<1>8. PlaceWhenOff'
  BY <1>0, <1>1 DEF SchedInv, TypeOK, AtaTypeOK, PlaceWhenOff
<1>9. StateOfPlace'
  BY <1>0, <1>1, <1>2 DEF SchedInv, TypeOK, AtaTypeOK, StateOfPlace, Returns
<1>10. SleepOfPlace'
  BY <1>0, <1>1 DEF SchedInv, TypeOK, AtaTypeOK, SleepOfPlace, Returns
<1>11. ProgramOfPlace'
  BY <1>0, <1>1 DEF SchedInv, TypeOK, AtaTypeOK, ProgramOfPlace, Returns
<1>12. IrqDiscipline'
  BY <1>0, <1>1 DEF SchedInv, TypeOK, AtaTypeOK, IrqDiscipline, At
<1>13. NoBug'
  BY <1>0, <1>1 DEF SchedInv, TypeOK, AtaTypeOK, NoBug
<1>14. QED
  BY <1>2, <1>3, <1>4, <1>5, <1>6, <1>7, <1>8, <1>9, <1>10, <1>11, <1>12, <1>13 DEF SchedInv

(* ata_read blocks the task. *)
LEMMA ReadStateInv ==
  ASSUME SchedInv, panic = NoPanic, NEW t \in Tasks, ata_read_state(t)
  PROVE  SchedInv'
<1> USE SchedAssumption, TaskNat DEF NULL, TASK_NOT_ALLOCATED, TASK_RUNNING, TASK_WAITING, TASK_DISK_READ
<1>0. current = t /\ current # NULL /\ cpu = t /\ nest[t] = 0 /\ pc[t] = "ata_state"
  BY CurrentOnCpu DEF At, ata_read_state
<1>1. /\ cpu = t /\ nest[t] = 0 /\ pc[t] = "ata_state"
      /\ pc' = [pc EXCEPT ![t] = "ata_queue"]
      /\ state' = [state EXCEPT ![t] = TASK_DISK_READ]
      /\ UNCHANGED <<req_queue, req, dev, irq14, panic, ticks_remaining, ra,
                    irq_state, nest, upc, nread, current, esp0, cpu, iflag, spc, slot, found,
                    kstack, pages>>
  BY <1>0 DEF ata_read_state, At, Goto, atavars, ataVars, taskVars, cpuVars,
     schedVars, memVars
<1>2. DriverInv' /\ \A u \in Tasks : Queued(u)' <=> Queued(u)
  BY <1>1, DriverStutter DEF SchedInv, ataVars
<1>3. TypeOK'
  BY <1>0, <1>1, <1>2 DEF SchedInv, TypeOK, AtaTypeOK, DriverInv, TaskStates,
     Labels, SchedLabels
<1>4. CpuOwner'
  BY <1>0, <1>1 DEF SchedInv, TypeOK, AtaTypeOK, CpuOwner
<1>5. CurrentIsCpu'
  BY <1>0, <1>1 DEF SchedInv, TypeOK, AtaTypeOK, CurrentIsCpu, At
<1>6. OwnKernelStack'
  BY <1>0, <1>1 DEF SchedInv, TypeOK, AtaTypeOK, OwnKernelStack
<1>7. AllocatedHaveStack'
  BY <1>0, <1>1 DEF SchedInv, TypeOK, AtaTypeOK, AllocatedHaveStack, StateOfPlace,
     OwnKernelStack
<1>8. PlaceWhenOff'
  BY <1>0, <1>1 DEF SchedInv, TypeOK, AtaTypeOK, PlaceWhenOff
<1>9. StateOfPlace'
  BY <1>0, <1>1, <1>2 DEF SchedInv, TypeOK, AtaTypeOK, StateOfPlace, Returns
<1>10. SleepOfPlace'
  BY <1>0, <1>1 DEF SchedInv, TypeOK, AtaTypeOK, SleepOfPlace, Returns
<1>11. ProgramOfPlace'
  BY <1>0, <1>1 DEF SchedInv, TypeOK, AtaTypeOK, ProgramOfPlace, Returns
<1>12. IrqDiscipline'
  BY <1>0, <1>1 DEF SchedInv, TypeOK, AtaTypeOK, IrqDiscipline, At
<1>13. NoBug'
  BY <1>0, <1>1 DEF SchedInv, TypeOK, AtaTypeOK, NoBug
<1>14. QED
  BY <1>2, <1>3, <1>4, <1>5, <1>6, <1>7, <1>8, <1>9, <1>10, <1>11, <1>12, <1>13 DEF SchedInv

(* ata_read returns. *)
LEMMA ReadReturnInv ==
  ASSUME SchedInv, panic = NoPanic, NEW t \in Tasks, ata_read_return(t)
  PROVE  SchedInv'
<1> USE SchedAssumption, TaskNat DEF NULL, TASK_NOT_ALLOCATED, TASK_RUNNING, TASK_WAITING, TASK_DISK_READ
<1>0. current = t /\ current # NULL /\ cpu = t /\ nest[t] = 0 /\ pc[t] = "ata_ret"
  BY CurrentOnCpu DEF At, ata_read_return
<1>1. /\ cpu = t /\ nest[t] = 0 /\ pc[t] = "ata_ret"
      /\ upc[t] = 0 => pc' = [pc EXCEPT ![t] = "init_late"] /\ nread' = nread + 1
      /\ upc[t] # 0 => pc' = [pc EXCEPT ![t] = "sysret"] /\ nread' = nread
      /\ UNCHANGED <<req_queue, req, dev, irq14, state, panic, ticks_remaining, ra,
                    irq_state, nest, upc, current, esp0, cpu, iflag, spc, slot, found, kstack,
                    pages>>
  BY <1>0 DEF ata_read_return, At, Goto, atavars, ataVars, taskVars, cpuVars,
     schedVars, memVars
<1>2. DriverInv' /\ \A u \in Tasks : Queued(u)' <=> Queued(u)
  BY <1>1, DriverStutter DEF SchedInv, ataVars
<1>3. TypeOK'
  <2>1. nread + 1 \in Nat
    BY <1>0, <1>1, <1>2 DEF SchedInv, TypeOK
  <2>2. QED
    BY <1>0, <1>1, <1>2, <2>1 DEF SchedInv, TypeOK, AtaTypeOK, DriverInv,
       TaskStates, Labels, SchedLabels
<1>4. CpuOwner'
  BY <1>0, <1>1 DEF SchedInv, TypeOK, AtaTypeOK, CpuOwner
<1>5. CurrentIsCpu'
  BY <1>0, <1>1 DEF SchedInv, TypeOK, AtaTypeOK, CurrentIsCpu, At
<1>6. OwnKernelStack'
  BY <1>0, <1>1 DEF SchedInv, TypeOK, AtaTypeOK, OwnKernelStack
<1>7. AllocatedHaveStack'
  BY <1>0, <1>1 DEF SchedInv, TypeOK, AtaTypeOK, AllocatedHaveStack
<1>8. PlaceWhenOff'
  BY <1>0, <1>1 DEF SchedInv, TypeOK, AtaTypeOK, PlaceWhenOff
<1>9. StateOfPlace'
  BY <1>0, <1>1, <1>2 DEF SchedInv, TypeOK, AtaTypeOK, StateOfPlace, Returns
<1>10. SleepOfPlace'
  BY <1>0, <1>1 DEF SchedInv, TypeOK, AtaTypeOK, SleepOfPlace, Returns
<1>11. ProgramOfPlace'
  BY <1>0, <1>1 DEF SchedInv, TypeOK, AtaTypeOK, ProgramOfPlace, Returns
<1>12. IrqDiscipline'
  BY <1>0, <1>1 DEF SchedInv, TypeOK, AtaTypeOK, IrqDiscipline, At
<1>13. NoBug'
  BY <1>0, <1>1 DEF SchedInv, TypeOK, AtaTypeOK, NoBug
<1>14. QED
  BY <1>2, <1>3, <1>4, <1>5, <1>6, <1>7, <1>8, <1>9, <1>10, <1>11, <1>12, <1>13 DEF SchedInv

(* reschedule clears current. *)
LEMMA RescheduleInv ==
  ASSUME SchedInv, panic = NoPanic, NEW t \in Tasks, reschedule(t)
  PROVE  SchedInv'
<1> USE SchedAssumption, TaskNat DEF NULL, TASK_NOT_ALLOCATED, TASK_RUNNING, TASK_WAITING, TASK_DISK_READ
<1>0. current = t /\ current # NULL /\ cpu = t /\ nest[t] = 0 /\ pc[t] = "reschedule"
  BY CurrentOnCpu DEF At, reschedule
<1>1. /\ cpu = t /\ nest[t] = 0 /\ pc[t] = "reschedule"
      /\ current' = NULL
      /\ pc' = [pc EXCEPT ![t] = "switch_to"]
      /\ UNCHANGED <<req_queue, req, dev, irq14, state, panic, ticks_remaining, ra,
                    irq_state, nest, upc, nread, esp0, cpu, iflag, spc, slot, found, kstack,
                    pages>>
  BY <1>0 DEF reschedule, At, Goto, atavars, ataVars, taskVars, cpuVars, schedVars,
     memVars
<1>2. DriverInv' /\ \A u \in Tasks : Queued(u)' <=> Queued(u)
  BY <1>1, DriverStutter DEF SchedInv, ataVars
<1>3. TypeOK'
  BY <1>0, <1>1, <1>2 DEF SchedInv, TypeOK, AtaTypeOK, DriverInv, TaskStates,
     Labels, SchedLabels
<1>4. CpuOwner'
  BY <1>0, <1>1 DEF SchedInv, TypeOK, AtaTypeOK, CpuOwner
<1>5. CurrentIsCpu'
  BY <1>0, <1>1 DEF SchedInv, TypeOK, AtaTypeOK, CurrentIsCpu, At
<1>6. OwnKernelStack'
  BY <1>0, <1>1 DEF SchedInv, TypeOK, AtaTypeOK, OwnKernelStack
<1>7. AllocatedHaveStack'
  BY <1>0, <1>1 DEF SchedInv, TypeOK, AtaTypeOK, AllocatedHaveStack
<1>8. PlaceWhenOff'
  BY <1>0, <1>1 DEF SchedInv, TypeOK, AtaTypeOK, PlaceWhenOff
<1>9. StateOfPlace'
  BY <1>0, <1>1, <1>2 DEF SchedInv, TypeOK, AtaTypeOK, StateOfPlace, Returns
<1>10. SleepOfPlace'
  BY <1>0, <1>1 DEF SchedInv, TypeOK, AtaTypeOK, SleepOfPlace, Returns
<1>11. ProgramOfPlace'
  BY <1>0, <1>1 DEF SchedInv, TypeOK, AtaTypeOK, ProgramOfPlace, Returns
<1>12. IrqDiscipline'
  BY <1>0, <1>1 DEF SchedInv, TypeOK, AtaTypeOK, IrqDiscipline, At
<1>13. NoBug'
  BY <1>0, <1>1 DEF SchedInv, TypeOK, AtaTypeOK, NoBug
<1>14. QED
  BY <1>2, <1>3, <1>4, <1>5, <1>6, <1>7, <1>8, <1>9, <1>10, <1>11, <1>12, <1>13 DEF SchedInv

(* The task leaves the CPU. *)
LEMMA SwitchOutInv ==
  ASSUME SchedInv, panic = NoPanic, NEW t \in Tasks, SwitchOut(t)
  PROVE  SchedInv'
<1> USE SchedAssumption, TaskNat DEF NULL, TASK_NOT_ALLOCATED, TASK_RUNNING, TASK_WAITING, TASK_DISK_READ
<1>0. slot + 1 \in Nat
  BY DEF SchedInv, TypeOK
<1>1. /\ cpu = t /\ nest[t] = 0 /\ pc[t] = "switch_to"
      /\ pc' = [pc EXCEPT ![t] = ra[t]]
      /\ cpu' = NULL /\ found' = TRUE /\ slot' = slot + 1 /\ spc' = "scan"
      /\ UNCHANGED <<req_queue, req, dev, irq14, state, panic, ticks_remaining, ra,
                    irq_state, nest, upc, nread, current, esp0, iflag, kstack, pages>>
  BY <1>0 DEF SwitchOut, ReturnToScheduler, At, Goto, atavars, ataVars, taskVars,
     cpuVars, schedVars, memVars
<1>2. DriverInv' /\ \A u \in Tasks : Queued(u)' <=> Queued(u)
  BY <1>1, DriverStutter DEF SchedInv, ataVars
<1>3. TypeOK'
  BY <1>0, <1>1, <1>2 DEF SchedInv, TypeOK, AtaTypeOK, DriverInv, TaskStates,
     Labels, SchedLabels
<1>4. CpuOwner'
  BY <1>0, <1>1 DEF SchedInv, TypeOK, AtaTypeOK, CpuOwner
<1>5. CurrentIsCpu'
  BY <1>0, <1>1 DEF SchedInv, TypeOK, AtaTypeOK, CurrentIsCpu, At
<1>6. OwnKernelStack'
  BY <1>0, <1>1 DEF SchedInv, TypeOK, AtaTypeOK, OwnKernelStack
<1>7. AllocatedHaveStack'
  BY <1>0, <1>1 DEF SchedInv, TypeOK, AtaTypeOK, AllocatedHaveStack
<1>8. PlaceWhenOff'
  BY <1>0, <1>1 DEF SchedInv, TypeOK, AtaTypeOK, PlaceWhenOff
<1>9. StateOfPlace'
  BY <1>0, <1>1, <1>2 DEF SchedInv, TypeOK, AtaTypeOK, StateOfPlace, Returns
<1>10. SleepOfPlace'
  BY <1>0, <1>1 DEF SchedInv, TypeOK, AtaTypeOK, SleepOfPlace, Returns
<1>11. ProgramOfPlace'
  BY <1>0, <1>1 DEF SchedInv, TypeOK, AtaTypeOK, ProgramOfPlace, Returns
<1>12. IrqDiscipline'
  BY <1>0, <1>1 DEF SchedInv, TypeOK, AtaTypeOK, IrqDiscipline, At
<1>13. NoBug'
  BY <1>0, <1>1 DEF SchedInv, TypeOK, AtaTypeOK, NoBug
<1>14. QED
  BY <1>2, <1>3, <1>4, <1>5, <1>6, <1>7, <1>8, <1>9, <1>10, <1>11, <1>12, <1>13 DEF SchedInv

(* A system call returns to user space. *)
LEMMA SysRetInv ==
  ASSUME SchedInv, panic = NoPanic, NEW t \in Tasks, SysRet(t)
  PROVE  SchedInv'
<1> USE SchedAssumption, TaskNat DEF NULL, TASK_NOT_ALLOCATED, TASK_RUNNING, TASK_WAITING, TASK_DISK_READ
<1>0. /\ (upc[t] % Len(Program)) + 1 \in 1 .. Len(Program)
      /\ (upc[t] % Len(Program)) + 1 # 0
  <2>1. upc[t] \in Nat /\ Len(Program) \in Nat \ {0}
    BY DEF SchedInv, TypeOK
  <2>2. QED
    BY <2>1
<1>1. /\ cpu = t /\ nest[t] = 0 /\ pc[t] \in {"sysret", "wait_ret"}
      /\ pc' = [pc EXCEPT ![t] = "user"]
      /\ iflag' = TRUE /\ upc' = [upc EXCEPT ![t] = (upc[t] % Len(Program)) + 1]
      /\ UNCHANGED <<req_queue, req, dev, irq14, state, panic, ticks_remaining, ra,
                    irq_state, nest, nread, current, esp0, cpu, spc, slot, found, kstack,
                    pages>>
  BY <1>0 DEF SysRet, At, Goto, atavars, ataVars, taskVars, cpuVars, schedVars,
     memVars
<1>2. DriverInv' /\ \A u \in Tasks : Queued(u)' <=> Queued(u)
  BY <1>1, DriverStutter DEF SchedInv, ataVars
<1>3. TypeOK'
  BY <1>0, <1>1, <1>2 DEF SchedInv, TypeOK, AtaTypeOK, DriverInv, TaskStates,
     Labels, SchedLabels
<1>4. CpuOwner'
  BY <1>0, <1>1 DEF SchedInv, TypeOK, AtaTypeOK, CpuOwner
<1>5. CurrentIsCpu'
  BY <1>0, <1>1 DEF SchedInv, TypeOK, AtaTypeOK, CurrentIsCpu, At
<1>6. OwnKernelStack'
  BY <1>0, <1>1 DEF SchedInv, TypeOK, AtaTypeOK, OwnKernelStack
<1>7. AllocatedHaveStack'
  BY <1>0, <1>1 DEF SchedInv, TypeOK, AtaTypeOK, AllocatedHaveStack
<1>8. PlaceWhenOff'
  BY <1>0, <1>1 DEF SchedInv, TypeOK, AtaTypeOK, PlaceWhenOff
<1>9. StateOfPlace'
  BY <1>0, <1>1, <1>2 DEF SchedInv, TypeOK, AtaTypeOK, StateOfPlace, Returns
<1>10. SleepOfPlace'
  BY <1>0, <1>1 DEF SchedInv, TypeOK, AtaTypeOK, SleepOfPlace, Returns
<1>11. ProgramOfPlace'
  BY <1>0, <1>1 DEF SchedInv, TypeOK, AtaTypeOK, ProgramOfPlace, Returns
<1>12. IrqDiscipline'
  BY <1>0, <1>1 DEF SchedInv, TypeOK, AtaTypeOK, IrqDiscipline, At
<1>13. NoBug'
  BY <1>0, <1>1 DEF SchedInv, TypeOK, AtaTypeOK, NoBug
<1>14. QED
  BY <1>2, <1>3, <1>4, <1>5, <1>6, <1>7, <1>8, <1>9, <1>10, <1>11, <1>12, <1>13 DEF SchedInv

(* A timer interrupt returns. *)
LEMMA IrqReturnInv ==
  ASSUME SchedInv, panic = NoPanic, NEW t \in Tasks, IrqReturn(t)
  PROVE  SchedInv'
<1> USE SchedAssumption, TaskNat DEF NULL, TASK_NOT_ALLOCATED, TASK_RUNNING, TASK_WAITING, TASK_DISK_READ
<1>1. /\ cpu = t /\ nest[t] > 0
      /\ nest' = [nest EXCEPT ![t] = nest[t] - 1] /\ iflag' = TRUE
      /\ UNCHANGED <<req_queue, req, dev, irq14, state, panic, ticks_remaining, pc,
                    ra, irq_state, upc, nread, current, esp0, cpu, spc, slot, found, kstack,
                    pages>>
  BY DEF IrqReturn, At, Goto, atavars, ataVars, taskVars, cpuVars, schedVars,
     memVars
<1>2. DriverInv' /\ \A u \in Tasks : Queued(u)' <=> Queued(u)
  BY <1>1, DriverStutter DEF SchedInv, ataVars
<1>3. TypeOK'
  <2>1. nest[t] - 1 \in Nat
    BY <1>1, <1>2 DEF SchedInv, TypeOK
  <2>2. QED
    BY <1>1, <1>2, <2>1 DEF SchedInv, TypeOK, AtaTypeOK, DriverInv, TaskStates,
       Labels, SchedLabels
<1>4. CpuOwner'
  BY <1>1 DEF SchedInv, TypeOK, AtaTypeOK, CpuOwner
<1>5. CurrentIsCpu'
  BY <1>1 DEF SchedInv, TypeOK, AtaTypeOK, CurrentIsCpu, At, PlaceWhenOff
<1>6. OwnKernelStack'
  BY <1>1 DEF SchedInv, TypeOK, AtaTypeOK, OwnKernelStack
<1>7. AllocatedHaveStack'
  BY <1>1 DEF SchedInv, TypeOK, AtaTypeOK, AllocatedHaveStack
<1>8. PlaceWhenOff'
  BY <1>1 DEF SchedInv, TypeOK, AtaTypeOK, PlaceWhenOff
<1>9. StateOfPlace'
  BY <1>1, <1>2 DEF SchedInv, TypeOK, AtaTypeOK, StateOfPlace, Returns
<1>10. SleepOfPlace'
  BY <1>1 DEF SchedInv, TypeOK, AtaTypeOK, SleepOfPlace, Returns
<1>11. ProgramOfPlace'
  BY <1>1 DEF SchedInv, TypeOK, AtaTypeOK, ProgramOfPlace, Returns
<1>12. IrqDiscipline'
  BY <1>1 DEF SchedInv, TypeOK, AtaTypeOK, IrqDiscipline, At, PlaceWhenOff
<1>13. NoBug'
  BY <1>1 DEF SchedInv, TypeOK, AtaTypeOK, NoBug
<1>14. QED
  BY <1>2, <1>3, <1>4, <1>5, <1>6, <1>7, <1>8, <1>9, <1>10, <1>11, <1>12, <1>13 DEF SchedInv

(* A tick while no task is current. *)
LEMMA TimerTickInv ==
  ASSUME SchedInv, panic = NoPanic, TimerTick
  PROVE  SchedInv'
<1> USE SchedAssumption, TaskNat DEF NULL, TASK_NOT_ALLOCATED, TASK_RUNNING, TASK_WAITING, TASK_DISK_READ
<1>1. /\ current = NULL
      /\ ticks_remaining' = [u \in Tasks |-> IF state[u] = TASK_WAITING THEN ticks_remaining[u] - 1
                                                              ELSE ticks_remaining[u]]
      /\ state' = [u \in Tasks |-> IF state[u] = TASK_WAITING /\ ticks_remaining[u] = 1
                                    THEN TASK_RUNNING ELSE state[u]]
      /\ spc' = IF spc = "hlt" THEN "cli" ELSE spc
      /\ UNCHANGED <<req_queue, req, dev, irq14, panic, pc, ra, irq_state, nest, upc,
                    nread, current, esp0, cpu, iflag, slot, found, kstack, pages>>
  BY DEF TimerTick, TickSleepers, LeaveHlt, atavars, ataVars, taskVars, cpuVars,
     schedVars, memVars
<1>2. DriverInv' /\ \A u \in Tasks : Queued(u)' <=> Queued(u)
  BY <1>1, DriverStutter DEF SchedInv, ataVars
<1>3. TypeOK'
  <2>1. /\ ticks_remaining' \in [Tasks -> Int]
        /\ state' \in [Tasks -> TaskStates]
    BY <1>1, <1>2 DEF SchedInv, TypeOK, AtaTypeOK, TaskStates
  <2>2. QED
    BY <1>1, <1>2, <2>1 DEF SchedInv, TypeOK, AtaTypeOK, DriverInv, TaskStates,
       Labels, SchedLabels
<1>4. CpuOwner'
  BY <1>1 DEF SchedInv, TypeOK, AtaTypeOK, CpuOwner
<1>5. CurrentIsCpu'
  BY <1>1 DEF SchedInv, TypeOK, AtaTypeOK, CurrentIsCpu, At
<1>6. OwnKernelStack'
  BY <1>1 DEF SchedInv, TypeOK, AtaTypeOK, OwnKernelStack
<1>7. AllocatedHaveStack'
  BY <1>1 DEF SchedInv, TypeOK, AtaTypeOK, AllocatedHaveStack
<1>8. PlaceWhenOff'
  BY <1>1 DEF SchedInv, TypeOK, AtaTypeOK, PlaceWhenOff
<1>9. StateOfPlace'
  BY <1>1, <1>2 DEF SchedInv, TypeOK, AtaTypeOK, StateOfPlace, Returns, SleepOfPlace
<1>10. SleepOfPlace'
  BY <1>1, TickKeepsSleep DEF TimerTick
<1>11. ProgramOfPlace'
  BY <1>1 DEF SchedInv, TypeOK, AtaTypeOK, ProgramOfPlace, Returns
<1>12. IrqDiscipline'
  BY <1>1 DEF SchedInv, TypeOK, AtaTypeOK, IrqDiscipline, At
<1>13. NoBug'
  BY <1>1 DEF SchedInv, TypeOK, AtaTypeOK, NoBug
<1>14. QED
  BY <1>2, <1>3, <1>4, <1>5, <1>6, <1>7, <1>8, <1>9, <1>10, <1>11, <1>12, <1>13 DEF SchedInv

(* A tick takes the CPU from the current task. *)
LEMMA TimerPreemptInv ==
  ASSUME SchedInv, panic = NoPanic, TimerPreempt
  PROVE  SchedInv'
<1> USE SchedAssumption, TaskNat DEF NULL, TASK_NOT_ALLOCATED, TASK_RUNNING, TASK_WAITING, TASK_DISK_READ
<1>0. slot + 1 \in Nat /\ current \in Tasks /\ nest[current] + 1 \in Nat
  BY DEF SchedInv, TypeOK, TimerPreempt
<1>1. /\ current \in Tasks /\ cpu = current /\ iflag
      /\ ticks_remaining' = [u \in Tasks |-> IF state[u] = TASK_WAITING THEN ticks_remaining[u] - 1
                                                              ELSE ticks_remaining[u]]
      /\ state' = [u \in Tasks |-> IF state[u] = TASK_WAITING /\ ticks_remaining[u] = 1
                                    THEN TASK_RUNNING ELSE state[u]]
      /\ nest' = [nest EXCEPT ![current] = nest[current] + 1]
      /\ current' = NULL /\ iflag' = FALSE
      /\ cpu' = NULL /\ found' = TRUE /\ slot' = slot + 1 /\ spc' = "scan"
      /\ UNCHANGED <<req_queue, req, dev, irq14, panic, pc, ra, irq_state, upc,
                    nread, esp0, kstack, pages>>
  BY <1>0 DEF TimerPreempt, TickSleepers, ReturnToScheduler, atavars, ataVars,
     taskVars, cpuVars, schedVars, memVars
<1>2. DriverInv' /\ \A u \in Tasks : Queued(u)' <=> Queued(u)
  BY <1>1, DriverStutter DEF SchedInv, ataVars
<1>3. TypeOK'
  <2>1. /\ ticks_remaining' \in [Tasks -> Int]
        /\ state' \in [Tasks -> TaskStates]
    BY <1>0, <1>1, <1>2 DEF SchedInv, TypeOK, AtaTypeOK, TaskStates
  <2>2. QED
    BY <1>0, <1>1, <1>2, <2>1 DEF SchedInv, TypeOK, AtaTypeOK, DriverInv,
       TaskStates, Labels, SchedLabels
<1>4. CpuOwner'
  BY <1>0, <1>1 DEF SchedInv, TypeOK, AtaTypeOK, CpuOwner
<1>5. CurrentIsCpu'
  BY <1>0, <1>1 DEF SchedInv, TypeOK, AtaTypeOK, CurrentIsCpu, At
<1>6. OwnKernelStack'
  BY <1>0, <1>1 DEF SchedInv, TypeOK, AtaTypeOK, OwnKernelStack
<1>7. AllocatedHaveStack'
  BY <1>0, <1>1 DEF SchedInv, TypeOK, AtaTypeOK, AllocatedHaveStack
<1>8. PlaceWhenOff'
  BY <1>0, <1>1 DEF SchedInv, TypeOK, AtaTypeOK, PlaceWhenOff, IrqDiscipline,
     CurrentIsCpu, At
<1>9. StateOfPlace'
  BY <1>0, <1>1, <1>2 DEF SchedInv, TypeOK, AtaTypeOK, StateOfPlace, Returns,
     SleepOfPlace
<1>10. SleepOfPlace'
  BY <1>1, TickKeepsSleep DEF TimerPreempt
<1>11. ProgramOfPlace'
  BY <1>0, <1>1 DEF SchedInv, TypeOK, AtaTypeOK, ProgramOfPlace, Returns
<1>12. IrqDiscipline'
  BY <1>0, <1>1 DEF SchedInv, TypeOK, AtaTypeOK, IrqDiscipline, At
<1>13. NoBug'
  BY <1>0, <1>1 DEF SchedInv, TypeOK, AtaTypeOK, NoBug
<1>14. QED
  BY <1>2, <1>3, <1>4, <1>5, <1>6, <1>7, <1>8, <1>9, <1>10, <1>11, <1>12, <1>13 DEF SchedInv

(* Another interrupt ends hlt. *)
LEMMA OtherIrqInv ==
  ASSUME SchedInv, panic = NoPanic, OtherIrq
  PROVE  SchedInv'
<1> USE SchedAssumption, TaskNat DEF NULL, TASK_NOT_ALLOCATED, TASK_RUNNING, TASK_WAITING, TASK_DISK_READ
<1>1. /\ spc = "hlt" /\ spc' = "cli"
      /\ UNCHANGED <<req_queue, req, dev, irq14, state, panic, ticks_remaining, pc,
                    ra, irq_state, nest, upc, nread, current, esp0, cpu, iflag, slot, found,
                    kstack, pages>>
  BY DEF OtherIrq, LeaveHlt, atavars, ataVars, taskVars, cpuVars, schedVars, memVars
<1>2. DriverInv' /\ \A u \in Tasks : Queued(u)' <=> Queued(u)
  BY <1>1, DriverStutter DEF SchedInv, ataVars
<1>3. TypeOK'
  BY <1>1, <1>2 DEF SchedInv, TypeOK, AtaTypeOK, DriverInv, TaskStates, Labels,
     SchedLabels
<1>4. CpuOwner'
  BY <1>1 DEF SchedInv, TypeOK, AtaTypeOK, CpuOwner
<1>5. CurrentIsCpu'
  BY <1>1 DEF SchedInv, TypeOK, AtaTypeOK, CurrentIsCpu, At
<1>6. OwnKernelStack'
  BY <1>1 DEF SchedInv, TypeOK, AtaTypeOK, OwnKernelStack
<1>7. AllocatedHaveStack'
  BY <1>1 DEF SchedInv, TypeOK, AtaTypeOK, AllocatedHaveStack
<1>8. PlaceWhenOff'
  BY <1>1 DEF SchedInv, TypeOK, AtaTypeOK, PlaceWhenOff
<1>9. StateOfPlace'
  BY <1>1, <1>2 DEF SchedInv, TypeOK, AtaTypeOK, StateOfPlace, Returns
<1>10. SleepOfPlace'
  BY <1>1 DEF SchedInv, TypeOK, AtaTypeOK, SleepOfPlace, Returns
<1>11. ProgramOfPlace'
  BY <1>1 DEF SchedInv, TypeOK, AtaTypeOK, ProgramOfPlace, Returns
<1>12. IrqDiscipline'
  BY <1>1 DEF SchedInv, TypeOK, AtaTypeOK, IrqDiscipline, At
<1>13. NoBug'
  BY <1>1 DEF SchedInv, TypeOK, AtaTypeOK, NoBug
<1>14. QED
  BY <1>2, <1>3, <1>4, <1>5, <1>6, <1>7, <1>8, <1>9, <1>10, <1>11, <1>12, <1>13 DEF SchedInv

(* The machine stops, and nothing else changes. *)
LEMMA StopInv ==
  ASSUME SchedInv, StopWith("corrupt context")
  PROVE  SchedInv'
<1>1. /\ panic' = "corrupt context"
      /\ UNCHANGED <<req_queue, req, dev, irq14, state, ticks_remaining, pc, ra, irq_state,
                     nest, upc, nread, current, esp0, cpu, iflag, spc, slot, found,
                     kstack, pages>>
  BY DEF StopWith, ataVars, taskVars, cpuVars, schedVars, memVars
<1>2. DriverInv' /\ \A u \in Tasks : Queued(u)' <=> Queued(u)
  BY <1>1, DriverStutter DEF SchedInv, ataVars
<1>3. TypeOK'
  BY <1>1, <1>2 DEF SchedInv, TypeOK, AtaTypeOK, DriverInv
<1>4. CpuOwner' /\ CurrentIsCpu' /\ OwnKernelStack' /\ IrqDiscipline'
  BY <1>1 DEF SchedInv, CpuOwner, CurrentIsCpu, OwnKernelStack, IrqDiscipline, At
<1>5. AllocatedHaveStack' /\ NoBug'
  BY <1>1 DEF AllocatedHaveStack, NoBug, NoPanic
<1>6. PlaceWhenOff' /\ StateOfPlace'
  BY <1>1, <1>2 DEF SchedInv, PlaceWhenOff, StateOfPlace, Returns
<1>7. SleepOfPlace' /\ ProgramOfPlace'
  BY <1>1 DEF SchedInv, SleepOfPlace, ProgramOfPlace, Returns
<1>8. QED
  BY <1>2, <1>3, <1>4, <1>5, <1>6, <1>7 DEF SchedInv

(* The CPU goes to the task that switch_to selected. *)
LEMMA SwitchInInv ==
  ASSUME SchedInv, panic = NoPanic, SwitchIn
  PROVE  SchedInv'
<1> USE SchedAssumption, TaskNat DEF NULL, TASK_NOT_ALLOCATED, TASK_RUNNING, TASK_WAITING, TASK_DISK_READ
<1>1. CASE pc[current] = "lost"
  BY <1>1, StopInv DEF SwitchIn
<1>2. CASE pc[current] # "lost"
  <2>1. /\ spc = "jump" /\ cpu' = current /\ spc' = "away"
        /\ UNCHANGED <<req_queue, req, dev, irq14, state, panic, ticks_remaining, pc, ra,
                       irq_state, nest, upc, nread, current, esp0, iflag, slot, found,
                       kstack, pages>>
    BY <1>2 DEF SwitchIn, atavars, ataVars, taskVars, cpuVars, schedVars, memVars
  <2>2. DriverInv' /\ \A u \in Tasks : Queued(u)' <=> Queued(u)
    BY <2>1, DriverStutter DEF SchedInv, ataVars
  <2>3. /\ current = slot /\ cpu = NULL /\ slot \in Tasks /\ slot # NULL
        /\ state[slot] = TASK_RUNNING /\ esp0 = slot
    BY <2>1 DEF SchedInv, CpuOwner, CurrentIsCpu
  <2>4. pc[slot] \notin {"switch_to", "ata_queue", "ata_state"}
    <3>1. nest[slot] = 0 \/ nest[slot] > 0
      BY <2>3 DEF SchedInv, TypeOK
    <3>2. QED
      BY <2>3, <3>1 DEF SchedInv, PlaceWhenOff
  <2>5. TypeOK'
    BY <2>1, <2>2, <2>3 DEF SchedInv, TypeOK, AtaTypeOK, DriverInv, SchedLabels
  <2>6. CpuOwner' /\ CurrentIsCpu'
    BY <2>1, <2>3, <2>4 DEF SchedInv, CpuOwner, CurrentIsCpu, At
  <2>7. OwnKernelStack' /\ AllocatedHaveStack' /\ NoBug'
    BY <2>1, <2>3 DEF SchedInv, OwnKernelStack, AllocatedHaveStack, NoBug
  <2>8. PlaceWhenOff'
    BY <2>1, <2>3 DEF SchedInv, PlaceWhenOff
  <2>9. StateOfPlace'
    BY <2>1, <2>2, <2>3 DEF SchedInv, StateOfPlace, Returns
  <2>10. SleepOfPlace' /\ ProgramOfPlace'
    BY <2>1 DEF SchedInv, SleepOfPlace, ProgramOfPlace, Returns
  <2>11. IrqDiscipline'
    BY <2>1, <2>3, <2>4 DEF SchedInv, PlaceWhenOff, IrqDiscipline, At
  <2>12. QED
    BY <2>2, <2>5, <2>6, <2>7, <2>8, <2>9, <2>10, <2>11 DEF SchedInv
<1>3. QED
  BY <1>1, <1>2

(* A tick in the middle of switch_to destroys a context and nothing else:  *)
(* the state of the other tasks, the queue and the drive stay sound.       *)
LEMMA TimerInSwitchInv ==
  ASSUME SchedInv, panic = NoPanic, TimerInSwitch
  PROVE  SchedInv'
<1> USE SchedAssumption, TaskNat DEF NULL, TASK_NOT_ALLOCATED, TASK_RUNNING, TASK_WAITING, TASK_DISK_READ
<1>1. CASE StopWith("corrupt context")
  BY <1>1, StopInv
<1>2. CASE ~StopWith("corrupt context")
  <2>1. /\ current # NULL /\ cpu = NULL
        /\ TickSleepers
        /\ pc' = [pc EXCEPT ![current] = "lost"]
        /\ current' = NULL /\ iflag' = FALSE
        /\ cpu' = NULL /\ found' = TRUE /\ slot' = slot + 1 /\ spc' = "scan"
        /\ UNCHANGED <<req_queue, req, dev, irq14, panic, ra, irq_state, nest, upc, nread,
                       esp0, kstack, pages>>
    BY <1>2 DEF TimerInSwitch, ReturnToScheduler, ataVars, memVars
  <2>2. DriverInv' /\ \A u \in Tasks : Queued(u)' <=> Queued(u)
    BY <2>1, DriverStutter DEF SchedInv, ataVars
  <2>3. /\ current = slot /\ slot \in Tasks /\ state[slot] = TASK_RUNNING /\ slot + 1 \in Nat
    BY <2>1 DEF SchedInv, CpuOwner, CurrentIsCpu
  <2>4. TypeOK'
    <3>1. ticks_remaining' \in [Tasks -> Int] /\ state' \in [Tasks -> TaskStates]
      BY <2>1 DEF SchedInv, TypeOK, AtaTypeOK, TaskStates, TickSleepers
    <3>2. pc' \in [Tasks -> Labels]
      BY <2>1 DEF SchedInv, TypeOK, Labels
    <3>3. QED
      BY <2>1, <2>2, <2>3, <3>1, <3>2 DEF SchedInv, TypeOK, AtaTypeOK, DriverInv, SchedLabels
  <2>5. CpuOwner' /\ CurrentIsCpu' /\ OwnKernelStack'
    BY <2>1 DEF CpuOwner, CurrentIsCpu, OwnKernelStack
  <2>6. AllocatedHaveStack' /\ NoBug'
    BY <2>1 DEF SchedInv, AllocatedHaveStack, NoBug, TickSleepers
  <2>7. PlaceWhenOff'
    BY <2>1, <2>3 DEF SchedInv, TypeOK, PlaceWhenOff
  <2>8. StateOfPlace'
    BY <2>1, <2>2, <2>3 DEF SchedInv, TypeOK, StateOfPlace, Returns, TickSleepers
  <2>9. SleepOfPlace'
    <3>1. \A u \in Tasks : pc'[u] \in {pc[u], "lost"}
      BY <2>1 DEF SchedInv, TypeOK
    <3>2. QED
      BY <2>1, <3>1, TickKeepsSleep
  <2>10. ProgramOfPlace'
    BY <2>1, <2>3 DEF SchedInv, TypeOK, ProgramOfPlace, Returns
  <2>11. IrqDiscipline'
    BY <2>1 DEF IrqDiscipline, At
  <2>12. QED
    BY <2>2, <2>4, <2>5, <2>6, <2>7, <2>8, <2>9, <2>10, <2>11 DEF SchedInv
<1>3. QED
  BY <1>1, <1>2

(* A new task gets the first free slot, marked before it has a stack. *)
LEMMA AllocateInv ==
  ASSUME SchedInv, panic = NoPanic, task_allocate
  PROVE  SchedInv'
<1> USE SchedAssumption, TaskNat DEF NULL, TASK_NOT_ALLOCATED, TASK_RUNNING, TASK_WAITING, TASK_DISK_READ
<1>1. /\ spc = "start"
      /\ UNCHANGED <<req_queue, req, dev, irq14, ticks_remaining, pc, ra, irq_state, nest, upc,
                     nread, current, esp0, cpu, iflag, spc, found>>
  BY DEF task_allocate, ataVars, taskVars, cpuVars
<1>2. DriverInv' /\ \A u \in Tasks : Queued(u)' <=> Queued(u)
  BY <1>1, DriverStutter DEF SchedInv, ataVars
<1>3. \/ UNCHANGED <<state, kstack, pages, slot>> /\ panic' = "cannot allocate init task"
      \/ \E t \in Tasks :
           /\ state[t] = TASK_NOT_ALLOCATED
           /\ state' = [state EXCEPT ![t] = TASK_RUNNING]
           /\ \/ UNCHANGED <<kstack, pages, slot>> /\ panic' = "cannot allocate init task"
              \/ /\ pages # 0 /\ pages' = pages - 1
                 /\ kstack' = kstack \cup {t}
                 /\ slot' = slot + 1
                 /\ panic' = panic
  BY DEF task_allocate, task_setup, FirstFree, memVars
<1>4. spc # "jump" /\ cpu = NULL
  BY <1>1 DEF SchedInv, TypeOK, CpuOwner
<1>5. CpuOwner' /\ CurrentIsCpu' /\ OwnKernelStack'
  BY <1>1, <1>4 DEF SchedInv, CpuOwner, CurrentIsCpu, OwnKernelStack
<1>6. PlaceWhenOff' /\ ProgramOfPlace' /\ IrqDiscipline'
  BY <1>1 DEF SchedInv, PlaceWhenOff, ProgramOfPlace, IrqDiscipline, Returns, At
<1>7. ASSUME UNCHANGED <<state, kstack, pages, slot>>, panic' = "cannot allocate init task"
      PROVE  SchedInv'
  <2>1. TypeOK'
    BY <1>1, <1>2, <1>7 DEF SchedInv, TypeOK, AtaTypeOK, DriverInv
  <2>2. AllocatedHaveStack' /\ NoBug'
    BY <1>7 DEF AllocatedHaveStack, NoBug, NoPanic
  <2>3. StateOfPlace' /\ SleepOfPlace'
    BY <1>1, <1>2, <1>7 DEF SchedInv, StateOfPlace, SleepOfPlace, Returns
  <2>4. QED
    BY <1>2, <1>5, <1>6, <2>1, <2>2, <2>3 DEF SchedInv
<1>8. ASSUME NEW t \in Tasks,
             state[t] = TASK_NOT_ALLOCATED,
             state' = [state EXCEPT ![t] = TASK_RUNNING],
             \/ UNCHANGED <<kstack, pages, slot>> /\ panic' = "cannot allocate init task"
             \/ /\ pages # 0 /\ pages' = pages - 1
                /\ kstack' = kstack \cup {t}
                /\ slot' = slot + 1
                /\ panic' = panic
      PROVE  SchedInv'
  <2>1. TypeOK'
    <3>1. state' \in [Tasks -> TaskStates]
      BY <1>8 DEF SchedInv, TypeOK, AtaTypeOK, TaskStates
    <3>2. pages' \in Nat /\ slot' \in Nat /\ kstack' \subseteq Tasks
      <4>1. pages \in Nat /\ slot \in Nat /\ kstack \subseteq Tasks
        BY DEF SchedInv, TypeOK
      <4>2. CASE UNCHANGED <<kstack, pages, slot>>
        BY <4>1, <4>2
      <4>3. CASE pages # 0 /\ pages' = pages - 1 /\ slot' = slot + 1
        <5>1. pages' \in Nat /\ slot' \in Nat
          BY <4>1, <4>3
        <5>2. kstack' = kstack \cup {t} \/ kstack' = kstack
          BY <1>8
        <5>3. kstack' \subseteq Tasks
          BY <4>1, <5>2
        <5>4. QED
          BY <5>1, <5>3
      <4>4. QED
        BY <1>8, <4>2, <4>3
    <3>3. QED
      BY <1>1, <1>2, <3>1, <3>2 DEF SchedInv, TypeOK, AtaTypeOK, DriverInv
  <2>2. AllocatedHaveStack'
    BY <1>8 DEF SchedInv, TypeOK, AtaTypeOK, AllocatedHaveStack, NoPanic
  <2>3. NoBug'
    BY <1>8 DEF SchedInv, NoBug
  <2>4. pc[t] = "task_init" /\ nest[t] = 0 /\ ~Queued(t)
    BY <1>8 DEF SchedInv, StateOfPlace
  <2>5. StateOfPlace'
    BY <1>1, <1>2, <1>4, <1>8, <2>4 DEF SchedInv, TypeOK, AtaTypeOK, StateOfPlace, Returns
  <2>6. SleepOfPlace'
    BY <1>1, <1>8, <2>4 DEF SchedInv, TypeOK, AtaTypeOK, SleepOfPlace, Returns
  <2>7. QED
    BY <1>2, <1>5, <1>6, <2>1, <2>2, <2>3, <2>5, <2>6 DEF SchedInv
<1>9. QED
  BY <1>3, <1>7, <1>8

(* ata_read links the request and restores the interrupt flag. *)
LEMMA ReadQueueInv ==
  ASSUME AtaInitDone, SchedInv, panic = NoPanic, NEW t \in Tasks, ata_read_queue(t)
  PROVE  SchedInv'
<1> USE SchedAssumption, TaskNat DEF NULL, TASK_NOT_ALLOCATED, TASK_RUNNING, TASK_WAITING, TASK_DISK_READ
<1>1. /\ cpu = t /\ nest[t] = 0 /\ pc[t] = "ata_queue"
      /\ req' = [req EXCEPT ![t] = NewReq(Asked(t))]
      /\ QueueRequest(t, NewReq(Asked(t)))
      /\ iflag' = (iflag \/ irq_state[t])
      /\ ra' = [ra EXCEPT ![t] = "ata_ret"]
      /\ pc' = [pc EXCEPT ![t] = "reschedule"]
      /\ UNCHANGED <<irq14, state, ticks_remaining, irq_state, nest, upc, nread, current,
                     esp0, cpu, spc, slot, found, kstack, pages>>
  BY DEF ata_read_queue, At, Goto, schedVars, memVars
<1>2. Asked(t) \in Requests
  BY <1>1 DEF SchedInv, TypeOK, ProgramOfPlace, Asked
<1>3. ~Queued(t)
  BY <1>1 DEF SchedInv, StateOfPlace
<1>4. /\ DriverInv' /\ panic' = panic
      /\ \A u \in Tasks : Queued(u)' <=> Queued(u) \/ u = t
  BY <1>1, <1>2, <1>3, LinkStep DEF SchedInv
<1>5. TypeOK'
  <2>1. iflag' \in BOOLEAN
    BY <1>1
  <2>2. QED
    BY <1>1, <1>4, <2>1 DEF SchedInv, TypeOK, AtaTypeOK, DriverInv, Labels
<1>6. CpuOwner' /\ CurrentIsCpu'
  BY <1>1 DEF SchedInv, TypeOK, CpuOwner, CurrentIsCpu, At
<1>7. OwnKernelStack' /\ AllocatedHaveStack' /\ NoBug'
  BY <1>1, <1>4 DEF SchedInv, OwnKernelStack, AllocatedHaveStack, NoBug
<1>8. PlaceWhenOff'
  BY <1>1 DEF SchedInv, TypeOK, PlaceWhenOff
<1>9. StateOfPlace'
  BY <1>1, <1>4 DEF SchedInv, TypeOK, AtaTypeOK, StateOfPlace, Returns
<1>10. SleepOfPlace'
  BY <1>1 DEF SchedInv, TypeOK, StateOfPlace, SleepOfPlace, Returns
<1>11. ProgramOfPlace'
  BY <1>1 DEF SchedInv, TypeOK, ProgramOfPlace, Returns
<1>12. IrqDiscipline'
  BY <1>1 DEF SchedInv, TypeOK, IrqDiscipline, At
<1>13. QED
  BY <1>4, <1>5, <1>6, <1>7, <1>8, <1>9, <1>10, <1>11, <1>12 DEF SchedInv

(* The interrupt of the drive wakes a task that waits for it and no other. *)
LEMMA IdeIrqInv ==
  ASSUME AtaInitDone, SchedInv, panic = NoPanic, IdeIrq1
  PROVE  SchedInv'
<1> USE SchedAssumption, TaskNat DEF NULL, TASK_NOT_ALLOCATED, TASK_RUNNING, TASK_WAITING, TASK_DISK_READ
<1>1. /\ ide_irq1
      /\ spc' = IF spc = "hlt" THEN "cli" ELSE spc
      /\ UNCHANGED <<ticks_remaining, pc, ra, irq_state, nest, upc, nread, current, esp0,
                     cpu, iflag, slot, found, kstack, pages>>
  BY DEF IdeIrq1, LeaveHlt, taskVars, cpuVars, memVars
<1>2. /\ DriverInv' /\ panic' = panic
      /\ \/ state' = state /\ \A u \in Tasks : Queued(u)' <=> Queued(u)
         \/ \E t \in Tasks :
              /\ Queued(t)
              /\ state' = [state EXCEPT ![t] = TASK_RUNNING]
              /\ \A u \in Tasks : Queued(u)' <=> Queued(u) /\ u # t
  BY <1>1, IrqStep DEF SchedInv
<1>3. TypeOK'
  <2>1. state' \in [Tasks -> TaskStates]
    BY <1>2 DEF SchedInv, TypeOK, AtaTypeOK, TaskStates
  <2>2. QED
    BY <1>1, <1>2, <2>1 DEF SchedInv, TypeOK, AtaTypeOK, DriverInv, SchedLabels
<1>4. CpuOwner' /\ CurrentIsCpu' /\ OwnKernelStack'
  BY <1>1, <1>2 DEF SchedInv, TypeOK, AtaTypeOK, CpuOwner, CurrentIsCpu, OwnKernelStack, At
<1>5. PlaceWhenOff' /\ ProgramOfPlace' /\ IrqDiscipline' /\ NoBug'
  BY <1>1, <1>2 DEF SchedInv, PlaceWhenOff, ProgramOfPlace, IrqDiscipline, NoBug, Returns, At
<1>6. CASE state' = state /\ \A u \in Tasks : Queued(u)' <=> Queued(u)
  <2>1. AllocatedHaveStack' /\ StateOfPlace' /\ SleepOfPlace'
    BY <1>1, <1>2, <1>6 DEF SchedInv, AllocatedHaveStack, StateOfPlace, SleepOfPlace, Returns
  <2>2. QED
    BY <1>2, <1>3, <1>4, <1>5, <2>1 DEF SchedInv
<1>7. ASSUME NEW t \in Tasks,
             Queued(t),
             state' = [state EXCEPT ![t] = TASK_RUNNING],
             \A u \in Tasks : Queued(u)' <=> Queued(u) /\ u # t
      PROVE  SchedInv'
  <2>1. state[t] = TASK_DISK_READ /\ pc[t] # "ata_queue" /\ Returns(t, "ata_ret")
    BY <1>7 DEF SchedInv, StateOfPlace
  <2>2. AllocatedHaveStack'
    BY <1>1, <1>2, <1>7, <2>1 DEF SchedInv, TypeOK, AtaTypeOK, AllocatedHaveStack
  <2>3. StateOfPlace'
    BY <1>1, <1>7, <2>1 DEF SchedInv, TypeOK, AtaTypeOK, StateOfPlace, Returns
  <2>4. SleepOfPlace'
    BY <1>1, <1>7, <2>1 DEF SchedInv, TypeOK, AtaTypeOK, SleepOfPlace, Returns
  <2>5. QED
    BY <1>2, <1>3, <1>4, <1>5, <2>2, <2>3, <2>4 DEF SchedInv
<1>8. QED
  BY <1>2, <1>6, <1>7

(* Steps that change nothing but the drive and its interrupt. *)
LEMMA DriveInv ==
  ASSUME SchedInv, Drive \/ UNCHANGED vars
  PROVE  SchedInv'
<1>1. UNCHANGED <<req_queue, state, panic, ticks_remaining, pc, ra, irq_state, nest, upc,
                  nread, current, esp0, cpu, iflag, spc, slot, found, kstack, pages>>
  BY DEF Drive, DevSectorReady, vars, atavars, ataVars, taskVars, cpuVars, schedVars, memVars
<1>2. DriverInv'
  BY ReadyStep, DriverStutter DEF SchedInv, Drive, vars, atavars
<1>3. \A u \in Tasks : Queued(u)' <=> Queued(u)
  BY <1>1 DEF Queued
<1>4. TypeOK'
  BY <1>1, <1>2 DEF SchedInv, TypeOK, AtaTypeOK, DriverInv
<1>5. CpuOwner' /\ CurrentIsCpu' /\ OwnKernelStack' /\ AllocatedHaveStack' /\ NoBug'
  BY <1>1 DEF SchedInv, CpuOwner, CurrentIsCpu, OwnKernelStack, AllocatedHaveStack, NoBug, At
<1>6. PlaceWhenOff' /\ StateOfPlace'
  BY <1>1, <1>3 DEF SchedInv, PlaceWhenOff, StateOfPlace, Returns
<1>7. SleepOfPlace' /\ ProgramOfPlace' /\ IrqDiscipline'
  BY <1>1 DEF SchedInv, SleepOfPlace, ProgramOfPlace, IrqDiscipline, Returns, At
<1>8. QED
  BY <1>2, <1>4, <1>5, <1>6, <1>7 DEF SchedInv

-----------------------------------------------------------------------------
(* The invariant holds when scheduler_start is entered. *)
LEMMA SchedInitInv == Init => SchedInv
<1> SUFFICES ASSUME Init PROVE SchedInv
  OBVIOUS
<1> USE SchedAssumption, TaskNat DEF NULL, TASK_NOT_ALLOCATED, TASK_RUNNING, TASK_WAITING, TASK_DISK_READ
<1>1. DriverInv /\ \A t \in Tasks : ~Queued(t)
  BY IdleDriverInv DEF Init
<1>2. TypeOK
  <2>1. state \in [Tasks -> TaskStates] /\ pc \in [Tasks -> Labels] /\ spc \in SchedLabels
    BY DEF Init, TaskStates, Labels, SchedLabels
  <2>2. /\ ticks_remaining \in [Tasks -> Int] /\ nest \in [Tasks -> Nat]
        /\ upc \in [Tasks -> 0 .. Len(Program)]
    BY DEF Init
  <2>3. pages \in Nat /\ nread \in Nat /\ slot \in Nat
    BY DEF Init
  <2>4. QED
    BY <1>1, <2>1, <2>2, <2>3 DEF Init, TypeOK, AtaTypeOK, DriverInv
<1>3. CpuOwner /\ CurrentIsCpu /\ OwnKernelStack /\ AllocatedHaveStack /\ NoBug
  BY DEF Init, CpuOwner, CurrentIsCpu, OwnKernelStack, AllocatedHaveStack, NoBug
<1>4. PlaceWhenOff /\ StateOfPlace
  BY <1>1 DEF Init, PlaceWhenOff, StateOfPlace, Returns
<1>5. SleepOfPlace /\ ProgramOfPlace /\ IrqDiscipline
  BY DEF Init, SleepOfPlace, ProgramOfPlace, IrqDiscipline, Returns, At
<1>6. QED
  BY <1>1, <1>2, <1>3, <1>4, <1>5 DEF SchedInv

(* Every step of the kernel keeps the invariant. *)
LEMMA SchedNextInv ==
  ASSUME AtaInitDone, SchedInv, [Next]_vars
  PROVE  SchedInv'
<1>1. CASE panic = NoPanic /\ SchedulerStep
  BY <1>1, AllocateInv, StartedInv, SelectTaskInv, SkipSlotInv, SwitchInInv, EndOfPassInv,
     EnableIrqInv, DoIdleInv, DisableIrqInv DEF SchedulerStep
<1>2. ASSUME panic = NoPanic, NEW t \in Tasks, TaskStep(t)
      PROVE  SchedInv'
  BY <1>2, TaskInitInv, InitLateInv, JumpUserspaceInv, Int80Inv, SyscallInv, WaitInv,
     WaitStateInv, ReadBeginInv, ReadStateInv, ReadQueueInv, ReadReturnInv, RescheduleInv,
     SwitchOutInv, SysRetInv DEF TaskStep
<1>3. ASSUME panic = NoPanic, NEW t \in Tasks, IrqReturn(t)
      PROVE  SchedInv'
  BY <1>3, IrqReturnInv
<1>4. CASE panic = NoPanic /\ (TimerIrq \/ IdeIrq1 \/ OtherIrq \/ Drive)
  BY <1>4, TimerTickInv, TimerPreemptInv, TimerInSwitchInv, IdeIrqInv, OtherIrqInv, DriveInv
     DEF TimerIrq
<1>5. CASE Halted \/ UNCHANGED vars
  BY <1>5, DriveInv DEF Halted
<1>6. QED
  BY <1>1, <1>2, <1>3, <1>4, <1>5 DEF Next

(* The inductive invariant holds in every state of the kernel, for every   *)
(* number of tasks, program and set of reads, whenever the interrupts of   *)
(* timer.c, ata.c and the keyboard come and also when a tick hits          *)
(* switch_to.  It contains the type invariant.                             *)
THEOREM SchedInvariant ==
  ASSUME AtaInitDone
  PROVE  Spec => []SchedInv
<1>1. Init => SchedInv
  BY SchedInitInv
<1>2. SchedInv /\ [Next]_vars => SchedInv'
  BY SchedNextInv
<1>3. QED
  BY <1>1, <1>2, PTL DEF Spec

(* sched.c: current is the task on the CPU and its kernel stack is the one *)
(* interrupts from user space use.                                         *)
THEOREM KernelContext ==
  ASSUME AtaInitDone
  PROVE  Spec => [](CurrentIsCpu /\ OwnKernelStack)
<1>1. SchedInv => CurrentIsCpu /\ OwnKernelStack
  BY DEF SchedInv
<1>2. QED
  BY <1>1, SchedInvariant, PTL

(* All of syscall.c and ata.c writes through current, which is the task on *)
(* the CPU except in the two windows of switch_to and reschedule.          *)
THEOREM KernelCurrent ==
  ASSUME AtaInitDone
  PROVE  Spec => []CurrentIsCpu
<1>1. SchedInv => CurrentIsCpu
  BY DEF SchedInv
<1>2. QED
  BY <1>1, SchedInvariant, PTL

(* User code runs with interrupts enabled, the critical section of         *)
(* ata_read with interrupts disabled, although __switch_to passes IF on.   *)
THEOREM KernelIrqDiscipline ==
  ASSUME AtaInitDone
  PROVE  Spec => []IrqDiscipline
<1>1. SchedInv => IrqDiscipline
  BY DEF SchedInv
<1>2. QED
  BY <1>1, SchedInvariant, PTL

(* No assertion of sched.c, syscall.c or ata.c fires. *)
THEOREM KernelNoBug ==
  ASSUME AtaInitDone
  PROVE  Spec => []NoBug
<1>1. SchedInv => NoBug
  BY DEF SchedInv
<1>2. QED
  BY <1>1, SchedInvariant, PTL

(* syscall_wait returns after exactly the ticks it was asked for. *)
THEOREM KernelSleepFull ==
  ASSUME AtaInitDone
  PROVE  Spec => []SleepFull
<1>1. ASSUME SchedInv PROVE SleepFull
  <2>1. SUFFICES ASSUME NEW t \in Tasks, cpu = t, pc[t] = "wait_ret"
                 PROVE  ticks_remaining[t] = 0
    BY <1>1 DEF SchedInv, SleepOfPlace, SleepFull
  <2>2. state[t] = TASK_RUNNING /\ Returns(t, "wait_ret")
    BY <1>1, <2>1 DEF SchedInv, StateOfPlace, Returns
  <2>3. QED
    BY <1>1, <2>2 DEF SchedInv, SleepOfPlace
<1>2. SchedInv => SleepFull
  BY <1>1
<1>3. QED
  BY <1>2, SchedInvariant, PTL

(* No pointer of req_queue outlives the frame of ata_read that it points   *)
(* into, and ata_read returns only with all of its sectors.                *)
THEOREM KernelNoDanglingRequest ==
  ASSUME AtaInitDone
  PROVE  Spec => []NoDanglingRequest
<1>1. ASSUME SchedInv PROVE NoDanglingRequest
  <2>1. ASSUME NEW t \in Tasks, Queued(t)
        PROVE  pc[t] \in {"reschedule", "switch_to", "ata_ret"}
    BY <1>1, <2>1 DEF SchedInv, StateOfPlace, Returns
  <2>2. ASSUME NEW t \in Tasks, cpu = t, pc[t] = "ata_ret"
        PROVE  ~Queued(t) /\ req[t].buf = Sectors(req[t], req[t].seccount)
    <3>1. state[t] = TASK_RUNNING
      BY <1>1, <2>2 DEF SchedInv, StateOfPlace
    <3>2. ~Queued(t)
      BY <1>1, <3>1 DEF SchedInv, StateOfPlace, TASK_RUNNING, TASK_DISK_READ
    <3>3. /\ req[t].sectors_count \in Nat /\ req[t].buf \in Seq(Int)
          /\ Len(req[t].buf) \in Nat
      BY <1>1 DEF SchedInv, DriverInv, DriverTypeOK
    <3>4. req[t].sectors_count = 0
      BY <1>1, <3>2, <3>3 DEF SchedInv, DriverInv, CountMatchesQueue
    <3>5. Len(req[t].buf) = req[t].seccount
      BY <1>1, <3>3, <3>4 DEF SchedInv, DriverInv, DataInOrder
    <3>6. QED
      BY <1>1, <3>2, <3>5 DEF SchedInv, DriverInv, DataInOrder
  <2>3. QED
    BY <2>1, <2>2 DEF NoDanglingRequest
<1>2. SchedInv => NoDanglingRequest
  BY <1>1
<1>3. QED
  BY <1>2, SchedInvariant, PTL

-----------------------------------------------------------------------------
(* With only one task no timer frame lies on another.                      *)

(* A task on the CPU is allocated. *)
LEMMA OnCpuAllocated ==
  ASSUME SchedInv, NEW t \in Tasks, cpu = t
  PROVE  state[t] # TASK_NOT_ALLOCATED
BY DEF SchedInv, StateOfPlace

(* A slot of tasks[] is never given back, so that a task that is alone has *)
(* always been.                                                            *)
LEMMA TickKeepsAllocated ==
  ASSUME TickSleepers, NEW u \in Tasks, state'[u] = TASK_NOT_ALLOCATED
  PROVE  state[u] = TASK_NOT_ALLOCATED
BY DEF TickSleepers, TASK_NOT_ALLOCATED, TASK_RUNNING, TASK_WAITING, TASK_DISK_READ

(* A step that allocates no task away, stacks no frame and opens no        *)
(* interrupt window keeps LoneTaskMasked.                                  *)
LEMMA LoneTaskKept ==
  ASSUME LoneTaskMasked, nest' = nest,
         \A u \in Tasks : state'[u] = TASK_NOT_ALLOCATED => state[u] = TASK_NOT_ALLOCATED,
         spc' \in {"start", "scan", "jump", "away"} /\ iflag' =>
           spc \in {"start", "scan", "jump", "away"} /\ iflag
  PROVE  LoneTaskMasked'
BY DEF LoneTaskMasked

(* The scheduler's own steps: only sti opens a window, and cli closes it.  *)
LEMMA LoneTaskScheduler ==
  ASSUME SchedInv, LoneTaskMasked, SchedulerStep
  PROVE  LoneTaskMasked'
<1> USE DEF TASK_NOT_ALLOCATED, TASK_RUNNING, taskVars, cpuVars, atavars
<1>1. CASE task_allocate
  <2>1. \A u \in Tasks : state'[u] = TASK_NOT_ALLOCATED => state[u] = TASK_NOT_ALLOCATED
    BY <1>1 DEF task_allocate, task_setup, SchedInv, TypeOK, AtaTypeOK
  <2>2. nest' = nest /\ spc' = spc /\ iflag' = iflag
    BY <1>1 DEF task_allocate
  <2>3. QED
    BY <2>1, <2>2, LoneTaskKept
<1>2. CASE Started \/ SelectTask \/ SkipSlot
  BY <1>2, LoneTaskKept DEF Started, SelectTask, SkipSlot
<1>3. CASE SwitchIn
  BY <1>3, LoneTaskKept DEF SwitchIn, StopWith, schedVars
<1>4. CASE EndOfPass \/ EnableIrq \/ DoIdle \/ DisableIrq
  BY <1>4, LoneTaskKept DEF EndOfPass, EnableIrq, DoIdle, DisableIrq
<1>5. QED
  BY <1>1, <1>2, <1>3, <1>4 DEF SchedulerStep

(* The steps of a task: it has no frame on its stack, and the others are   *)
(* not alone while it is there.                                            *)
LEMMA LoneTaskTask ==
  ASSUME SchedInv, LoneTaskMasked, NEW t \in Tasks, TaskStep(t) \/ IrqReturn(t)
  PROVE  LoneTaskMasked'
<1>1. cpu = t /\ state[t] # TASK_NOT_ALLOCATED
  <2>1. cpu = t
    BY DEF TaskStep, IrqReturn, At, task_init, init_late, jump_userspace, Int80, syscall_irq,
       syscall_wait, syscall_wait_state, ata_read_begin, ata_read_state, ata_read_queue,
       ata_read_return, reschedule, SwitchOut, SysRet
  <2>2. QED
    BY <2>1, OnCpuAllocated
<1>2. state'[t] # TASK_NOT_ALLOCATED
  <2>1. CASE state' = state
    BY <1>1, <2>1
  <2>2. CASE syscall_wait_state(t) \/ ata_read_state(t)
    BY <1>1, <2>2, TaskNat DEF syscall_wait_state, ata_read_state, SchedInv, TypeOK, AtaTypeOK,
       CurrentIsCpu, At, TASK_NOT_ALLOCATED, TASK_RUNNING, TASK_WAITING, TASK_DISK_READ
  <2>3. QED
    BY <2>1, <2>2 DEF TaskStep, IrqReturn, task_init, init_late, jump_userspace, Int80,
       syscall_irq, syscall_wait, ata_read_begin, ata_read_queue, ata_read_return,
       reschedule, SwitchOut, SysRet, StopWith, atavars
<1>3. /\ nest'[t] \in Nat /\ nest[t] \in Nat
      /\ nest'[t] = 0 \/ (IrqReturn(t) /\ nest'[t] = nest[t] - 1)
  <2>1. CASE IrqReturn(t)
    BY <2>1 DEF IrqReturn, SchedInv, TypeOK
  <2>2. CASE TaskStep(t)
    <3>1. nest[t] = 0 /\ nest' = nest
      BY <2>2 DEF TaskStep, At, task_init, init_late, jump_userspace, Int80, syscall_irq,
         syscall_wait, syscall_wait_state, ata_read_begin, ata_read_state, ata_read_queue,
         ata_read_return, reschedule, SwitchOut, SysRet, StopWith, taskVars
    <3>2. QED
      BY <3>1
  <2>3. QED
    BY <2>1, <2>2
<1>4. SUFFICES ASSUME NEW v \in Tasks,
                      \A u \in Tasks \ {v} : state'[u] = TASK_NOT_ALLOCATED
               PROVE  /\ nest'[v] <= 1
                      /\ nest'[v] > 0 /\ spc' \in {"start", "scan", "jump", "away"} => ~iflag'
  BY DEF LoneTaskMasked
<1>5. v = t
  BY <1>2, <1>4
<1>6. CASE nest'[t] = 0
  BY <1>5, <1>6
<1>7. CASE IrqReturn(t) /\ nest'[t] = nest[t] - 1
  <2>1. \A u \in Tasks \ {t} : state[u] = TASK_NOT_ALLOCATED
    BY <1>4, <1>5, <1>7 DEF IrqReturn, atavars
  <2>2. nest[t] <= 1
    BY <2>1 DEF LoneTaskMasked
  <2>3. QED
    BY <1>3, <1>5, <1>7, <2>2
<1>8. QED
  BY <1>3, <1>6, <1>7

(* Interrupts: a tick stacks a frame on the task on the CPU, which had     *)
(* none, and clears IF; it leaves hlt only for cli.                        *)
LEMMA LoneTaskIrq ==
  ASSUME SchedInv, LoneTaskMasked, TimerIrq \/ IdeIrq1 \/ OtherIrq \/ Drive
  PROVE  LoneTaskMasked'
<1>1. CASE TimerTick
  <2>1. \A u \in Tasks : state'[u] = TASK_NOT_ALLOCATED => state[u] = TASK_NOT_ALLOCATED
    BY <1>1, TickKeepsAllocated DEF TimerTick
  <2>2. QED
    BY <1>1, <2>1, LoneTaskKept DEF TimerTick, LeaveHlt, taskVars, cpuVars
<1>2. CASE TimerPreempt
  <2>1. \A u \in Tasks : state'[u] = TASK_NOT_ALLOCATED => state[u] = TASK_NOT_ALLOCATED
    BY <1>2, TickKeepsAllocated DEF TimerPreempt
  <2>2. /\ current \in Tasks /\ cpu = current /\ iflag /\ ~iflag'
        /\ nest' = [nest EXCEPT ![current] = @ + 1]
        /\ nest \in [Tasks -> Nat]
    BY <1>2 DEF TimerPreempt, SchedInv, TypeOK, NULL
  <2>3. spc = "away"
    BY <2>2, TaskNat DEF SchedInv, CpuOwner
  <2>4. SUFFICES ASSUME NEW v \in Tasks,
                        \A u \in Tasks \ {v} : state[u] = TASK_NOT_ALLOCATED
                 PROVE  nest'[v] <= 1
    BY <2>1, <2>2 DEF LoneTaskMasked
  <2>5. v = current
    BY <2>2, <2>4, OnCpuAllocated
  <2>6. nest[v] = 0
    BY <2>2, <2>3, <2>4 DEF LoneTaskMasked
  <2>7. QED
    BY <2>2, <2>5, <2>6
<1>3. CASE TimerInSwitch
  <2>1. CASE state' = state /\ spc' = spc /\ nest' = nest /\ iflag' = iflag
    BY <2>1, LoneTaskKept
  <2>2. CASE TickSleepers /\ nest' = nest /\ ~iflag'
    <3>1. \A u \in Tasks : state'[u] = TASK_NOT_ALLOCATED => state[u] = TASK_NOT_ALLOCATED
      BY <2>2, TickKeepsAllocated
    <3>2. QED
      BY <2>2, <3>1, LoneTaskKept
  <2>3. QED
    BY <1>3, <2>1, <2>2 DEF TimerInSwitch, StopWith, taskVars, cpuVars, schedVars
<1>4. CASE IdeIrq1
  <2>1. \A u \in Tasks : state'[u] = TASK_NOT_ALLOCATED => state[u] = TASK_NOT_ALLOCATED
    BY <1>4 DEF IdeIrq1, ide_irq1, ata_process_request, SchedInv, TypeOK, AtaTypeOK,
       TASK_NOT_ALLOCATED, TASK_RUNNING
  <2>2. QED
    BY <1>4, <2>1, LoneTaskKept DEF IdeIrq1, LeaveHlt, taskVars, cpuVars
<1>5. CASE OtherIrq \/ Drive
  BY <1>5, LoneTaskKept DEF OtherIrq, Drive, DevSectorReady, LeaveHlt, taskVars, cpuVars,
     schedVars, atavars
<1>6. QED
  BY <1>1, <1>2, <1>3, <1>4, <1>5 DEF TimerIrq

(* With one task, as the kernel is shipped, at most one timer frame is on  *)
(* its kernel stack at a time, whatever the bound MaxNest on them: a tick  *)
(* that comes while scheduler_tick's reschedule is under way waits.        *)
THEOREM KernelOneTimerFrame ==
  ASSUME AtaInitDone
  PROVE  Spec => []OneTimerFrame
<1>1. Init => LoneTaskMasked
  BY DEF Init, LoneTaskMasked
<1>2. SchedInv /\ LoneTaskMasked /\ [Next]_vars => LoneTaskMasked'
  <2>1. CASE UNCHANGED vars
    BY <2>1, LoneTaskKept DEF vars, atavars, taskVars, cpuVars, schedVars
  <2>2. QED
    BY <2>1, LoneTaskScheduler, LoneTaskTask, LoneTaskIrq DEF Next, Halted
<1>3. ASSUME SchedInv, LoneTaskMasked PROVE OneTimerFrame
  <2>1. nest \in [Tasks -> Nat]
    BY <1>3 DEF SchedInv, TypeOK
  <2>2. QED
    BY <1>3, <2>1 DEF LoneTaskMasked, OneTimerFrame
<1>4. SchedInv /\ LoneTaskMasked => OneTimerFrame
  BY <1>3
<1>5. QED
  BY <1>1, <1>2, <1>4, SchedInvariant, PTL DEF Spec

-----------------------------------------------------------------------------
(* The kernel as a user of the driver.  BlockedAs is the value the         *)
(* driver's variable state has in a state of the kernel.                   *)
BlockedAs == [t \in Tasks |-> IF Queued(t) THEN TASK_DISK_READ ELSE TASK_RUNNING]

(* A step that leaves queue and drive alone is none of the driver's. *)
LEMMA DriverSleeps ==
  ASSUME UNCHANGED ataVars
  PROVE  UNCHANGED Driver!atavars
<1>1. req_queue' = req_queue /\ req' = req /\ dev' = dev /\ irq14' = irq14
  BY DEF ataVars
<1>2. QED
  BY <1>1 DEF Driver!atavars, Driver!ataVars, Queued

(* Of the steps of the kernel, only three touch queue and drive. *)
LEMMA DriverActions ==
  ASSUME [Next]_vars
  PROVE  \/ UNCHANGED ataVars
         \/ \E t \in Tasks : ata_read_queue(t)
         \/ IdeIrq1
         \/ Drive
<1>1. ASSUME NEW t \in Tasks, TaskStep(t)
      PROVE  UNCHANGED ataVars \/ ata_read_queue(t)
  BY <1>1 DEF TaskStep, task_init, init_late, jump_userspace, Int80, syscall_irq, syscall_wait,
     syscall_wait_state, ata_read_begin, ata_read_state, ata_read_return, reschedule, SwitchOut,
     SysRet, StopWith, atavars
<1>2. ASSUME SchedulerStep
      PROVE  UNCHANGED ataVars
  BY <1>2 DEF SchedulerStep, task_allocate, Started, SelectTask, SkipSlot, SwitchIn, EndOfPass,
     EnableIrq, DoIdle, DisableIrq, StopWith, atavars
<1>3. ASSUME NEW t \in Tasks, IrqReturn(t)
      PROVE  UNCHANGED ataVars
  BY <1>3 DEF IrqReturn, atavars
<1>4. ASSUME TimerIrq \/ OtherIrq \/ Halted \/ UNCHANGED vars
      PROVE  UNCHANGED ataVars
  BY <1>4 DEF TimerIrq, TimerTick, TimerPreempt, TimerInSwitch, OtherIrq, Halted, StopWith,
     atavars, vars
<1>5. QED
  BY <1>1, <1>2, <1>3, <1>4 DEF Next

(* The step of ata_read that links the request is the driver's ata_read. *)
LEMMA ReadQueueIsRead ==
  ASSUME AtaInitDone, SchedInv, SchedInv', NEW t \in Tasks, ata_read_queue(t)
  PROVE  Driver!AtaNext
<1>1. /\ pc[t] = "ata_queue"
      /\ req' = [req EXCEPT ![t] = NewReq(Asked(t))]
      /\ QueueRequest(t, NewReq(Asked(t)))
      /\ irq14' = irq14
  BY DEF ata_read_queue, At
<1>2. Asked(t) \in Requests
  <2>1. upc[t] = 0 => nread < Len(InitReads) /\ nread \in Nat
    BY <1>1 DEF SchedInv, TypeOK, ProgramOfPlace
  <2>2. QED
    BY <2>1, SchedAssumption DEF Asked
<1>3. ~Queued(t)
  BY <1>1 DEF SchedInv, StateOfPlace
<1>4. /\ panic' = panic
      /\ \A u \in Tasks : Queued(u)' <=> Queued(u) \/ u = t
  BY <1>1, <1>2, <1>3, LinkStep DEF SchedInv
<1>5. /\ BlockedAs[t] = TASK_RUNNING
      /\ BlockedAs' = [BlockedAs EXCEPT ![t] = TASK_DISK_READ]
  BY <1>3, <1>4 DEF BlockedAs
<1>6. ~(Asked(t).seccount >= 256)
  BY <1>2, AtaAssumption
<1>7. Driver!QueueRequest(t, Driver!NewReq(Asked(t)))
  <2>1. NewReq(Asked(t)).sectors_count = Asked(t).seccount
    BY DEF NewReq
  <2>2. CASE req_queue = <<>>
    <3>1. /\ req_queue' = <<t>>
          /\ dev' = Commanded(NewReq(Asked(t)))
      BY <1>1, <1>6, <2>1, <2>2 DEF QueueRequest, ata_issue_read_sectors
    <3>2. Driver!Commanded(Driver!NewReq(Asked(t))) = Commanded(NewReq(Asked(t)))
      BY SMT DEF Driver!Commanded, Commanded, Driver!NewReq, NewReq, Driver!LbaLimit, LbaLimit
    <3>3. QED
      BY <1>6, <2>1, <2>2, <3>1, <3>2 DEF Driver!QueueRequest, Driver!ata_issue_read_sectors, Driver!NewReq
  <2>3. CASE req_queue # <<>>
    BY <1>1, <2>3 DEF QueueRequest, Driver!QueueRequest
  <2>4. QED
    BY <2>2, <2>3
<1>8. Driver!ata_read(t, Asked(t))
  BY <1>1, <1>5, <1>7 DEF BlockedAs, Driver!ata_read, Driver!NewReq, NewReq, Driver!Tasks, Tasks,
     Driver!TASK_RUNNING, TASK_RUNNING, Driver!TASK_DISK_READ, TASK_DISK_READ
<1>9. QED
  BY <1>2, <1>8 DEF Driver!AtaNext, Driver!Tasks, Tasks, Driver!NoPanic, NoPanic

(* The handler of the drive's interrupt is the driver's. *)
LEMMA IrqIsIrq ==
  ASSUME AtaInitDone, SchedInv, IdeIrq1
  PROVE  Driver!AtaNext
<1>1. ide_irq1
  BY DEF IdeIrq1
<1>2. /\ req_queue # <<>> /\ Head(req_queue) \in Tasks
      /\ req[Head(req_queue)].sectors_count \in Nat \ {0}
  BY <1>1, IrqFindsRequest DEF SchedInv, ide_irq1
<1>3. PICK h \in Tasks : h = Head(req_queue)
  BY <1>2
<1>4. Queued(h)
  <2>1. req_queue \in Seq(Tasks)
    BY DEF SchedInv, DriverInv, DriverTypeOK
  <2>2. Len(req_queue) \in Nat \ {0} /\ req_queue[1] = h
    BY <1>2, <1>3, <2>1
  <2>3. QED
    BY <2>2 DEF Queued
<1>5. state[h] = TASK_DISK_READ /\ state \in [Tasks -> TaskStates]
  BY <1>4 DEF SchedInv, StateOfPlace, TypeOK, AtaTypeOK
<1>6. /\ panic' = panic
      /\ \/ state' = state /\ \A u \in Tasks : Queued(u)' <=> Queued(u)
         \/ \E t \in Tasks :
              /\ Queued(t)
              /\ state' = [state EXCEPT ![t] = TASK_RUNNING]
              /\ \A u \in Tasks : Queued(u)' <=> Queued(u) /\ u # t
  BY <1>1, IrqStep DEF SchedInv
<1>7. /\ irq14 /\ irq14' = FALSE
      /\ req' = [req EXCEPT ![h] = WithSector(req[h])]
  BY <1>1, <1>2, <1>3 DEF ide_irq1, ata_process_request, LastSector, StartNext
<1>8. WithSector(req[h]) = Driver!WithSector(req[h]) /\ DevAfterRead = Driver!DevAfterRead
  BY DEF WithSector, Driver!WithSector, SectorRead, Driver!SectorRead, Garbage, Driver!Garbage,
     DevAfterRead, Driver!DevAfterRead
<1>9. CASE req[h].sectors_count = 1
  <2>1. /\ state' = [state EXCEPT ![h] = TASK_RUNNING]
        /\ req_queue' = Tail(req_queue)
        /\ IF Tail(req_queue) # <<>>
             THEN ata_issue_read_sectors(req[Head(Tail(req_queue))])
             ELSE dev' = DevAfterRead /\ UNCHANGED panic
    BY <1>1, <1>2, <1>3, <1>9 DEF ide_irq1, ata_process_request, LastSector, StartNext
  <2>2. \A u \in Tasks : Queued(u)' <=> Queued(u) /\ u # h
    <3>1. state'[h] = TASK_RUNNING /\ TASK_RUNNING # TASK_DISK_READ
      BY <1>5, <2>1 DEF TASK_RUNNING, TASK_DISK_READ
    <3>2. PICK t \in Tasks :
              /\ Queued(t)
              /\ state' = [state EXCEPT ![t] = TASK_RUNNING]
              /\ \A u \in Tasks : Queued(u)' <=> Queued(u) /\ u # t
      BY <1>5, <1>6, <3>1
    <3>3. t = h
      BY <1>5, <3>1, <3>2
    <3>4. QED
      BY <3>2, <3>3
  <2>3. BlockedAs' = [BlockedAs EXCEPT ![h] = TASK_RUNNING]
    BY <2>2 DEF BlockedAs
  <2>4. ASSUME Tail(req_queue) # <<>>
        PROVE  Driver!ata_issue_read_sectors(req[Head(Tail(req_queue))])
    <3>1. panic' = panic /\ panic \in {NoPanic, "cannot allocate init task", "corrupt context"}
      BY <1>6 DEF SchedInv, NoBug
    <3>2. /\ ~(req[Head(Tail(req_queue))].sectors_count >= 256)
          /\ dev' = Commanded(req[Head(Tail(req_queue))])
      BY <2>1, <2>4, <3>1 DEF ata_issue_read_sectors, NoPanic
    <3>3. Commanded(req[Head(Tail(req_queue))]) = Driver!Commanded(req[Head(Tail(req_queue))])
      BY SMT DEF Driver!Commanded, Commanded, Driver!LbaLimit, LbaLimit
    <3>4. QED
      BY <3>2, <3>3 DEF Driver!ata_issue_read_sectors, Driver!NoPanic
  <2>5. Driver!ata_process_request
    BY <1>2, <1>3, <1>7, <1>8, <1>9, <2>1, <2>3, <2>4 DEF Driver!ata_process_request, Driver!LastSector, Driver!StartNext,
       BlockedAs,
       TASK_RUNNING, TASK_DISK_READ, Driver!TASK_RUNNING
  <2>6. QED
    BY <1>7, <2>5 DEF Driver!AtaNext, Driver!ide_irq1, Driver!NoPanic, NoPanic
<1>10. CASE req[h].sectors_count # 1
  <2>1. state' = state /\ req_queue' = req_queue /\ dev' = DevAfterRead
    BY <1>1, <1>2, <1>3, <1>10 DEF ide_irq1, ata_process_request, LastSector, StartNext
  <2>2. BlockedAs' = BlockedAs
    BY <2>1 DEF BlockedAs, Queued
  <2>3. Driver!ata_process_request
    BY <1>2, <1>3, <1>7, <1>8, <1>10, <2>1, <2>2 DEF Driver!ata_process_request, Driver!LastSector, Driver!StartNext,
       BlockedAs
  <2>4. QED
    BY <1>7, <2>3 DEF Driver!AtaNext, Driver!ide_irq1, Driver!NoPanic, NoPanic
<1>11. QED
  BY <1>9, <1>10

(* The drive's own step. *)
LEMMA DriveIsDrive ==
  ASSUME Drive
  PROVE  Driver!AtaNext
<1>1. /\ dev.left > 0 /\ ~dev.drq
      /\ dev' = [dev EXCEPT !.drq = TRUE]
      /\ irq14' = TRUE
      /\ req_queue' = req_queue /\ req' = req
  BY DEF Drive, DevSectorReady
<1>2. Driver!DevSectorReady
  BY <1>1 DEF Driver!DevSectorReady, Queued
<1>3. QED
  BY <1>2 DEF Driver!AtaNext, Driver!NoPanic, NoPanic

(* The scheduler, the system calls and the interrupt handlers use the      *)
(* driver as module Ata assumes its callers do: one request per task,      *)
(* linked while the task can run and wake-ups while it is blocked.         *)
THEOREM KernelRefinesAta ==
  ASSUME AtaInitDone
  PROVE  Spec => KernelImplementsAta
<1>1. Init => Driver!AtaInit
  <2>1. SUFFICES ASSUME Init PROVE Driver!AtaInit
    OBVIOUS
  <2>2. \A t \in Tasks : ~Queued(t)
    BY <2>1 DEF Init, Queued
  <2>3. QED
    BY <2>1, <2>2 DEF Init, Driver!AtaInit, Driver!NoReq, NoReq, Driver!IdleDev, IdleDev,
       Driver!Tasks, Tasks, Driver!TASK_RUNNING, TASK_RUNNING, Driver!NoPanic, NoPanic
<1>2. SchedInv /\ SchedInv' /\ [Next]_vars => [Driver!AtaNext]_(Driver!atavars)
  BY DriverActions, DriverSleeps, ReadQueueIsRead, IrqIsIrq, DriveIsDrive
<1>3. QED
  BY <1>1, <1>2, SchedInvariant, PTL DEF Spec, KernelImplementsAta, Driver!AtaSpec
=============================================================================
