------------------------------- MODULE Sched -------------------------------
(***************************************************************************)
(* The running kernel: the scheduler loop and the task switch of sched.c,  *)
(* the system calls of syscall.c, ata_read of ata.c and the interrupt      *)
(* handlers that cut into all of them, on one CPU.                         *)
(*                                                                         *)
(* An action is one interruptible step of the code.  Gates 32 to 42 are    *)
(* interrupt gates, so a handler runs with IF clear and is one action; the *)
(* system call gate is a trap gate, so a system call keeps IF set and is   *)
(* cut at every access to state that a handler reads or writes.            *)
(* __switch_to saves no flags: IF passes from the task that leaves to the  *)
(* scheduler and from the scheduler to the task that comes, and only iret, *)
(* cli and sti change it.                                                  *)
(***************************************************************************)
EXTENDS Ata

CONSTANTS
  NumTasks,    \* bound on the calls of task_allocate (scheduler_start makes one)
  Program,     \* the system calls userspace_fn makes, over and over
  InitReads,   \* the reads init_late makes before pid 1 enters user space
  SyscallRead, \* the request of syscall_read
  FreePages,   \* how many pages kalloc may have left at scheduler_start
  MaxNest,     \* bound: timer frames stacked on one kernel stack
  SwitchRace   \* whether a tick may hit switch_to after it has set current

(* No task; also the CPU when it executes the scheduler itself. *)
NULL == 0

NR_WAIT  == 0
NR_PRINT == 1
NR_READ  == 2
NR_CALLS == 3

ASSUME SchedAssumption ==
  /\ NumTasks \in Nat \ {0}
  /\ Program \in Seq([nr : Nat, ebx : Int]) /\ Program # <<>>
  /\ InitReads \in Seq(Requests)
  /\ SyscallRead \in Requests
  /\ FreePages \subseteq Nat
  /\ MaxNest \in Nat \ {0}
  /\ SwitchRace \in BOOLEAN

VARIABLES
  ticks_remaining, \* ticks_remaining[t]
  kstack,          \* the tasks that have a kernel stack
  pages,           \* pages left in kalloc's free list
  current,         \* the global current
  esp0,            \* the task whose kernel stack TSS.esp0 points to
  cpu,             \* whose stack the CPU is on: a task, or NULL for the scheduler
  iflag,           \* IF
  pc,              \* pc[t]: where t's own code is, or will go on
  ra,              \* ra[t]: where t's call of reschedule returns to
  irq_state,       \* irq_state[t]: __irq_state of t's ata_read
  nest,            \* nest[t]: timer frames on t's kernel stack
  upc,             \* upc[t]: t's place in Program; 0 before user space
  nread,           \* reads of InitReads that have returned
  spc,             \* where the scheduler's code is
  slot,            \* pid of the slot the scheduler loop looks at
  found            \* found of scheduler_start

taskVars  == <<pc, ra, irq_state, nest, upc, nread>>
cpuVars   == <<current, esp0, cpu, iflag>>
schedVars == <<spc, slot, found>>
memVars   == <<kstack, pages>>
vars == <<atavars, ticks_remaining, taskVars, cpuVars, schedVars, memVars>>

(* The machine stops with a message, or is lost. *)
StopWith(msg) ==
  /\ panic' = msg
  /\ UNCHANGED <<ataVars, state, ticks_remaining, taskVars, cpuVars, schedVars, memVars>>

Init ==
  /\ req_queue = <<>>
  /\ req = [t \in Tasks |-> NoReq]
  /\ dev = IdleDev
  /\ irq14 = FALSE
  /\ state = [t \in Tasks |-> TASK_NOT_ALLOCATED]
  /\ panic = NoPanic
  /\ ticks_remaining = [t \in Tasks |-> 0]
  /\ kstack = {}
  /\ pages \in FreePages
  /\ current = NULL
  /\ esp0 = NULL
  /\ cpu = NULL
  /\ iflag = FALSE
  /\ pc = [t \in Tasks |-> "task_init"]
  /\ ra = [t \in Tasks |-> "sysret"]
  /\ irq_state = [t \in Tasks |-> FALSE]
  /\ nest = [t \in Tasks |-> 0]
  /\ upc = [t \in Tasks |-> 0]
  /\ nread = 0
  /\ spc = "start"
  /\ slot = 1
  /\ found = FALSE

-----------------------------------------------------------------------------
(* Boot.  scheduler_start allocates one task; the model allocates any      *)
(* number up to NumTasks.  Until the loop begins, slot counts the calls.   *)

FirstFree(t) ==
  /\ state[t] = TASK_NOT_ALLOCATED
  /\ \A u \in 1 .. (t - 1) : state[u] # TASK_NOT_ALLOCATED

(* The slot is marked before its stack is allocated, and stays marked when *)
(* there is no page for it; the caller panics.                             *)
task_setup(t) ==
  /\ state' = [state EXCEPT ![t] = TASK_RUNNING]
  /\ IF pages = 0
       THEN /\ panic' = "cannot allocate init task"
            /\ UNCHANGED <<memVars, slot>>
       ELSE /\ pages' = pages - 1
            /\ kstack' = kstack \cup {t}
            /\ slot' = slot + 1
            /\ UNCHANGED panic

task_allocate ==
  /\ spc = "start" /\ slot <= NumTasks
  /\ \/ \E t \in Tasks : FirstFree(t) /\ task_setup(t)
     \/ /\ \A t \in Tasks : state[t] # TASK_NOT_ALLOCATED
        /\ panic' = "cannot allocate init task"
        /\ UNCHANGED <<state, memVars, slot>>
  /\ UNCHANGED <<ataVars, ticks_remaining, taskVars, cpuVars, spc, found>>

Started ==
  /\ spc = "start" /\ slot > 1
  /\ spc' = "scan" /\ slot' = 1
  /\ UNCHANGED <<atavars, ticks_remaining, taskVars, cpuVars, found, memVars>>

-----------------------------------------------------------------------------
(* The scheduler loop.                                                     *)

(* Mutant: TSS.esp0 keeps pointing to the stack of the task before. *)
SelectTaskOldStack ==
  /\ spc = "scan" /\ slot \in Tasks /\ state[slot] = TASK_RUNNING
  /\ current' = slot /\ spc' = "jump"
  /\ UNCHANGED <<atavars, ticks_remaining, taskVars, esp0, cpu, iflag, slot, found, memVars>>

(* Mutant: every allocated task is taken for runnable. *)
SelectTaskBlocked ==
  /\ spc = "scan" /\ slot \in Tasks /\ state[slot] # TASK_NOT_ALLOCATED
  /\ esp0' = slot /\ current' = slot /\ spc' = "jump"
  /\ UNCHANGED <<atavars, ticks_remaining, taskVars, cpu, iflag, slot, found, memVars>>

(* A runnable task in this slot: the part of switch_to up to the           *)
(* assignment of current.                                                  *)
SelectTask ==
  /\ spc = "scan" /\ slot \in Tasks /\ state[slot] = TASK_RUNNING
  /\ esp0' = slot /\ current' = slot
  /\ spc' = "jump"
  /\ UNCHANGED <<atavars, ticks_remaining, taskVars, cpu, iflag, slot, found, memVars>>

SkipSlot ==
  /\ spc = "scan" /\ slot \in Tasks /\ state[slot] # TASK_RUNNING
  /\ slot' = slot + 1
  /\ UNCHANGED <<atavars, ticks_remaining, taskVars, cpuVars, spc, found, memVars>>

(* The rest of switch_to: __switch_to(&scheduler_context, &task->context). *)
(* A task whose saved context is not its own any more takes the machine    *)
(* with it.                                                                *)
SwitchIn ==
  /\ spc = "jump"
  /\ IF pc[current] = "lost"
       THEN StopWith("corrupt context")
       ELSE /\ cpu' = current
            /\ spc' = "away"
            /\ UNCHANGED <<atavars, ticks_remaining, taskVars, current, esp0, iflag,
                           slot, found, memVars>>

(* __switch_to(&old->context, &scheduler_context), as the loop sees it: it *)
(* goes on behind its call of switch_to.                                   *)
ReturnToScheduler ==
  /\ cpu' = NULL
  /\ found' = TRUE
  /\ slot' = slot + 1
  /\ spc' = "scan"

(* Mutant: the loop may end before the last slot. *)
EndOfPassEarly ==
  /\ spc = "scan" /\ slot >= MaxTasks
  /\ slot' = 1 /\ found' = FALSE
  /\ spc' = IF found THEN "scan" ELSE "sti"
  /\ UNCHANGED <<atavars, ticks_remaining, taskVars, cpuVars, memVars>>

(* The end of the for loop over tasks[]. *)
EndOfPass ==
  /\ spc = "scan" /\ slot > MaxTasks
  /\ slot' = 1 /\ found' = FALSE
  /\ spc' = IF found THEN "scan" ELSE "sti"
  /\ UNCHANGED <<atavars, ticks_remaining, taskVars, cpuVars, memVars>>

(* enable_irq(); do_idle(); disable_irq().  An interrupt may hit between   *)
(* sti and hlt; hlt itself is left by the interrupt that ends it.          *)
EnableIrq ==
  /\ spc = "sti"
  /\ iflag' = TRUE
  /\ spc' = "pre_hlt"
  /\ UNCHANGED <<atavars, ticks_remaining, taskVars, current, esp0, cpu, slot, found, memVars>>

DoIdle ==
  /\ spc = "pre_hlt"
  /\ spc' = "hlt"
  /\ UNCHANGED <<atavars, ticks_remaining, taskVars, cpuVars, slot, found, memVars>>

DisableIrq ==
  /\ spc = "cli"
  /\ iflag' = FALSE
  /\ spc' = "scan"
  /\ UNCHANGED <<atavars, ticks_remaining, taskVars, current, esp0, cpu, slot, found, memVars>>

SchedulerStep ==
  \/ task_allocate \/ Started
  \/ SelectTask \/ SkipSlot \/ SwitchIn \/ EndOfPass
  \/ EnableIrq \/ DoIdle \/ DisableIrq

-----------------------------------------------------------------------------
(* The code of a task, in kernel and in user mode.                         *)

(* The CPU executes t's own code, not the tail of a timer interrupt. *)
At(t, label) == cpu = t /\ nest[t] = 0 /\ pc[t] = label

Goto(t, label) == pc' = [pc EXCEPT ![t] = label]

(* current->pid == 1 runs init_late; the others go straight to             *)
(* __jump_userspace.                                                       *)
task_init(t) ==
  /\ At(t, "task_init")
  /\ Goto(t, IF current = 1 THEN "init_late" ELSE "jump_userspace")
  /\ UNCHANGED <<atavars, ticks_remaining, ra, irq_state, nest, upc, nread,
                 cpuVars, schedVars, memVars>>

(* init_ext2 calls ata_read for every block it needs, then returns. *)
init_late(t) ==
  /\ At(t, "init_late")
  /\ Goto(t, IF nread < Len(InitReads) THEN "ata_read" ELSE "jump_userspace")
  /\ UNCHANGED <<atavars, ticks_remaining, ra, irq_state, nest, upc, nread,
                 cpuVars, schedVars, memVars>>

(* iret to user space with the eflags of the frame, in which IF is set.    *)
jump_userspace(t) ==
  /\ At(t, "jump_userspace")
  /\ Goto(t, "user")
  /\ iflag' = TRUE
  /\ upc' = [upc EXCEPT ![t] = 1]
  /\ UNCHANGED <<atavars, ticks_remaining, ra, irq_state, nest, nread,
                 current, esp0, cpu, schedVars, memVars>>

(* int $0x80: vector 128 is a trap gate and leaves IF alone. *)
Int80(t) ==
  /\ At(t, "user")
  /\ Goto(t, "syscall_irq")
  /\ UNCHANGED <<atavars, ticks_remaining, ra, irq_state, nest, upc, nread,
                 cpuVars, schedVars, memVars>>

(* What syscall_irq calls, and syscall_wait's check of its argument. *)
Dispatch(call) ==
  CASE call.nr = NR_READ                  -> "ata_read"
    [] call.nr = NR_WAIT /\ call.ebx > 0  -> "wait"
    [] OTHER                              -> "sysret"

syscall_irq(t) ==
  /\ At(t, "syscall_irq")
  /\ IF current = NULL
       THEN StopWith("BUG_ON_NULL(current)")
       ELSE /\ Goto(t, Dispatch(Program[upc[t]]))
            /\ UNCHANGED <<atavars, ticks_remaining, ra, irq_state, nest, upc, nread,
                           cpuVars, schedVars, memVars>>

(* Mutant: the ticks are not stored. *)
syscall_waitForgets(t) ==
  /\ At(t, "wait")
  /\ Goto(t, "wait_state")
  /\ UNCHANGED <<atavars, ticks_remaining, ra, irq_state, nest, upc, nread, cpuVars, schedVars, memVars>>

(* syscall_wait sets ticks_remaining and then the state that makes the     *)
(* timer look at it.                                                       *)
syscall_wait(t) ==
  /\ At(t, "wait")
  /\ ticks_remaining' = [ticks_remaining EXCEPT ![current] = Program[upc[t]].ebx]
  /\ Goto(t, "wait_state")
  /\ UNCHANGED <<atavars, ra, irq_state, nest, upc, nread, cpuVars, schedVars, memVars>>

syscall_wait_state(t) ==
  /\ At(t, "wait_state")
  /\ state' = [state EXCEPT ![current] = TASK_WAITING]
  /\ ra' = [ra EXCEPT ![t] = "wait_ret"]
  /\ Goto(t, "reschedule")
  /\ UNCHANGED <<ataVars, panic, ticks_remaining, irq_state, nest, upc, nread,
                 cpuVars, schedVars, memVars>>

(* Mutant: interrupts stay enabled. *)
ata_read_beginNoCli(t) ==
  /\ At(t, "ata_read")
  /\ irq_state' = [irq_state EXCEPT ![t] = iflag]
  /\ Goto(t, "ata_state")
  /\ UNCHANGED <<atavars, ticks_remaining, ra, nest, upc, nread,
                 cpuVars, schedVars, memVars>>

(* ata_read up to DISABLE_IRQ_BEGIN. *)
ata_read_begin(t) ==
  /\ At(t, "ata_read")
  /\ IF current = NULL
       THEN StopWith("BUG_ON(!current)")
       ELSE /\ irq_state' = [irq_state EXCEPT ![t] = iflag]
            /\ iflag' = FALSE
            /\ Goto(t, "ata_state")
            /\ UNCHANGED <<atavars, ticks_remaining, ra, nest, upc, nread,
                           current, esp0, cpu, schedVars, memVars>>

ata_read_state(t) ==
  /\ At(t, "ata_state")
  /\ state' = [state EXCEPT ![current] = TASK_DISK_READ]
  /\ Goto(t, "ata_queue")
  /\ UNCHANGED <<ataVars, panic, ticks_remaining, ra, irq_state, nest, upc, nread,
                 cpuVars, schedVars, memVars>>

(* What the call of ata_read that t is in asks for. *)
Asked(t) == IF upc[t] = 0 THEN InitReads[nread + 1] ELSE SyscallRead

(* The rest of the critical section, and DISABLE_IRQ_END.  The local       *)
(* variable req is nobody else's until it is linked, so its initialisation *)
(* is part of this step.                                                   *)
ata_read_queue(t) ==
  /\ At(t, "ata_queue")
  /\ req' = [req EXCEPT ![t] = NewReq(Asked(t))]
  /\ QueueRequest(t, NewReq(Asked(t)))
  /\ iflag' = (iflag \/ irq_state[t])
  /\ ra' = [ra EXCEPT ![t] = "ata_ret"]
  /\ Goto(t, "reschedule")
  /\ UNCHANGED <<irq14, state, ticks_remaining, irq_state, nest, upc, nread,
                 current, esp0, cpu, schedVars, memVars>>

(* ata_read returns to init_ext2 or to syscall_read. *)
ata_read_return(t) ==
  /\ At(t, "ata_ret")
  /\ IF upc[t] = 0
       THEN Goto(t, "init_late") /\ nread' = nread + 1
       ELSE Goto(t, "sysret") /\ UNCHANGED nread
  /\ UNCHANGED <<atavars, ticks_remaining, ra, irq_state, nest, upc,
                 cpuVars, schedVars, memVars>>

(* Mutant: current stays set. *)
rescheduleKeepsCurrent(t) ==
  /\ At(t, "reschedule")
  /\ Goto(t, "switch_to")
  /\ UNCHANGED <<atavars, ticks_remaining, ra, irq_state, nest, upc, nread,
                 cpuVars, schedVars, memVars>>

(* reschedule up to its __switch_to. *)
reschedule(t) ==
  /\ At(t, "reschedule")
  /\ IF current = NULL
       THEN StopWith("BUG_ON_NULL(current)")
       ELSE /\ current' = NULL
            /\ Goto(t, "switch_to")
            /\ UNCHANGED <<atavars, ticks_remaining, ra, irq_state, nest, upc, nread,
                           esp0, cpu, iflag, schedVars, memVars>>

(* reschedule's __switch_to: t goes on at ra[t] when it is chosen again.   *)
SwitchOut(t) ==
  /\ At(t, "switch_to")
  /\ Goto(t, ra[t])
  /\ ReturnToScheduler
  /\ UNCHANGED <<atavars, ticks_remaining, ra, irq_state, nest, upc, nread,
                 current, esp0, iflag, memVars>>

(* iret from the system call to user space. *)
SysRet(t) ==
  /\ \/ At(t, "sysret")
     \/ At(t, "wait_ret")
  /\ Goto(t, "user")
  /\ iflag' = TRUE
  /\ upc' = [upc EXCEPT ![t] = (@ % Len(Program)) + 1]
  /\ UNCHANGED <<atavars, ticks_remaining, ra, irq_state, nest, nread,
                 current, esp0, cpu, schedVars, memVars>>

TaskStep(t) ==
  \/ task_init(t) \/ init_late(t) \/ jump_userspace(t)
  \/ Int80(t) \/ syscall_irq(t) \/ syscall_wait(t) \/ syscall_wait_state(t)
  \/ ata_read_begin(t) \/ ata_read_state(t) \/ ata_read_queue(t) \/ ata_read_return(t)
  \/ reschedule(t) \/ SwitchOut(t) \/ SysRet(t)

(* iret from a timer interrupt that had taken the CPU from t: what it      *)
(* interrupted had IF set.                                                 *)
IrqReturn(t) ==
  /\ cpu = t /\ nest[t] > 0
  /\ nest' = [nest EXCEPT ![t] = @ - 1]
  /\ iflag' = TRUE
  /\ UNCHANGED <<atavars, ticks_remaining, pc, ra, irq_state, upc, nread,
                 current, esp0, cpu, schedVars, memVars>>

-----------------------------------------------------------------------------
(* Interrupts, delivered when IF is set.  A handler leaves its vector in   *)
(* service for no longer than it runs: each calls apic_eoi.                *)

(* An interrupt ends hlt. *)
LeaveHlt == spc' = IF spc = "hlt" THEN "cli" ELSE spc

(* Mutant: a task is woken one tick early. *)
TickSleepersEarly ==
  /\ ticks_remaining' =
       [t \in Tasks |-> IF state[t] = TASK_WAITING THEN ticks_remaining[t] - 1
                                                   ELSE ticks_remaining[t]]
  /\ state' =
       [t \in Tasks |-> IF state[t] = TASK_WAITING /\ ticks_remaining[t] <= 2
                          THEN TASK_RUNNING ELSE state[t]]

(* The loop of scheduler_tick over the sleeping tasks. *)
TickSleepers ==
  /\ ticks_remaining' =
       [t \in Tasks |-> IF state[t] = TASK_WAITING THEN ticks_remaining[t] - 1
                                                   ELSE ticks_remaining[t]]
  /\ state' =
       [t \in Tasks |-> IF state[t] = TASK_WAITING /\ ticks_remaining[t] = 1
                          THEN TASK_RUNNING ELSE state[t]]

(* Mutant: the tick is lost when no task is current. *)
TimerTickLost ==
  /\ iflag /\ current = NULL
  /\ LeaveHlt
  /\ UNCHANGED <<atavars, ticks_remaining, taskVars, cpuVars, slot, found, memVars>>

(* timer_irq when no task is current: it only ticks the sleepers. *)
TimerTick ==
  /\ iflag /\ current = NULL
  /\ TickSleepers
  /\ LeaveHlt
  /\ UNCHANGED <<ataVars, panic, taskVars, cpuVars, slot, found, memVars>>

(* Mutant: a trap gate, which leaves IF set. *)
TimerPreemptTrapGate ==
  /\ iflag /\ current # NULL /\ cpu = current /\ nest[current] < MaxNest
  /\ TickSleepers
  /\ nest' = [nest EXCEPT ![current] = @ + 1]
  /\ current' = NULL
  /\ ReturnToScheduler
  /\ UNCHANGED <<ataVars, panic, pc, ra, irq_state, upc, nread, esp0, iflag, memVars>>

(* timer_irq when it interrupts the current task: scheduler_tick calls     *)
(* reschedule from the handler, on the task's stack.                       *)
TimerPreempt ==
  /\ iflag /\ current # NULL /\ cpu = current /\ nest[current] < MaxNest
  /\ TickSleepers
  /\ nest' = [nest EXCEPT ![current] = @ + 1]
  /\ current' = NULL
  /\ iflag' = FALSE
  /\ ReturnToScheduler
  /\ UNCHANGED <<ataVars, panic, pc, ra, irq_state, upc, nread, esp0, memVars>>

(* timer_irq when it interrupts switch_to after current was set and before *)
(* the stacks are switched.  reschedule saves the scheduler's stack as the *)
(* context of the task, and resumes scheduler_context: what is there is    *)
(* from the previous switch, and the frame it points to overwritten, or it *)
(* is already from this one.                                               *)
TimerInSwitch ==
  /\ SwitchRace
  /\ iflag /\ current # NULL /\ cpu = NULL
  /\ \/ StopWith("corrupt context")
     \/ /\ TickSleepers
        /\ pc' = [pc EXCEPT ![current] = "lost"]
        /\ current' = NULL
        /\ iflag' = FALSE
        /\ ReturnToScheduler
        /\ UNCHANGED <<ataVars, panic, ra, irq_state, nest, upc, nread, esp0, memVars>>

TimerIrq == TimerTick \/ TimerPreempt \/ TimerInSwitch

(* Mutant: the drive's interrupt is not acknowledged. *)
IdeIrq1NoEoi ==
  /\ iflag /\ irq14
  /\ ata_process_request
  /\ LeaveHlt
  /\ UNCHANGED <<irq14, ticks_remaining, taskVars, cpuVars, slot, found, memVars>>

(* The interrupt of the primary IDE channel. *)
IdeIrq1 ==
  /\ iflag
  /\ ide_irq1
  /\ LeaveHlt
  /\ UNCHANGED <<ticks_remaining, taskVars, cpuVars, slot, found, memVars>>

(* The keyboard, the secondary IDE channel and spurious interrupts: to     *)
(* this part of the kernel they only end hlt.                              *)
OtherIrq ==
  /\ iflag /\ spc = "hlt"
  /\ LeaveHlt
  /\ UNCHANGED <<atavars, ticks_remaining, taskVars, cpuVars, slot, found, memVars>>

Drive ==
  /\ DevSectorReady
  /\ UNCHANGED <<ticks_remaining, taskVars, cpuVars, schedVars, memVars>>

-----------------------------------------------------------------------------
(* panic: interrupts off and hlt, for ever. *)
Halted == panic # NoPanic /\ UNCHANGED vars

Alive(A) == panic = NoPanic /\ A

Next ==
  \/ /\ panic = NoPanic
     /\ \/ SchedulerStep
        \/ \E t \in Tasks : TaskStep(t) \/ IrqReturn(t)
        \/ TimerIrq \/ IdeIrq1 \/ OtherIrq \/ Drive
  \/ Halted

Spec == Init /\ [][Next]_vars

(* The CPU never stops: the scheduler's own steps happen, and what a task  *)
(* can do again and again it does in the end, because a tick is longer     *)
(* than an instruction.  The local APIC latches interrupts, so one that    *)
(* can be delivered again and again is.  The drive transfers what it was   *)
(* asked for.                                                              *)
Fairness ==
  /\ WF_vars(Alive(SchedulerStep))
  /\ \A t \in Tasks : SF_vars(Alive(TaskStep(t))) /\ SF_vars(Alive(IrqReturn(t)))
  /\ SF_vars(Alive(TimerIrq))
  /\ SF_vars(Alive(IdeIrq1))
  /\ WF_vars(Alive(Drive))

FairSpec == Spec /\ Fairness

-----------------------------------------------------------------------------
Labels == {"task_init", "init_late", "jump_userspace", "user", "syscall_irq", "wait",
           "wait_state", "wait_ret", "ata_read", "ata_state", "ata_queue", "ata_ret",
           "reschedule", "switch_to", "sysret", "lost"}

SchedLabels == {"start", "scan", "jump", "away", "sti", "pre_hlt", "hlt", "cli"}

(* Every variable of the kernel keeps its type. *)
TypeOK ==
  /\ AtaTypeOK
  /\ ticks_remaining \in [Tasks -> Int]
  /\ kstack \subseteq Tasks
  /\ pages \in Nat
  /\ current \in Tasks \cup {NULL}
  /\ esp0 \in Tasks \cup {NULL}
  /\ cpu \in Tasks \cup {NULL}
  /\ iflag \in BOOLEAN
  /\ pc \in [Tasks -> Labels]
  /\ ra \in [Tasks -> {"sysret", "wait_ret", "ata_ret"}]
  /\ irq_state \in [Tasks -> BOOLEAN]
  /\ nest \in [Tasks -> Nat]
  /\ upc \in [Tasks -> 0 .. Len(Program)]
  /\ nread \in Nat
  /\ spc \in SchedLabels
  /\ slot \in Nat
  /\ found \in BOOLEAN

(* current is the task whose code the CPU executes.  It is NULL while      *)
(* reschedule leaves that task, and already set while switch_to enters it. *)
(* All of syscall.c and ata.c writes through current.                      *)
CurrentIsCpu ==
  /\ cpu # NULL => current = IF At(cpu, "switch_to") THEN NULL ELSE cpu
  /\ cpu = NULL => current = IF spc = "jump" THEN slot ELSE NULL

(* An interrupt or a system call from user space pushes its frame on the   *)
(* stack of the task it comes from: TSS.esp0 follows every switch, and     *)
(* that stack was allocated.                                               *)
OwnKernelStack == cpu # NULL => esp0 = cpu /\ cpu \in kstack

(* The interrupt handler writes through req_queue into frames of ata_read  *)
(* that are still there, and a task that comes back from ata_read has all  *)
(* of its sectors.                                                         *)
NoDanglingRequest ==
  \A t \in Tasks :
    /\ Queued(t) => pc[t] \in {"reschedule", "switch_to", "ata_ret"}
    /\ cpu = t /\ pc[t] = "ata_ret" =>
         ~Queued(t) /\ req[t].buf = Sectors(req[t], req[t].seccount)

(* A sleeping task has ticks to wait for, so that ticks_remaining never    *)
(* goes past the 0 that wakes it, and wait returns after the last one,     *)
(* even when the tick hits between the two assignments of syscall_wait or  *)
(* before reschedule.                                                      *)
SleepFull ==
  \A t \in Tasks :
    /\ state[t] = TASK_WAITING => ticks_remaining[t] > 0
    /\ cpu = t /\ pc[t] = "wait_ret" => ticks_remaining[t] = 0

(* User code can always be preempted, whatever IF the switches before it   *)
(* passed on, and the critical section of ata_read never can.              *)
IrqDiscipline ==
  \A t \in Tasks :
    /\ At(t, "user") => iflag
    /\ cpu = t /\ pc[t] \in {"ata_state", "ata_queue"} => ~iflag

(* No BUG_ON of sched.c, syscall.c or ata.c fires: the machine stops only  *)
(* when there is no slot or stack for a task or when a context was lost.   *)
NoBug == panic \in {NoPanic, "cannot allocate init task", "corrupt context"}

(* With only one task, as the kernel is shipped, timer frames do not pile  *)
(* up on its 4 KiB kernel stack: the next tick comes after the frame of    *)
(* the last one is gone.                                                   *)
OneTimerFrame ==
  \A t \in Tasks :
    nest[t] > 1 => \E u \in Tasks \ {t} : state[u] # TASK_NOT_ALLOCATED

(* No tick ever destroys the context of a task. *)
ContextsIntact == panic # "corrupt context" /\ \A t \in Tasks : pc[t] # "lost"

(* t is in a call of reschedule that returns to r, or has come back to r.  *)
Returns(t, r) == pc[t] = r \/ (pc[t] \in {"reschedule", "switch_to"} /\ ra[t] = r)

(* The conjuncts of the inductive invariant that are not properties of     *)
(* their own: who is on the CPU, ...                                       *)
CpuOwner ==
  /\ spc = "away" <=> cpu # NULL
  /\ spc = "jump" => slot \in Tasks /\ state[slot] = TASK_RUNNING /\ esp0 = slot

(* ... which tasks have a stack, ... *)
AllocatedHaveStack ==
  panic = NoPanic => \A t \in Tasks : state[t] # TASK_NOT_ALLOCATED => t \in kstack

(* ... where a task that is not on the CPU can be, ... *)
PlaceWhenOff ==
  \A t \in Tasks :
    /\ cpu # t /\ nest[t] = 0 =>
         pc[t] \in {"task_init", "sysret", "wait_ret", "ata_ret", "lost"}
    /\ nest[t] > 0 => pc[t] \notin {"ata_state", "ata_queue", "switch_to"}

(* ... how state follows from the place, ... *)
StateOfPlace ==
  \A t \in Tasks :
    /\ state[t] = TASK_NOT_ALLOCATED => pc[t] = "task_init" /\ nest[t] = 0 /\ cpu # t
    /\ state[t] = TASK_WAITING => Returns(t, "wait_ret")
    /\ state[t] = TASK_DISK_READ => pc[t] = "ata_queue" \/ Returns(t, "ata_ret")
    /\ cpu = t /\ (nest[t] > 0 \/ pc[t] \notin {"reschedule", "switch_to", "ata_queue"})
         => state[t] = TASK_RUNNING
    /\ pc[t] = "ata_queue" => state[t] = TASK_DISK_READ
    /\ Queued(t) <=> state[t] = TASK_DISK_READ /\ pc[t] # "ata_queue"

(* ... what is left of a sleep, ... *)
SleepOfPlace ==
  \A t \in Tasks :
    /\ state[t] = TASK_WAITING \/ pc[t] = "wait_state" => ticks_remaining[t] > 0
    /\ Returns(t, "wait_ret") /\ state[t] = TASK_RUNNING => ticks_remaining[t] = 0

(* ... and which system call or read of init_late the task is in. *)
ProgramOfPlace ==
  \A t \in Tasks :
    /\ pc[t] \in {"user", "syscall_irq", "wait", "wait_state"} => upc[t] # 0
    /\ pc[t] = "wait" => Program[upc[t]].ebx > 0
    /\ pc[t] \in {"task_init", "init_late"} => upc[t] = 0
    /\ pc[t] = "init_late" => t = 1
    /\ upc[t] = 0 /\ pc[t] \in {"ata_read", "ata_state", "ata_queue"} =>
         t = 1 /\ nread < Len(InitReads)
    /\ upc[t] = 0 /\ Returns(t, "ata_ret") => t = 1

(* The inductive invariant of the kernel. *)
SchedInv ==
  /\ TypeOK
  /\ DriverInv
  /\ CpuOwner
  /\ CurrentIsCpu
  /\ OwnKernelStack
  /\ AllocatedHaveStack
  /\ PlaceWhenOff
  /\ StateOfPlace
  /\ SleepOfPlace
  /\ ProgramOfPlace
  /\ IrqDiscipline
  /\ NoBug

(* Why OneTimerFrame holds.  A tick that takes the CPU from the only task  *)
(* leaves IF clear, the scheduler sets it only around hlt, and the task    *)
(* comes back on top of its frame with IF clear: no tick can stack another *)
(* frame before iret has removed this one.                                 *)
LoneTaskMasked ==
  \A t \in Tasks :
    (\A u \in Tasks \ {t} : state[u] = TASK_NOT_ALLOCATED) =>
      /\ nest[t] <= 1
      /\ nest[t] > 0 /\ spc \in {"start", "scan", "jump", "away"} => ~iflag

(* Pid 1 comes out of init_late into user space. *)
InitReachesUser == <>(upc[1] > 0)

(* Every runnable task gets the CPU. *)
RunnableRuns == \A t \in Tasks : state[t] = TASK_RUNNING ~> cpu = t

(* Every sleep ends, with the task back in user space. *)
WaitEnds == \A t \in Tasks : state[t] = TASK_WAITING ~> At(t, "user")

(* Every ata_read returns to its caller. *)
KernelReadReturns ==
  \A t \in Tasks : pc[t] = "ata_read" ~> cpu = t /\ pc[t] = "ata_ret"

(* The kernel uses the driver as module Ata assumes: seen through the      *)
(* queue, a task is blocked from the step that links its request on, and   *)
(* every step of the kernel is a step of AtaNext or none of the driver's.  *)
Driver == INSTANCE Ata WITH
  state <- [t \in Tasks |-> IF Queued(t) THEN TASK_DISK_READ ELSE TASK_RUNNING],
  panic <- NoPanic

KernelImplementsAta == Driver!AtaSpec
=============================================================================
