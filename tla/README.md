# A model of the kernel

TLA+ modules for the small x86 kernel in this repository: one CPU, a round-robin
scheduler, three system calls, an interrupt-driven ATA driver, a keyboard with an
event bus and a VGA terminal, a first look at an ext2 volume, and the boot code that maps
memory and finds the APICs.
TLC checks the modules on small instances; TLAPS proves their safety properties for every value
of the constants.

## The system

| Part | State | Operations | Talks to |
|---|---|---|---|
| scheduler (`sched.c`, `sched.S`) | `tasks[]`, `current`, `TSS.esp0`, one saved context per task and one for the scheduler | `task_allocate`, `scheduler_start`, `switch_to`, `reschedule`, `scheduler_tick` | called by every blocking system call and by the timer interrupt |
| system calls (`syscall.c`, `irq.S`) | none of their own; they write through `current` | `syscall_wait`, `syscall_print`, `syscall_read` | scheduler, ATA driver, terminal |
| ATA driver (`ata.c`) | `req_queue`, a list of requests that live in stack frames | `ata_read`, `ide_irq1` | wakes tasks; fed by `syscall_read` and `init_ext2` |
| ext2 (`ext2.c`) | superblock, a page of group descriptors, a scratch page | `init_ext2`, run by task 1 before user space | ATA driver, `kalloc`, `printk` |
| PCI scan and drive set-up (`pci.c`, `ata_init`) | `primary_master` | `pci_find_device`, `ata_init_dev`, `ata_poll` | meant to be called at the end of the boot |
| keyboard (`keyboard.c`) | the static `shift` of `readcode` | `keyboard_irq` | event bus |
| event bus (`event_bus.c`) | `known_callbacks`, `callbacks_count` | register, unregister, fire | keyboard fires, terminal listens |
| terminal (`vga.c`) | row, column, video memory | `terminal_putchar_color` and the writers around it | everybody prints |
| printk (`printk.c`) | a buffer of 11 bytes on the stack | `vprintk` and its conversions | terminal |
| paging (`paging.c`) | free list, page directory, page tables | `kalloc`, `map_continous`, `identity_map` | boot, `task_setup`, `ext2_init` |
| boot, memory map, ACPI, APIC (`kernel.c`, `memory_map.c`, `acpi.c`, `apic.c`) | `lapic_ptr`, `ioapic_ptr`, timer registers | `kernel_main`, `apic_init`, `calibrate_apic_timer` | paging |

What is hard in it:

* **Interrupts against system calls.**  Vectors 32 to 42 are interrupt gates, but `int $0x80`
  is a trap gate, so a system call runs with interrupts on, and `__switch_to` saves no flags:
  IF travels from the task that leaves to the scheduler and on to the next task.
* **Requests in stack frames.**  `ata_read` links a local variable into a global list and
  gives up the CPU; the interrupt handler writes through it.
* **Two steps where one is meant.**  `ata_read` marks the task and then links the request;
  `syscall_wait` sets the ticks and then the state; `switch_to` sets `current` and then
  switches.
* **Resources.**  `kalloc` returns NULL and few callers look; kernel stacks are 4 KiB; the
  callback table has a fixed size.
* **Shared without a lock.**  The cursor of the terminal is changed by tasks with interrupts on
  and by handlers.  The table of callbacks is read by handlers; the repository's only caller
  fills it at boot, with interrupts off, but the interface is open to tasks.
* **Data from outside.**  Lengths and counts that the code advances by, and addresses it maps,
  come from firmware tables, PCI devices and the disk, and are not checked.
* **The order of the boot.**  Memory must be mapped before it is read.

`PROJECT.json` lists the hazards by line, with the properties that would catch each.

## Modules

| Module | Models | Checked by |
|---|---|---|
| `DiskService` | what the driver promises: reads are accepted, and answered one at a time, whole, first come first served | refined by `Ata` |
| `Ata` | the request queue, the drive and `ide_irq1`; `ata_read` as one step | `MCExt2` |
| `AtaProofs` | theorems about `Ata` | tlapm |
| `Ext2` | `init_ext2` in task 1, on top of `Ata`, with other tasks reading | `MCExt2`, two configurations |
| `Ext2Proofs` | theorems about `Ext2`, on top of `AtaProofs` | tlapm |
| `Sched` | the running kernel; extends `Ata` and takes `ata_read` apart | `MCSched`, four configurations |
| `SchedProofs` | theorems about `Sched` | tlapm |
| `NatLemmas` | the least number of a set, induction over the numbers and recursion along them, for the proofs | tlapm |
| `EventBus` | the callback table, with the stores of a call as steps of their own | `MCInput` |
| `Keyboard` | `readcode` and `keyboard_irq`, and a user who types | `MCInput` |
| `Input` | `Keyboard` and `EventBus` composed: every byte fires an event at the table as it is | `MCInput`, three configurations |
| `InputProofs` | theorems about `Input` | tlapm |
| `Terminal` | the screen, for a writer that is not interrupted | `MCConsole` |
| `Printk` | `vprintk`, turn by turn | `MCConsole` |
| `Console` | `Terminal` and `Printk` composed, with writers that interrupt each other | `MCConsole` |
| `ConsoleProofs` | theorems about `Console` | tlapm |
| `Paging` | the page allocator and the page tables | `MCBoot` |
| `AtaSetup` | the PCI scan and the start of the drive | `MCBoot` |
| `Boot` | `kernel_main` up to the scheduler, on top of `Paging`, `ApicTimer` and `AtaSetup` | `MCBoot` |
| `PagingProofs` | what every call of `Paging` preserves | tlapm |
| `BootProofs` | theorems about `Boot`, on top of `PagingProofs` | tlapm |
| `ApicTimer` | the calibration of the timer | `MCBoot`, `MCApicTimer` |

### Ata

`req_queue` is the linked list as a sequence of the tasks whose frames hold the requests,
`req[t]` the request of task `t`, `dev` the drive's current command and `irq14` its
interrupt line.  A request's `buf` is the sequence of sectors written through it, so that
a wrong pointer, a wrong order or a sector of somebody else is visible.  The LBA goes out in
pieces and keeps its 28 bits.  Requests have the counts that a command can carry: those of the
callers are 2, 4 and the sectors of a block, at most 8, so the `BUG_ON` for 256 and more guards
what no caller does; `BUG_ON(!req->buf)` is left out, since one caller passes an array on its
stack and the others a page they have written to.  The drive is external: it delivers what it was
commanded, one interrupt for a sector (the driver reads the alternate status only, which on real
hardware does not acknowledge INTRQ; the model takes each sector's interrupt as an edge of its own).  `AtaInitDone` says whether the driver was initialised; `kernel_main`
has that call commented out, and a command then goes to port 0 and nowhere.

### Sched

An action is one interruptible step.  A handler behind an interrupt gate is one action; a
system call is cut wherever a handler can see the difference.  `pc[t]` is where task `t` is
in its own code and `nest[t]` how many timer frames lie on top; `cpu` is whose stack the CPU
is on, which is not the same as `current`.  `iflag` is IF: `EnableIrq`, `DisableIrq`, the two
macros in `ata_read`, interrupt entry and `iret` change it, and a task switch does not.

`scheduler_start` allocates one task.  `NumTasks` generalises that, since `task_allocate` and
the table of 256 slots are there for more, and may stop after the first: `OneTimerFrame` is
about the kernel with one task, as it is shipped.

`TimerInSwitch` is the tick that hits `switch_to` between its assignment of `current` and the
switch.  What happens then is not defined by the code: the scheduler's stack becomes the
task's context, and the context that is resumed may or may not be a live one.  The model
keeps both outcomes: the machine is lost at once, or the task is ("lost") and takes the
machine with it when it is next chosen.

### Ext2

The actions of `Ext2` are the stretches of `ext2_init` between two reads.  A read is `ata_read`
of `Ata`, so that its data arrives sector by sector, through the interrupts, in a queue shared
with the reads of other tasks; the walk goes on when task 1 is runnable again and looks up what
is in the sectors that its buffer now holds.  A volume is a record of what the code reads: the
fields of the superblock, and for each block the descriptors, inodes or entries it holds;
wherever a block does not hold what it is taken for, the code reads zeros.

`Supported` says for which volumes the code can be right: blocks of 2 or 4 KiB, no more
directory blocks than direct pointers, no attribute block (it counts in `i_blocks`), and names
with a zero byte behind them.  The volumes of the run contain the others too: an indirect or an
attribute block makes the loop print one entry of length 0 for ever, and a name that fills
its record is printed with what comes behind it.

What was listed is compared with a definition that knows nothing of the walk: a place is a block
of the directory with the offset of an entry in it, places are ordered as on the disk, and the
n-th entry is the one with n - 1 places before it.  That the loop follows `rec_len` from one to
the next is the code's way to get there.

### Keyboard, EventBus, Input

`Keyboard` has the decoder, the controller's buffer with its latched interrupt, and a user who
presses and releases keys; `due` is what should appear on the screen.  The key tables are
given for one key of every kind.  The boot is two steps of it: `ioapic_enable`, before which the
I/O APIC ignores the keyboard's edge, and `pit_prepare_sleep`, whose delay takes a byte.
`BootKeys` allows typing before and between them; the passing run leaves it out.  Once two
keys of one modifier were held at once (`twins`) the echo may differ, since the release of
either clears their flag, and `EchoIsTyped` says nothing more.

In `EventBus` a call that registers or unregisters is a sequence of stores, an entry being
copied word by word: event type, callback, argument.  `registered` is what the callers may rely on,
changed when a call to register ends and when a call to unregister begins.  The kernel itself
registers `handle_keypress` in `terminal_initialize` (`vga.c:32`), at boot with interrupts off, and
nothing else: that is the initial state.  The calls of tasks are the interface of `event_bus.h` as
it is offered, not a use the repository makes of it.  In `Input` keys arrive between any two of the
stores.  The shift of `remove_callback` may show, for a moment, an entry with the event type of one
registration and the callback of the next, or with the callback of one and the argument of
the other, so a callback can be called once too often, for an event of a type it did not ask for or
with an argument that is not its own; no callback that stays registered is missed, each is called
with its own argument too, and NULL is never called.

### Terminal, Printk, Console

`Terminal` keeps all text ever printed as `paper` and compares the screen with its end.  `Printk`
sees the format character by character; the number conversions are their loops, against the
reference definition `Text`.  In `Console` a task in `vprintk` and a task in `syscall_print`
put characters with one step for every load and store of `terminal_row` and `terminal_column` and
for every line that is scrolled, and an echo may come between any two.

Two histories say how far things went: `torn` when a character was begun inside another,
`met` when the cursor was moved on during another writer's line break.  Without `torn`
the screen is exactly right.  Without `met` the cursor is on the screen between characters,
however many updates were lost.  With it the cursor may leave: a row or column that has passed
the edge is not equal to it, the comparison never fires again, and two scrolls at once even take
the row below 0.  That is the race the kernel accepts by printing without a lock.

### Paging, Boot, ApicTimer

`Paging` works on byte addresses with scaled-down sizes; one turn of the loop in
`map_continous` is one action, since an allocation may fail in the middle.  PT_WRITEABLE is
kept: directory entries never get it, which is harmless to the kernel (CR0.WP is clear) and
leaves the user page read-only although it is mapped with `PT_USER | PT_WRITEABLE`.
`identity_map` checks nothing, and neither does the model.  A region in the page table of the user's
page takes PT_USER from its directory entry; one in the kernel's own 4 MiB overwrites an
entry the kernel runs on, and the behaviour ends there (`wild`, `RemapsKernel`).  The properties name
these as what they except (`Asked`), as well as the end of an unaligned region, which the
code's separate rounding of address and size leaves unmapped (`LastPageMayLack`).

`Boot` chooses a firmware layout and runs `kernel_main` on it: every access outside the mapped
pages is the panic of `pagefault_irq`.  The RSDT is read as the code reads it, its length, one
entry, then that entry's table.  The MADT is a sequence of bytes, each with how it reads as the
first of an entry, and the walk advances by the length found there: it may stay where it is, or go
on inside an entry.  `print_mmap` reads the multiboot information where the
boot loader has put it; when that is in the pages of `kalloc`, its pointers are anything.
`ApicTimer` has the PIT's one-shot mode and a clock that lets every step of the code take up to
`MaxDelay` ticks.  `AtaSetup` scans the functions of a machine and identifies the drive;
`Boot` runs the kernel both as it is and with `ata_init` called where the source says TODO.
A function has the capabilities bit and, apart from it, a pointer that may be 0; the list may
lead back to itself.

`BootEnds` excepts the two loops whose end is in the machine's hands, an entry of length 0 in the
MADT on the walk's way and a circular capability list of the controller; the layouts and
machines of the run contain both, so that the property without either exception is violated.

## Runs

| Run | Bounds | Result |
|---|---|---|
| `disk` | 3 tasks, one of them in `ext2_init` on 9 volumes with 2 direct pointers, the others reading, one at the last sector an LBA can name; 0 to 2 free pages | all hold; 27,585 states |
| `ext2_small_blocks` | a volume with 1 KiB blocks | **violated**: the superblock is taken for the group descriptors |
| `kernel_two_tasks` | 2 slots and up to 3 allocations, 0 to 3 free pages, a program with every call and a bad one, 2 nested frames, the switch race allowed | all hold; 101,576 states |
| `kernel_live` | 2 tasks that wait and read, fairness | all four liveness properties hold |
| `kernel_without_ata_init` | the kernel as it is built | **violated**: init never reaches user space |
| `kernel_switch_race` | 1 task, the calls of `userspace_fn` | **violated**: a tick in `switch_to` destroys a context |
| `input` | 7 keys, among them both keys of one modifier, 6 bytes in the buffer; 4 slots, 2 callbacks besides the terminal's with 2 arguments, 2 event types; 4 presses and calls together | all hold; 1.9 million states |
| `event_bus_full` | 6 calls, no keys | **violated**: slots are never given back |
| `keyboard_boot` | typing during boot | **violated**: the delay in `pit_prepare_sleep` eats a byte |
| `console` | a screen of 2 lines of 2 cells, numbers of 12 bits in a buffer of 5, 103 messages, one echo or system call | all hold; 5.8 million states |
| `boot` | 158 firmware layouts, among them MADTs with an entry of length 0 and with a misaligned walk, and APICs in the kernel's, the user's and the next page; pages of 8 bytes, 8 pages to a table, 6 tables, words of 1 byte, as many free pages as most layouts need; 10 ms are 20 ticks, up to 2 a step; 11 machines with 2 slots of 3 functions, one with a circular capability list | all hold; 95,536 states |
| `apic_timer_period` | the calibration alone, the same clock | **violated**: the period is too short |

The bounds are small because the interesting cases are: two tasks suffice for a tick that
takes the CPU from one in the middle of a system call and gives it to another; three
requests for a queue with a head, a middle and a tail; two nested frames for a tick during
the tail of a tick; four presses for both keys of a modifier, a letter and Caps Lock; a screen
of two lines for a message that wraps, breaks the line and scrolls; two direct pointers for a
directory that fills them and one that goes on behind them.  12 bits with a buffer of 5 are as tight as
32 bits with 11: the most negative number fills it.

The six violations are the findings in `PROJECT.json`, each with the comment it contradicts.
The slips that need no disagreement with a comment are in the hazards: a table outside the
RSDT's page, the two shift keys sharing a flag, the unchecked NULL of `kalloc`, the unchecked
addresses of `identity_map`, the walks that firmware can keep from ending, the unlocked
cursor, the directory with an indirect block.  Each is reached in a run and named by the property
that excepts it; a hazard without a property says so in its note.

**Fairness.**  `Sched` assumes that the scheduler's own steps happen (the CPU never stops),
that a task which is given the CPU again and again gets a step done (a tick is much longer
than an instruction), that an interrupt which can be delivered again and again is (the local
APIC latches it) and that the drive answers.  No fairness between tasks is assumed: that is
what `RunnableRuns` checks of the scheduler.  Strong fairness is needed for tasks and
interrupts because ticks and critical sections disable them over and over.  `Boot`
assumes that the CPU goes on, that the clock does, however often the code polls it, and that the
drive comes to an end with IDENTIFY.  `Ext2` assumes that task 1 runs when it can, that the drive
transfers and that its interrupts arrive.  The drive interrupts once for a sector in all modules:
a drive that fails or stays silent is not noticed by the code, which has no timeout.

Types, the queue being exactly the blocked tasks and the absence of `BUG_ON`s in the driver are
conjuncts of `AtaInv` and `SchedInv` and are checked with them.

Deadlock is checked in every run but `apic_timer_period`, whose code simply ends; a panicked
machine and a finished boot stutter explicitly.

## Proofs

Every invariant of a passing run, and both refinements, are theorems.
`PROJECT.json` lists them with the property each states.  They hold for any number of tasks, any
size of the table of callbacks, of the screen, of memory and of a number, and any program, message,
firmware and machine that meet the assumptions on the constants.

### AtaProofs

For any set of requests that fit the command (`AtaAssumption`), `AtaInv` is invariant, hence
`ReadComplete`, `DriveServesHead` and `DataInOrder`, and `AtaSpec` implements `DiskService`.  The
properties alone are not inductive: that the task at the head
gets its own sectors depends on the drive executing the command of the head
(`DriveServesHead`), which depends on the queue being exactly the blocked tasks without
repetition (`QueueIsBlockedTasks`, `QueueDistinct`), on queued requests behind the head being
untouched, and on the count of sectors left matching the buffer.

### Ext2Proofs

`Ext2ImplementsAta`: whatever is on the volume, the steps of the walk, of the other tasks and of the
drive are steps of `AtaSpec`, so the theorems of `AtaProofs` hold for them (`Ext2ReadsServed` is the
refinement).  The walk takes its block numbers from the disk, so its `WalkInv` keeps that
`root_inode` is zeros or an inode of the volume, and `ReadsFit` assumes that the blocks named in
descriptors and inodes lie on the drive; the code checks no block number.

`Ext2ListsRootDirectory` rests on `PlaceInv`, which says for each place of the walk what its last read
asked for.  That what task 1 then finds in the buffer is that block comes from
`ReadComplete`: no interleaving of requests and interrupts has to be looked at again.
In the loops `PlaceInv` keeps that `head` is at an entry or exactly at the end of the block; that is
also why the loop never meets an entry without length (`Ext2LoopAdvances`).  `ListingInv` is the
equation of the property; one more entry is one more place before the place reached (`ListEntry`), and
the end of a block is the beginning of the next (`ListBlock`).

The assumptions on a supported volume are the ext2 format (`RootInodeOnDisk`, `DirectoryOnDisk`): block 1
begins with the descriptor of group 0, inode 2 is the second in that group's table and points to
the blocks of the directory, and the records of a directory block fill it from its first byte to
its last.  They are stated in the format's terms (byte offsets from the table's start), not with
the code's formulas for group, block and position, which the proof derives from them.  Of other
volumes only what `ReadsFit` says is assumed, and that 1024 << log fits an `uint32_t`.  TLC evaluates them on the
volumes of `MCExt2`.

### SchedProofs

For any number of tasks and slots, any program, any reads of `init_late`,
any number of free pages and with the switch race allowed, `SchedInv` is invariant.  It
adds to the driver's invariant who owns the CPU (`CpuOwner`), where a task can be while it is
off the CPU (`PlaceWhenOff`) and how its state, its remaining ticks and its place in the
program follow from that place (`StateOfPlace`, `SleepOfPlace`, `ProgramOfPlace`).  From it
follow `OwnKernelStack`, `CurrentIsCpu`, `IrqDiscipline`, `NoBug`, `SleepFull` and
`NoDanglingRequest`, and that the kernel refines `Ata`, so that
the driver's theorems, proved for an `ata_read` in one step, hold for the one that is cut by
interrupts.  `OneTimerFrame` needs one more conjunct, `LoneTaskMasked`: as long as the only task has
a timer frame on its stack, IF is clear wherever that task is, so no second tick can land on it.
The theorems assume `AtaInitDone`; without it `DriveServesHead` is false.  They
say nothing of a task whose context the switch race has destroyed beyond the fact that the
machine stops when it is chosen.

### InputProofs

`BusInv` ties the copy in progress to the table: a registration writes the slot behind the count,
an unregistration copies from the slot behind the one it writes, and the entries of `registered`
lie in the table in their order, none of them in the slot that is being written (`Places`).  From
it follow `BusTypeOK`, `NoNullCallback`, `RegisteredAreCalled` and that `handle_keypress` is called
exactly once for a key.

The keyboard's properties speak of the moment when all bytes are decoded, and the decoder may lag
behind by any number of them.  `KbdInv` therefore carries the run of `readcode` over the bytes
that are still pending (`Decodes`), says of its end what the properties say (`Settled`, `Exact`)
and counts which pending byte prints which character that is due (`Prints`).  The theorems assume
`~BootKeys`: a byte eaten during boot breaks both, as the run `keyboard_boot` shows.
`KeyboardAssumption` leaves out a key with code 96, whose release byte would be the escape E0 (there
is none on a keyboard).

### PagingProofs, BootProofs

`AllocInv` is about frames: the free list is a run of frame numbers that shrinks from its end,
each present directory entry has a page table of its own, and the number of frames gone is one
for the directory, one for each present entry and one for each stack.  That count is what
`NoWildWrite` needs: `kalloc` returns NULL only if memory is smaller than the demand.  `MapInv`
is about what is mapped: the pages a running `map_continous` has yet to reach (`Ahead`) are
exempt, all others of a region are mapped; the kernel's table is full when the kernel runs and
until a region in it was asked for; PT_USER is at one entry at most, and at that one until its page
table was asked for.  `WalkInv` says what `kernel_main` knows at each place: which tables are valid, which
regions are mapped, where the I/O APIC is.  `SetupInv` does the same for the PCI scan and
IDENTIFY.

The assumptions are that the user's page is in another page table than the kernel, and
`FirmwareAssumption`: the regions that firmware makes the kernel map lie in the address space, their
last page too.  Where they lie there is not assumed, nor what the lengths in the MADT are:
`Reached` is the set of bytes that the walk takes for the first of an entry, and `ApicsReachable` is
about those.

### ConsoleProofs

`CursorInv` says for each place in `terminal_putchar_color` how far the cursor can be out: at the edge only
while some writer is on its way to bring it back, and the values loaded earlier are on the
screen; it holds until `met`.  `ScreenInv` holds until `torn`.  The difficulty is that the paper
changes at the beginning of a character and the screen step by step behind it, so `PutInv`
gives one relation between the two for each place: the cell that is yet to be stored, the fresh line
that is not reached yet, the lines that the scroll has moved up so far (`ShownUpTo`).

`TextInv` follows `vprintk` through the message: it is before piece k + 1, behind its `%`, or has
its number in hand, and the cursor in the format, the arguments taken and the text printed are
those of the first k (or k + 1) pieces.  While it formats x, the buffer holds the lowest j figures of x and
`a` is x divided by the j-th power of the base (`FiguresIn`).  A figure is written only if x reaches that
power, so the longest number bounds j: that is `FitsBuffer`, from `PrintkAssumption`, which
states that the buffer has room for the longest number of each conversion (11 bytes for 32 bits).
When `a` is 0 there are just as many figures as `Numeral` has, and the swap puts them in its
order.  Powers and joined sequences are recursive functions; what they compute is proved with
`Recursion` and `NatSetInduction` of `NatLemmas`, which state induction for sets of numbers.

### Only model-checked

The liveness properties (`InitReachesUser`, `RunnableRuns`, `WaitEnds`, `KernelReadReturns`, `ReadReturns`,
`WalkEnds`, `BootEnds`), which are out of the prover's reach.

## Plan

Every part of the kernel that keeps state or decides anything has its module, and those
that interact are composed: the driver with the scheduler and with ext2, keyboard and
event bus, printk and terminal, boot with paging, calibration and drive set-up.  Their safety
properties are checked and proved.  When the code grows, the places to go on are the call of `ata_init` that
`kernel_main` leaves out (`AtaInitDone`), a timeout for the drive (a new action of `Ata`), and
indirect blocks (which would leave `Supported` with one condition less).

## Not modelled

Segment descriptors, the bit layouts of GDT and IDT, port numbers, register values and colours:
constants without control.  `spinlock.h`, which nothing includes; `turn_on_capslock_light` and
`pci_write`, which nothing calls; `kfree` and `ata_tick`, which are empty; several CPUs, which the
kernel does not start.  `multiboot.h` is the boot loader's interface; of it the model has the
fields that `print_mmap` reads.  Errors of the drive during a read: the driver reads no status, so
there is no behaviour of the code to model.
