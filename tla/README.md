# LeafOS in TLA+

A verification development for LeafOS, a small x86-64 kernel in Rust. It
models the kernel's control: the scheduler, the context switch and the system
calls on the same stacks, boot, the interrupt handlers and the locks they
share, the calibration of the timer, the shell on its text screen, and the heap
from the physical frames to the blocks in use. TLC checks small instances;
TLAPS proves the main safety results for every value of the constants.

## The system

LeafOS runs on one core. `kernel_main` (`src/src/main.rs`) turns interrupts on,
maps the heap, calibrates the one-shot timer of the local APIC against the PIT,
starts two kernel tasks, and prints a prompt. From the first timer interrupt on
the machine belongs to the round-robin scheduler (`src/src/scheduler.rs`):
`apic_timer_handler` (`src/src/interrupts.rs`) sends its EOI, restarts the
timer, saves the running context and loads another. Handlers run through
interrupt gates, with interrupts off. Tasks, handlers and `kernel_main` share
spin locks: `SCHEDULER`, `SHELL`, `WRITER`, `EVENT_HANDLERS` and `ALLOCATOR`.

| Part | Source (`src/src/`) | Modules | Status |
|---|---|---|---|
| Scheduler | `scheduler.rs`, `process.rs` | Scheduler, Dispatcher, SchedulerProofs | modelled |
| Context switch, new frames | `interrupts.rs`, `scheduler.rs` | ContextSwitch, ContextSwitchProofs | kernel tasks only |
| Interrupt handlers, local APIC timer | `interrupts.rs` | Kernel, KernelCodeProofs, KernelStepProofs, KernelProofs, Timer, TimerProofs, Shell | modelled |
| Exception handlers | `interrupts.rs` | Kernel, KernelCodeProofs, KernelStepProofs, KernelProofs | without the NMI |
| Boot | `main.rs`, `lib.rs` | Kernel, KernelCodeProofs, KernelStepProofs, KernelProofs | modelled |
| Interrupt flag, `hlt` | `arch/mod.rs`, `arch/x86/mod.rs` | Kernel | modelled |
| PIC, PIT | `drivers/pic.rs`, `drivers/pit.rs` | Kernel, Timer, TimerProofs | modelled |
| System calls | `syscall.rs`, `error_codes.rs` | Kernel, ContextSwitch | modelled |
| Print | `print.rs` | Kernel, Shell | modelled |
| Shell | `shell.rs` | Shell, LineEditor, ShellProofs | modelled |
| VGA text buffer | `vga_buffer.rs` | Vga, VgaIndexed, ShellProofs | without colours |
| Keyboard events | `events.rs` | Kernel, Shell | modelled |
| Frames and heap set-up | `memory.rs`, `allocators/mod.rs` | Memory, MemoryMap, Heap, HeapProofs | modelled |
| Fixed-size block allocator | `allocators/fixed_size_block.rs` | FixedSizeBlock, GlobalAlloc, Heap, HeapProofs | modelled |
| GDT, TSS | `gdt.rs` | ContextSwitch | the write through `tss_ptr` |
| Driver traits, data structures, serial, other architectures, file system, CPUID | various | none | not modelled |

## The modules

**Scheduler** has the queue `tasks`, the statics `TASK` and `INIT`, the saved
`kernel_rsp` of each `ProcessState`, and the context on the processor.
`StartProcess` is `start_process`; `Tick` is the handler from
`current_task_ptr` to `iretq`. A `kernel_rsp` is abstracted to the context that
loading it resumes; one that was loaded is `Popped` until it is saved again, so
that resuming from a stale frame shows. **Dispatcher** is what any fair
preemptive scheduler promises, and Scheduler implements it.

**Kernel** extends Scheduler and composes it with everything that decides when
its operations run. The code of a context is a sequence of micro-operations
(take a lock, drop it, print, halt, send an EOI...); interrupts put a handler
in front of the running one, at any point where the interrupt flag allows it.
A task may also raise an exception, whose handler prints and never returns, or
panic. A heap allocation may fail, of a task as of `kernel_main` or of the
switch, and so may the set-up of the heap and the builder of the local APIC:
each is a panic (`OrPanic`, `SwitchPanics`). `panic` prints and halts with
interrupts as it found them. If they are on and the scheduler is installed, the
next tick takes the processor from it and the other tasks go on, until it is its
turn to halt again; if they are off, the machine has stopped.
The PIC and the local APIC keep which interrupts are requested and in service.
The lazy static `SCHEDULER` is a lock (`ONCE`) while it is being initialised.

**ContextSwitch** looks into the frames, word by word: what the processor and
`apic_timer_handler` push and pop, what `ProcessState::new` writes, the write
through the address `tss_ptr` returns (of a copy of the TSS on a stack frame
that is gone), and the two frames of a system call, the one the compiler gives
`syscall_handler` and the arguments it pushes for `handle_syscall`.
`SyscallHandler` is the handler up to `enable_interrupts`, `SyscallReturn` what
follows; a switch fits in between.

**Timer** is `kernel_main` as far as it deals with the two timers, with every
port access a step of its own (`Program`), and the two clocks beside it:
`Tick` counts the interval timer, `Expire` lets the local APIC timer run out,
at any rate. The interrupts of vector 33 come beside it too: the timer's, and
until `pic::disable` those of keys, which arrive at the same vector. Either sets
`TRIGGERED_ONCE`, so a key may end the calibration before the timer has expired;
the frequency is then too high, and the slices too long. Counts, divisors and
frequencies are computed as in the code, with the widths as constants (`Byte`,
`Word`).

**Vga** has the operations of `Writer` as operators. **Shell** has those of
`Shell` and `_print` as actions, and the way of a key: `KeyboardInterrupt`
decodes it and `CallKeyboardEvent` hands it to every registered handler. Output
comes with and without an end of line (`PrintlnShell`, `PrintShell`); the second
writes into the line that is being typed and does not change
`written_char_count`. **LineEditor** is what the shell promises to somebody who
types: what backspace has to take away. That is not always what was typed.
Output without an end of line pushes typed characters out of it, and the name of
a raw key, several characters long, counts as one. **VgaIndexed** calls
`write_char_indexed`.

**MemoryMap** is `usable_frames`; **Memory** is the loop of `init_heap` with
`allocate_frame`. `map_to` of the x86_64 crate is external: for each page it
takes up to three frames for page tables from the same allocator, and it fails
if the boot loader's page tables have the page in use already (`blocked`).
**FixedSizeBlock** is the block allocator: `list_heads`, the words of the heap
that link the free blocks (and belong to the user while a block is in use), and
the ranges the fallback heap has handed out. The fallback heap (a crate) is
external, and not taken to be right: a comment (`fixed_size_block.rs:14`) says
"FIXME: The fallback allocator is broken (try this by removing the 4096 from the
list)". It hands out any range, and `sound` records whether all so far were
free, aligned and in the heap. The properties are of the form assume-guarantee:
as long as `sound` holds, and in the step that keeps it, the lists add no fault
of their own. **GlobalAlloc** is what code that allocates relies on. **Heap**
composes Memory and FixedSizeBlock. The kernel's `#[global_allocator]` is
`LockedHeap`, the fallback heap alone: that is FixedSizeBlock with no block
sizes. Of it the results say only what the crate itself does.

The operators named `X_Something` before a definition `X` are wrong variants of
it, each with a mistake that its code could plausibly have. With the variant in
place of `X`, TLC finds a property violated.

## The runs

| Run | Instance | Shows |
|---|---|---|
| `scheduler` | 6 tasks, 887 states | queue and contexts stay consistent, round robin, a bounded wait, Dispatcher implemented with its fairness |
| `kernel` | 2 tasks of 7 kinds, 1,422,574 states | the timer chain never breaks, only locks of `kernel_main` block, interrupts come back, handlers nest at most once, tasks keep running although others panic, a machine that halts with interrupts off or spins stays so |
| `kernel_boot` | same, violated | `kernel_main` can be preempted for good |
| `kernel_calibration` | same, violated | a lost wake-up in `init_apic` |
| `kernel_eoi` | same, violated | an EOI for the PIC goes to the local APIC |
| `context_switch` | 2 tasks, 3 words deep, 45,088 states | registers and stack come back intact, also in a system call, and a call keeps its caller's registers |
| `context_switch_ss` | same, violated | SS of a new task comes from a word nobody wrote |
| `syscall_result` | same, violated | the result of a system call does not reach `rax` |
| `timer` | bytes of 5 values, 892,405 states | the calibration reads one moment; slices are never empty, and too long only if a key ended the calibration early or it took a whole period |
| `shell` | 3 rows of 2 columns, 78,286 states | backspace spares the prompt, `println!` lands where the test expects, and the screen implements LineEditor across wrapped rows |
| `vga_indexed` | 80x25, violated | a documented index does not name its cell |
| `heap` | 2 pages of 3 words, 4 memory maps, 9,388,018 states | no frame used twice, set-up fails only with cause; while the fallback heap is right, blocks mapped, no freed block lost, GlobalAlloc implemented |

The six violated runs each check what a comment in the code says; PROJECT.json
quotes the comments and explains the traces.

**Bounds.** `MaxTasks` caps `start_process`; six tasks cover every shape of the
queue (empty, one, several, starts between ticks). In Kernel two tasks are what
`kernel_main` starts, and every pair of kinds is tried: one that only computes,
one that prints, one that faults, one that panics, and ones that make a write, a
write to a bad descriptor, or an unknown system call. In ContextSwitch
`MaxDepth` 3 gives both alignments with words above and below; two tasks allow
one to run between two runs of the other. In Timer a period of the interval
timer is 24 ticks, with two bytes that both change, and `MaxTicks` 50 lets it go
round twice, so that the division by zero happens; `Word` is small enough for
the cast to drop bits. The screen of 3 rows and 2 columns has a prompt shorter
than a row, lines of up to two rows, names of raw keys and output longer than a
row; `MaxTyped` bounds a line so that it stays on the screen, as LineEditor
needs. In Heap the memory maps have more and fewer frames than the heap takes,
any pages may be in use already, and six words hold blocks of two classes, of an
alignment above the largest class and of a size above it, one of them across the
border of the two pages.

**Fairness.** The processor executes instructions (weak fairness of `CpuStep`).
A timer that counts expires, and a pending interrupt is taken if the flag is on
again and again (strong, since the flag may go off before it is).
`kernel_calibration` also assumes that interrupts leave room for code outside of
handlers (strong fairness of `~InHandler /\ CpuStep`): the calibration does not
end although they do. `TasksRun` does not need it. Its exception `Wedged`, a
halt with interrupts off or a wait for a lock, is no way out for a machine that
goes on: `WedgedForGood` says that it is final. A panic with interrupts on is no
exception to `TasksRun`. In Scheduler ticks never stop (weak fairness of
`Tick`): that the code restarts the timer in every tick is `TickComing` of
Kernel, and that it never arms it with 0 is `NeverArmedWithZero` of Timer.

**Deadlock** is not checked in `kernel`, where a panic or a lock of
`kernel_main` stops the machine, nor in `heap`, where set-up panics when it is
out of frames or finds a page in use, and where the model ends with the first
wrong answer of the fallback heap.

## The proofs

**SchedulerProofs**, for any `MaxTasks` and distinct names of the special
contexts (`SchedulerAssumption`). The inductive invariant `SchedInv` joins
`SchedTypeOK`, `TasksConserved`, `CpuAgreesWithTask` and `FramesAreOwn`. The
last two need each other: a context is saved to its own frame because the
statics name the context that really runs, and they do so because the frame
loaded was that task's own. The lemmas on `PickNext` and `ReinsertTask` describe
the queue after a tick; conservation, `RoundRobinOrder`, `IdleOnlyWhenAlone` and
the safety part of Dispatcher follow. `WaitBounded` is the safety half of the
absence of starvation: fewer than `MaxTasks` ticks are left to a waiting task
and every tick takes one of them. It rests on the length of the queue
(`QueueLength`): every started task waits there except the running one.

**KernelCodeProofs**, **KernelStepProofs** and **KernelProofs**, for any number
of tasks and any of the kinds of task that Kernel knows (`SchedulerAssumption`,
`KindsAssumption`). What the run `kernel` checks of Kernel, but for liveness, is
proved in KernelProofs: that only the locks of `kernel_main` are ever waited for
(`OnlyBootBlocks`), that a tick is coming once the scheduler is installed
(`TickComing`), that interrupts come back on (`InterruptsComeBack`), that
handlers run with interrupts off until their EOI and no stack holds more than
two of them (`HandlersRunMasked`, `NestingBounded`), that the PIC's interrupts
are served (`PicServiceEnds`), and that a machine that halts with interrupts off
or spins never goes on (`WedgedForGood`). The invariants among these speak of
the running context and its next operations. A step may bring up an operation
from far behind, and a switch a context that was not running, so the invariant
`KernelInv` speaks of all that every context has still to execute, as an order
on its operations:
- `Code`: nothing that needs interrupts off comes behind what turns them on; a
  stretch with interrupts off ends; at most two operations ahead end a handler,
  one if interrupts are or will be on; what is not `kernel_main` gives a lock
  back before it does anything but take and give back others;
- `Calls`: who makes a system call, and which;
- `BootOrder`: `kernel_main` replaces `LAPIC` before it enables the local APIC,
  installs the scheduler's handler and starts the timer, and starts the timer
  after it has installed the handler, a panic on the way or not;
- `TimerRuns`: the timer is armed, or will be before the next switch;
- `PicServed`: an IRQ in service has its EOI or a panic ahead;
- `Held`: a lock that is not `kernel_main`'s is held by the running context,
  which is about to give it back.

KernelCodeProofs says what each of the orders becomes when a code is cut at its
front or prolonged there, and that the code of every handler and of
`kernel_main` meets them. KernelStepProofs states `KernelInv` and has the
operations on locks, on devices and of the boot, KernelProofs the end of an
interrupt, the start of a process, the interrupts and the switch: one lemma for
each of the 33 actions.
`KernelSchedules` shows that Kernel, with all its interleavings, runs the
scheduler as Scheduler says, so `KernelKeepsSchedule` takes over what
SchedulerProofs has proved: conservation, own frames, round robin, the bounded wait.

`StoppedForGood` proves `WedgedForGood`. A machine stops in two ways. It may be
on its way to the halt of a panic with interrupts off (`Halting`): no interrupt
comes, nothing before the halt turns them on, as `println!` turns on only what
was on, and a lock that it has to wait for on the way stops it as well; so every
step keeps `Halting` (`GoesHalting`, `StaysStopped`). Or it spins on a lock. The
invariant `BootLocks` is about those: `kernel_main` gives back each lock before
it takes it again, or comes to it with interrupts off, in a `println!`. So
whoever spins has interrupts off (`SpinsMasked`), and then nothing but the
timer's count moves (`SpinsOn`). A panic with interrupts on is not a stop, and
nothing of the kind is claimed of it: what TLC shows is that the other tasks run
on (`TasksRun`).

**ShellProofs**, for a screen of any size from two rows and one column, a prompt
that fits a row, any keys and any texts (`VgaAssumption`, `ShellAssumption`, and
for LineEditor that a line fits the screen, `LineAssumption`).
`BackspaceSparesPrompt` says what the next backspace clears, not the one after
it. `ShellInv` adds that none of the last `written_char_count` cells before the
cursor belongs to a prompt, the rows read one after the other, and that the row
is empty behind the cursor. `Distance` counts the cells from a cell to the
cursor. `WriteByteCells` shows that a byte moves every cell one further away,
whether the rows scroll or not; `BackspaceCells` that backspace moves them one
nearer, whether `old_line` is called or not. `WriteBytes` is a recursive
function; `WriteBytesInduction`, an induction over the bytes by way of the first
one at which a property fails, carries properties of `write_byte` to whole
texts. From the two lemmas on cells follows that typing appends to the line,
that a name and a text move in from behind and backspace takes the last
character off, so the screen implements LineEditor. `PrintlnOutput` is proved
from what a text that fits the row leaves on it.

**ContextSwitchProofs**, for any tasks and stacks of any depth
(`SwitchAssumption`). `ContextIntact` compares a resumed context with what it
was interrupted with, so the invariant `SwitchInv` has to say where that is:
`Parked`, that the registers of a waiting context lie on its stack from
`kernel_rsp` up, in the order they will be loaded in and below the words in
use; `CallKept`, that a context in a system call has its caller's registers on
its stack, and the others unchanged. Both are about one stack, and the lemmas
on `Pushed`, `Popped` and `Scribbled` say which words each of them leaves
alone. `FrameOrder` is the heart of it: the pops mirror the pushes. `SwitchTyped`
says of stack pointers that they are never above the end of `kernel_stack` and
below what the context pushed by at most the frame of a system call. That this
fits the 4096 bytes of a stack is not claimed, and the two words behind a stack,
which the frame of `ProcessState::new` reaches, are among the modelled ones.

**TimerProofs**, for every size of a byte and a word and all frequencies with
`TimerAssumption` and `SliceAssumption` (no product the calibration can lead to
is a multiple of 2^32). `TimerInv` ties the counter to the ticks that went by,
`counter = reload - ticks % reload`, and follows the latched value through the
two reads. `ReadIsOneMoment`, `NeverArmedWithZero` and `SliceWithinRequest`
follow from it. The last bounds a slice only after a calibration of less than
one period of the interval timer, `TIMER_DELAY` of its ticks: the code sees the
ticks modulo that period. And it bounds it from above by real time only if the
timer had expired when the calibration ended; a key may have ended it before.
`SourceNumbersMeetAssumptions` shows that the numbers in the source meet the
assumptions.

**HeapProofs** has a part on Memory, for every heap size and all memory maps
whose usable regions do not overlap (`MemoryAssumption`, `IsMemoryMap`).
`UsableFramesExact` shows that `usable_frames` yields each frame of the usable
regions once and no other: `UsableFrames` is a recursive function, and the
induction over the regions goes by way of the first one up to which the list
would be wrong. The strengthening `UsedAreTaken` says that every frame in use is
at an index below `next`; the list has no duplicates, so the next frame is
fresh. `FramesAlwaysUsable` adds that the frames in use lie in usable regions.
`FailsOnlyWithCause` says when the `expect` of `setup` panics: a page of the
heap was in use, or every usable frame has found its place.

Its part on FixedSizeBlock holds for every heap, block sizes and layouts with
`BlockAssumption` (alignments divide the block sizes above them: all are powers
of 2), up to the first wrong range of the fallback heap (`sound`). That blocks
in use do not overlap is not inductive, since it says nothing of the blocks that
come out of a list. `BlocksInv` adds that every block is a range of its own and
that the words of the free blocks of a class lead to free blocks of that class,
no two to the same one and none to the head. A cycle of free blocks apart from
the head would meet all of this, and lose them. `AllReached` excludes it: there
is a distance for each block so that a free block is the head of its list or a
free block nearer to the head leads to it. The nearest free block is then the
head, so an empty list has none (`FreeBlocksListed`).

Its last part puts the two together: a behaviour of Heap is one of Memory and
one of FixedSizeBlock, in which no block is in use before the heap is ready;
with `ReadyHeapIsMapped` and the bounds of the blocks, `BlocksMapped` follows.
`HeapKeepsBoth` takes over what is proved of the two apart.

Only model-checked: all liveness (`TasksRun` in Kernel, the fairness of
Dispatcher in Scheduler), which needs fairness and ENABLED.
The six violated runs have counterexamples and no proofs.

## What is abstracted

- Time in Kernel: an armed timer may expire at any moment. Timer has the counts
  and the interrupts of vector 33, and leaves out the others, which Kernel has.
- Whether an allocation finds room, in Kernel: each may fail. What a switch that
  panics has changed and still holds is not kept, since interrupts are off and
  nobody gets to see it.
- What a task does, in Kernel: one of the things of `Kinds`, again and again. Of
  the two tasks `kernel_main` starts, `test_fn` makes system calls and
  `test_fn_hello` only computes. A task that allocates or starts others by
  itself is not among the kinds: it could be preempted with a lock in its hand,
  and `OnlyBootBlocks` is not claimed of it.
- The local APIC timer starts to count when `enable` is called, and keeps the
  one-shot mode and the count set before.
- What the compiler does with `syscall_handler`: an x86-interrupt function that
  makes calls saves the registers a call may change and restores them at its
  end.
- `keyboard_interrupt_handler` has vector 36. IRQ 1 of the PIC arrives at 33,
  which is `ApicTimer`, so Kernel has the IRQ and Shell the handler.
- A key is decoded (pc_keyboard, external) to any character or raw key.
- Layouts of size 0 do not reach an allocator; addresses are in words. A user
  writes to its own block only. `ProcessState::new` does not quite
  (`scheduler.rs:113` puts a word behind its stack, `context_switch_ss`); what
  that does to the heap is not modelled, and in ContextSwitch the two words
  behind a stack are nobody else's.
- The write through `tss_ptr` goes below the stack pointer of the task that is
  resumed, where its frame was: that is how `TssWritten` has it, and not a
  result.
- Colours, but for the cells of the prompt.

## Not modelled

- User mode (that variant of `ProcessState::new`, the ring 3 selectors) and the
  data segment registers: `kernel_main` starts kernel tasks only.
- The non-maskable interrupt: it ignores the interrupt flag, and its handler
  prints, so it would spin on any lock the interrupted code holds.
- The contents of GDT, IDT and TSS: tables filled once at boot.
- `drivers/driver.rs`: wrappers nothing constructs. `data_structures/`: nothing
  uses them; the ring buffer's push stores nothing and the tree is commented
  out. `filesystem.rs` is empty. `arch/aarch64` and `arch/riscv` are single
  instructions for targets without a scheduler. `serial.rs` and the test
  harness are output only. CPUID is one flag, read once.
