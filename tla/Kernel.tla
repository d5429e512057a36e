-------------------------------- MODULE Kernel --------------------------------
(***************************************************************************)
(* The running kernel on one core: kernel_main, the tasks it starts, the   *)
(* interrupt handlers, the spin locks they share, and the PIC, the local   *)
(* APIC and its timer.  It composes the scheduler of module Scheduler with *)
(* everything that decides when its two operations may run.                *)
(*                                                                         *)
(* The code of a context is a sequence of micro-operations, todo[c]; the   *)
(* processor executes the first one of todo[cpu].  A call or an interrupt  *)
(* puts the operations of the callee in front, as its frame goes on the    *)
(* stack of the context that is running.  A micro-operation is a pair of   *)
(* an operation and its argument (the name of a lock, or "").              *)
(*                                                                         *)
(* Time is not modelled: a timer that is armed may expire at any moment.   *)
(***************************************************************************)
EXTENDS Scheduler

CONSTANT Kinds   \* the kinds of functions handed to start_proc

\* A function makes a system call with a good, a bad or no known number, raises
\* an exception, panics, prints, or only computes.
ASSUME KindsAssumption ==
    Kinds \subseteq {"write", "badfd", "nosys", "fault", "panic", "print", "spin"}

Do(op) == <<op, "">>
Lock(l) == <<"lock", l>>
Unlock(l) == <<"unlock", l>>

\* ONCE is the state of the spin::Once behind the lazy static SCHEDULER: who
\* initialises it holds it, and others spin.
Locks == {"ONCE", "SCHEDULER", "SHELL", "WRITER", "EVENT_HANDLERS", "ALLOCATOR"}

Threads == Contexts \ {VOID}

VARIABLES
    todo,            \* the operations each context has still to execute
    kind,            \* the kind of function each started task runs
    IFlag,           \* the interrupt flag of the processor
    owner,           \* which context holds each lock, or None
    made,            \* which of SCHEDULER and IDLE_TASK have been initialised
    LAPIC,           \* LAPIC.is_some()
    lapic_on,        \* the local APIC is enabled
    armed,           \* the one-shot timer of the local APIC is counting
    irr,             \* its interrupt has been requested
    isr,             \* its interrupt is in service: no other until the EOI
    pic,             \* "off" (all masked or unused), "on" or "masked"
    pic_isr,         \* the IRQs of the PIC that are in service
    IDT33,           \* the handler of vector ApicTimer: "config" or "sched"
    TRIGGERED_ONCE,  \* the calibration interrupt has been seen
    INITIALIZED      \* has_shell()

hardware == <<lapic_on, armed, irr, isr, pic, pic_isr>>
statics == <<LAPIC, IDT33, TRIGGERED_ONCE, INITIALIZED, made, kind>>
vars == <<schedVars, todo, IFlag, owner, hardware, statics>>

At(op) == todo[cpu] # <<>> /\ todo[cpu][1][1] = op
Ahead(op) == \E i \in 1 .. Len(todo[cpu]) : todo[cpu][i][1] = op

\* The first operation of the running context is replaced by the sequence s.
Replace(s) == todo' = [todo EXCEPT ![cpu] = s \o Tail(@)]
-----------------------------------------------------------------------------
(* The code as sequences of micro-operations.                              *)

\* A heap allocation and a deallocation: ALLOCATOR is a LockedHeap.  Without
\* room the allocation returns null, and then alloc_error_handler panics.
Alloc == <<Lock("ALLOCATOR"), Unlock("ALLOCATOR"), Do("or_panic")>>
Dealloc == <<Lock("ALLOCATOR"), Unlock("ALLOCATOR")>>

\* memory::setup: a page that cannot be mapped is a panic, before the heap is
\* handed to ALLOCATOR.
MemorySetup == <<Do("or_panic"), Lock("ALLOCATOR"), Unlock("ALLOCATOR")>>

\* The initialisation of SCHEDULER on its first use.
MakeScheduler == <<Lock("ONCE")>> \o Alloc \o <<Do("scheduler_made"), Unlock("ONCE")>>

\* scheduler::start_proc: the boxes of the new process are allocated while
\* the SCHEDULER lock is held.
StartProc == <<Do("deref_scheduler"), Lock("SCHEDULER")>> \o Alloc
             \o <<Do("start_process"), Unlock("SCHEDULER")>>

\* write_mode and set_pit_count, each without interrupts.
PitWrite == <<Do("pit"), Do("pit")>>

\* SHELL is created on its first use; Shell::init takes WRITER under SHELL.
ShellInit == Alloc \o <<Lock("SHELL"), Lock("WRITER"), Do("shell_initialized"),
                        Unlock("WRITER"), Unlock("SHELL")>>

InitKbHandler == <<Lock("EVENT_HANDLERS")>> \o Alloc \o <<Unlock("EVENT_HANDLERS")>>

\* interrupts::init_apic; the builder of the local APIC may refuse.
InitApic == <<Do("or_panic"), Do("lapic_replace")>> \o PitWrite
            \o <<Do("lapic_enable"), Do("pic_disable"), Do("wait_triggered"), Do("pit"),
                 Do("print"), Do("frequency"), Do("install_scheduler")>>

\* kernel_main up to hlt_loop; scheduler::init allocates VOID_TASK.
KernelMain == <<Do("print"), Do("init"), Do("print")>> \o MemorySetup \o Alloc \o InitApic
              \o PitWrite \o <<Do("start_timer_one_shot")>> \o StartProc \o StartProc
              \o <<Do("print")>> \o ShellInit \o InitKbHandler

\* _print under without_interrupts, after the check of has_shell.
PrintBody == IF INITIALIZED
             THEN <<Lock("SHELL"), Lock("WRITER"), Unlock("WRITER"), Unlock("SHELL")>>
             ELSE <<Lock("WRITER"), Unlock("WRITER")>>

\* A panic: the message is printed, and hlt_loop halts, with interrupts as the
\* panic found them: if they are on, a tick takes the processor from it.
Panic == <<Do("print"), Do("die")>>

\* The exception handlers: all but one panic.
PageFaultHandler == <<Do("print"), Do("print"), Do("print"), Do("print"), Do("die")>>
ExceptionHandlers == {Panic, PageFaultHandler}

\* apic_timer_handler: restart_apic, then the switch of module Scheduler.
RestartApic_NoEoi == <<Do("start_timer_one_shot")>>
RestartApic_NoRestart == <<Do("lapic_eoi")>>
RestartApic == <<Do("lapic_eoi"), Do("start_timer_one_shot")>>
ApicTimerHandler == RestartApic \o <<Do("switch")>>

\* apic_timer_config_handler: LAPIC.unwrap() panics while there is none.
ApicTimerConfigHandler ==
    <<Do("set_triggered")>> \o (IF LAPIC THEN <<Do("lapic_eoi"), Do("iret")>> ELSE Panic)

Vector33 == IF IDT33 = "config" THEN ApicTimerConfigHandler ELSE ApicTimerHandler

\* timer_interrupt_handler, for the PIT through IRQ 0 of the PIC.
TimerInterruptHandler == <<Do("end_of_interrupt"), Do("iret")>>

\* apic_error_handler and apic_spurious_handler.
ApicNoticeHandler == <<Do("print"), Do("lapic_eoi"), Do("iret")>>

\* _handle_write, and handle_syscall for the system calls tasks make.
HandleWrite == Alloc \o <<Do("print")>> \o Dealloc
HandleSyscall(k) == CASE k = "write" -> HandleWrite
                      [] k = "badfd" -> <<>>
                      [] k = "nosys" -> Panic
SyscallHandler(k) == HandleSyscall(k) \o <<Do("end_of_interrupt"), Do("sti"), Do("iret")>>

\* What a context does when it has nothing left to do: kernel_main and the
\* idle task halt in a loop, a task runs the body of its function again.
LoopBody(c) == CASE c \in {BOOT, IDLE}   -> <<Do("hlt")>>
                 [] OTHER                -> CASE kind[c] = "spin"  -> <<Do("nop")>>
                                              [] kind[c] = "print" -> <<Do("print")>>
                                              [] kind[c] = "panic" -> Panic
                                              [] kind[c] = "fault" -> <<Do("exception")>>
                                              [] OTHER             -> <<Do("int80")>>
-----------------------------------------------------------------------------
(* The micro-operations.                                                   *)

Loop ==
    /\ todo[cpu] = <<>>
    /\ todo' = [todo EXCEPT ![cpu] = LoopBody(cpu)]
    /\ UNCHANGED <<schedVars, IFlag, owner, hardware, statics>>

\* What comes before went well, or it is a panic.
OrPanic ==
    /\ At("or_panic")
    /\ \E rest \in {<<>>, Panic} : Replace(rest)
    /\ UNCHANGED <<schedVars, IFlag, owner, hardware, statics>>

\* An iteration of a task that computes and calls nothing.
Nop ==
    /\ At("nop")
    /\ Replace(<<>>)
    /\ UNCHANGED <<schedVars, IFlag, owner, hardware, statics>>

\* spin::Mutex::lock returns once the lock is free; the unlock is the drop of
\* the guard.
AcquireLock ==
    /\ At("lock")
    /\ LET l == todo[cpu][1][2]
       IN  owner[l] = None /\ owner' = [owner EXCEPT ![l] = cpu]
    /\ Replace(<<>>)
    /\ UNCHANGED <<schedVars, IFlag, hardware, statics>>

ReleaseLock ==
    /\ At("unlock")
    /\ owner' = [owner EXCEPT ![todo[cpu][1][2]] = None]
    /\ Replace(<<>>)
    /\ UNCHANGED <<schedVars, IFlag, hardware, statics>>

\* print::_print: without_interrupts turns interrupts off and, only if they
\* were on, back on again.
Println_InterruptsOn ==
    /\ At("print")
    /\ Replace(PrintBody)
    /\ UNCHANGED <<schedVars, IFlag, owner, hardware, statics>>

Println_AlwaysSti ==
    /\ At("print")
    /\ IFlag' = FALSE
    /\ Replace(PrintBody \o <<Do("sti")>>)
    /\ UNCHANGED <<schedVars, owner, hardware, statics>>

Println_NeverSti ==
    /\ At("print")
    /\ IFlag' = FALSE
    /\ Replace(PrintBody)
    /\ UNCHANGED <<schedVars, owner, hardware, statics>>

Println ==
    /\ At("print")
    /\ IFlag' = FALSE
    /\ Replace(PrintBody \o (IF IFlag THEN <<Do("sti")>> ELSE <<>>))
    /\ UNCHANGED <<schedVars, owner, hardware, statics>>

\* An access to the ports of the PIT under without_interrupts.
PitAccess ==
    /\ At("pit")
    /\ IFlag' = FALSE
    /\ Replace(IF IFlag THEN <<Do("sti")>> ELSE <<>>)
    /\ UNCHANGED <<schedVars, owner, hardware, statics>>

Sti ==
    /\ At("sti")
    /\ IFlag' = TRUE
    /\ Replace(<<>>)
    /\ UNCHANGED <<schedVars, owner, hardware, statics>>

\* hlt waits for the next interrupt; Deliver takes the context out of it.
Hlt ==
    /\ At("hlt")
    /\ Replace(<<Do("halted")>>)
    /\ UNCHANGED <<schedVars, IFlag, owner, hardware, statics>>

\* LeafOS::init: the PICs are initialised, then interrupts are turned on.
InitStep ==
    /\ At("init")
    /\ pic' = "on"
    /\ IFlag' = TRUE
    /\ Replace(<<>>)
    /\ UNCHANGED <<schedVars, owner, lapic_on, armed, irr, isr, pic_isr, statics>>
-----------------------------------------------------------------------------
(* init_apic and the timer.                                                *)

LapicReplace ==
    /\ At("lapic_replace")
    /\ LAPIC' = TRUE
    /\ Replace(<<>>)
    /\ UNCHANGED <<schedVars, IFlag, owner, hardware, IDT33, TRIGGERED_ONCE,
                   INITIALIZED, made, kind>>

\* The calibration count is set and the local APIC enabled: the timer counts.
LapicEnable ==
    /\ At("lapic_enable")
    /\ lapic_on' = TRUE
    /\ armed' = TRUE
    /\ Replace(<<>>)
    /\ UNCHANGED <<schedVars, IFlag, owner, irr, isr, pic, pic_isr, statics>>

PicDisable ==
    /\ At("pic_disable")
    /\ pic' = "masked"
    /\ Replace(<<>>)
    /\ UNCHANGED <<schedVars, IFlag, owner, lapic_on, armed, irr, isr, pic_isr, statics>>

\* while !TRIGGERED_ONCE { wait_for_interrupt() }: the flag is loaded, and
\* the hlt is another instruction.
WaitTriggered ==
    /\ At("wait_triggered")
    /\ Replace(IF TRIGGERED_ONCE THEN <<>> ELSE <<Do("hlt"), Do("wait_triggered")>>)
    /\ UNCHANGED <<schedVars, IFlag, owner, hardware, statics>>

\* The division by the ticks counted panics if there are none (module Timer).
ComputeFrequency ==
    /\ At("frequency")
    /\ \E rest \in {<<>>, Panic} : Replace(rest)
    /\ UNCHANGED <<schedVars, IFlag, owner, hardware, statics>>

InstallScheduler ==
    /\ At("install_scheduler")
    /\ IDT33' = "sched"
    /\ Replace(<<>>)
    /\ UNCHANGED <<schedVars, IFlag, owner, hardware, LAPIC, TRIGGERED_ONCE,
                   INITIALIZED, made, kind>>

\* start_timer_one_shot: writing the initial count restarts the timer.
StartTimerOneShot ==
    /\ At("start_timer_one_shot")
    /\ armed' = TRUE
    /\ Replace(<<>>)
    /\ UNCHANGED <<schedVars, IFlag, owner, lapic_on, irr, isr, pic, pic_isr, statics>>

SetTriggered ==
    /\ At("set_triggered")
    /\ TRIGGERED_ONCE' = TRUE
    /\ Replace(<<>>)
    /\ UNCHANGED <<schedVars, IFlag, owner, hardware, LAPIC, IDT33, INITIALIZED,
                   made, kind>>

LapicEoi ==
    /\ At("lapic_eoi")
    /\ isr' = FALSE
    /\ Replace(<<>>)
    /\ UNCHANGED <<schedVars, IFlag, owner, lapic_on, armed, irr, pic, pic_isr, statics>>

\* The EOI of the PIC is for the IRQ of the highest priority in service.
Highest(irqs) == {i \in irqs : \A j \in irqs : i <= j}

\* end_of_interrupt: the EOI goes to the local APIC if there is one, and to
\* the PIC otherwise.
EndOfInterrupt_Swapped ==
    /\ At("end_of_interrupt")
    /\ isr' = (isr /\ LAPIC)
    /\ pic_isr' = IF LAPIC THEN pic_isr \ Highest(pic_isr) ELSE pic_isr
    /\ Replace(<<>>)
    /\ UNCHANGED <<schedVars, IFlag, owner, lapic_on, armed, irr, pic, statics>>

EndOfInterrupt ==
    /\ At("end_of_interrupt")
    /\ isr' = (isr /\ ~LAPIC)
    /\ pic_isr' = IF LAPIC THEN pic_isr ELSE pic_isr \ Highest(pic_isr)
    /\ Replace(<<>>)
    /\ UNCHANGED <<schedVars, IFlag, owner, lapic_on, armed, irr, pic, statics>>
-----------------------------------------------------------------------------
(* Tasks, the shell and the end of a handler.                              *)

DerefScheduler ==
    /\ At("deref_scheduler")
    /\ Replace(IF "SCHEDULER" \in made THEN <<>> ELSE MakeScheduler)
    /\ UNCHANGED <<schedVars, IFlag, owner, hardware, statics>>

SchedulerMade ==
    /\ At("scheduler_made")
    /\ made' = made \cup {"SCHEDULER"}
    /\ Replace(<<>>)
    /\ UNCHANGED <<schedVars, IFlag, owner, hardware, LAPIC, IDT33, TRIGGERED_ONCE,
                   INITIALIZED, kind>>

StartProcessStep ==
    /\ At("start_process")
    /\ StartProcess
    /\ \E k \in Kinds : kind' = [kind EXCEPT ![task_id'] = k]
    /\ Replace(<<>>)
    /\ UNCHANGED <<IFlag, owner, hardware, LAPIC, IDT33, TRIGGERED_ONCE, INITIALIZED,
                   made>>

ShellInitialized ==
    /\ At("shell_initialized")
    /\ INITIALIZED' = TRUE
    /\ Replace(<<>>)
    /\ UNCHANGED <<schedVars, IFlag, owner, hardware, LAPIC, IDT33, TRIGGERED_ONCE,
                   made, kind>>

\* int 0x80 goes through an interrupt gate to syscall_handler.
Int80 ==
    /\ At("int80")
    /\ IFlag' = FALSE
    /\ Replace(SyscallHandler(kind[cpu]))
    /\ UNCHANGED <<schedVars, owner, hardware, statics>>

\* A task raises an exception: an interrupt gate, to a handler that stays.
Exception ==
    /\ At("exception")
    /\ IFlag' = FALSE
    /\ \E handler \in ExceptionHandlers : Replace(handler)
    /\ UNCHANGED <<schedVars, owner, hardware, statics>>

Iret ==
    /\ At("iret")
    /\ IFlag' = TRUE
    /\ Replace(<<>>)
    /\ UNCHANGED <<schedVars, owner, hardware, statics>>

\* What select_next_task initialises: SCHEDULER if nobody has used it yet, and
\* the idle task if there is no other for the first time.
Needs == {"SCHEDULER"} \cup (IF tasks = <<>> THEN {"IDLE_TASK"} ELSE {})

\* The locks it spins on; it allocates to initialise.
SwitchLocks == {"ONCE", "SCHEDULER"} \cup (IF Needs \subseteq made THEN {} ELSE {"ALLOCATOR"})

\* From current_task_ptr to iretq.  Whatever is resumed was interrupted or
\* starts with the flags 0x202, so interrupts are on again.
Switch ==
    /\ At("switch")
    /\ \A l \in SwitchLocks : owner[l] = None
    /\ Tick
    /\ made' = made \cup Needs
    /\ IFlag' = TRUE
    /\ Replace(<<>>)
    /\ UNCHANGED <<owner, hardware, LAPIC, IDT33, TRIGGERED_ONCE, INITIALIZED, kind>>

\* There is no room for what it initialises: it panics on the stack of the
\* context it was to suspend, with interrupts off.  What it has changed and
\* still holds by then, nobody gets to see.
SwitchPanics ==
    /\ At("switch")
    /\ \A l \in SwitchLocks : owner[l] = None
    /\ ~(Needs \subseteq made)
    /\ Replace(Panic)
    /\ UNCHANGED <<schedVars, IFlag, owner, hardware, statics>>
-----------------------------------------------------------------------------
(* Interrupts.                                                             *)

\* The handler starts on the stack of the running context, with interrupts
\* off; a halted processor goes on behind the hlt.
Deliver_GateOpen(handler) ==
    /\ IFlag
    /\ todo' = [todo EXCEPT ![cpu] = handler \o (IF At("halted") THEN Tail(@) ELSE @)]
    /\ UNCHANGED <<schedVars, IFlag, owner, statics>>

Deliver(handler) ==
    /\ IFlag
    /\ IFlag' = FALSE
    /\ todo' = [todo EXCEPT ![cpu] = handler \o (IF At("halted") THEN Tail(@) ELSE @)]
    /\ UNCHANGED <<schedVars, owner, statics>>

TimerExpires ==
    /\ armed
    /\ armed' = FALSE
    /\ irr' = TRUE
    /\ UNCHANGED <<schedVars, todo, IFlag, owner, lapic_on, isr, pic, pic_isr, statics>>

TimerInterrupt ==
    /\ irr /\ ~isr
    /\ irr' = FALSE
    /\ isr' = TRUE
    /\ Deliver(Vector33)
    /\ UNCHANGED <<lapic_on, armed, pic, pic_isr>>

\* IRQ 0 (the PIT) has vector 32, IRQ 1 (the keyboard) vector 33, which is
\* ApicTimer.  An IRQ in service holds back those of its priority and below.
PicInterrupt(irq) ==
    /\ pic = "on"
    /\ \A i \in pic_isr : irq < i
    /\ pic_isr' = pic_isr \cup {irq}
    /\ Deliver(IF irq = 0 THEN TimerInterruptHandler ELSE Vector33)
    /\ UNCHANGED <<lapic_on, armed, irr, isr, pic>>

\* The local APIC signals an error or a spurious interrupt.
ApicNotice ==
    /\ lapic_on
    /\ Deliver(ApicNoticeHandler)
    /\ UNCHANGED hardware
-----------------------------------------------------------------------------
KernelInit ==
    /\ SchedInit
    /\ todo = [c \in Threads |-> IF c = BOOT THEN KernelMain ELSE <<>>]
    /\ kind = [t \in Tasks |-> "none"]
    /\ IFlag = FALSE
    /\ owner = [l \in Locks |-> None]
    /\ made = {} /\ LAPIC = FALSE
    /\ lapic_on = FALSE /\ armed = FALSE /\ irr = FALSE /\ isr = FALSE
    /\ pic = "off" /\ pic_isr = {}
    /\ IDT33 = "config"
    /\ TRIGGERED_ONCE = FALSE /\ INITIALIZED = FALSE

CpuStep ==
    \/ Loop \/ OrPanic \/ Nop \/ AcquireLock \/ ReleaseLock \/ Println \/ PitAccess \/ Sti \/ Hlt
    \/ InitStep \/ LapicReplace \/ LapicEnable \/ PicDisable \/ WaitTriggered
    \/ ComputeFrequency \/ InstallScheduler \/ StartTimerOneShot \/ SetTriggered \/ LapicEoi
    \/ EndOfInterrupt \/ DerefScheduler \/ SchedulerMade \/ StartProcessStep
    \/ ShellInitialized \/ Int80 \/ Exception \/ Iret
    \/ Switch \/ SwitchPanics

KernelNext ==
    \/ CpuStep
    \/ TimerExpires \/ TimerInterrupt \/ ApicNotice
    \/ \E irq \in {0, 1} : PicInterrupt(irq)

KernelSpec == KernelInit /\ [][KernelNext]_vars

\* The processor executes instructions; an armed timer expires; the processor
\* takes a pending interrupt if it gets to an instruction boundary with
\* interrupts on again and again.
FairKernelSpec ==
    /\ KernelSpec
    /\ WF_vars(CpuStep)
    /\ WF_vars(TimerExpires)
    /\ SF_vars(TimerInterrupt)

\* The handler of an interrupt is on the stack.
InHandler == Ahead("iret") \/ Ahead("switch")

\* Interrupts do not come so fast that nothing runs between them, either.
UnhurriedKernelSpec == FairKernelSpec /\ SF_vars(~InHandler /\ CpuStep)
-----------------------------------------------------------------------------
KernelTypeOK ==
    /\ SchedTypeOK
    /\ DOMAIN todo = Threads
    /\ kind \in [Tasks -> Kinds \cup {"none"}]
    /\ owner \in [Locks -> Threads \cup {None}]
    /\ {IFlag, LAPIC, lapic_on, armed, irr, isr, TRIGGERED_ONCE, INITIALIZED}
         \subseteq BOOLEAN
    /\ made \subseteq {"SCHEDULER", "IDLE_TASK"}
    /\ pic \in {"off", "on", "masked"}
    /\ pic_isr \subseteq {0, 1}
    /\ IDT33 \in {"config", "sched"}

\* The running context spins on the lock l.
BlockedOn(l) ==
    /\ owner[l] # None
    /\ todo[cpu] # <<>>
    /\ \/ todo[cpu][1] = Lock(l)
       \/ At("switch") /\ l \in SwitchLocks

\* Whoever spins on a lock spins on one that kernel_main took: neither a task
\* nor a system call nor a handler is ever preempted with a lock in its hand.
\* The locks of _print and of syscall_handler are taken with interrupts off;
\* only the locks of start_proc, Shell::init and init_kb_handler are not, and
\* the first tick abandons kernel_main with the locks it holds.
OnlyBootBlocks == \A l \in Locks : BlockedOn(l) => owner[l] = BOOT

\* The next tick is always on its way.  The timer is one-shot: once the
\* scheduler is installed it is counting, its interrupt is pending, or the
\* running context is about to restart it; and an interrupt in service, which
\* holds all others back, is about to be ended.
TickComing ==
    /\ IDT33 = "sched" => armed \/ irr \/ Ahead("start_timer_one_shot")
    /\ isr => Ahead("lapic_eoi")

\* Interrupts are never left off: if they are off, the running context has an
\* operation ahead that turns them on, or it has panicked.
InterruptsComeBack ==
    ~IFlag => \E op \in {"init", "sti", "iret", "switch", "die"} : Ahead(op)

\* No handler is interrupted before it has sent its EOI: the println of a
\* system call or of an error handler must not turn interrupts on.
HandlersRunMasked == Ahead("lapic_eoi") \/ Ahead("end_of_interrupt") => ~IFlag

\* A kernel stack never holds more than two handlers: a system call, which
\* turns interrupts on before it returns, and one interrupt on top of it.
Frames(c) == {i \in 1 .. Len(todo[c]) : todo[c][i][1] \in {"iret", "switch"}}

NestingBounded == \A c \in Threads : \A i, j, k \in Frames(c) : i = j \/ j = k \/ i = k

\* While the PIC is the only interrupt controller, the EOI of an IRQ reaches
\* it: an IRQ in service is about to be ended, or its handler has panicked.
PicServiceEnds ==
    ~LAPIC /\ pic_isr # {} => Ahead("end_of_interrupt") \/ Ahead("die")

\* What turns interrupts on.
Enabling == {"init", "sti", "iret", "switch"}

\* The running context has panicked with interrupts off, and executes nothing
\* that turns them on before it halts.
Halting ==
    /\ ~IFlag
    /\ \E i \in 1 .. Len(todo[cpu]) :
          /\ todo[cpu][i][1] = "die"
          /\ \A j \in 1 .. i - 1 : todo[cpu][j][1] \notin Enabling

\* The machine has stopped for good.
Wedged == Halting \/ \E l \in Locks : BlockedOn(l)

\* Every started task gets the processor again and again, unless the machine
\* halts with interrupts off or spins on a lock of kernel_main.  A panic with
\* interrupts on, of a task or of kernel_main, does not keep the other tasks
\* from running: the next tick takes the processor from hlt_loop.
TasksRun == \A t \in Tasks : t <= task_id ~> cpu = t \/ Wedged

\* A machine that has panicked with interrupts off, or that spins on a lock,
\* never runs again.  Whoever spins does so with interrupts off, so that the
\* owner of the lock does not come back: kernel_main, which takes its locks with
\* interrupts on, gives each of them back before it comes to it again.  And the
\* println! of a panic turns no interrupts on that were off.
WedgedForGood == [][Wedged => Wedged']_vars
-----------------------------------------------------------------------------
(* What comments in the code say, and the code does not do.                *)

\* kernel_main: "we disable interrupts for the start so no unexpected
\* shinanigans can occour".  No tick is taken before kernel_main is done.
BootNotPreempted == INIT => \A i \in 1 .. Len(todo[BOOT]) : todo[BOOT][i][1] \in {"hlt", "halted"}

\* init_apic: "lapic was enabled, we can now safely disable the pic".  The
\* calibration that follows comes to its end.
CalibrationEnds == <>(IDT33 = "sched" \/ Wedged \/ Ahead("die"))

\* timer_interrupt_handler: "This notifies the cpu that the interrupt was
\* processed and that it can send the next one".  Once the handler of IRQ 0
\* has returned, IRQ 0 is no longer in service.
EoiReachesPic == pic = "on" /\ 0 \in pic_isr => InHandler
=============================================================================
