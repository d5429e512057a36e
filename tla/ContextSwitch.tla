---------------------------- MODULE ContextSwitch ----------------------------
(***************************************************************************)
(* The words on the kernel stacks: the frame ProcessState::new builds for  *)
(* a new task (src/src/scheduler.rs) and the pushes and pops of            *)
(* apic_timer_handler (src/src/interrupts.rs) that save and load one.  It  *)
(* looks into what module Scheduler abstracts to "the context that this    *)
(* kernel_rsp resumes"; which task comes next is left open here.  The same *)
(* stacks carry the system calls of src/src/syscall.rs: do_syscall_N puts  *)
(* the arguments into registers, syscall_handler pushes them for           *)
(* handle_syscall, and what it returns with can be preempted again.        *)
(*                                                                         *)
(* A stack is a function on word offsets from kernel_addr, the end of its  *)
(* kernel_stack: the words of the stack have negative offsets, and 0 and 1 *)
(* are the two words behind it.  A word is a tuple that says what it is.   *)
(* Words below the stack pointer are dead: the next interrupt may overwrite*)
(* them, so they count as unset as soon as the stack pointer is above them.*)
(***************************************************************************)
EXTENDS Integers, Sequences, SequencesExt

CONSTANTS Tasks,     \* the tasks, the idle task included
          BOOT,      \* the context of kernel_main
          MaxDepth   \* bound on the words a context has on its stack

ASSUME SwitchAssumption == MaxDepth \in Nat /\ BOOT \notin Tasks

Threads == Tasks \cup {BOOT}

\* The handler pushes the registers in this order; the processor has pushed
\* Hardware before.
PushOrder == <<"rax", "rbx", "rcx", "rdx", "rsi", "rdi", "r8", "r9", "r10", "r11",
               "r12", "r13", "r14", "r15", "rbp">>
Hardware == <<"ss", "rsp", "rflags", "cs", "rip">>

\* The handler pops them in this order, and iretq the rest.
PopOrder_Swapped == <<"rbp", "r15", "r14", "r13", "r12", "r11", "r10", "r9", "r8", "rsi",
                      "rdi", "rdx", "rcx", "rbx", "rax">>
PopOrder == <<"rbp", "r15", "r14", "r13", "r12", "r11", "r10", "r9", "r8", "rdi",
              "rsi", "rdx", "rcx", "rbx", "rax">>
IretOrder == <<"rip", "cs", "rflags", "rsp", "ss">>

Registers == ToSet(PushOrder) \cup ToSet(Hardware)
FrameLength == Len(PushOrder) + Len(Hardware)

\* syscall_handler calls functions, so the compiler has it save the registers
\* that a call may change when it is entered, and load them when it returns.
CallerSaved == <<"rax", "rcx", "rdx", "rsi", "rdi", "r8", "r9", "r10", "r11">>
SyscallFrame == Hardware \o CallerSaved

\* In between it pushes the arguments, then drops one word and pops the rest.
\* The words are the fields of SyscallArgs, the last one pushed the first.
SyscallPush_Swapped == <<"0", "r9", "r8", "rcx", "rsi", "rdx", "rdi", "rax">>
SyscallPush == <<"0", "r9", "r8", "rcx", "rdx", "rsi", "rdi", "rax">>
SyscallPop == <<"rdi", "rsi", "rdx", "rcx", "r8", "r9", "rax">>
SyscallArgs == <<"syscall_id", "arg0", "arg1", "arg2", "arg3", "arg4", "arg5", "error">>

\* What _handle_write returns, for STDOUT_FD and for another descriptor.
Results == {<<"zero">>, <<"EIO">>}

\* The deepest frame: an unaligned stack, a system call, on top of it the
\* frame of a switch, unaligned again, and two words of calls.
Deepest == MaxDepth + 1 + Len(SyscallFrame)
Words == -(Deepest + 1 + FrameLength + 2) .. 1

VARIABLES
    mem,         \* the words of the stacks
    regs,        \* the registers of the processor
    cpu,         \* the context on the processor
    kernel_rsp,  \* ProcessState::kernel_rsp, as an offset
    started,     \* the tasks that have a frame
    saved,       \* the registers and the words each task is to continue with
    call         \* the registers each context made its system call with

vars == <<mem, regs, cpu, kernel_rsp, started, saved, call>>

Unset == <<"unset">>
Clobbered == <<"clobbered">>
NoCall == <<"none">>
Running == [regs |-> <<>>, words |-> <<>>]
Epilogue == <<"end of syscall_handler">>
Data(c, k) == <<"data", c, k>>
Sp(offset) == <<"sp", offset>>

\* rsp, if the register holds an offset at all.
Offset(word) == IF word[1] = "sp" THEN word[2] ELSE 0
rsp == Offset(regs["rsp"])

Init ==
    /\ mem = [c \in Threads |-> [k \in Words |-> Unset]]
    /\ regs = [r \in Registers |-> IF r = "rsp" THEN Sp(0) ELSE <<r, BOOT, 0>>]
    /\ cpu = BOOT
    /\ kernel_rsp = [c \in Threads |-> 0]
    /\ started = {}
    /\ saved = [t \in Tasks |-> Running]
    /\ call = [c \in Threads |-> NoCall]
-----------------------------------------------------------------------------
\* What a new task is to start with.  ProcessState::new does not write ss:
\* it is what lies behind the stack.
StartRegisters(t) ==
    [r \in Registers |->
        CASE r = "rsp"    -> Sp(0)
          [] r = "rbp"    -> Sp(0)
          [] r = "rflags" -> <<"flags 0x202">>
          [] r = "cs"     -> <<"code selector">>
          [] r = "rip"    -> <<"start_fn", t>>
          [] r = "ss"     -> Unset
          [] OTHER        -> <<"zero">>]

\* ProcessState::new: what it writes at each offset.
NewFrame_RspAboveStack(t) ==
    [k \in -18 .. 0 |->
        CASE k = 0   -> Sp(1)
          [] k = -1  -> <<"flags 0x202">>
          [] k = -2  -> <<"code selector">>
          [] k = -3  -> <<"start_fn", t>>
          [] k = -18 -> Sp(0)
          [] OTHER   -> <<"zero">>]

NewFrame(t) ==
    [k \in -18 .. 0 |->
        CASE k = 0   -> Sp(0)
          [] k = -1  -> <<"flags 0x202">>
          [] k = -2  -> <<"code selector">>
          [] k = -3  -> <<"start_fn", t>>
          [] k = -18 -> Sp(0)
          [] OTHER   -> <<"zero">>]

\* A task gets its ProcessState, with kernel_rsp at the lowest word written.
NewProcessState(t) ==
    /\ t \notin started
    /\ started' = started \cup {t}
    /\ mem' = [mem EXCEPT ![t] = [k \in Words |->
                  IF k \in DOMAIN NewFrame(t) THEN NewFrame(t)[k] ELSE @[k]]]
    /\ kernel_rsp' = [kernel_rsp EXCEPT ![t] = -(14 + 4)]
    /\ saved' = [saved EXCEPT ![t] = [regs |-> StartRegisters(t), words |-> <<>>]]
    /\ UNCHANGED <<regs, cpu, call>>
-----------------------------------------------------------------------------
(* The running context computes, pushes and pops.                          *)

InSyscall == regs["rip"] = Epilogue

\* All its registers but rsp change.  Two generations tell new from old.
Compute ==
    /\ ~InSyscall
    /\ \E g \in {0, 1} :
         regs' = [r \in Registers |->
                     IF r \in {"rsp", "rflags", "cs", "ss"} THEN regs[r] ELSE <<r, cpu, g>>]
    /\ UNCHANGED <<mem, cpu, kernel_rsp, started, saved, call>>

PushData ==
    /\ ~InSyscall
    /\ rsp > -MaxDepth
    /\ mem' = [mem EXCEPT ![cpu][rsp - 1] = Data(cpu, rsp - 1)]
    /\ regs' = [regs EXCEPT !["rsp"] = Sp(rsp - 1)]
    /\ UNCHANGED <<cpu, kernel_rsp, started, saved, call>>

PopData ==
    /\ ~InSyscall
    /\ rsp < 0
    /\ mem' = [mem EXCEPT ![cpu][rsp] = Unset]
    /\ regs' = [regs EXCEPT !["rsp"] = Sp(rsp + 1)]
    /\ UNCHANGED <<cpu, kernel_rsp, started, saved, call>>
-----------------------------------------------------------------------------
(* apic_timer_handler                                                      *)

\* The words pushed for the registers named in order, from offset sp down.
Value(name) == IF name = "0" THEN <<"zero">> ELSE regs[name]
Pushed(stack, sp, order) ==
    [k \in Words |-> IF sp - k \in 1 .. Len(order) THEN Value(order[sp - k]) ELSE stack[k]]

\* The processor aligns the stack to 16 bytes, two words, before it pushes.
AlignedSp == IF rsp % 2 = 0 THEN rsp ELSE rsp - 1
SavedSp == AlignedSp - FrameLength

\* The calls of a handler use the words below the stack pointer.
Scribbled(stack, sp) == [k \in Words |-> IF k < sp THEN Unset ELSE stack[k]]

\* tss_ptr returns the address of a copy of TSS on its own frame, and the
\* handler writes kernel_top_rsp through it when that frame is gone: a word
\* below the stack pointer of the task it resumes, and not the TSS.
TssWritten(stack, sp) == Scribbled(stack, sp)

\* The words popped into the registers named in order, from offset sp up.
Popped(stack, sp, order) ==
    [r \in ToSet(order) |-> stack[sp - 1 + CHOOSE i \in 1 .. Len(order) : order[i] = r]]

\* What a context has on its stack from offset sp up.
InUse(stack, sp) == [k \in sp .. -1 |-> stack[k]]

\* What the running context is to continue with.
Current == [regs |-> regs, words |-> InUse(mem[cpu], rsp)]

\* The handler saves the running context and resumes n.
Switch(n) ==
    LET rspSaved == [kernel_rsp EXCEPT ![cpu] = SavedSp]
        old == Scribbled(Pushed(mem[cpu], AlignedSp, Hardware \o PushOrder), SavedSp)
        stacks == [mem EXCEPT ![cpu] = old]
        sp == rspSaved[n]
        stack == TssWritten(stacks[n], sp)
        loaded == Popped(stack, sp, PopOrder \o IretOrder)
    IN  /\ n \in started
        /\ kernel_rsp' = rspSaved
        /\ regs' = loaded
        /\ mem' = [stacks EXCEPT ![n] = Scribbled(stack, Offset(loaded["rsp"]))]
        /\ saved' = [t \in Tasks |-> CASE t = n -> Running
                                       [] t = cpu /\ t # n -> Current
                                       [] OTHER -> saved[t]]
        /\ cpu' = n
        /\ UNCHANGED <<started, call>>
-----------------------------------------------------------------------------
(* System calls                                                            *)

SyscallSp == AlignedSp - Len(SyscallFrame)

\* What handle_syscall finds in its argument.
HandlerArgs ==
    LET sp == SyscallSp - Len(SyscallPush)
    IN  Popped(Pushed(mem[cpu], SyscallSp, SyscallPush), sp, SyscallArgs)

\* int 0x80, and syscall_handler up to enable_interrupts.  do_syscall_N has
\* loaded rax; for another syscall_id than WRITE handle_syscall panics, and is
\* not modelled here (module Kernel has the panic).  handle_syscall may
\* write to its argument; whatever is popped, end_of_interrupt is another call
\* and changes the same registers again.
SyscallHandler ==
    /\ ~InSyscall /\ cpu \in Tasks /\ regs["rax"] # <<"zero">>
    /\ mem' = [mem EXCEPT ![cpu] =
                  Scribbled(Pushed(@, AlignedSp, SyscallFrame), SyscallSp)]
    /\ regs' = [r \in Registers |->
                   CASE r = "rsp" -> Sp(SyscallSp - Len(SyscallPush) + 1 + Len(SyscallPop))
                     [] r = "rip" -> Epilogue
                     [] r \in ToSet(CallerSaved) -> Clobbered
                     [] OTHER -> regs[r]]
    /\ call' = [call EXCEPT ![cpu] = regs]
    /\ UNCHANGED <<cpu, kernel_rsp, started, saved>>

\* The end of syscall_handler, with interrupts on: the registers it saved are
\* loaded, and iretq returns to do_syscall.
SyscallReturn ==
    LET loaded == Popped(mem[cpu], rsp, Reverse(CallerSaved) \o IretOrder)
    IN  /\ InSyscall
        /\ regs' = [r \in Registers |-> IF r \in DOMAIN loaded THEN loaded[r] ELSE regs[r]]
        /\ mem' = [mem EXCEPT ![cpu] = Scribbled(@, Offset(loaded["rsp"]))]
        /\ call' = [call EXCEPT ![cpu] = NoCall]
        /\ UNCHANGED <<cpu, kernel_rsp, started, saved>>

Next ==
    \/ Compute \/ PushData \/ PopData \/ SyscallHandler \/ SyscallReturn
    \/ \E t \in Tasks : NewProcessState(t) \/ Switch(t)

Spec == Init /\ [][Next]_vars
-----------------------------------------------------------------------------
\* Types: every register is loaded by a switch, and the stack pointer of the
\* running context, a new task's included, is not above the end of its
\* kernel_stack, and below the words it pushed itself by no more than the frame
\* of a system call.  A kernel_rsp and the frame it points to are only among
\* the modelled words, to which the two behind the stack belong: the frame
\* that ProcessState::new builds reaches them.
SwitchTypeOK ==
    /\ cpu \in Threads
    /\ started \subseteq Tasks
    /\ DOMAIN regs = Registers
    /\ rsp \in (IF InSyscall THEN -Deepest ELSE -MaxDepth) .. 0
    /\ kernel_rsp \in [Threads -> Words]
    /\ \A c \in Threads : DOMAIN mem[c] = Words
    /\ \A t \in started \ {cpu} : DOMAIN saved[t].regs = Registers

\* A context that apic_timer_handler resumes continues with exactly the
\* registers it was interrupted with, or a new task with those that
\* ProcessState::new means it to start with, and finds on its stack what it
\* had pushed, however many other contexts ran in between and wherever its
\* stack pointer stood: the pops mirror the pushes, new builds the frame they
\* build, and what the handler writes on either stack is below the words in use.
ContextIntact ==
    [][\A n \in Tasks : Switch(n) =>
          LET context == IF n = cpu THEN Current ELSE saved[n]
          IN  /\ regs' = context.regs
              /\ \A k \in DOMAIN context.words : mem'[n][k] = context.words[k]]_vars

\* The registers that the fields of SyscallArgs are passed in, of which
\* do_syscall_0 to do_syscall_6 load more and more; error starts as 0.
PassedIn == <<"rax", "rdi", "rsi", "rdx", "rcx", "r8", "r9", "0">>

\* A system call hands handle_syscall the arguments that do_syscall_N passed,
\* and returns with every register as it was but rax, as the asm! blocks of
\* do_syscall_N tell the compiler, although syscall_handler turns interrupts
\* on before it has loaded the registers and may be switched away from there.
SyscallContract ==
    [][/\ SyscallHandler => \A i \in 1 .. 8 : HandlerArgs[SyscallArgs[i]] = Value(PassedIn[i])
       /\ SyscallReturn => \A r \in Registers \ {"rax"} : regs'[r] = call[cpu][r]]_vars

\* `"pop rax", // (potential) error` (src/src/interrupts.rs:403): a system
\* call returns, in the register that do_syscall_N takes its result from, what
\* handle_write has stored in the field error.
SyscallReturnsResult ==
    [][SyscallReturn => regs'["rax"] \in Results]_vars

\* "setup the stack frame iret expects" (src/src/scheduler.rs:112): iretq
\* loads no register from a word that nobody has written.
IretFrameComplete == \A r \in Registers : regs[r] # Unset
=============================================================================
