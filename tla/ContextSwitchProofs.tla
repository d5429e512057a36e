------------------------ MODULE ContextSwitchProofs ------------------------
(***************************************************************************)
(* For any tasks and stacks of any depth: apic_timer_handler resumes every *)
(* context with the registers and the stack it was interrupted with, also  *)
(* in the middle of a system call.                                         *)
(***************************************************************************)
EXTENDS ContextSwitch, SequenceTheorems, TLAPS

\* What a switch and a system call push and load, as one order each.
Frame   == Hardware \o PushOrder
Load    == PopOrder \o IretOrder
SysLoad == Reverse(CallerSaved) \o IretOrder

Names == {"ss", "rsp", "rflags", "cs", "rip", "rax", "rbx", "rcx", "rdx", "rsi", "rdi",
          "r8", "r9", "r10", "r11", "r12", "r13", "r14", "r15", "rbp"}

\* Where the words of two orders stand, one behind the other.
LEMMA Joined ==
    ASSUME NEW s \in Seq(Names), NEW t \in Seq(Names)
    PROVE  /\ s \o t \in Seq(Names) /\ Len(s \o t) = Len(s) + Len(t)
           /\ \A i \in 1 .. Len(s) : (s \o t)[i] = s[i]
           /\ \A i \in 1 .. Len(t) : (s \o t)[Len(s) + i] = t[i]
  OBVIOUS

\* Sequences with the same positions are equally long.
LEMMA SameLength ==
    ASSUME NEW n \in Nat, NEW m \in Nat, 1 .. n = 1 .. m
    PROVE  n = m
<1>1. n > 0 => n \in 1 .. m
  OBVIOUS
<1>2. m > 0 => m \in 1 .. n
  OBVIOUS
<1> QED
  BY <1>1, <1>2

\* The push and pop orders of the macros are lists of registers.
LEMMA OrdersTyped ==
    /\ Hardware \in Seq(Names) /\ Len(Hardware) = 5
    /\ PushOrder \in Seq(Names) /\ Len(PushOrder) = 15
    /\ PopOrder \in Seq(Names) /\ Len(PopOrder) = 15
    /\ IretOrder \in Seq(Names) /\ Len(IretOrder) = 5
    /\ CallerSaved \in Seq(Names) /\ Len(CallerSaved) = 9
<1>1. Hardware \in Seq(Names) /\ Len(Hardware) = 5
  BY DEF Names, Hardware
<1>2. PushOrder \in Seq(Names) /\ Len(PushOrder) = 15
  BY DEF Names, PushOrder
<1>3. PopOrder \in Seq(Names) /\ Len(PopOrder) = 15
  BY DEF Names, PopOrder
<1>4. IretOrder \in Seq(Names) /\ Len(IretOrder) = 5
  BY DEF Names, IretOrder
<1>5. CallerSaved \in Seq(Names) /\ Len(CallerSaved) = 9
  BY DEF Names, CallerSaved
<1> QED
  BY <1>1, <1>2, <1>3, <1>4, <1>5

\* The pops and iretq load, in reverse, what the processor and the pushes put
\* on the stack: every register once.
LEMMA FrameOrder ==
    /\ Len(Frame) = 20 /\ Len(Load) = 20 /\ FrameLength = 20
    /\ \A i \in 1 .. 20 : Load[i] = Frame[21 - i]
    /\ \A i, j \in 1 .. 20 : Load[i] = Load[j] => i = j
    /\ Registers = {Load[i] : i \in 1 .. 20}
    /\ ToSet(Load) = Registers
    /\ Registers = Names
    /\ Load[1] = "rbp" /\ Load[16] = "rip" /\ Load[17] = "cs" /\ Load[18] = "rflags"
    /\ Load[19] = "rsp" /\ Load[20] = "ss"
<1>1. /\ Frame \in Seq(Names) /\ Len(Frame) = Len(Hardware) + Len(PushOrder)
      /\ \A i \in 1 .. Len(Hardware) : Frame[i] = Hardware[i]
      /\ \A i \in 1 .. Len(PushOrder) : Frame[Len(Hardware) + i] = PushOrder[i]
  BY Joined, OrdersTyped, Zenon DEF Frame
<1>2. /\ Load \in Seq(Names) /\ Len(Load) = Len(PopOrder) + Len(IretOrder)
      /\ \A i \in 1 .. Len(PopOrder) : Load[i] = PopOrder[i]
      /\ \A i \in 1 .. Len(IretOrder) : Load[Len(PopOrder) + i] = IretOrder[i]
  BY Joined, OrdersTyped, Zenon DEF Load
<1>3. /\ Len(Frame) = 20
      /\ \A i \in 1 .. 5 : Frame[i] = Hardware[i]
      /\ \A i \in 1 .. 15 : Frame[5 + i] = PushOrder[i]
  BY <1>1, OrdersTyped
<1>4. /\ Len(Load) = 20
      /\ \A i \in 1 .. 15 : Load[i] = PopOrder[i]
      /\ \A i \in 1 .. 5 : Load[15 + i] = IretOrder[i]
  BY <1>2, OrdersTyped
<1>5. /\ Hardware[1] = "ss" /\ Hardware[2] = "rsp" /\ Hardware[3] = "rflags"
      /\ Hardware[4] = "cs" /\ Hardware[5] = "rip"
      /\ PushOrder[1] = "rax" /\ PushOrder[2] = "rbx" /\ PushOrder[3] = "rcx"
      /\ PushOrder[4] = "rdx" /\ PushOrder[5] = "rsi" /\ PushOrder[6] = "rdi"
      /\ PushOrder[7] = "r8" /\ PushOrder[8] = "r9" /\ PushOrder[9] = "r10"
      /\ PushOrder[10] = "r11" /\ PushOrder[11] = "r12" /\ PushOrder[12] = "r13"
      /\ PushOrder[13] = "r14" /\ PushOrder[14] = "r15" /\ PushOrder[15] = "rbp"
  BY DEF Hardware, PushOrder
<1>6. /\ PopOrder[1] = "rbp" /\ PopOrder[2] = "r15" /\ PopOrder[3] = "r14"
      /\ PopOrder[4] = "r13" /\ PopOrder[5] = "r12" /\ PopOrder[6] = "r11"
      /\ PopOrder[7] = "r10" /\ PopOrder[8] = "r9" /\ PopOrder[9] = "r8"
      /\ PopOrder[10] = "rdi" /\ PopOrder[11] = "rsi" /\ PopOrder[12] = "rdx"
      /\ PopOrder[13] = "rcx" /\ PopOrder[14] = "rbx" /\ PopOrder[15] = "rax"
      /\ IretOrder[1] = "rip" /\ IretOrder[2] = "cs" /\ IretOrder[3] = "rflags"
      /\ IretOrder[4] = "rsp" /\ IretOrder[5] = "ss"
  BY DEF PopOrder, IretOrder
<1>7. /\ Frame[1] = "ss" /\ Frame[2] = "rsp" /\ Frame[3] = "rflags"
      /\ Frame[4] = "cs" /\ Frame[5] = "rip" /\ Frame[6] = "rax" /\ Frame[7] = "rbx"
      /\ Frame[8] = "rcx" /\ Frame[9] = "rdx" /\ Frame[10] = "rsi"
      /\ Frame[11] = "rdi" /\ Frame[12] = "r8" /\ Frame[13] = "r9"
      /\ Frame[14] = "r10" /\ Frame[15] = "r11" /\ Frame[16] = "r12"
      /\ Frame[17] = "r13" /\ Frame[18] = "r14" /\ Frame[19] = "r15"
      /\ Frame[20] = "rbp"
  BY <1>3, <1>5
<1>8. /\ Load[1] = "rbp" /\ Load[2] = "r15" /\ Load[3] = "r14" /\ Load[4] = "r13"
      /\ Load[5] = "r12" /\ Load[6] = "r11" /\ Load[7] = "r10" /\ Load[8] = "r9"
      /\ Load[9] = "r8" /\ Load[10] = "rdi" /\ Load[11] = "rsi" /\ Load[12] = "rdx"
      /\ Load[13] = "rcx" /\ Load[14] = "rbx" /\ Load[15] = "rax" /\ Load[16] = "rip"
      /\ Load[17] = "cs" /\ Load[18] = "rflags" /\ Load[19] = "rsp"
      /\ Load[20] = "ss"
  BY <1>4, <1>6
<1>9. \A i \in 1 .. 20 : Load[i] = Frame[21 - i]
  BY <1>7, <1>8
<1>10. \A i, j \in 1 .. 20 : Load[i] = Load[j] => i = j
  BY <1>8
<1>11. ToSet(Load) = {Load[i] : i \in 1 .. 20}
  <2>1. DOMAIN Load = 1 .. 20
    BY <1>2, <1>4, LenProperties, Zenon
  <2> QED
    BY <2>1, Zenon DEF ToSet
<1>12. {Load[i] : i \in 1 .. 20} = Names
  BY <1>8 DEF Names
<1>13. Registers = Names
  BY DEF Registers, ToSet, Hardware, PushOrder, Names
<1>14. FrameLength = 20
  BY OrdersTyped DEF FrameLength
<1> QED
  BY <1>3, <1>4, <1>8, <1>9, <1>10, <1>11, <1>12, <1>13, <1>14

\* The same of the registers syscall_handler saves for its caller.
LEMMA SyscallOrder ==
    /\ Len(SyscallFrame) = 14 /\ Len(SysLoad) = 14
    /\ \A i \in 1 .. 14 : SysLoad[i] = SyscallFrame[15 - i]
    /\ \A i, j \in 1 .. 14 : SysLoad[i] = SysLoad[j] => i = j
    /\ ToSet(SysLoad) = {SysLoad[i] : i \in 1 .. 14}
    /\ ToSet(SysLoad) = ToSet(CallerSaved) \cup {"rip", "cs", "rflags", "rsp", "ss"}
    /\ ToSet(SysLoad) \subseteq Registers
    /\ "rsp" \notin ToSet(CallerSaved) /\ "rip" \notin ToSet(CallerSaved)
<1> DEFINE R == Reverse(CallerSaved)
<1>0. R \in Seq(Names) /\ Len(R) = 9 /\ \A i \in 1 .. 9 : R[i] = CallerSaved[10 - i]
  <2>1. R = [i \in 1 .. 9 |-> CallerSaved[(9 - i) + 1]]
    BY OrdersTyped DEF Reverse
  <2>2. \A i \in 1 .. 9 : (9 - i) + 1 = 10 - i /\ 10 - i \in 1 .. 9
    OBVIOUS
  <2>3. \A i \in 1 .. 9 : CallerSaved[i] \in Names
    BY OrdersTyped, ElementOfSeq, Zenon
  <2>4. \A i \in 1 .. 9 : R[i] = CallerSaved[10 - i]
    BY <2>1, <2>2
  <2>5. R \in [1 .. 9 -> Names]
    BY <2>1, <2>2, <2>3
  <2> HIDE DEF R
  <2>6. R \in Seq(Names)
    <3>1. [1 .. 9 -> Names] \subseteq UNION {[1 .. n -> Names] : n \in Nat}
      BY Zenon
    <3> QED
      BY <2>5, <3>1, SeqDef, Zenon
  <2>7. Len(R) = 9
    <3>1. Len(R) \in Nat /\ 1 .. Len(R) = 1 .. 9
      BY <2>5, <2>6, LenProperties, Zenon
    <3> QED
      BY <3>1, SameLength, Zenon
  <2> QED
    BY <2>4, <2>6, <2>7
<1> HIDE DEF R
<1>1. /\ SyscallFrame \in Seq(Names) /\ Len(SyscallFrame) = Len(Hardware) + Len(CallerSaved)
      /\ \A i \in 1 .. Len(Hardware) : SyscallFrame[i] = Hardware[i]
      /\ \A i \in 1 .. Len(CallerSaved) : SyscallFrame[Len(Hardware) + i] = CallerSaved[i]
  BY Joined, OrdersTyped, Zenon DEF SyscallFrame
<1>2. /\ SysLoad \in Seq(Names) /\ Len(SysLoad) = Len(R) + Len(IretOrder)
      /\ \A i \in 1 .. Len(R) : SysLoad[i] = R[i]
      /\ \A i \in 1 .. Len(IretOrder) : SysLoad[Len(R) + i] = IretOrder[i]
  <2>1. SysLoad = R \o IretOrder
    BY DEF SysLoad, R
  <2>2. R \in Seq(Names) /\ IretOrder \in Seq(Names)
    BY <1>0, OrdersTyped
  <2> QED
    BY <2>1, <2>2, Joined, Zenon
<1>3. /\ Len(SyscallFrame) = 14
      /\ \A i \in 1 .. 5 : SyscallFrame[i] = Hardware[i]
      /\ \A i \in 1 .. 9 : SyscallFrame[5 + i] = CallerSaved[i]
  BY <1>1, OrdersTyped
<1>4. /\ Len(SysLoad) = 14
      /\ \A i \in 1 .. 9 : SysLoad[i] = CallerSaved[10 - i]
      /\ \A i \in 1 .. 5 : SysLoad[9 + i] = IretOrder[i]
  BY <1>0, <1>2, OrdersTyped
<1>5. /\ Hardware[1] = "ss" /\ Hardware[2] = "rsp" /\ Hardware[3] = "rflags"
      /\ Hardware[4] = "cs" /\ Hardware[5] = "rip"
      /\ CallerSaved[1] = "rax" /\ CallerSaved[2] = "rcx" /\ CallerSaved[3] = "rdx"
      /\ CallerSaved[4] = "rsi" /\ CallerSaved[5] = "rdi" /\ CallerSaved[6] = "r8"
      /\ CallerSaved[7] = "r9" /\ CallerSaved[8] = "r10" /\ CallerSaved[9] = "r11"
      /\ IretOrder[1] = "rip" /\ IretOrder[2] = "cs" /\ IretOrder[3] = "rflags"
      /\ IretOrder[4] = "rsp" /\ IretOrder[5] = "ss"
  BY DEF Hardware, CallerSaved, IretOrder
<1>7. /\ SyscallFrame[1] = "ss" /\ SyscallFrame[2] = "rsp"
      /\ SyscallFrame[3] = "rflags" /\ SyscallFrame[4] = "cs"
      /\ SyscallFrame[5] = "rip" /\ SyscallFrame[6] = "rax"
      /\ SyscallFrame[7] = "rcx" /\ SyscallFrame[8] = "rdx"
      /\ SyscallFrame[9] = "rsi" /\ SyscallFrame[10] = "rdi"
      /\ SyscallFrame[11] = "r8" /\ SyscallFrame[12] = "r9"
      /\ SyscallFrame[13] = "r10" /\ SyscallFrame[14] = "r11"
  BY <1>3, <1>5
<1>8. /\ SysLoad[1] = "r11" /\ SysLoad[2] = "r10" /\ SysLoad[3] = "r9"
      /\ SysLoad[4] = "r8" /\ SysLoad[5] = "rdi" /\ SysLoad[6] = "rsi"
      /\ SysLoad[7] = "rdx" /\ SysLoad[8] = "rcx" /\ SysLoad[9] = "rax"
      /\ SysLoad[10] = "rip" /\ SysLoad[11] = "cs" /\ SysLoad[12] = "rflags"
      /\ SysLoad[13] = "rsp" /\ SysLoad[14] = "ss"
  BY <1>4, <1>5
<1>9. \A i \in 1 .. 14 : SysLoad[i] = SyscallFrame[15 - i]
  BY <1>7, <1>8
<1>10. \A i, j \in 1 .. 14 : SysLoad[i] = SysLoad[j] => i = j
  BY <1>8
<1>11. ToSet(SysLoad) = {SysLoad[i] : i \in 1 .. 14}
  <2>1. DOMAIN SysLoad = 1 .. 14
    BY <1>2, <1>4, LenProperties, Zenon
  <2> QED
    BY <2>1, Zenon DEF ToSet
<1>12. ToSet(CallerSaved) = {"rax", "rcx", "rdx", "rsi", "rdi", "r8", "r9", "r10", "r11"}
  BY DEF ToSet, CallerSaved
<1>13. ToSet(SysLoad) = {"r11", "r10", "r9", "r8", "rdi", "rsi", "rdx", "rcx", "rax",
                          "rip", "cs", "rflags", "rsp", "ss"}
  BY <1>8, <1>11
<1> QED
  BY <1>3, <1>4, <1>9, <1>10, <1>11, <1>12, <1>13, FrameOrder DEF Names

----------------------------------------------------------------------------
\* The inductive invariant.  R are the registers of a context, C those it made
\* its system call with, if it is in one.
Depth(R) == Offset(R["rsp"])

Sane(R) ==
    /\ R = [r \in Registers |-> R[r]]
    /\ R["rsp"] = Sp(Depth(R)) /\ Depth(R) \in Int /\ Depth(R) <= 0
    /\ Depth(R) >= IF R["rip"] = Epilogue THEN -Deepest ELSE -MaxDepth

\* In a system call, the registers its end is to load are on the stack, and the
\* others are still those of the call.
CallKept(stack, R, C) ==
    R["rip"] = Epilogue =>
        /\ Sane(C) /\ C["rip"] # Epilogue /\ Depth(R) + 14 <= Depth(C)
        /\ \A i \in 1 .. 14 : stack[Depth(R) - 1 + i] = C[SysLoad[i]]
        /\ \A r \in Registers \ ToSet(SysLoad) : R[r] = C[r]

Live(stack, R, C) == Sane(R) /\ CallKept(stack, R, C)

\* A context that waits: its registers are on its stack from sp up, in the
\* order they are loaded in, below the words W it has in use.
Parked(stack, sp, R, W, C) ==
    /\ Live(stack, R, C)
    /\ sp \in Int /\ sp >= -(Deepest + 21) /\ sp <= Depth(R) /\ sp <= -18
    /\ \A i \in 1 .. 20 : stack[sp - 1 + i] = R[Load[i]]
    /\ \A k \in DOMAIN W : k \in Int /\ Depth(R) <= k /\ k <= -1 /\ stack[k] = W[k]

SwitchInv ==
    /\ started \subseteq Tasks /\ cpu \in started \cup {BOOT}
    /\ DOMAIN mem = Threads /\ \A c \in Threads : DOMAIN mem[c] = Words
    /\ kernel_rsp \in [Threads -> Words] /\ DOMAIN saved = Tasks /\ DOMAIN call = Threads
    /\ Live(mem[cpu], regs, call[cpu])
    /\ \A t \in started \ {cpu} :
           Parked(mem[t], kernel_rsp[t], saved[t].regs, saved[t].words, call[t])
    /\ \A t \in Tasks \ started : mem[t][1] = Unset

\* The words there are.
LEMMA WordsAre ==
    /\ Deepest = MaxDepth + 15 /\ Deepest \in Nat /\ MaxDepth \in Nat
    /\ Words = -(Deepest + 23) .. 1
<1>1. Len(SyscallFrame) = 14 /\ FrameLength = 20
  BY SyscallOrder, FrameOrder
<1> QED
  BY <1>1, SwitchAssumption DEF Deepest, Words

\* An order that loads no register twice, and one that loads what another pushes.
Once(load) ==
    /\ Len(load) \in Nat /\ ToSet(load) = {load[i] : i \in 1 .. Len(load)}
    /\ \A i, j \in 1 .. Len(load) : load[i] = load[j] => i = j

Mirrors(load, order) ==
    /\ Len(order) \in Nat
    /\ \A i \in 1 .. Len(order) : load[i] = order[Len(order) + 1 - i] /\ load[i] # "0"

\* What a pop finds.
Finds(loaded, stack, sp, load) ==
    /\ loaded = [r \in ToSet(load) |-> loaded[r]]
    /\ \A i \in 1 .. Len(load) : loaded[load[i]] = stack[sp - 1 + i]

\* Two functions on the same set with the same values are the same.
LEMMA SameFunction ==
    ASSUME NEW S, NEW f, NEW g, f = [x \in S |-> f[x]], g = [x \in S |-> g[x]],
           \A x \in S : f[x] = g[x]
    PROVE  f = g
  OBVIOUS

\* The pops load every register from the word the order gives it.
LEMMA PopFinds ==
    ASSUME NEW stack, NEW sp \in Int, NEW load, Once(load)
    PROVE  Finds(Popped(stack, sp, load), stack, sp, load)
<1> USE DEF Once
<1>1. Popped(stack, sp, load) = [r \in ToSet(load) |-> Popped(stack, sp, load)[r]]
  BY DEF Popped
<1>2. ASSUME NEW i \in 1 .. Len(load) PROVE Popped(stack, sp, load)[load[i]] = stack[sp - 1 + i]
  <2>1. load[i] \in ToSet(load)
    OBVIOUS
  <2> DEFINE j == CHOOSE k \in 1 .. Len(load) : load[k] = load[i]
  <2>2. j \in 1 .. Len(load) /\ load[j] = load[i]
    BY Zenon
  <2>3. j = i
    BY <2>2
  <2>4. Popped(stack, sp, load)[load[i]] = stack[sp - 1 + j]
    BY <2>1, Zenon DEF Popped
  <2> QED
    BY <2>3, <2>4
<1> QED
  BY <1>1, <1>2 DEF Finds

\* What pushes leave, when the words below are dead.
Leaves(new, stack, sp, order, load) ==
    /\ \A i \in 1 .. Len(order) : new[sp - Len(order) - 1 + i] = regs[load[i]]
    /\ \A k \in Words : k >= sp => new[k] = stack[k]
    /\ DOMAIN new = Words

\* The pushes leave each register in its word and the words above alone.
LEMMA PushLeaves ==
    ASSUME NEW stack, NEW sp \in Int, NEW order, NEW load, Mirrors(load, order),
           sp - Len(order) >= -(Deepest + 23), sp <= 1
    PROVE  Leaves(Scribbled(Pushed(stack, sp, order), sp - Len(order)), stack, sp, order, load)
<1> USE DEF Mirrors
<1> DEFINE n == Len(order)
           new == Scribbled(Pushed(stack, sp, order), sp - n)
<1>1. ASSUME NEW k \in Words
      PROVE  new[k] = IF k < sp - n THEN Unset
                      ELSE IF sp - k \in 1 .. n THEN Value(order[sp - k]) ELSE stack[k]
  BY DEF Scribbled, Pushed
<1>2. DOMAIN new = Words
  BY DEF Scribbled
<1> HIDE DEF new
<1>3. ASSUME NEW i \in 1 .. n PROVE new[sp - n - 1 + i] = regs[load[i]]
  <2> DEFINE k == sp - n - 1 + i
  <2>1. k \in Words /\ ~(k < sp - n) /\ sp - k \in 1 .. n /\ sp - k = n + 1 - i
    BY WordsAre
  <2>2. new[k] = Value(order[n + 1 - i])
    BY <1>1, <2>1
  <2> QED
    BY <2>2 DEF Value
<1>4. ASSUME NEW k \in Words, k >= sp PROVE new[k] = stack[k]
  <2>1. ~(k < sp - n) /\ sp - k \notin 1 .. n
    BY <1>4, WordsAre
  <2> QED
    BY <1>1, <2>1
<1> QED
  BY <1>2, <1>3, <1>4 DEF new, Leaves

\* Words that change below a context's stack pointer do not concern it.
LEMMA BelowIsDead ==
    ASSUME NEW stack, NEW new, NEW R, NEW C, Live(stack, R, C),
           \A k \in Words : k >= Depth(R) => new[k] = stack[k]
    PROVE  Live(new, R, C)
<1> SUFFICES ASSUME R["rip"] = Epilogue, NEW i \in 1 .. 14
             PROVE  new[Depth(R) - 1 + i] = stack[Depth(R) - 1 + i]
  BY DEF Live, CallKept
<1>1. Depth(R) \in Int /\ Depth(R) >= -Deepest /\ Depth(R) <= 0
  BY DEF Live, Sane
<1>2. Depth(C) \in Int /\ Depth(C) <= 0 /\ Depth(R) + 14 <= Depth(C)
  BY DEF Live, CallKept, Sane
<1>3. Depth(R) - 1 + i \in Words /\ Depth(R) - 1 + i >= Depth(R)
  BY <1>1, <1>2, WordsAre
<1> QED
  BY <1>3

\* The stack pointer and where a handler pushes from.
LEMMA Aligned ==
    ASSUME Sane(regs)
    PROVE  /\ rsp = Depth(regs) /\ rsp \in Int /\ AlignedSp \in Int
           /\ AlignedSp <= rsp /\ AlignedSp >= rsp - 1 /\ rsp <= 0
           /\ rsp >= -Deepest
           /\ ~InSyscall => rsp >= -MaxDepth
           /\ SavedSp = AlignedSp - 20 /\ SyscallSp = AlignedSp - 14
<1>1. rsp = Depth(regs)
  BY DEF rsp, Depth
<1>2. rsp \in Int /\ rsp <= 0 /\ rsp >= IF InSyscall THEN -Deepest ELSE -MaxDepth
  BY <1>1 DEF Sane, InSyscall
<1>3. AlignedSp \in Int /\ AlignedSp <= rsp /\ AlignedSp >= rsp - 1
  BY <1>2 DEF AlignedSp
<1>4. FrameLength = 20 /\ Len(SyscallFrame) = 14
  BY FrameOrder, SyscallOrder
<1> QED
  BY <1>1, <1>2, <1>3, <1>4, WordsAre DEF SavedSp, SyscallSp

\* What apic_timer_handler leaves on the stack of the context it interrupts.
OldStack == Scribbled(Pushed(mem[cpu], AlignedSp, Hardware \o PushOrder), SavedSp)

\* The handler parks the context that it interrupts.
LEMMA SaveParks ==
    ASSUME SwitchInv
    PROVE  /\ Parked(OldStack, SavedSp, regs, InUse(mem[cpu], rsp), call[cpu])
           /\ SavedSp \in Words
           /\ DOMAIN OldStack = Words
<1>1. Live(mem[cpu], regs, call[cpu]) /\ Sane(regs)
  BY DEF SwitchInv, Live
<1>2. /\ rsp = Depth(regs) /\ rsp \in Int /\ AlignedSp \in Int /\ AlignedSp <= rsp
      /\ AlignedSp >= rsp - 1 /\ rsp <= 0 /\ rsp >= -Deepest /\ SavedSp = AlignedSp - 20
  BY <1>1, Aligned
<1>3. Frame = Hardware \o PushOrder
  BY DEF Frame
<1>4. /\ Len(Frame) = 20
      /\ \A i \in 1 .. 20 : Load[i] = Frame[21 - i] /\ Load[i] # "0"
  BY FrameOrder DEF Names
<1>5. /\ \A i \in 1 .. 20 : OldStack[AlignedSp - 20 - 1 + i] = regs[Load[i]]
      /\ \A k \in Words : k >= AlignedSp => OldStack[k] = mem[cpu][k]
      /\ DOMAIN OldStack = Words
  <2>1. Mirrors(Load, Frame)
    BY <1>4 DEF Mirrors
  <2>2. AlignedSp - Len(Frame) >= -(Deepest + 23) /\ AlignedSp <= 1
    BY <1>2, <1>4, WordsAre
  <2>3. OldStack = Scribbled(Pushed(mem[cpu], AlignedSp, Frame), AlignedSp - Len(Frame))
    BY <1>2, <1>3, <1>4 DEF OldStack
  <2>4. AlignedSp \in Int
    BY <1>2
  <2>5. Leaves(OldStack, mem[cpu], AlignedSp, Frame, Load)
    BY <2>1, <2>2, <2>3, <2>4, PushLeaves
  <2> QED
    BY <1>4, <2>5 DEF Leaves
<1>6. Live(OldStack, regs, call[cpu])
  <2>1. ASSUME NEW k \in Words, k >= Depth(regs) PROVE OldStack[k] = mem[cpu][k]
    <3>1. k \in Int
      BY WordsAre
    <3>2. k >= AlignedSp
      BY <1>2, <2>1, <3>1
    <3> QED
      BY <1>5, <3>2
  <2> QED
    BY <1>1, <2>1, BelowIsDead
<1>7. /\ SavedSp \in Int /\ SavedSp >= -(Deepest + 21) /\ SavedSp <= Depth(regs)
      /\ SavedSp <= -18 /\ SavedSp \in Words
  BY <1>2, WordsAre
<1>8. \A i \in 1 .. 20 : OldStack[SavedSp - 1 + i] = regs[Load[i]]
  BY <1>2, <1>5
<1>9. ASSUME NEW k \in DOMAIN InUse(mem[cpu], rsp)
      PROVE  /\ k \in Int /\ Depth(regs) <= k /\ k <= -1
             /\ OldStack[k] = InUse(mem[cpu], rsp)[k]
  <2>1. k \in rsp .. -1 /\ InUse(mem[cpu], rsp)[k] = mem[cpu][k]
    BY DEF InUse
  <2>2. k \in Words /\ k >= AlignedSp
    BY <1>2, <2>1, WordsAre
  <2> QED
    BY <1>2, <1>5, <2>1, <2>2
<1> QED
  BY <1>5, <1>6, <1>7, <1>8, <1>9 DEF Parked

\* A parked context is resumed as it was.
LEMMA Resumed ==
    ASSUME NEW stack, NEW sp, NEW R, NEW W, NEW C, Parked(stack, sp, R, W, C),
           NEW final,
           final = Scribbled(TssWritten(stack, sp), Depth(R))
    PROVE  /\ Popped(TssWritten(stack, sp), sp, PopOrder \o IretOrder) = R
           /\ Live(final, R, C)
           /\ DOMAIN final = Words
           /\ \A k \in Words : k >= Depth(R) => final[k] = stack[k]
           /\ \A k \in DOMAIN W : final[k] = W[k]
<1> DEFINE tss == TssWritten(stack, sp)
           popped == Popped(tss, sp, Load)
<1>1. /\ sp \in Int /\ sp >= -(Deepest + 21) /\ sp <= Depth(R) /\ sp <= -18
      /\ Depth(R) \in Int /\ Depth(R) <= 0 /\ R = [r \in Registers |-> R[r]]
      /\ Live(stack, R, C)
  BY DEF Parked, Live, Sane
<1>2. \A k \in Words : k >= sp => tss[k] = stack[k]
  BY <1>1, WordsAre DEF TssWritten, Scribbled
<1>3. \A i \in 1 .. 20 : tss[sp - 1 + i] = R[Load[i]]
  <2> TAKE i \in 1 .. 20
  <2>1. sp - 1 + i \in Words /\ sp - 1 + i >= sp
    <3>1. sp \in Int /\ sp >= -(Deepest + 21) /\ sp <= -18
      BY <1>1
    <3>2. i \in Int /\ 1 <= i /\ i <= 20
      OBVIOUS
    <3> QED
      BY <3>1, <3>2, WordsAre
  <2> QED
    BY <1>2, <2>1 DEF Parked
<1>4. /\ Len(Load) = 20 /\ ToSet(Load) = {Load[i] : i \in 1 .. 20}
      /\ \A i, j \in 1 .. 20 : Load[i] = Load[j] => i = j
      /\ Registers = ToSet(Load)
  BY FrameOrder
<1>5. /\ popped = [r \in ToSet(Load) |-> popped[r]]
      /\ \A i \in 1 .. 20 : popped[Load[i]] = tss[sp - 1 + i]
  <2>1. Once(Load)
    BY <1>4 DEF Once
  <2>2. sp \in Int
    BY <1>1
  <2> HIDE DEF tss
  <2>3. Finds(popped, tss, sp, Load)
    BY <2>1, <2>2, PopFinds, Zenon
  <2> HIDE DEF popped
  <2>4. popped = [r \in ToSet(Load) |-> popped[r]]
    BY <2>3, Zenon DEF Finds
  <2>5. \A i \in 1 .. Len(Load) : popped[Load[i]] = tss[sp - 1 + i]
    BY <2>3, Zenon DEF Finds
  <2> QED
    BY <1>4, <2>4, <2>5, Zenon
<1>6. popped = R
  <2>1. \A r \in Registers : \E i \in 1 .. 20 : r = Load[i]
    BY <1>4
  <2>2. \A r \in Registers : popped[r] = R[r]
    BY <1>3, <1>5, <2>1
  <2> HIDE DEF popped
  <2>3. popped = [r \in Registers |-> popped[r]]
    BY <1>4, <1>5, Zenon
  <2>4. R = [r \in Registers |-> R[r]]
    BY <1>1, Zenon
  <2> QED
    BY <2>2, <2>3, <2>4, SameFunction, Zenon
<1>7. DOMAIN final = Words /\ \A k \in Words : k >= Depth(R) => final[k] = stack[k]
  <2> HIDE DEF tss
  <2>1. final = [k \in Words |-> IF k < Depth(R) THEN Unset ELSE tss[k]]
    BY DEF Scribbled, tss
  <2> QED
    BY <1>1, <1>2, <2>1, WordsAre
<1>8. Live(final, R, C)
  BY <1>1, <1>7, BelowIsDead
<1>9. \A k \in DOMAIN W : final[k] = W[k]
  <2> TAKE k \in DOMAIN W
  <2>1. k \in Int /\ Depth(R) <= k /\ k <= -1 /\ stack[k] = W[k]
    BY DEF Parked
  <2>2. k \in Words
    BY <1>1, <2>1, WordsAre
  <2> QED
    BY <1>7, <2>1, <2>2
<1> QED
  BY <1>6, <1>7, <1>8, <1>9 DEF Load

----------------------------------------------------------------------------
\* The invariant holds initially, and every action keeps it.
LEMMA WordsDiffer ==
    /\ \A o : Offset(Sp(o)) = o
    /\ \A c, g : <<"rip", c, g>> # Epilogue
    /\ \A t : <<"start_fn", t>> # Epilogue
    /\ "rsp" \in Registers /\ "rip" \in Registers
<1>1. \A o : Offset(Sp(o)) = o
  BY DEF Offset, Sp
<1>2. \A c, g : <<"rip", c, g>> # Epilogue
  BY DEF Epilogue
<1>3. \A t : <<"start_fn", t>> # Epilogue
  BY DEF Epilogue
<1>4. "rsp" \in Registers /\ "rip" \in Registers
  BY FrameOrder DEF Names
<1> QED
  BY <1>1, <1>2, <1>3, <1>4

\* The boot thread starts with its stack as it should be.
LEMMA InitInv == Init => SwitchInv
<1> SUFFICES ASSUME Init PROVE SwitchInv
  OBVIOUS
<1>1. regs = [r \in Registers |-> regs[r]] /\ regs["rsp"] = Sp(0) /\ regs["rip"] = <<"rip", BOOT, 0>>
  BY WordsDiffer DEF Init
<1>2. Depth(regs) = 0 /\ regs["rip"] # Epilogue
  BY <1>1, WordsDiffer DEF Depth
<1>3. Live(mem[cpu], regs, call[cpu])
  BY <1>1, <1>2, WordsAre DEF Live, Sane, CallKept
<1>4. 0 \in Words /\ 1 \in Words
  BY WordsAre
<1> QED
  BY <1>3, <1>4 DEF Init, SwitchInv, Threads

\* A step of the running context that touches no stack but its own.
LEMMA LocalStep ==
    ASSUME SwitchInv, UNCHANGED <<cpu, kernel_rsp, started, saved>>,
           DOMAIN mem' = Threads, DOMAIN mem'[cpu] = Words, mem'[cpu][1] = mem[cpu][1],
           \A c \in Threads \ {cpu} : mem'[c] = mem[c],
           DOMAIN call' = Threads, \A c \in Threads \ {cpu} : call'[c] = call[c],
           Live(mem'[cpu], regs', call'[cpu])
    PROVE  SwitchInv'
<1>1. started \subseteq Tasks /\ cpu \in started \cup {BOOT} /\ Tasks \subseteq Threads
  BY DEF SwitchInv, Threads
<1>2. /\ \A c \in Threads : DOMAIN mem'[c] = Words
      /\ kernel_rsp' \in [Threads -> Words] /\ DOMAIN saved' = Tasks
  BY DEF SwitchInv
<1>3. \A t \in started' \ {cpu'} :
          Parked(mem'[t], kernel_rsp'[t], saved'[t].regs, saved'[t].words, call'[t])
  <2> TAKE t \in started' \ {cpu'}
  <2>1. t \in started \ {cpu} /\ mem'[t] = mem[t] /\ call'[t] = call[t]
    BY <1>1
  <2> QED
    BY <2>1 DEF SwitchInv
<1>4. \A t \in Tasks' \ started' : mem'[t][1] = Unset
  <2> TAKE t \in Tasks' \ started'
  <2>1. t \in Threads /\ mem[t][1] = Unset
    BY <1>1 DEF SwitchInv
  <2> QED
    BY <2>1
<1>5. Live(mem'[cpu'], regs', call'[cpu'])
  OBVIOUS
<1>6. started' \subseteq Tasks /\ cpu' \in started' \cup {BOOT}
  BY <1>1
<1>7. Unset' = Unset /\ Words' = Words /\ Threads' = Threads
  BY DEF Unset, Words, Threads
<1> QED
  BY <1>2, <1>3, <1>4, <1>5, <1>6 DEF SwitchInv

\* The running context, as the actions find it.
LEMMA RunningIs ==
    ASSUME SwitchInv
    PROVE  /\ cpu \in Threads /\ Live(mem[cpu], regs, call[cpu]) /\ Sane(regs)
           /\ DOMAIN mem = Threads /\ DOMAIN mem[cpu] = Words /\ DOMAIN call = Threads
           /\ regs = [r \in Registers |-> regs[r]]
           /\ rsp = Depth(regs) /\ rsp \in Int /\ rsp <= 0 /\ rsp >= -Deepest
           /\ ~InSyscall => rsp >= -MaxDepth
           /\ ~InSyscall => regs["rip"] # Epilogue
<1>1. Live(mem[cpu], regs, call[cpu]) /\ Sane(regs)
  BY DEF SwitchInv, Live
<1>2. cpu \in Threads
  BY DEF SwitchInv, Threads
<1> QED
  BY <1>1, <1>2, Aligned DEF SwitchInv, Sane, InSyscall

\* A task that computes changes its registers, and pushes no frame.
LEMMA ComputeKeeps == ASSUME SwitchInv, Compute PROVE SwitchInv'
<1>1. PICK g \in {0, 1} :
          regs' = [r \in Registers |->
                      IF r \in {"rsp", "rflags", "cs", "ss"} THEN regs[r] ELSE <<r, cpu, g>>]
  BY DEF Compute
<1>2. regs' = [r \in Registers |-> regs'[r]] /\ regs'["rsp"] = regs["rsp"]
  BY <1>1, WordsDiffer
<1>3. regs'["rip"] = <<"rip", cpu, g>>
  BY <1>1, WordsDiffer
<1>4. Live(mem'[cpu], regs', call'[cpu])
  <2>1. Depth(regs') = Depth(regs) /\ regs'["rip"] # Epilogue
    BY <1>2, <1>3, WordsDiffer DEF Depth
  <2>2. Sane(regs) /\ regs["rip"] # Epilogue
    BY RunningIs DEF Compute
  <2> QED
    BY <1>2, <2>1, <2>2 DEF Live, Sane, CallKept
<1> QED
  BY <1>4, LocalStep, RunningIs DEF Compute

\* A push of the task's own data stays above the frames to come.
LEMMA PushKeeps == ASSUME SwitchInv, PushData PROVE SwitchInv'
<1>1. /\ regs' = [r \in Registers |-> regs'[r]] /\ regs'["rsp"] = Sp(rsp - 1)
      /\ regs'["rip"] = regs["rip"]
  BY RunningIs, WordsDiffer, Zenon DEF PushData
<1>2. Live(mem'[cpu], regs', call'[cpu])
  <2>1. Depth(regs') = rsp - 1 /\ regs'["rip"] # Epilogue
    BY <1>1, WordsDiffer, RunningIs DEF Depth, PushData
  <2>2. rsp \in Int /\ rsp <= 0 /\ rsp > -MaxDepth
    BY RunningIs DEF PushData
  <2> QED
    BY <1>1, <2>1, <2>2, WordsAre DEF Live, Sane, CallKept
<1>3. /\ DOMAIN mem' = Threads /\ DOMAIN mem'[cpu] = Words /\ mem'[cpu][1] = mem[cpu][1]
      /\ \A c \in Threads \ {cpu} : mem'[c] = mem[c]
  <2>1. rsp - 1 # 1 /\ 1 \in Words
    BY RunningIs, WordsAre
  <2> QED
    BY <2>1, RunningIs DEF PushData
<1> QED
  BY <1>2, <1>3, LocalStep, RunningIs DEF PushData

\* A pop takes the data of the task, never a frame.
LEMMA PopKeeps == ASSUME SwitchInv, PopData PROVE SwitchInv'
<1>1. /\ regs' = [r \in Registers |-> regs'[r]] /\ regs'["rsp"] = Sp(rsp + 1)
      /\ regs'["rip"] = regs["rip"]
  BY RunningIs, WordsDiffer, Zenon DEF PopData
<1>2. Live(mem'[cpu], regs', call'[cpu])
  <2>1. Depth(regs') = rsp + 1 /\ regs'["rip"] # Epilogue
    BY <1>1, WordsDiffer, RunningIs DEF Depth, PopData
  <2>2. rsp \in Int /\ rsp < 0 /\ rsp >= -MaxDepth
    BY RunningIs DEF PopData
  <2> QED
    BY <1>1, <2>1, <2>2, WordsAre DEF Live, Sane, CallKept
<1>3. /\ DOMAIN mem' = Threads /\ DOMAIN mem'[cpu] = Words /\ mem'[cpu][1] = mem[cpu][1]
      /\ \A c \in Threads \ {cpu} : mem'[c] = mem[c]
  <2>1. rsp # 1 /\ 1 \in Words
    BY RunningIs, WordsAre
  <2> QED
    BY <2>1, RunningIs DEF PopData
<1> QED
  BY <1>2, <1>3, LocalStep, RunningIs DEF PopData

\* int 0x80 and syscall_handler's pushes build the frame of the call.
LEMMA SyscallKeeps == ASSUME SwitchInv, SyscallHandler PROVE SwitchInv'
<1> DEFINE new == Scribbled(Pushed(mem[cpu], AlignedSp, SyscallFrame), SyscallSp)
<1>1. /\ rsp = Depth(regs) /\ rsp \in Int /\ AlignedSp \in Int /\ AlignedSp <= rsp
      /\ AlignedSp >= rsp - 1 /\ rsp <= 0 /\ rsp >= -MaxDepth /\ SyscallSp = AlignedSp - 14
  BY RunningIs, Aligned DEF SyscallHandler
<1>2. Len(SyscallFrame) = 14 /\ \A i \in 1 .. 14 : SysLoad[i] = SyscallFrame[15 - i] /\ SysLoad[i] # "0"
  BY SyscallOrder, FrameOrder DEF Names
<1>3. Leaves(new, mem[cpu], AlignedSp, SyscallFrame, SysLoad)
  <2>1. Mirrors(SysLoad, SyscallFrame)
    BY <1>2 DEF Mirrors
  <2>2. AlignedSp - Len(SyscallFrame) >= -(Deepest + 23) /\ AlignedSp <= 1
    BY <1>1, <1>2, WordsAre
  <2>3. new = Scribbled(Pushed(mem[cpu], AlignedSp, SyscallFrame), AlignedSp - Len(SyscallFrame))
    BY <1>1, <1>2
  <2>4. AlignedSp \in Int
    BY <1>1
  <2> HIDE DEF new
  <2> QED
    BY <2>1, <2>2, <2>3, <2>4, PushLeaves
<1>4. /\ DOMAIN mem' = Threads /\ mem'[cpu] = new /\ \A c \in Threads \ {cpu} : mem'[c] = mem[c]
      /\ DOMAIN call' = Threads /\ call'[cpu] = regs
      /\ \A c \in Threads \ {cpu} : call'[c] = call[c]
  <2> HIDE DEF new
  <2>1. mem' = [mem EXCEPT ![cpu] = new]
    BY DEF SyscallHandler, new
  <2>2. call' = [call EXCEPT ![cpu] = regs]
    BY DEF SyscallHandler
  <2> QED
    BY <2>1, <2>2, RunningIs
<1> HIDE DEF new
<1>5. /\ \A i \in 1 .. 14 : new[AlignedSp - 14 - 1 + i] = regs[SysLoad[i]]
      /\ \A k \in Words : k >= AlignedSp => new[k] = mem[cpu][k]
      /\ DOMAIN new = Words
  BY <1>2, <1>3 DEF Leaves
<1>6. /\ regs' = [r \in Registers |-> regs'[r]]
      /\ regs'["rsp"] = Sp(AlignedSp - 14) /\ regs'["rip"] = Epilogue
      /\ \A r \in Registers \ ToSet(SysLoad) : regs'[r] = regs[r]
  <2>1. regs' = [r \in Registers |->
                   CASE r = "rsp" -> Sp(SyscallSp - Len(SyscallPush) + 1 + Len(SyscallPop))
                     [] r = "rip" -> Epilogue
                     [] r \in ToSet(CallerSaved) -> Clobbered
                     [] OTHER -> regs[r]]
    BY DEF SyscallHandler
  <2>2. Len(SyscallPush) = 8 /\ Len(SyscallPop) = 7
    BY DEF SyscallPush, SyscallPop
  <2>3. SyscallSp - Len(SyscallPush) + 1 + Len(SyscallPop) = AlignedSp - 14
    BY <1>1, <2>2
  <2>4. "rsp" \notin ToSet(CallerSaved) /\ "rip" \notin ToSet(CallerSaved)
    BY SyscallOrder
  <2>5. "rsp" \in ToSet(SysLoad) /\ "rip" \in ToSet(SysLoad) /\ ToSet(CallerSaved) \subseteq ToSet(SysLoad)
    BY SyscallOrder
  <2> QED
    BY <2>1, <2>3, <2>4, <2>5, WordsDiffer
<1>7. Depth(regs') = AlignedSp - 14
  BY <1>6, WordsDiffer DEF Depth
<1>8. Sane(regs')
  BY <1>1, <1>6, <1>7, WordsAre DEF Sane
<1>9. Sane(regs) /\ regs["rip"] # Epilogue
  BY RunningIs DEF SyscallHandler
<1>10. CallKept(new, regs', regs)
  <2>1. Depth(regs') + 14 <= Depth(regs)
    BY <1>1, <1>7
  <2>2. \A i \in 1 .. 14 : new[Depth(regs') - 1 + i] = regs[SysLoad[i]]
    BY <1>5, <1>7
  <2> QED
    BY <1>6, <1>9, <2>1, <2>2 DEF CallKept
<1>11. new[1] = mem[cpu][1]
  <2>1. 1 \in Words /\ 1 >= AlignedSp
    BY <1>1, WordsAre
  <2> QED
    BY <1>5, <2>1
<1> QED
  BY <1>4, <1>5, <1>8, <1>10, <1>11, LocalStep DEF Live, SyscallHandler

\* The end of a system call loads all that it was made with.
LEMMA ReturnLoads ==
    ASSUME SwitchInv, SyscallReturn
    PROVE  /\ regs' = call[cpu]
           /\ mem' = [mem EXCEPT ![cpu] = Scribbled(mem[cpu], Depth(call[cpu]))]
           /\ Sane(call[cpu]) /\ call[cpu]["rip"] # Epilogue
<1> DEFINE loaded == Popped(mem[cpu], rsp, SysLoad)
           C == call[cpu]
<1>1. /\ Sane(C) /\ C["rip"] # Epilogue
      /\ \A i \in 1 .. 14 : mem[cpu][rsp - 1 + i] = C[SysLoad[i]]
      /\ \A r \in Registers \ ToSet(SysLoad) : regs[r] = C[r]
      /\ rsp \in Int
  <2>1. CallKept(mem[cpu], regs, C) /\ rsp = Depth(regs) /\ regs["rip"] = Epilogue
    BY RunningIs DEF Live, SyscallReturn, InSyscall
  <2>2. rsp \in Int
    BY RunningIs
  <2> QED
    BY <2>1, <2>2 DEF CallKept
<1>2. Finds(loaded, mem[cpu], rsp, SysLoad)
  <2>1. Once(SysLoad)
    BY SyscallOrder DEF Once
  <2> QED
    BY <1>1, <2>1, PopFinds
<1>3. /\ regs' = [r \in Registers |-> IF r \in DOMAIN loaded THEN loaded[r] ELSE regs[r]]
      /\ mem' = [mem EXCEPT ![cpu] = Scribbled(mem[cpu], Offset(loaded["rsp"]))]
  BY DEF SyscallReturn, SysLoad
<1> HIDE DEF loaded
<1>4. /\ Len(SysLoad) = 14 /\ ToSet(SysLoad) = {SysLoad[i] : i \in 1 .. 14}
      /\ ToSet(SysLoad) \subseteq Registers /\ "rsp" \in ToSet(SysLoad)
  BY SyscallOrder
<1>5. DOMAIN loaded = ToSet(SysLoad) /\ \A r \in ToSet(SysLoad) : loaded[r] = C[r]
  <2>1. DOMAIN loaded = ToSet(SysLoad)
    BY <1>2 DEF Finds
  <2>2. ASSUME NEW r \in ToSet(SysLoad) PROVE loaded[r] = C[r]
    <3>1. PICK i \in 1 .. 14 : r = SysLoad[i]
      BY <1>4
    <3>2. loaded[SysLoad[i]] = mem[cpu][rsp - 1 + i]
      BY <1>2, <1>4 DEF Finds
    <3> QED
      BY <1>1, <3>1, <3>2
  <2> QED
    BY <2>1, <2>2
<1>6. \A r \in Registers : (IF r \in DOMAIN loaded THEN loaded[r] ELSE regs[r]) = C[r]
  BY <1>1, <1>5
<1>7. C = [r \in Registers |-> C[r]]
  BY <1>1 DEF Sane
<1>8. regs' = C
  <2> HIDE DEF C
  <2> QED
    BY <1>3, <1>6, <1>7
<1>9. Offset(loaded["rsp"]) = Depth(C)
  BY <1>4, <1>5 DEF Depth
<1> QED
  BY <1>1, <1>3, <1>8, <1>9

\* syscall_handler's pops and iret take the frame of the call away.
LEMMA ReturnKeeps == ASSUME SwitchInv, SyscallReturn PROVE SwitchInv'
<1> DEFINE C == call[cpu]
           new == Scribbled(mem[cpu], Depth(C))
<1>1. regs' = C /\ mem' = [mem EXCEPT ![cpu] = new] /\ Sane(C) /\ C["rip"] # Epilogue
  BY ReturnLoads
<1>2. call' = [call EXCEPT ![cpu] = NoCall]
  BY DEF SyscallReturn
<1>3. DOMAIN new = Words /\ new[1] = mem[cpu][1]
  BY <1>1, WordsAre DEF Scribbled, Sane
<1> HIDE DEF new
<1>4. /\ DOMAIN mem' = Threads /\ mem'[cpu] = new /\ \A c \in Threads \ {cpu} : mem'[c] = mem[c]
      /\ DOMAIN call' = Threads /\ \A c \in Threads \ {cpu} : call'[c] = call[c]
  BY <1>1, <1>2, RunningIs
<1>5. Live(mem'[cpu], regs', call'[cpu])
  BY <1>1 DEF Live, CallKept
<1> QED
  BY <1>3, <1>4, <1>5, LocalStep DEF SyscallReturn

\* What a new task is to start with, and what its frame holds.
LEMMA StartIs ==
    ASSUME NEW t
    PROVE  LET R == StartRegisters(t)
           IN  /\ R = [r \in Registers |-> R[r]]
               /\ R["rsp"] = Sp(0) /\ R["rbp"] = Sp(0) /\ R["rflags"] = <<"flags 0x202">>
               /\ R["cs"] = <<"code selector">> /\ R["rip"] = <<"start_fn", t>> /\ R["ss"] = Unset
               /\ \A r \in Registers \ {"rsp", "rbp", "rflags", "cs", "rip", "ss"} : R[r] = <<"zero">>
<1>1. {"rsp", "rbp", "rflags", "cs", "rip", "ss"} \subseteq Registers
  BY FrameOrder DEF Names
<1> QED
  BY <1>1, Zenon DEF StartRegisters

\* The words ProcessState::new writes to a new stack.
LEMMA FrameIs ==
    ASSUME NEW t
    PROVE  LET f == NewFrame(t)
           IN  /\ DOMAIN f = -18 .. 0
               /\ f[0] = Sp(0) /\ f[-1] = <<"flags 0x202">> /\ f[-2] = <<"code selector">>
               /\ f[-3] = <<"start_fn", t>> /\ f[-18] = Sp(0)
               /\ \A k \in -17 .. -4 : f[k] = <<"zero">>
<1>1. ASSUME NEW k \in -17 .. -4 PROVE NewFrame(t)[k] = <<"zero">>
  <2>1. k \in -18 .. 0 /\ k # 0 /\ k # -1 /\ k # -2 /\ k # -3 /\ k # -18
    OBVIOUS
  <2> QED
    BY <2>1, Zenon DEF NewFrame
<1>2. \A k \in {0, -1, -2, -3, -18} : k \in -18 .. 0
  OBVIOUS
<1>3. NewFrame(t)[0] = Sp(0) /\ NewFrame(t)[-18] = Sp(0)
  BY <1>2 DEF NewFrame
<1>4. ASSUME NEW k \in -18 .. 0, k = -1 PROVE NewFrame(t)[k] = <<"flags 0x202">>
  <2>1. k # 0 /\ k # -2 /\ k # -3 /\ k # -18
    BY <1>4
  <2> QED
    BY <1>4, <2>1, Zenon DEF NewFrame
<1>5. ASSUME NEW k \in -18 .. 0, k = -2 PROVE NewFrame(t)[k] = <<"code selector">>
  <2>1. k # 0 /\ k # -1 /\ k # -3 /\ k # -18
    BY <1>5
  <2> QED
    BY <1>5, <2>1, Zenon DEF NewFrame
<1>6. ASSUME NEW k \in -18 .. 0, k = -3 PROVE NewFrame(t)[k] = <<"start_fn", t>>
  BY <1>6 DEF NewFrame
<1>7. DOMAIN NewFrame(t) = -18 .. 0
  BY DEF NewFrame
<1> QED
  BY <1>1, <1>2, <1>3, <1>4, <1>5, <1>6, <1>7, Zenon

\* ProcessState::new builds the frame that a switch pops.
LEMMA NewKeeps == ASSUME SwitchInv, NEW t \in Tasks, NewProcessState(t) PROVE SwitchInv'
<1> DEFINE R == StartRegisters(t)
           new == mem'[t]
<1>1. t \notin started /\ t # cpu /\ t \in Threads
  BY SwitchAssumption DEF NewProcessState, SwitchInv, Threads
<1>2. /\ DOMAIN mem' = Threads /\ DOMAIN new = Words
      /\ \A k \in Words : new[k] = IF k \in -18 .. 0 THEN NewFrame(t)[k] ELSE mem[t][k]
      /\ \A c \in Threads \ {t} : mem'[c] = mem[c]
  <2>1. DOMAIN NewFrame(t) = -18 .. 0
    BY FrameIs, Zenon
  <2> QED
    BY <1>1, <2>1 DEF NewProcessState, SwitchInv
<1>3. mem[t][1] = Unset
  BY <1>1 DEF SwitchInv
<1>4. /\ kernel_rsp' = [kernel_rsp EXCEPT ![t] = -18] /\ kernel_rsp \in [Threads -> Words]
      /\ -18 \in Words
  BY WordsAre DEF NewProcessState, SwitchInv
<1>5. /\ Load[1] = "rbp" /\ Load[16] = "rip" /\ Load[17] = "cs" /\ Load[18] = "rflags"
      /\ Load[19] = "rsp" /\ Load[20] = "ss"
  BY FrameOrder
<1>6. /\ \A i \in 1 .. 20 : Load[i] \in Registers
      /\ \A i, j \in 1 .. 20 : Load[i] = Load[j] => i = j
  BY FrameOrder
<1> HIDE DEF R, new
<1>7. \A i \in 1 .. 20 : new[-18 - 1 + i] = R[Load[i]]
  <2>1. \A k \in -18 .. 0 : new[k] = NewFrame(t)[k]
    <3> TAKE k \in -18 .. 0
    <3>1. k \in Words
      BY WordsAre
    <3> QED
      BY <1>2, <3>1
  <2>2. new[1] = Unset
    <3>1. 1 \in Words /\ 1 \notin -18 .. 0
      BY WordsAre
    <3> QED
      BY <1>2, <1>3, <3>1
  <2>3. /\ new[0] = Sp(0) /\ new[-1] = <<"flags 0x202">> /\ new[-2] = <<"code selector">>
        /\ new[-3] = <<"start_fn", t>> /\ new[-18] = Sp(0)
    <3>1. 0 \in -18 .. 0 /\ -1 \in -18 .. 0 /\ -2 \in -18 .. 0 /\ -3 \in -18 .. 0 /\ -18 \in -18 .. 0
      OBVIOUS
    <3> QED
      BY <2>1, <3>1, FrameIs, Zenon
  <2> TAKE i \in 1 .. 20
  <2> PICK k \in Int : k = -18 - 1 + i
    OBVIOUS
  <2>4. CASE i \in 2 .. 15
    <3>1. k \in -17 .. -4 /\ k \in -18 .. 0
      BY <2>4
    <3>2. new[k] = <<"zero">>
      BY <2>1, <3>1, FrameIs, Zenon
    <3>3. Load[i] \notin {"rsp", "rbp", "rflags", "cs", "rip", "ss"}
      BY <1>5, <1>6, <2>4
    <3>4. R[Load[i]] = <<"zero">>
      BY <1>6, <3>3, StartIs, Zenon DEF R
    <3> QED
      BY <3>2, <3>4
  <2>5. /\ R["rsp"] = Sp(0) /\ R["rbp"] = Sp(0) /\ R["rflags"] = <<"flags 0x202">>
        /\ R["cs"] = <<"code selector">> /\ R["rip"] = <<"start_fn", t>> /\ R["ss"] = Unset
    BY StartIs, Zenon DEF R
  <2>6. CASE i = 1
    <3>1. k = -18
      BY <2>6
    <3> QED
      BY <1>5, <2>3, <2>5, <2>6, <3>1, Zenon
  <2>7. CASE i = 16
    <3>1. k = -3
      BY <2>7
    <3> QED
      BY <1>5, <2>3, <2>5, <2>7, <3>1, Zenon
  <2>8. CASE i = 17
    <3>1. k = -2
      BY <2>8
    <3> QED
      BY <1>5, <2>3, <2>5, <2>8, <3>1, Zenon
  <2>9. CASE i = 18
    <3>1. k = -1
      BY <2>9
    <3> QED
      BY <1>5, <2>3, <2>5, <2>9, <3>1, Zenon
  <2>10. CASE i = 19
    <3>1. k = 0
      BY <2>10
    <3> QED
      BY <1>5, <2>3, <2>5, <2>10, <3>1, Zenon
  <2>11. CASE i = 20
    <3>1. k = 1
      BY <2>11
    <3> QED
      BY <1>5, <2>2, <2>5, <2>11, <3>1, Zenon
  <2> QED
    BY <2>4, <2>6, <2>7, <2>8, <2>9, <2>10, <2>11
<1>8. Parked(new, -18, R, <<>>, call[t])
  <2>1. R = [r \in Registers |-> R[r]]
    BY StartIs, Zenon DEF R
  <2>2. R["rsp"] = Sp(0) /\ R["rip"] = <<"start_fn", t>>
    BY StartIs, Zenon DEF R
  <2>3. Depth(R) = 0 /\ R["rip"] # Epilogue
    BY <2>2, WordsDiffer DEF Depth
  <2>4. Live(new, R, call[t])
    BY <2>1, <2>2, <2>3, WordsAre DEF Live, Sane, CallKept
  <2>5. -18 >= -(Deepest + 21)
    BY WordsAre
  <2>6. DOMAIN <<>> = {}
    OBVIOUS
  <2> QED
    BY <1>7, <2>3, <2>4, <2>5, <2>6 DEF Parked
<1>9. /\ DOMAIN saved' = Tasks /\ saved'[t].regs = R /\ saved'[t].words = <<>>
      /\ \A u \in Tasks \ {t} : saved'[u] = saved[u]
  <2>1. saved' = [saved EXCEPT ![t] = [regs |-> R, words |-> <<>>]] /\ DOMAIN saved = Tasks
    BY DEF NewProcessState, SwitchInv, R
  <2> QED
    BY <2>1
<1>10. started' = started \cup {t} /\ UNCHANGED <<regs, cpu, call>> /\ started \subseteq Tasks
  BY DEF NewProcessState, SwitchInv
<1>11. ASSUME NEW u \in started' \ {cpu'}
       PROVE  Parked(mem'[u], kernel_rsp'[u], saved'[u].regs, saved'[u].words, call'[u])
  <2>1. CASE u = t
    <3>1. kernel_rsp'[t] = -18
      BY <1>1, <1>4
    <3> QED
      BY <1>8, <1>9, <1>10, <2>1, <3>1 DEF new
  <2>2. CASE u # t
    <3>1. u \in started \ {cpu} /\ u \in Tasks /\ u \in Threads
      BY <1>10, <2>2 DEF Threads
    <3>2. mem'[u] = mem[u] /\ kernel_rsp'[u] = kernel_rsp[u] /\ saved'[u] = saved[u] /\ call'[u] = call[u]
      BY <1>2, <1>4, <1>9, <1>10, <2>2, <3>1
    <3> QED
      BY <3>1, <3>2 DEF SwitchInv
  <2> QED
    BY <2>1, <2>2
<1>12. Live(mem'[cpu'], regs', call'[cpu'])
  BY <1>1, <1>2, <1>10, RunningIs
<1>13. \A u \in Tasks \ started' : mem'[u][1] = Unset
  BY <1>2, <1>10 DEF SwitchInv, Threads
<1>14. \A c \in Threads : DOMAIN mem'[c] = Words
  BY <1>2 DEF SwitchInv, new
<1>15. started' \subseteq Tasks /\ cpu' \in started' \cup {BOOT} /\ DOMAIN call' = Threads
  BY <1>10 DEF SwitchInv
<1>16. kernel_rsp' \in [Threads -> Words]
  BY <1>4, Zenon
<1> QED
  BY <1>2, <1>9, <1>11, <1>12, <1>13, <1>14, <1>15, <1>16 DEF SwitchInv

\* What a switch resumes its task with.
Resumes(n) == IF n = cpu THEN Current ELSE saved[n]

\* A switch loads the registers and finds the stack that were saved.
LEMMA SwitchResumes ==
    ASSUME SwitchInv, NEW n \in Tasks, Switch(n)
    PROVE  /\ regs' = Resumes(n).regs
           /\ \A k \in DOMAIN Resumes(n).words : mem'[n][k] = Resumes(n).words[k]
           /\ Live(mem'[n], regs', call[n])
           /\ DOMAIN mem' = Threads /\ DOMAIN mem'[n] = Words
           /\ n # cpu => mem'[cpu] = OldStack
           /\ \A c \in Threads \ {cpu, n} : mem'[c] = mem[c]
<1> DEFINE rspSaved == [kernel_rsp EXCEPT ![cpu] = SavedSp]
           stacks == [mem EXCEPT ![cpu] = OldStack]
           sp == rspSaved[n]
           tss == TssWritten(stacks[n], sp)
           R == Resumes(n).regs
           W == Resumes(n).words
           final == Scribbled(tss, Depth(R))
<1>1. n \in started /\ n \in Threads /\ cpu \in Threads /\ DOMAIN mem = Threads
  BY RunningIs DEF Switch, Threads
<1>2. /\ DOMAIN stacks = Threads /\ stacks[cpu] = OldStack
      /\ \A c \in Threads \ {cpu} : stacks[c] = mem[c]
  BY <1>1
<1>3. rspSaved[cpu] = SavedSp /\ \A c \in Threads \ {cpu} : rspSaved[c] = kernel_rsp[c]
  BY <1>1 DEF SwitchInv
<1>4. /\ mem' = [stacks EXCEPT ![n] = Scribbled(tss, Offset(Popped(tss, sp, PopOrder \o IretOrder)["rsp"]))]
      /\ regs' = Popped(tss, sp, PopOrder \o IretOrder)
  BY DEF Switch, OldStack
<1> HIDE DEF rspSaved, stacks
<1>5. Parked(stacks[n], sp, R, W, call[n])
  <2>1. CASE n = cpu
    <3>1. R = regs /\ W = InUse(mem[cpu], rsp)
      BY <2>1 DEF Resumes, Current
    <3> QED
      BY <1>2, <1>3, <2>1, <3>1, SaveParks
  <2>2. CASE n # cpu
    <3>1. R = saved[n].regs /\ W = saved[n].words
      BY <2>2 DEF Resumes
    <3>2. Parked(mem[n], kernel_rsp[n], saved[n].regs, saved[n].words, call[n])
      BY <1>1, <2>2 DEF SwitchInv
    <3>3. stacks[n] = mem[n] /\ sp = kernel_rsp[n]
      BY <1>1, <1>2, <1>3, <2>2
    <3> QED
      BY <3>1, <3>2, <3>3
  <2> QED
    BY <2>1, <2>2
<1> HIDE DEF sp, R, W
<1>6. /\ Popped(tss, sp, PopOrder \o IretOrder) = R /\ Live(final, R, call[n])
      /\ DOMAIN final = Words /\ \A k \in DOMAIN W : final[k] = W[k]
  <2>1. final = Scribbled(TssWritten(stacks[n], sp), Depth(R))
    OBVIOUS
  <2> HIDE DEF final
  <2>2. /\ Popped(TssWritten(stacks[n], sp), sp, PopOrder \o IretOrder) = R
        /\ Live(final, R, call[n]) /\ DOMAIN final = Words
        /\ \A k \in DOMAIN W : final[k] = W[k]
    <3> DEFINE stack == stacks[n]
    <3>1. Parked(stack, sp, R, W, call[n]) /\ final = Scribbled(TssWritten(stack, sp), Depth(R))
      BY <1>5, <2>1
    <3> HIDE DEF stack
    <3>2. /\ Popped(TssWritten(stack, sp), sp, PopOrder \o IretOrder) = R
          /\ Live(final, R, call[n]) /\ DOMAIN final = Words
          /\ \A k \in DOMAIN W : final[k] = W[k]
      BY <3>1, Resumed
    <3> QED
      BY <3>2 DEF stack
  <2> QED
    BY <2>2
<1>7. regs' = R
  BY <1>4, <1>6
<1>8. mem' = [stacks EXCEPT ![n] = final]
  BY <1>4, <1>6 DEF Depth
<1> HIDE DEF final, tss
<1>9. DOMAIN mem' = Threads /\ mem'[n] = final /\ \A c \in Threads \ {n} : mem'[c] = stacks[c]
  BY <1>1, <1>2, <1>8
<1> QED
  BY <1>1, <1>2, <1>6, <1>7, <1>9 DEF R, W

\* A switch leaves the frame of the task that stops, and keeps the others.
LEMMA SwitchKeeps == ASSUME SwitchInv, NEW n \in Tasks, Switch(n) PROVE SwitchInv'
<1>1. /\ n \in started /\ cpu' = n /\ started' = started /\ call' = call
      /\ kernel_rsp' = [kernel_rsp EXCEPT ![cpu] = SavedSp]
      /\ saved' = [t \in Tasks |-> CASE t = n -> Running
                                     [] t = cpu /\ t # n -> Current
                                     [] OTHER -> saved[t]]
  BY DEF Switch
<1>2. /\ started \subseteq Tasks /\ cpu \in started \cup {BOOT} /\ cpu \in Threads
      /\ kernel_rsp \in [Threads -> Words] /\ DOMAIN call = Threads
      /\ Tasks \subseteq Threads
  BY DEF SwitchInv, Threads
<1>3. kernel_rsp' \in [Threads -> Words]
  BY <1>1, <1>2, SaveParks
<1>4. \A c \in Threads : DOMAIN mem'[c] = Words
  BY SwitchResumes, SaveParks DEF SwitchInv
<1>5. ASSUME NEW t \in started \ {n}
      PROVE  Parked(mem'[t], kernel_rsp'[t], saved'[t].regs, saved'[t].words, call[t])
  <2>1. t \in Tasks /\ t \in Threads /\ t # n
    BY <1>2
  <2>2. CASE t = cpu
    <3>1. saved'[t] = Current
      BY <1>1, <2>1, <2>2
    <3>2. saved'[t].regs = regs /\ saved'[t].words = InUse(mem[cpu], rsp)
      BY <3>1 DEF Current
    <3>3. mem'[t] = OldStack /\ kernel_rsp'[t] = SavedSp
      BY <1>1, <1>2, <2>1, <2>2, SwitchResumes
    <3> QED
      BY <2>2, <3>2, <3>3, SaveParks
  <2>3. CASE t # cpu
    <3>1. saved'[t] = saved[t]
      BY <1>1, <2>1, <2>3
    <3>2. mem'[t] = mem[t] /\ kernel_rsp'[t] = kernel_rsp[t]
      BY <1>1, <1>2, <2>1, <2>3, SwitchResumes
    <3> QED
      BY <2>3, <3>1, <3>2 DEF SwitchInv
  <2> QED
    BY <2>2, <2>3
<1>6. \A t \in Tasks \ started : mem'[t][1] = Unset
  <2> TAKE t \in Tasks \ started
  <2>1. t # n /\ t # cpu /\ t \in Threads
    BY <1>1, <1>2, SwitchAssumption
  <2>2. mem'[t] = mem[t]
    BY <2>1, SwitchResumes
  <2> QED
    BY <2>2 DEF SwitchInv
<1>7. Live(mem'[cpu'], regs', call'[cpu']) /\ DOMAIN mem' = Threads
  BY <1>1, SwitchResumes
<1>8. DOMAIN saved' = Tasks /\ started' \subseteq Tasks /\ cpu' \in started' \cup {BOOT}
  BY <1>1, <1>2
<1> QED
  BY <1>1, <1>2, <1>3, <1>4, <1>5, <1>6, <1>7, <1>8, Zenon DEF SwitchInv

\* Every step keeps the invariant of the stacks.
LEMMA NextInv == SwitchInv /\ [Next]_vars => SwitchInv'
<1> SUFFICES ASSUME SwitchInv, [Next]_vars PROVE SwitchInv'
  OBVIOUS
<1>1. CASE Compute
  BY <1>1, ComputeKeeps
<1>2. CASE PushData
  BY <1>2, PushKeeps
<1>3. CASE PopData
  BY <1>3, PopKeeps
<1>4. CASE SyscallHandler
  BY <1>4, SyscallKeeps
<1>5. CASE SyscallReturn
  BY <1>5, ReturnKeeps
<1>6. CASE \E t \in Tasks : NewProcessState(t)
  BY <1>6, NewKeeps
<1>7. CASE \E t \in Tasks : Switch(t)
  BY <1>7, SwitchKeeps
<1>8. CASE UNCHANGED vars
  BY <1>8, LocalStep, RunningIs DEF vars
<1> QED
  BY <1>1, <1>2, <1>3, <1>4, <1>5, <1>6, <1>7, <1>8 DEF Next

\* What handle_syscall finds where SyscallArgs has its fields.
LEMMA ArgsArrive ==
    ASSUME SwitchInv, SyscallHandler, NEW i \in 1 .. 8
    PROVE  HandlerArgs[SyscallArgs[i]] = Value(PassedIn[i])
<1> DEFINE stack == Pushed(mem[cpu], SyscallSp, SyscallPush)
           sp == SyscallSp - Len(SyscallPush)
<1>1. SyscallSp \in Int /\ SyscallSp >= -Deepest /\ SyscallSp <= 0
  <2>1. /\ AlignedSp \in Int /\ AlignedSp >= rsp - 1 /\ rsp >= -MaxDepth /\ AlignedSp <= rsp
        /\ rsp <= 0 /\ rsp \in Int /\ SyscallSp = AlignedSp - 14
    BY RunningIs, Aligned DEF SyscallHandler
  <2> QED
    BY <2>1, WordsAre
<1>2. Len(SyscallPush) = 8 /\ Len(SyscallArgs) = 8
  BY DEF SyscallPush, SyscallArgs
<1>3. Once(SyscallArgs)
  <2>1. ToSet(SyscallArgs) = {SyscallArgs[j] : j \in 1 .. 8}
    BY DEF ToSet, SyscallArgs
  <2>2. \A j, k \in 1 .. 8 : SyscallArgs[j] = SyscallArgs[k] => j = k
    BY DEF SyscallArgs
  <2> QED
    BY <1>2, <2>1, <2>2 DEF Once
<1>4. HandlerArgs = Popped(stack, sp, SyscallArgs)
  BY DEF HandlerArgs
<1>5. sp \in Int
  BY <1>1, <1>2
<1>6. stack[sp - 1 + i] = Value(SyscallPush[9 - i])
  <2> PICK k \in Int : k = sp - 1 + i
    BY <1>5
  <2>1. k \in Words /\ SyscallSp - k = 9 - i /\ 9 - i \in 1 .. 8
    BY <1>1, <1>2, WordsAre
  <2>2. stack[k] = Value(SyscallPush[9 - i])
    BY <1>2, <2>1 DEF Pushed
  <2> QED
    BY <2>2
<1> HIDE DEF stack, sp
<1>7. Finds(HandlerArgs, stack, sp, SyscallArgs)
  BY <1>3, <1>4, <1>5, PopFinds
<1>8. HandlerArgs[SyscallArgs[i]] = stack[sp - 1 + i]
  BY <1>2, <1>7 DEF Finds
<1>9. SyscallPush[9 - i] = PassedIn[i]
  BY DEF SyscallPush, PassedIn
<1> QED
  BY <1>6, <1>8, <1>9

\* The invariant gives the types.
LEMMA InvTyped == SwitchInv => SwitchTypeOK
<1> SUFFICES ASSUME SwitchInv PROVE SwitchTypeOK
  OBVIOUS
<1>1. DOMAIN regs = Registers /\ cpu \in Threads
  BY RunningIs
<1>2. rsp \in (IF InSyscall THEN -Deepest ELSE -MaxDepth) .. 0
  BY RunningIs, WordsAre
<1>3. \A t \in started \ {cpu} : DOMAIN saved[t].regs = Registers
  BY Zenon DEF SwitchInv, Parked, Live, Sane
<1> QED
  BY <1>1, <1>2, <1>3 DEF SwitchInv, SwitchTypeOK

\* SwitchInv is an invariant: on the stack of every context that waits lies
\* what apic_timer_handler pops to resume it, and in a system call what the
\* end of syscall_handler loads.
THEOREM SwitchInvariant == Spec => []SwitchInv
  BY InitInv, NextInv, PTL DEF Spec

\* For any tasks and any bound on the words a context pushes itself: the stack
\* pointer with which apic_timer_handler and syscall_handler leave a context is
\* never above the end of its kernel_stack, and the frame of a system call is
\* the most it is below that bound.  That the words fit the 4096 bytes of a
\* stack is not claimed: nothing in the code bounds them.
THEOREM SwitchTyped == Spec => []SwitchTypeOK
  BY SwitchInvariant, InvTyped, PTL

\* apic_timer_handler resumes every context with the registers and the stack
\* it was interrupted with, for any tasks and stacks of any depth.
THEOREM ContextsStayIntact == Spec => ContextIntact
<1> DEFINE A == \A n \in Tasks : Switch(n) =>
                    LET context == IF n = cpu THEN Current ELSE saved[n]
                    IN  /\ regs' = context.regs
                        /\ \A k \in DOMAIN context.words : mem'[n][k] = context.words[k]
<1>1. SwitchInv => [A]_vars
  BY SwitchResumes DEF Resumes
<1> QED
  BY <1>1, SwitchInvariant, PTL DEF ContextIntact

\* handle_syscall finds the arguments do_syscall_N passed, and a system call
\* returns with the registers it was made with, wherever it was preempted.
THEOREM SyscallsKeepContract == Spec => SyscallContract
<1> DEFINE A == /\ SyscallHandler => \A i \in 1 .. 8 : HandlerArgs[SyscallArgs[i]] = Value(PassedIn[i])
                /\ SyscallReturn => \A r \in Registers \ {"rax"} : regs'[r] = call[cpu][r]
<1>1. SwitchInv => [A]_vars
  BY ArgsArrive, ReturnLoads
<1> QED
  BY <1>1, SwitchInvariant, PTL DEF SyscallContract
=============================================================================
