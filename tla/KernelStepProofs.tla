-------------------------- MODULE KernelStepProofs --------------------------
(***************************************************************************)
(* The inductive invariant of Kernel, and the steps of the running context *)
(* that keep it.                                                           *)
(*                                                                         *)
(* The invariants of Kernel are about what the code of the running context *)
(* has still ahead.  An invariant that is kept by every step has to speak  *)
(* of the order of what is ahead, and of the contexts that do not run: a   *)
(* switch resumes them.  KernelInv says, of the operations a context has   *)
(* still to execute, which of them come in what order.                     *)
(***************************************************************************)
EXTENDS KernelCodeProofs, SchedulerProofs

\* A context that does not run will be resumed with interrupts on.
Code == \A c \in Threads : CodeOK(c, todo[c], c = cpu => IFlag)

\* Only started tasks make system calls, and one that the handler knows.
Calls ==
    /\ \A t \in Tasks : t <= task_id => kind[t] \in Kinds
    /\ \A c \in Threads : "int80" \in Ops(todo[c]) =>
          c \in Tasks /\ c <= task_id /\ kind[c] \in {"write", "badfd", "nosys"}

\* kernel_main replaces LAPIC before it enables the local APIC, installs the
\* scheduler's handler and starts the timer, and starts it after it has
\* installed the handler.  Without LAPIC there is nothing but kernel_main.
BootOrder ==
    /\ NoneBefore(todo[BOOT], {"install_scheduler", "start_timer_one_shot"},
                  {"install_scheduler"})
    /\ "install_scheduler" \in Ops(todo[BOOT]) => "start_timer_one_shot" \in Ops(todo[BOOT])
    /\ IDT33 = "sched" => LAPIC /\ "install_scheduler" \notin Ops(todo[BOOT])
    /\ \A c \in Threads : "switch" \in Ops(todo[c]) => IDT33 = "sched"
    /\ ~LAPIC => /\ cpu = BOOT /\ ~armed /\ ~irr /\ ~isr /\ ~lapic_on
                 /\ EachAfter(todo[BOOT], {"lapic_replace"},
                        {"lapic_enable", "install_scheduler", "start_timer_one_shot"})

\* The timer is restarted before the switch, and an interrupt in service ends.
TimerRuns ==
    /\ IDT33 = "sched" => armed \/ irr \/ "start_timer_one_shot" \in Ops(todo[cpu])
    /\ armed \/ irr \/ EachAfter(todo[cpu], {"start_timer_one_shot"}, {"switch"})
    /\ isr => "lapic_eoi" \in Ops(todo[cpu])

\* IRQ 1 ends in a panic, as long as there is no local APIC; IRQ 0 ends.
PicServed ==
    ~LAPIC => /\ 1 \in pic_isr => "die" \in Ops(todo[BOOT])
              /\ 0 \in pic_isr => Ops(todo[BOOT]) \cap {"end_of_interrupt", "die"} # {}

\* A lock that kernel_main does not hold is held by the running context, which
\* is about to give it back.
Held == \A l \in Locks : owner[l] \notin {None, BOOT} =>
            owner[l] = cpu /\ Releases(todo[cpu], l)

KernelInv ==
    /\ SchedInv
    /\ KernelTypeOK
    /\ Code
    /\ Calls
    /\ BootOrder
    /\ TimerRuns
    /\ PicServed
    /\ Held
-----------------------------------------------------------------------------
(* What a step of the processor leaves alone.                              *)

\* What runs is kernel_main, the idle task or a started task.
LEMMA Running ==
    ASSUME KernelInv
    PROVE  /\ cpu \in Threads /\ BOOT \in Threads
           /\ cpu = BOOT \/ cpu = IDLE \/ (cpu \in Tasks /\ cpu <= task_id)
           /\ DOMAIN todo = Threads
           /\ IFlag \in BOOLEAN /\ LAPIC \in BOOLEAN
           /\ CodeOK(cpu, todo[cpu], IFlag)
           /\ \A c \in Threads : todo[c] \in Seq(MicroOps)
  <1>1. cpu = BOOT \/ cpu = IDLE \/ (cpu \in Tasks /\ cpu <= task_id)
    <2>1. cpu = IF TASK # None THEN TASK ELSE IF INIT THEN IDLE ELSE BOOT
      BY DEF KernelInv, SchedInv, CpuAgreesWithTask
    <2>2. TASK # None => TASK \in 1 .. task_id /\ TASK \in Tasks
      BY DEF KernelInv, SchedInv, TasksConserved, SchedTypeOK
    <2>3. task_id \in Nat
      BY SchedulerAssumption DEF KernelInv, SchedInv, SchedTypeOK
    <2> QED
      BY <2>1, <2>2, <2>3
  <1>2. cpu \in Threads /\ BOOT \in Threads
    BY <1>1, SchedulerAssumption DEF Threads, Contexts, ProcessStates, IDLE, Tasks
  <1>3. DOMAIN todo = Threads /\ IFlag \in BOOLEAN /\ LAPIC \in BOOLEAN
    BY DEF KernelInv, KernelTypeOK
  <1>4. \A c \in Threads : CodeOK(c, todo[c], c = cpu => IFlag)
    BY DEF KernelInv, Code
  <1>5. CodeOK(cpu, todo[cpu], IFlag)
    <2>1. CodeOK(cpu, todo[cpu], cpu = cpu => IFlag)
      BY <1>2, <1>4
    <2>2. (cpu = cpu => IFlag) = IFlag
      BY <1>3
    <2> QED
      BY <2>1, <2>2
  <1>6. \A c \in Threads : todo[c] \in Seq(MicroOps)
    BY <1>4 DEF CodeOK
  <1> QED
    BY <1>1, <1>2, <1>3, <1>5, <1>6

\* The code of the running context changes to u.
Edit(u) == todo' = [todo EXCEPT ![cpu] = u]

\* A step that edits the code of the running context leaves the others' alone.
LEMMA EditShape ==
    ASSUME KernelInv, NEW u, Edit(u)
    PROVE  /\ DOMAIN todo' = Threads
           /\ todo'[cpu] = u
           /\ \A c \in Threads : c # cpu => todo'[c] = todo[c]
  BY Running DEF Edit

\* Replacing the next operation edits the code.
LEMMA ReplaceIsEdit ==
    ASSUME NEW r, Replace(r)
    PROVE  Edit(r \o Tail(todo[cpu]))
  BY DEF Replace, Edit

\* Code: only the running context changes.
LEMMA EditCode ==
    ASSUME KernelInv, NEW u, Edit(u), cpu' = cpu, IFlag' \in BOOLEAN, CodeOK(cpu, u, IFlag')
    PROVE  Code'
  <1> SUFFICES ASSUME NEW c \in Threads PROVE CodeOK(c, todo'[c], c = cpu => IFlag')
    BY DEF Code
  <1>1. CASE c = cpu
    <2>1. todo'[c] = u /\ (c = cpu => IFlag') = IFlag'
      BY <1>1, EditShape
    <2> QED
      BY <1>1, <2>1
  <1>2. CASE c # cpu
    <2>1. todo'[c] = todo[c] /\ (c = cpu => IFlag') = (c = cpu => IFlag)
      BY <1>2, EditShape
    <2>2. CodeOK(c, todo[c], c = cpu => IFlag)
      BY DEF KernelInv, Code
    <2> QED
      BY <2>1, <2>2
  <1> QED
    BY <1>1, <1>2

\* Calls: no new system call.
LEMMA EditCalls ==
    ASSUME KernelInv, NEW u, Edit(u), UNCHANGED <<task_id, kind>>,
           "int80" \in Ops(u) => "int80" \in Ops(todo[cpu])
    PROVE  Calls'
  <1> SUFFICES ASSUME NEW c \in Threads, "int80" \in Ops(todo'[c])
               PROVE  c \in Tasks /\ c <= task_id /\ kind[c] \in {"write", "badfd", "nosys"}
    BY DEF KernelInv, Calls
  <1>1. "int80" \in Ops(todo[c])
    BY EditShape
  <1> QED
    BY <1>1 DEF KernelInv, Calls

\* Held: a context that is not at a lock holds none.
LEMMA NothingHeld ==
    ASSUME KernelInv, todo[cpu] = <<>> \/ todo[cpu][1][1] \notin {"lock", "unlock"}
    PROVE  \A l \in Locks : owner[l] \in {None, BOOT}
  <1> SUFFICES ASSUME NEW l \in Locks, owner[l] \notin {None, BOOT} PROVE FALSE
    OBVIOUS
  <1>1. Releases(todo[cpu], l) /\ todo[cpu] \in Seq(MicroOps)
    BY Running DEF KernelInv, Held
  <1> QED
    BY <1>1, ReleasesTail

\* What a step that replaces the first operation op by r does to what is ahead.
LEMMA SpliceShape ==
    ASSUME KernelInv, NEW op, At(op), NEW r \in Seq(MicroOps), Replace(r)
    PROVE  LET s == todo[cpu]
               t == Tail(s)
           IN  /\ s \in Seq(MicroOps) /\ s # <<>> /\ s[1][1] = op
               /\ t \in Seq(MicroOps) /\ Ops(s) = {op} \cup Ops(t)
               /\ Edit(r \o t) /\ todo'[cpu] = r \o t /\ Ops(r \o t) = Ops(r) \cup Ops(t)
               /\ \A c \in Threads : c # cpu => todo'[c] = todo[c]
  <1> DEFINE s == todo[cpu]
             t == Tail(s)
  <1>1. s \in Seq(MicroOps) /\ s # <<>> /\ s[1][1] = op
    BY Running DEF At
  <1>2. t \in Seq(MicroOps) /\ Ops(s) = {op} \cup Ops(t)
    BY <1>1, TailShape, OpsTail
  <1>3. Edit(r \o t)
    BY ReplaceIsEdit
  <1>4. todo'[cpu] = r \o t /\ \A c \in Threads : c # cpu => todo'[c] = todo[c]
    BY <1>3, EditShape, Zenon
  <1>5. Ops(r \o t) = Ops(r) \cup Ops(t)
    BY <1>2, OpsConcat, Zenon
  <1> QED
    BY <1>1, <1>2, <1>3, <1>4, <1>5

\* Operations that only one place of the code has.
Special == {"switch", "install_scheduler", "start_timer_one_shot", "lapic_enable", "int80"}

\* BootOrder: the first operation is replaced by nothing special.
LEMMA BootSplice ==
    ASSUME KernelInv, NEW op, At(op), NEW r \in Seq(MicroOps), Replace(r),
           op # "lapic_replace", Ops(r) \cap Special = {},
           UNCHANGED <<cpu, IDT33, LAPIC>>,
           ~LAPIC => ~armed' /\ ~irr' /\ ~isr' /\ ~lapic_on'
    PROVE  BootOrder'
  <1> DEFINE s == todo[cpu]
             t == Tail(s)
             u == r \o t
             LR == {"lapic_replace"}
             X == {"lapic_enable", "install_scheduler", "start_timer_one_shot"}
             IS == {"install_scheduler", "start_timer_one_shot"}
             I == {"install_scheduler"}
  <1>1. /\ s \in Seq(MicroOps) /\ s # <<>> /\ s[1][1] = op
        /\ t \in Seq(MicroOps) /\ Ops(s) = {op} \cup Ops(t)
        /\ todo'[cpu] = u /\ Ops(u) = Ops(r) \cup Ops(t)
        /\ \A c \in Threads : c # cpu => todo'[c] = todo[c]
    BY SpliceShape
  <1>2. cpu \in Threads /\ BOOT \in Threads
    BY Running
  <1> HIDE DEF s, t
  <1>3. ASSUME NEW c \in Threads, "switch" \in Ops(todo'[c]) PROVE IDT33 = "sched"
    <2>1. "switch" \in Ops(todo[c])
      BY <1>1, <1>2, <1>3, Zenon DEF s, Special
    <2> QED
      BY <2>1 DEF KernelInv, BootOrder
  <1>4. CASE cpu # BOOT
    <2>1. todo'[BOOT] = todo[BOOT]
      BY <1>1, <1>2, <1>4
    <2> QED
      BY <1>3, <1>4, <2>1 DEF KernelInv, BootOrder
  <1>5. CASE cpu = BOOT
    <2>1. /\ NoneBefore(s, IS, I)
          /\ "install_scheduler" \in Ops(s) => "start_timer_one_shot" \in Ops(s)
          /\ IDT33 = "sched" => LAPIC /\ "install_scheduler" \notin Ops(s)
          /\ ~LAPIC => EachAfter(s, LR, X)
      BY <1>5 DEF KernelInv, BootOrder, s
    <2>2. Ops(r) \cap IS = {} /\ Ops(r) \cap X = {}
      BY DEF Special
    <2>3. op \in IS => Ops(t) \cap I = {}
      BY <1>1, <2>1, NoneBeforeTail DEF t
    <2>4. "install_scheduler" \in Ops(u) => "start_timer_one_shot" \in Ops(u)
      BY <1>1, <2>1, <2>2, <2>3
    <2>5. IDT33 = "sched" => LAPIC /\ "install_scheduler" \notin Ops(u)
      BY <1>1, <2>1, <2>2
    <2>6. op \notin LR
      OBVIOUS
    <2> HIDE DEF LR, X, IS, I
    <2>7. NoneBefore(u, IS, I)
      <3>1. NoneBefore(t, IS, I)
        BY <1>1, <2>1, NoneBeforeTail DEF t
      <3>2. NoneBefore(r, IS, I)
        BY <2>2, NoneBeforeFree
      <3> QED
        BY <1>1, <2>2, <3>1, <3>2, NoneBeforeConcat
    <2>8. ASSUME ~LAPIC PROVE EachAfter(u, LR, X)
      <3>1. EachAfter(t, LR, X)
        BY <1>1, <2>1, <2>6, <2>8, EachAfterTail DEF t
      <3>2. EachAfter(r, LR, X)
        BY <2>2, EachAfterFree
      <3> QED
        BY <1>1, <3>1, <3>2, EachAfterConcat
    <2>9. todo'[BOOT] = u /\ cpu' = BOOT
      BY <1>1, <1>5
    <2> QED
      BY <1>3, <2>4, <2>5, <2>7, <2>8, <2>9 DEF BootOrder, LR, X, IS, I
  <1> QED
    BY <1>4, <1>5

\* TimerRuns: the first operation is replaced by nothing special, the timer is
\* not stopped, and what the operation was for has been done.
LEMMA TimerSplice ==
    ASSUME KernelInv, NEW op, At(op), NEW r \in Seq(MicroOps), Replace(r),
           Ops(r) \cap Special = {}, UNCHANGED <<cpu, IDT33>>,
           armed \/ irr \/ op = "start_timer_one_shot" => armed' \/ irr',
           isr' => isr /\ op # "lapic_eoi"
    PROVE  TimerRuns'
  <1> DEFINE s == todo[cpu]
             t == Tail(s)
             u == r \o t
             ST == {"start_timer_one_shot"}
             SW == {"switch"}
  <1>1. /\ s \in Seq(MicroOps) /\ s # <<>> /\ s[1][1] = op
        /\ t \in Seq(MicroOps) /\ Ops(s) = {op} \cup Ops(t)
        /\ todo'[cpu] = u /\ Ops(u) = Ops(r) \cup Ops(t)
    BY SpliceShape
  <1> HIDE DEF s, t
  <1>2. /\ IDT33 = "sched" => armed \/ irr \/ "start_timer_one_shot" \in Ops(s)
        /\ armed \/ irr \/ EachAfter(s, ST, SW)
        /\ isr => "lapic_eoi" \in Ops(s)
    BY DEF KernelInv, TimerRuns, s
  <1>3. IDT33 = "sched" => armed' \/ irr' \/ "start_timer_one_shot" \in Ops(u)
    BY <1>1, <1>2
  <1>4. isr' => "lapic_eoi" \in Ops(u)
    BY <1>1, <1>2
  <1>5. Ops(r) \cap SW = {} /\ (op \in ST => op = "start_timer_one_shot")
    BY DEF Special
  <1> HIDE DEF ST, SW
  <1>6. armed' \/ irr' \/ EachAfter(u, ST, SW)
    <2> SUFFICES ASSUME ~(armed' \/ irr') PROVE EachAfter(u, ST, SW)
      OBVIOUS
    <2>1. EachAfter(s, ST, SW) /\ op \notin ST
      BY <1>2, <1>5
    <2>2. EachAfter(t, ST, SW)
      BY <1>1, <2>1, EachAfterTail DEF t
    <2>3. EachAfter(r, ST, SW)
      BY <1>5, EachAfterFree
    <2> QED
      BY <1>1, <2>2, <2>3, EachAfterConcat
  <1> QED
    BY <1>1, <1>3, <1>4, <1>6 DEF TimerRuns, ST, SW

\* PicServed: nobody but end_of_interrupt and a panic serves an IRQ.
LEMMA PicSplice ==
    ASSUME KernelInv, NEW op, At(op), NEW r \in Seq(MicroOps), Replace(r),
           op \notin {"die", "end_of_interrupt"}, LAPIC' \in BOOLEAN, LAPIC => LAPIC',
           UNCHANGED <<cpu, pic_isr>>
    PROVE  PicServed'
  <1> SUFFICES ASSUME ~LAPIC' PROVE PicServed'
    BY DEF PicServed
  <1> DEFINE s == todo[cpu]
             t == Tail(s)
  <1>1. /\ Ops(s) = {op} \cup Ops(t) /\ todo'[cpu] = r \o t /\ Ops(r \o t) = Ops(r) \cup Ops(t)
    BY SpliceShape
  <1>2. ~LAPIC /\ cpu = BOOT
    BY DEF KernelInv, BootOrder
  <1>3. /\ 1 \in pic_isr => "die" \in Ops(s)
        /\ 0 \in pic_isr => Ops(s) \cap {"end_of_interrupt", "die"} # {}
    BY <1>2 DEF KernelInv, PicServed
  <1> HIDE DEF s, t
  <1> QED
    BY <1>1, <1>2, <1>3, Zenon DEF PicServed

\* Operations that change nothing but the interrupt flag, and what they call.
QuietOps == {"nop", "print", "or_panic", "pit", "sti", "hlt", "wait_triggered", "frequency",
             "deref_scheduler", "int80", "exception", "iret", "switch"}

\* Nothing but the code of the running context and the interrupt flag changes.
LEMMA QuietStep ==
    ASSUME KernelInv, NEW op \in QuietOps, At(op), NEW r \in Seq(MicroOps), Replace(r),
           Ops(r) \cap Special = {},
           IFlag' \in BOOLEAN, CodeOK(cpu, r \o Tail(todo[cpu]), IFlag'),
           UNCHANGED <<schedVars, owner, hardware, statics>>
    PROVE  KernelInv'
  <1> USE DEF schedVars, hardware, statics
  <1>1. /\ Edit(r \o Tail(todo[cpu]))
        /\ Ops(r \o Tail(todo[cpu])) = Ops(r) \cup Ops(Tail(todo[cpu]))
        /\ Ops(todo[cpu]) = {op} \cup Ops(Tail(todo[cpu]))
    BY SpliceShape
  <1>2. SchedInv'
    BY DEF KernelInv, SchedInv, SchedTypeOK, TasksConserved, CpuAgreesWithTask, FramesAreOwn,
           Queued
  <1>3. KernelTypeOK'
    BY <1>1, <1>2, EditShape DEF KernelInv, KernelTypeOK, SchedInv
  <1>4. Code'
    BY <1>1, EditCode
  <1>5. Calls'
    BY <1>1, EditCalls DEF Special
  <1>6. BootOrder'
    <2>1. ~LAPIC => ~armed' /\ ~irr' /\ ~isr' /\ ~lapic_on'
      BY DEF KernelInv, BootOrder
    <2> QED
      BY <2>1, BootSplice DEF QuietOps
  <1>7. TimerRuns'
    BY TimerSplice DEF QuietOps
  <1>8. PicServed'
    BY PicSplice, Running DEF QuietOps
  <1>9. Held'
    <2>1. \A l \in Locks : owner[l] \in {None, BOOT}
      BY NothingHeld DEF At, QuietOps
    <2> QED
      BY <2>1 DEF Held
  <1> QED
    BY <1>2, <1>3, <1>4, <1>5, <1>6, <1>7, <1>8, <1>9 DEF KernelInv

\* The first operation of the running context is executed and done with.
LEMMA PopShape ==
    ASSUME KernelInv, NEW op, At(op), Replace(<<>>)
    PROVE  <<>> \o Tail(todo[cpu]) = Tail(todo[cpu])
  <1>1. todo[cpu] \in Seq(MicroOps) /\ todo[cpu] # <<>>
    BY Running DEF At
  <1>2. Tail(todo[cpu]) \in Seq(MicroOps)
    BY <1>1, TailShape
  <1> QED
    BY <1>2, EmptyCode

\* What is left after an operation that does not return is code still.
LEMMA PopCode ==
    ASSUME KernelInv, NEW op, At(op), op \notin Returning
    PROVE  CodeOK(cpu, <<>> \o Tail(todo[cpu]), IFlag)
  <1>1. /\ <<>> \in Seq(MicroOps) /\ Ops(<<>>) \subseteq Plain(cpu)
        /\ Ops(<<>>) \subseteq TaskOps
    BY EmptyCode
  <1>2. /\ CodeOK(cpu, todo[cpu], IFlag) /\ IFlag \in BOOLEAN /\ todo[cpu] # <<>>
        /\ todo[cpu][1][1] \notin Returning
    BY Running DEF At
  <1> QED
    BY <1>1, <1>2, SpliceCode, Zenon
-----------------------------------------------------------------------------
(* The steps, one by one.                                                  *)

\* An operation without effect here is only taken off the code.
LEMMA NopKeeps == KernelInv /\ Nop => KernelInv'
  <1> SUFFICES ASSUME KernelInv, Nop PROVE KernelInv'
    OBVIOUS
  <1>1. At("nop") /\ Replace(<<>>) /\ UNCHANGED <<schedVars, IFlag, owner, hardware, statics>>
    BY DEF Nop
  <1>2. CodeOK(cpu, <<>> \o Tail(todo[cpu]), IFlag)
    BY <1>1, PopCode DEF Returning
  <1>3. "nop" \in QuietOps
    BY DEF QuietOps
  <1> QED
    BY <1>1, <1>2, <1>3, EmptyCode, Running, QuietStep, Zenon

\* println! becomes its locks, allocations and output.
LEMMA PrintlnKeeps == KernelInv /\ Println => KernelInv'
  <1> SUFFICES ASSUME KernelInv, Println PROVE KernelInv'
    OBVIOUS
  <1> DEFINE r == PrintBody \o (IF IFlag THEN <<Do("sti")>> ELSE <<>>)
  <1>1. /\ At("print") /\ Replace(r) /\ IFlag' = FALSE
        /\ UNCHANGED <<schedVars, owner, hardware, statics>>
    BY DEF Println
  <1>2. INITIALIZED \in BOOLEAN
    BY DEF KernelInv, KernelTypeOK
  <1>3. /\ CodeOK(cpu, todo[cpu], IFlag) /\ IFlag \in BOOLEAN /\ todo[cpu] # <<>>
        /\ todo[cpu][1][1] \notin Returning
    BY <1>1, Running DEF At, Returning
  <1>4. CodeOK(cpu, r \o Tail(todo[cpu]), FALSE)
    BY <1>2, <1>3, PrintBodyCode, MaskedCode, Zenon
  <1>5. r \in Seq(MicroOps) /\ Ops(r) \cap Special = {}
    <2> DEFINE on == IF IFlag THEN <<Do("sti")>> ELSE <<>>
    <2>1. Do("sti") \in MicroOps /\ Do("sti")[1] = "sti"
      BY DoOp DEF OpNames, TaskOps
    <2>2. on \in Seq(MicroOps) /\ Ops(on) \subseteq {"sti"}
      BY <2>1, Code1, EmptyCode
    <2> HIDE DEF on
    <2>3. PrintBody \o on \in Seq(MicroOps) /\ Ops(PrintBody \o on) = Ops(PrintBody) \cup Ops(on)
      BY <1>2, <2>2, PrintBodyCode, ConcatShape, OpsConcat
    <2> QED
      BY <1>2, <2>2, <2>3, PrintBodyCode DEF Special, on
  <1> HIDE DEF r
  <1>6. "print" \in QuietOps
    BY DEF QuietOps
  <1> QED
    BY <1>1, <1>4, <1>5, <1>6, QuietStep, Zenon

\* A PIT access is done with interrupts off, which its code turns on again.
LEMMA PitAccessKeeps == KernelInv /\ PitAccess => KernelInv'
  <1> SUFFICES ASSUME KernelInv, PitAccess PROVE KernelInv'
    OBVIOUS
  <1> DEFINE r == IF IFlag THEN <<Do("sti")>> ELSE <<>>
  <1>1. /\ At("pit") /\ Replace(r) /\ IFlag' = FALSE
        /\ UNCHANGED <<schedVars, owner, hardware, statics>>
    BY DEF PitAccess
  <1>2. /\ CodeOK(cpu, todo[cpu], IFlag) /\ IFlag \in BOOLEAN /\ todo[cpu] # <<>>
        /\ todo[cpu][1][1] \notin Returning
    BY <1>1, Running DEF At, Returning
  <1>3. r \in Seq(MicroOps) /\ Ops(r) \subseteq {"sti"}
    <2>1. Do("sti") \in MicroOps /\ Do("sti")[1] = "sti"
      BY DoOp DEF OpNames, TaskOps
    <2> QED
      BY <2>1, Code1, EmptyCode
  <1>4. CodeOK(cpu, (<<>> \o r) \o Tail(todo[cpu]), FALSE)
    <2>1. <<>> \in Seq(MicroOps) /\ Ops(<<>>) \subseteq {"lock", "unlock"} /\ WellLocked(<<>>)
      BY EmptyCode
    <2> QED
      BY <1>2, <2>1, MaskedCode, Zenon
  <1> HIDE DEF r
  <1>5. <<>> \o r = r
    BY <1>3, EmptyCode
  <1>6. Ops(r) \cap Special = {} /\ "pit" \in QuietOps
    BY <1>3 DEF Special, QuietOps
  <1> QED
    BY <1>1, <1>3, <1>4, <1>5, <1>6, QuietStep, Zenon

\* sti lets interrupts in, where the code allows it.
LEMMA StiKeeps == KernelInv /\ Sti => KernelInv'
  <1> SUFFICES ASSUME KernelInv, Sti PROVE KernelInv'
    OBVIOUS
  <1>1. /\ At("sti") /\ Replace(<<>>) /\ IFlag' = TRUE
        /\ UNCHANGED <<schedVars, owner, hardware, statics>>
    BY DEF Sti
  <1>2. CodeOK(cpu, Tail(todo[cpu]), TRUE)
    BY <1>1, Running, EnableCode, Zenon DEF At, Enabling
  <1>3. CodeOK(cpu, <<>> \o Tail(todo[cpu]), TRUE)
    BY <1>1, <1>2, PopShape, Zenon
  <1>4. "sti" \in QuietOps
    BY DEF QuietOps
  <1> QED
    BY <1>1, <1>3, <1>4, EmptyCode, QuietStep, Zenon

\* iret goes back to the interrupted code, which still ends as it should.
LEMMA IretKeeps == KernelInv /\ Iret => KernelInv'
  <1> SUFFICES ASSUME KernelInv, Iret PROVE KernelInv'
    OBVIOUS
  <1>1. /\ At("iret") /\ Replace(<<>>) /\ IFlag' = TRUE
        /\ UNCHANGED <<schedVars, owner, hardware, statics>>
    BY DEF Iret
  <1>2. CodeOK(cpu, Tail(todo[cpu]), TRUE)
    BY <1>1, Running, EnableCode, Zenon DEF At, Enabling
  <1>3. CodeOK(cpu, <<>> \o Tail(todo[cpu]), TRUE)
    BY <1>1, <1>2, PopShape, Zenon
  <1>4. "iret" \in QuietOps
    BY DEF QuietOps
  <1> QED
    BY <1>1, <1>3, <1>4, EmptyCode, QuietStep, Zenon

\* An operation is replaced by others that may be executed with interrupts on.
LEMMA PlainStep ==
    ASSUME KernelInv, NEW op \in QuietOps \ Returning, At(op), NEW r \in Seq(MicroOps), Replace(r),
           Ops(r) \subseteq Plain(cpu) \ Special, cpu # BOOT => Ops(r) \subseteq TaskOps,
           UNCHANGED <<schedVars, IFlag, owner, hardware, statics>>
    PROVE  KernelInv'
  <1>1. /\ CodeOK(cpu, todo[cpu], IFlag) /\ IFlag \in BOOLEAN /\ todo[cpu] # <<>>
        /\ todo[cpu][1][1] \notin Returning
    BY Running DEF At
  <1>2. CodeOK(cpu, r \o Tail(todo[cpu]), IFlag)
    BY <1>1, SpliceCode
  <1>3. Ops(r) \cap Special = {} /\ op \in QuietOps
    OBVIOUS
  <1> QED
    BY <1>1, <1>2, <1>3, QuietStep

\* A task executes nothing of the initialisation.
LEMMA OnlyBoot ==
    ASSUME KernelInv, NEW op \in BootOps, At(op)
    PROVE  cpu = BOOT
  <1> SUFFICES ASSUME cpu # BOOT PROVE FALSE
    OBVIOUS
  <1>1. /\ todo[cpu] \in Seq(MicroOps) /\ todo[cpu] # <<>> /\ todo[cpu][1][1] = op
        /\ Ops(todo[cpu]) \subseteq TaskOps
    BY Running DEF At, CodeOK
  <1>2. op \in TaskOps
    BY <1>1, OpsTail
  <1> QED
    BY <1>2 DEF TaskOps, BootOps

\* hlt stops the processor until an interrupt comes.
LEMMA HltKeeps == KernelInv /\ Hlt => KernelInv'
  <1> SUFFICES ASSUME KernelInv, Hlt PROVE KernelInv'
    OBVIOUS
  <1> DEFINE r == <<Do("halted")>>
  <1>1. /\ At("hlt") /\ Replace(r) /\ UNCHANGED <<schedVars, IFlag, owner, hardware, statics>>
    BY DEF Hlt
  <1>2. r \in Seq(MicroOps) /\ Ops(r) = {"halted"}
    <2>1. Do("halted") \in MicroOps /\ Do("halted")[1] = "halted"
      BY DoOp DEF OpNames, TaskOps
    <2> QED
      BY <2>1, Code1
  <1> HIDE DEF r
  <1>3. /\ Ops(r) \subseteq Plain(cpu) \ Special /\ Ops(r) \subseteq TaskOps
        /\ "hlt" \in QuietOps \ Returning
    BY <1>2 DEF Plain, Special, TaskOps, QuietOps, Returning, OpNames, Enabling, Masked
  <1> QED
    BY <1>1, <1>2, <1>3, PlainStep

\* The calibration waits for its interrupt in a loop of its own.
LEMMA WaitTriggeredKeeps == KernelInv /\ WaitTriggered => KernelInv'
  <1> SUFFICES ASSUME KernelInv, WaitTriggered PROVE KernelInv'
    OBVIOUS
  <1> DEFINE r == IF TRIGGERED_ONCE THEN <<>> ELSE <<Do("hlt"), Do("wait_triggered")>>
  <1>1. /\ At("wait_triggered") /\ Replace(r)
        /\ UNCHANGED <<schedVars, IFlag, owner, hardware, statics>>
    BY DEF WaitTriggered
  <1>2. r \in Seq(MicroOps) /\ Ops(r) \subseteq {"hlt", "wait_triggered"}
    <2>1. /\ Do("hlt") \in MicroOps /\ Do("hlt")[1] = "hlt"
          /\ Do("wait_triggered") \in MicroOps /\ Do("wait_triggered")[1] = "wait_triggered"
      BY DoOp DEF OpNames, TaskOps, BootOps
    <2> QED
      BY <2>1, Code2, EmptyCode
  <1> HIDE DEF r
  <1>3. cpu = BOOT
    BY <1>1, OnlyBoot DEF BootOps
  <1>4. Ops(r) \subseteq Plain(cpu) \ Special /\ "wait_triggered" \in QuietOps \ Returning
    BY <1>2 DEF Plain, Special, TaskOps, BootOps, QuietOps, Returning, OpNames, Enabling, Masked
  <1> QED
    BY <1>1, <1>2, <1>3, <1>4, PlainStep

\* Computing the frequency goes on, or panics.
LEMMA ComputeFrequencyKeeps == KernelInv /\ ComputeFrequency => KernelInv'
  <1> SUFFICES ASSUME KernelInv, ComputeFrequency PROVE KernelInv'
    OBVIOUS
  <1>1. PICK r \in {<<>>, Panic} : Replace(r)
    BY DEF ComputeFrequency
  <1>2. At("frequency") /\ UNCHANGED <<schedVars, IFlag, owner, hardware, statics>>
    BY DEF ComputeFrequency
  <1>3. r \in Seq(MicroOps) /\ Ops(r) \subseteq {"print", "die"}
    BY EmptyCode, PanicCode, Zenon
  <1>4. /\ Ops(r) \subseteq Plain(cpu) \ Special /\ Ops(r) \subseteq TaskOps
        /\ "frequency" \in QuietOps \ Returning
    BY <1>3 DEF Plain, Special, TaskOps, QuietOps, Returning, OpNames, Enabling, Masked
  <1> QED
    BY <1>1, <1>2, <1>3, <1>4, PlainStep

\* What may panic panics, or has no effect here.
LEMMA OrPanicKeeps == KernelInv /\ OrPanic => KernelInv'
  <1> SUFFICES ASSUME KernelInv, OrPanic PROVE KernelInv'
    OBVIOUS
  <1>1. PICK r \in {<<>>, Panic} : Replace(r)
    BY DEF OrPanic
  <1>2. At("or_panic") /\ UNCHANGED <<schedVars, IFlag, owner, hardware, statics>>
    BY DEF OrPanic
  <1>3. r \in Seq(MicroOps) /\ Ops(r) \subseteq {"print", "die"}
    BY EmptyCode, PanicCode, Zenon
  <1>4. /\ Ops(r) \subseteq Plain(cpu) \ Special /\ Ops(r) \subseteq TaskOps
        /\ "or_panic" \in QuietOps \ Returning
    BY <1>3 DEF Plain, Special, TaskOps, QuietOps, Returning, OpNames, Enabling, Masked
  <1> QED
    BY <1>1, <1>2, <1>3, <1>4, PlainStep

\* A switch that cannot be made panics with interrupts off.
LEMMA SwitchPanicsKeeps == KernelInv /\ SwitchPanics => KernelInv'
  <1> SUFFICES ASSUME KernelInv, SwitchPanics PROVE KernelInv'
    OBVIOUS
  <1>1. /\ At("switch") /\ Replace(Panic)
        /\ UNCHANGED <<schedVars, IFlag, owner, hardware, statics>>
    BY DEF SwitchPanics
  <1>2. Panic \in Seq(MicroOps) /\ Ops(Panic) = {"print", "die"}
    BY PanicCode
  <1>3. /\ Ops(Panic) \subseteq Plain(cpu) /\ Ops(Panic) \subseteq TaskOps
        /\ Ops(Panic) \cap Special = {} /\ "die" \in Ops(Panic) /\ "switch" \in QuietOps
    BY <1>2 DEF Plain, Special, TaskOps, QuietOps, OpNames, Enabling, Masked
  <1>4. CodeOK(cpu, todo[cpu], IFlag) /\ IFlag \in BOOLEAN /\ todo[cpu] # <<>>
    BY <1>1, Running DEF At
  <1>5. CodeOK(cpu, Panic \o Tail(todo[cpu]), IFlag)
    BY <1>2, <1>3, <1>4, SpliceCode, Zenon
  <1> QED
    BY <1>1, <1>2, <1>3, <1>4, <1>5, QuietStep, Zenon

\* The first use of SCHEDULER runs its initializer, later ones do not.
LEMMA DerefSchedulerKeeps == KernelInv /\ DerefScheduler => KernelInv'
  <1> SUFFICES ASSUME KernelInv, DerefScheduler PROVE KernelInv'
    OBVIOUS
  <1> DEFINE r == IF "SCHEDULER" \in made THEN <<>> ELSE MakeScheduler
  <1>1. /\ At("deref_scheduler") /\ Replace(r)
        /\ UNCHANGED <<schedVars, IFlag, owner, hardware, statics>>
    BY DEF DerefScheduler
  <1>2. r \in Seq(MicroOps) /\ Ops(r) \subseteq {"lock", "unlock", "or_panic", "scheduler_made"}
    BY EmptyCode, MakeSchedulerCode
  <1> HIDE DEF r
  <1>3. cpu = BOOT
    BY <1>1, OnlyBoot DEF BootOps
  <1>4. Ops(r) \subseteq Plain(cpu) \ Special /\ "deref_scheduler" \in QuietOps \ Returning
    BY <1>2, <1>3 DEF Plain, Special, TaskOps, BootOps, QuietOps, Returning, OpNames, Enabling,
       Masked
  <1> QED
    BY <1>1, <1>2, <1>3, <1>4, PlainStep

\* int 0x80 puts syscall_handler before the rest of the task.
LEMMA Int80Keeps == KernelInv /\ Int80 => KernelInv'
  <1> SUFFICES ASSUME KernelInv, Int80 PROVE KernelInv'
    OBVIOUS
  <1> DEFINE r == SyscallHandler(kind[cpu])
  <1>1. /\ At("int80") /\ Replace(r) /\ IFlag' = FALSE
        /\ UNCHANGED <<schedVars, owner, hardware, statics>>
    BY DEF Int80
  <1>2. kind[cpu] \in {"write", "badfd", "nosys"}
    <2>1. todo[cpu] \in Seq(MicroOps) /\ todo[cpu] # <<>> /\ todo[cpu][1][1] = "int80"
      BY <1>1, Running DEF At
    <2>2. "int80" \in Ops(todo[cpu])
      BY <2>1, OpsTail
    <2> QED
      BY <2>2, Running DEF KernelInv, Calls
  <1>3. /\ CodeOK(cpu, r, FALSE)
        /\ Ops(r) \subseteq {"lock", "unlock", "or_panic", "print", "die",
                             "end_of_interrupt", "sti", "iret"}
    BY <1>2, SyscallCode, Zenon
  <1> HIDE DEF r
  <1>4. Tail(todo[cpu]) = <<>>
    BY <1>1, Running, NothingBehind DEF At
  <1>5. r \in Seq(MicroOps)
    BY <1>3 DEF CodeOK
  <1>6. r \o Tail(todo[cpu]) = r
    BY <1>4, <1>5, EmptyCode
  <1>7. Ops(r) \cap Special = {} /\ "int80" \in QuietOps
    BY <1>3 DEF Special, QuietOps
  <1> QED
    BY <1>1, <1>3, <1>5, <1>6, <1>7, QuietStep, Zenon

\* A fault puts the exception handler before the rest of the task.
LEMMA ExceptionKeeps == KernelInv /\ Exception => KernelInv'
  <1> SUFFICES ASSUME KernelInv, Exception PROVE KernelInv'
    OBVIOUS
  <1>1. PICK r \in ExceptionHandlers : Replace(r)
    BY DEF Exception
  <1>2. /\ At("exception") /\ IFlag' = FALSE /\ UNCHANGED <<schedVars, owner, hardware, statics>>
    BY DEF Exception
  <1>3. CodeOK(cpu, r, FALSE) /\ Ops(r) = {"print", "die"}
    BY ExceptionCode, Zenon
  <1>4. Tail(todo[cpu]) = <<>>
    BY <1>2, Running, NothingBehind DEF At
  <1>5. r \in Seq(MicroOps)
    BY <1>3 DEF CodeOK
  <1>6. r \o Tail(todo[cpu]) = r
    BY <1>4, <1>5, EmptyCode, Zenon
  <1>7. Ops(r) \cap Special = {} /\ "exception" \in QuietOps
    BY <1>3 DEF Special, QuietOps
  <1> QED
    BY <1>1, <1>2, <1>3, <1>5, <1>6, <1>7, QuietStep, Zenon

\* The scheduler's variables stay as they are.
LEMMA SchedStays ==
    ASSUME SchedInv, UNCHANGED schedVars
    PROVE  SchedInv'
  BY DEF schedVars, SchedInv, SchedTypeOK, TasksConserved, CpuAgreesWithTask, FramesAreOwn,
         Queued

\* So their types do.
LEMMA SchedTyped ==
    ASSUME KernelInv, UNCHANGED schedVars
    PROVE  SchedTypeOK'
  BY DEF KernelInv, KernelTypeOK, SchedTypeOK, schedVars

\* An operation is done with, and what it changed is in order.
LEMMA PopStep ==
    ASSUME KernelInv, NEW op, At(op), Replace(<<>>),
           op \notin {"switch", "lapic_replace", "die", "end_of_interrupt"},
           UNCHANGED <<schedVars, IDT33, LAPIC, pic_isr, kind>>,
           KernelTypeOK', Held',
           CodeOK(cpu, Tail(todo[cpu]), IFlag'),
           armed \/ irr \/ op = "start_timer_one_shot" => armed' \/ irr',
           isr' => isr /\ op # "lapic_eoi",
           ~LAPIC => ~armed' /\ ~irr' /\ ~isr' /\ ~lapic_on'
    PROVE  KernelInv'
  <1> USE DEF schedVars
  <1>1. <<>> \in Seq(MicroOps) /\ Ops(<<>>) = {} /\ Ops(<<>>) \cap Special = {}
    BY EmptyCode
  <1>2. <<>> \o Tail(todo[cpu]) = Tail(todo[cpu])
    BY PopShape
  <1>3. /\ Edit(Tail(todo[cpu])) /\ Ops(todo[cpu]) = {op} \cup Ops(Tail(todo[cpu]))
    BY <1>1, <1>2, SpliceShape, Zenon
  <1>4. SchedInv'
    BY SchedStays DEF KernelInv
  <1>5. Code'
    <2>1. IFlag' \in BOOLEAN
      BY DEF KernelTypeOK
    <2> QED
      BY <1>3, <2>1, EditCode
  <1>6. Calls'
    BY <1>3, EditCalls
  <1>7. BootOrder'
    BY <1>1, BootSplice, Zenon
  <1>8. TimerRuns'
    BY <1>1, TimerSplice, Zenon
  <1>9. PicServed'
    BY <1>1, PicSplice, Running, Zenon
  <1> QED
    BY <1>4, <1>5, <1>6, <1>7, <1>8, <1>9 DEF KernelInv

\* The running context holds no lock and the locks stay as they are.
LEMMA HeldStays ==
    ASSUME KernelInv, NEW op, At(op), op \notin {"lock", "unlock"}, UNCHANGED owner
    PROVE  Held'
  <1>1. \A l \in Locks : owner[l] \in {None, BOOT}
    BY NothingHeld DEF At
  <1> QED
    BY <1>1 DEF Held

\* Without a local APIC its timer is off.
LEMMA NoApicNoTimer ==
    ASSUME KernelInv
    PROVE  ~LAPIC => ~armed /\ ~irr /\ ~isr /\ ~lapic_on
  BY DEF KernelInv, BootOrder

\* A pop leaves the domain of todo alone.
LEMMA ReplaceDomain ==
    ASSUME KernelInv, NEW r, Replace(r)
    PROVE  DOMAIN todo' = Threads
  BY ReplaceIsEdit, EditShape

\* Popped code, for an operation that does not turn interrupts on.
LEMMA PoppedCode ==
    ASSUME KernelInv, NEW op, At(op), op \notin Returning, Replace(<<>>)
    PROVE  CodeOK(cpu, Tail(todo[cpu]), IFlag)
  BY PopCode, PopShape

\* pic::disable masks the IRQs.
LEMMA PicDisableKeeps == KernelInv /\ PicDisable => KernelInv'
  <1> SUFFICES ASSUME KernelInv, PicDisable PROVE KernelInv'
    OBVIOUS
  <1> USE DEF statics
  <1>1. /\ At("pic_disable") /\ Replace(<<>>) /\ pic' = "masked"
        /\ UNCHANGED <<schedVars, IFlag, owner, lapic_on, armed, irr, isr, pic_isr, statics>>
    BY DEF PicDisable
  <1>2. CodeOK(cpu, Tail(todo[cpu]), IFlag)
    BY <1>1, PoppedCode DEF Returning
  <1>3. KernelTypeOK'
    <2>1. DOMAIN todo' = Threads
      BY <1>1, ReplaceDomain
    <2>2. SchedTypeOK'
      BY <1>1, SchedTyped
    <2>3. KernelTypeOK
      BY DEF KernelInv
    <2> QED
      BY <1>1, <2>1, <2>2, <2>3 DEF KernelTypeOK
  <1>4. Held'
    BY <1>1, HeldStays
  <1> QED
    BY <1>1, <1>2, <1>3, <1>4, NoApicNoTimer, PopStep

\* The configuration handler notes that it ran.
LEMMA SetTriggeredKeeps == KernelInv /\ SetTriggered => KernelInv'
  <1> SUFFICES ASSUME KernelInv, SetTriggered PROVE KernelInv'
    OBVIOUS
  <1> USE DEF hardware
  <1>1. /\ At("set_triggered") /\ Replace(<<>>) /\ TRIGGERED_ONCE' = TRUE
        /\ UNCHANGED <<schedVars, IFlag, owner, hardware, LAPIC, IDT33, INITIALIZED, made, kind>>
    BY DEF SetTriggered
  <1>2. CodeOK(cpu, Tail(todo[cpu]), IFlag)
    BY <1>1, PoppedCode DEF Returning
  <1>3. KernelTypeOK'
    <2>1. DOMAIN todo' = Threads
      BY <1>1, ReplaceDomain
    <2>2. SchedTypeOK'
      BY <1>1, SchedTyped
    <2>3. KernelTypeOK
      BY DEF KernelInv
    <2> QED
      BY <1>1, <2>1, <2>2, <2>3 DEF KernelTypeOK
  <1>4. Held'
    BY <1>1, HeldStays
  <1> QED
    BY <1>1, <1>2, <1>3, <1>4, NoApicNoTimer, PopStep

\* The initializer of SCHEDULER ends.
LEMMA SchedulerMadeKeeps == KernelInv /\ SchedulerMade => KernelInv'
  <1> SUFFICES ASSUME KernelInv, SchedulerMade PROVE KernelInv'
    OBVIOUS
  <1> USE DEF hardware
  <1>1. /\ At("scheduler_made") /\ Replace(<<>>) /\ made' = made \cup {"SCHEDULER"}
        /\ UNCHANGED <<schedVars, IFlag, owner, hardware, LAPIC, IDT33, TRIGGERED_ONCE,
                       INITIALIZED, kind>>
    BY DEF SchedulerMade
  <1>2. CodeOK(cpu, Tail(todo[cpu]), IFlag)
    BY <1>1, PoppedCode DEF Returning
  <1>3. KernelTypeOK'
    <2>1. DOMAIN todo' = Threads
      BY <1>1, ReplaceDomain
    <2>2. SchedTypeOK'
      BY <1>1, SchedTyped
    <2>3. KernelTypeOK
      BY DEF KernelInv
    <2> QED
      BY <1>1, <2>1, <2>2, <2>3 DEF KernelTypeOK
  <1>4. Held'
    BY <1>1, HeldStays
  <1> QED
    BY <1>1, <1>2, <1>3, <1>4, NoApicNoTimer, PopStep

\* Shell::init ends.
LEMMA ShellInitializedKeeps == KernelInv /\ ShellInitialized => KernelInv'
  <1> SUFFICES ASSUME KernelInv, ShellInitialized PROVE KernelInv'
    OBVIOUS
  <1> USE DEF hardware
  <1>1. /\ At("shell_initialized") /\ Replace(<<>>) /\ INITIALIZED' = TRUE
        /\ UNCHANGED <<schedVars, IFlag, owner, hardware, LAPIC, IDT33, TRIGGERED_ONCE,
                       made, kind>>
    BY DEF ShellInitialized
  <1>2. CodeOK(cpu, Tail(todo[cpu]), IFlag)
    BY <1>1, PoppedCode DEF Returning
  <1>3. KernelTypeOK'
    <2>1. DOMAIN todo' = Threads
      BY <1>1, ReplaceDomain
    <2>2. SchedTypeOK'
      BY <1>1, SchedTyped
    <2>3. KernelTypeOK
      BY DEF KernelInv
    <2> QED
      BY <1>1, <2>1, <2>2, <2>3 DEF KernelTypeOK
  <1>4. Held'
    BY <1>1, HeldStays
  <1> QED
    BY <1>1, <1>2, <1>3, <1>4, NoApicNoTimer, PopStep

\* An end of interrupt lets the local APIC deliver the next one.
LEMMA LapicEoiKeeps == KernelInv /\ LapicEoi => KernelInv'
  <1> SUFFICES ASSUME KernelInv, LapicEoi PROVE KernelInv'
    OBVIOUS
  <1> USE DEF statics
  <1>1. /\ At("lapic_eoi") /\ Replace(<<>>) /\ isr' = FALSE
        /\ UNCHANGED <<schedVars, IFlag, owner, lapic_on, armed, irr, pic, pic_isr, statics>>
    BY DEF LapicEoi
  <1>2. CodeOK(cpu, Tail(todo[cpu]), IFlag)
    BY <1>1, PoppedCode DEF Returning
  <1>3. KernelTypeOK'
    <2>1. DOMAIN todo' = Threads
      BY <1>1, ReplaceDomain
    <2>2. SchedTypeOK'
      BY <1>1, SchedTyped
    <2>3. KernelTypeOK
      BY DEF KernelInv
    <2> QED
      BY <1>1, <2>1, <2>2, <2>3, Zenon DEF KernelTypeOK
  <1>4. Held'
    BY <1>1, HeldStays
  <1> QED
    BY <1>1, <1>2, <1>3, <1>4, NoApicNoTimer, PopStep

\* The timer is started and the local APIC enabled only once there is one.
LEMMA ApicFirst ==
    ASSUME KernelInv,
           NEW op \in {"lapic_enable", "install_scheduler", "start_timer_one_shot"}, At(op)
    PROVE  LAPIC
  <1> DEFINE X == {"lapic_enable", "install_scheduler", "start_timer_one_shot"}
  <1> SUFFICES ASSUME ~LAPIC PROVE FALSE
    OBVIOUS
  <1>1. cpu = BOOT /\ EachAfter(todo[cpu], {"lapic_replace"}, X)
    BY DEF KernelInv, BootOrder
  <1>2. todo[cpu] \in Seq(MicroOps) /\ todo[cpu] # <<>> /\ todo[cpu][1][1] \in X
    BY Running DEF At
  <1> HIDE DEF X
  <1> QED
    BY <1>1, <1>2, EachAfterTail

\* Arming the timer means that a tick comes.
LEMMA StartTimerOneShotKeeps == KernelInv /\ StartTimerOneShot => KernelInv'
  <1> SUFFICES ASSUME KernelInv, StartTimerOneShot PROVE KernelInv'
    OBVIOUS
  <1> USE DEF statics
  <1>1. /\ At("start_timer_one_shot") /\ Replace(<<>>) /\ armed' = TRUE
        /\ UNCHANGED <<schedVars, IFlag, owner, lapic_on, irr, isr, pic, pic_isr, statics>>
    BY DEF StartTimerOneShot
  <1>2. CodeOK(cpu, Tail(todo[cpu]), IFlag)
    BY <1>1, PoppedCode DEF Returning
  <1>3. KernelTypeOK'
    <2>1. DOMAIN todo' = Threads
      BY <1>1, ReplaceDomain
    <2>2. SchedTypeOK'
      BY <1>1, SchedTyped
    <2>3. KernelTypeOK
      BY DEF KernelInv
    <2> QED
      BY <1>1, <2>1, <2>2, <2>3 DEF KernelTypeOK
  <1>4. Held'
    BY <1>1, HeldStays
  <1>5. LAPIC
    BY <1>1, ApicFirst
  <1> QED
    BY <1>1, <1>2, <1>3, <1>4, <1>5, PopStep

\* Enabling the local APIC starts the count of the calibration.
LEMMA LapicEnableKeeps == KernelInv /\ LapicEnable => KernelInv'
  <1> SUFFICES ASSUME KernelInv, LapicEnable PROVE KernelInv'
    OBVIOUS
  <1> USE DEF statics
  <1>1. /\ At("lapic_enable") /\ Replace(<<>>) /\ lapic_on' = TRUE /\ armed' = TRUE
        /\ UNCHANGED <<schedVars, IFlag, owner, irr, isr, pic, pic_isr, statics>>
    BY DEF LapicEnable
  <1>2. CodeOK(cpu, Tail(todo[cpu]), IFlag)
    BY <1>1, PoppedCode DEF Returning
  <1>3. KernelTypeOK'
    <2>1. DOMAIN todo' = Threads
      BY <1>1, ReplaceDomain
    <2>2. SchedTypeOK'
      BY <1>1, SchedTyped
    <2>3. KernelTypeOK
      BY DEF KernelInv
    <2> QED
      BY <1>1, <2>1, <2>2, <2>3 DEF KernelTypeOK
  <1>4. Held'
    BY <1>1, HeldStays
  <1>5. LAPIC
    BY <1>1, ApicFirst
  <1> QED
    BY <1>1, <1>2, <1>3, <1>4, <1>5, PopStep

\* LeafOS::init turns the PICs on and lets interrupts in.
LEMMA InitStepKeeps == KernelInv /\ InitStep => KernelInv'
  <1> SUFFICES ASSUME KernelInv, InitStep PROVE KernelInv'
    OBVIOUS
  <1> USE DEF statics
  <1>1. /\ At("init") /\ Replace(<<>>) /\ pic' = "on" /\ IFlag' = TRUE
        /\ UNCHANGED <<schedVars, owner, lapic_on, armed, irr, isr, pic_isr, statics>>
    BY DEF InitStep
  <1>2. CodeOK(cpu, Tail(todo[cpu]), TRUE)
    BY <1>1, Running, EnableCode, Zenon DEF At, Enabling
  <1>3. KernelTypeOK'
    <2>1. DOMAIN todo' = Threads
      BY <1>1, ReplaceDomain
    <2>2. SchedTypeOK'
      BY <1>1, SchedTyped
    <2>3. KernelTypeOK
      BY DEF KernelInv
    <2> QED
      BY <1>1, <2>1, <2>2, <2>3 DEF KernelTypeOK
  <1>4. Held'
    BY <1>1, HeldStays
  <1> QED
    BY <1>1, <1>2, <1>3, <1>4, NoApicNoTimer, PopStep, Zenon

\* The locks change and nothing else of the types.
LEMMA OwnerTyped ==
    ASSUME KernelTypeOK, UNCHANGED <<schedVars, IFlag, hardware, statics>>,
           DOMAIN todo' = Threads, owner' \in [Locks -> Threads \cup {None}]
    PROVE  KernelTypeOK'
  <1>1. SchedTypeOK'
    BY DEF KernelTypeOK, SchedTypeOK, schedVars
  <1> QED
    BY <1>1 DEF KernelTypeOK, hardware, statics

\* What pops and what it leaves of the code.
LEMMA PopLeaves ==
    ASSUME KernelInv, NEW op, At(op), Replace(<<>>)
    PROVE  /\ todo[cpu] \in Seq(MicroOps) /\ todo[cpu] # <<>> /\ todo[cpu][1] \in MicroOps
           /\ todo'[cpu] = Tail(todo[cpu])
           /\ \A c \in Threads : c # cpu => todo'[c] = todo[c]
  <1>1. todo[cpu] \in Seq(MicroOps) /\ todo[cpu] # <<>>
    BY Running DEF At
  <1>2. Edit(Tail(todo[cpu]))
    BY ReplaceIsEdit, PopShape, Zenon
  <1>3. todo'[cpu] = Tail(todo[cpu]) /\ \A c \in Threads : c # cpu => todo'[c] = todo[c]
    BY <1>2, EditShape, Zenon
  <1> QED
    BY <1>1, <1>3

\* A lock is taken or given back, and the running context is about to give
\* back what a task holds then.
LEMMA LockStep ==
    ASSUME KernelInv, NEW op \in {"lock", "unlock"}, At(op), Replace(<<>>),
           UNCHANGED <<schedVars, IFlag, hardware, statics>>,
           owner' \in [Locks -> Threads \cup {None}],
           \A l \in Locks : owner'[l] \notin {None, BOOT} =>
               owner'[l] = cpu /\ Releases(Tail(todo[cpu]), l)
    PROVE  KernelInv'
  <1>1. CodeOK(cpu, Tail(todo[cpu]), IFlag)
    BY PoppedCode DEF Returning
  <1>2. KernelTypeOK'
    BY ReplaceDomain, OwnerTyped DEF KernelInv
  <1>3. cpu' = cpu /\ IFlag' = IFlag
    BY DEF schedVars
  <1>4. Held'
    BY <1>3, PopLeaves DEF Held
  <1>5. UNCHANGED <<schedVars, IDT33, LAPIC, pic_isr, kind>>
    BY DEF hardware, statics
  <1>6. UNCHANGED <<armed, irr, isr, lapic_on>>
    BY DEF hardware
  <1>7. /\ armed \/ irr \/ op = "start_timer_one_shot" => armed' \/ irr'
        /\ isr' => isr /\ op # "lapic_eoi"
        /\ ~LAPIC => ~armed' /\ ~irr' /\ ~isr' /\ ~lapic_on'
    BY <1>6, NoApicNoTimer
  <1>8. op \notin {"switch", "lapic_replace", "die", "end_of_interrupt"}
    OBVIOUS
  <1> QED
    BY <1>1, <1>2, <1>3, <1>4, <1>5, <1>7, <1>8, PopStep

\* A task takes a lock only if its code gives it back right away.
LEMMA AcquireLockKeeps == KernelInv /\ AcquireLock => KernelInv'
  <1> SUFFICES ASSUME KernelInv, AcquireLock PROVE KernelInv'
    OBVIOUS
  <1> DEFINE s == todo[cpu]
             x == s[1][2]
  <1>1. At("lock") /\ Replace(<<>>)
    BY DEF AcquireLock
  <1>2. UNCHANGED <<schedVars, IFlag, hardware, statics>>
    BY DEF AcquireLock
  <1>3. owner' = [owner EXCEPT ![x] = cpu]
    BY DEF AcquireLock
  <1>4. s \in Seq(MicroOps) /\ s # <<>> /\ s[1] \in MicroOps /\ s[1][1] = "lock"
    BY <1>1, PopLeaves DEF At
  <1>5. owner \in [Locks -> Threads \cup {None}] /\ cpu \in Threads
    BY Running DEF KernelInv, KernelTypeOK
  <1>6. cpu # BOOT => WellLocked(s)
    BY Running DEF CodeOK
  <1>7. Held
    BY DEF KernelInv
  <1>8. \A l \in Locks : owner[l] \notin {None, BOOT} => owner[l] = cpu /\ Releases(s, l)
    BY <1>7 DEF Held
  <1> HIDE DEF s
  <1>9. owner' \in [Locks -> Threads \cup {None}]
    BY <1>3, <1>5, Zenon
  <1>10. ASSUME NEW l \in Locks, owner'[l] \notin {None, BOOT}
         PROVE  owner'[l] = cpu /\ Releases(Tail(s), l)
    <2>1. CASE l = x
      <3>1. owner'[l] = cpu
        BY <1>3, <1>5, <2>1
      <3>2. WellLocked(s)
        BY <1>6, <1>10, <3>1
      <3>3. s[1] = Lock(l)
        BY <1>4, <2>1 DEF MicroOps, Lock
      <3> QED
        BY <1>4, <3>1, <3>2, <3>3, WellLockedTail
    <2>2. CASE l # x
      <3>1. owner'[l] = owner[l]
        BY <1>3, <1>5, <2>2
      <3>2. owner[l] = cpu /\ Releases(s, l)
        BY <1>8, <1>10, <3>1
      <3>3. s[1] # Unlock(l)
        BY <1>4 DEF Unlock
      <3> QED
        BY <1>4, <3>1, <3>2, <3>3, ReleasesTail
    <2> QED
      BY <2>1, <2>2
  <1> QED
    BY <1>1, <1>2, <1>9, <1>10, LockStep DEF s

\* A lock that was given back is not held any more; the others still are.
LEMMA ReleaseLockKeeps == KernelInv /\ ReleaseLock => KernelInv'
  <1> SUFFICES ASSUME KernelInv, ReleaseLock PROVE KernelInv'
    OBVIOUS
  <1> DEFINE s == todo[cpu]
             x == s[1][2]
  <1>1. At("unlock") /\ Replace(<<>>)
    BY DEF ReleaseLock
  <1>2. UNCHANGED <<schedVars, IFlag, hardware, statics>>
    BY DEF ReleaseLock
  <1>3. owner' = [owner EXCEPT ![x] = None]
    BY DEF ReleaseLock
  <1>4. s \in Seq(MicroOps) /\ s # <<>> /\ s[1] \in MicroOps
    BY <1>1, PopLeaves
  <1>5. owner \in [Locks -> Threads \cup {None}]
    BY DEF KernelInv, KernelTypeOK
  <1>6. Held
    BY DEF KernelInv
  <1>7. \A l \in Locks : owner[l] \notin {None, BOOT} => owner[l] = cpu /\ Releases(s, l)
    BY <1>6 DEF Held
  <1> HIDE DEF s
  <1>8. owner' \in [Locks -> Threads \cup {None}]
    BY <1>3, <1>5, Zenon
  <1>9. ASSUME NEW l \in Locks, owner'[l] \notin {None, BOOT}
        PROVE  owner'[l] = cpu /\ Releases(Tail(s), l)
    <2>1. l # x /\ owner'[l] = owner[l]
      BY <1>3, <1>5, <1>9
    <2>2. owner[l] = cpu /\ Releases(s, l)
      BY <1>7, <1>9, <2>1
    <2>3. s[1] # Unlock(l)
      BY <2>1 DEF Unlock
    <2> QED
      BY <1>4, <2>1, <2>2, <2>3, ReleasesTail
  <1> QED
    BY <1>1, <1>2, <1>8, <1>9, LockStep DEF s

\* Once LAPIC has been replaced, what was said of the time before is over.
LEMMA LapicReplaceKeeps == KernelInv /\ LapicReplace => KernelInv'
  <1> SUFFICES ASSUME KernelInv, LapicReplace PROVE KernelInv'
    OBVIOUS
  <1> USE DEF hardware
  <1> DEFINE s == todo[cpu]
             t == Tail(s)
             IS == {"install_scheduler", "start_timer_one_shot"}
             I == {"install_scheduler"}
  <1>1. At("lapic_replace") /\ Replace(<<>>)
    BY DEF LapicReplace
  <1>1a. /\ LAPIC' = TRUE
         /\ UNCHANGED <<schedVars, IFlag, owner, hardware, IDT33, TRIGGERED_ONCE, INITIALIZED,
                        made, kind>>
    BY DEF LapicReplace
  <1>1b. UNCHANGED <<cpu, task_id>>
    BY <1>1a DEF schedVars
  <1>2. <<>> \in Seq(MicroOps) /\ Ops(<<>>) = {} /\ Ops(<<>>) \cap Special = {} /\ <<>> \o t = t
    BY <1>1, EmptyCode, PopShape
  <1>3. /\ s \in Seq(MicroOps) /\ s # <<>> /\ s[1][1] = "lapic_replace"
        /\ t \in Seq(MicroOps) /\ Ops(s) = {"lapic_replace"} \cup Ops(t)
        /\ Edit(t) /\ todo'[cpu] = t
        /\ \A c \in Threads : c # cpu => todo'[c] = todo[c]
    BY <1>1, <1>2, SpliceShape, Zenon
  <1>4. cpu = BOOT
    BY <1>1, OnlyBoot DEF BootOps
  <1>5. SchedInv'
    BY <1>1a, SchedStays DEF KernelInv
  <1>6. KernelTypeOK'
    <2>1. DOMAIN todo' = Threads
      BY <1>1, ReplaceDomain
    <2>2. SchedTypeOK'
      BY <1>1a, SchedTyped
    <2>3. KernelTypeOK
      BY DEF KernelInv
    <2> QED
      BY <1>1a, <2>1, <2>2, <2>3 DEF KernelTypeOK
  <1>7. Code'
    <2>1. CodeOK(cpu, t, IFlag)
      BY <1>1, PoppedCode DEF Returning
    <2> QED
      BY <1>1a, <1>1b, <1>3, <2>1, Running, EditCode
  <1>8. Calls'
    <2>1. "int80" \in Ops(t) => "int80" \in Ops(s)
      BY <1>3
    <2> QED
      BY <1>1a, <1>1b, <1>3, <2>1, EditCalls
  <1>9. BootOrder'
    <2>1. /\ NoneBefore(s, IS, I)
          /\ "install_scheduler" \in Ops(s) => "start_timer_one_shot" \in Ops(s)
          /\ IDT33 = "sched" => LAPIC /\ "install_scheduler" \notin Ops(s)
          /\ \A c \in Threads : "switch" \in Ops(todo[c]) => IDT33 = "sched"
      BY <1>4 DEF KernelInv, BootOrder
    <2>2. NoneBefore(t, IS, I)
      BY <1>3, <2>1, NoneBeforeTail
    <2> HIDE DEF s, t
    <2>3. \A c \in Threads : "switch" \in Ops(todo'[c]) => IDT33 = "sched"
      BY <1>3, <2>1 DEF s
    <2> QED
      BY <1>1a, <1>1b, <1>3, <1>4, <2>1, <2>2, <2>3 DEF BootOrder
  <1>10. TimerRuns'
    <2>1. <<>> \in Seq(MicroOps) /\ Ops(<<>>) \cap Special = {}
      BY <1>2
    <2>2. At("lapic_replace") /\ Replace(<<>>) /\ UNCHANGED <<cpu, IDT33, armed, irr, isr>>
      BY <1>1, <1>1a, <1>1b
    <2>3. /\ armed \/ irr \/ "lapic_replace" = "start_timer_one_shot" => armed' \/ irr'
          /\ isr' => isr /\ "lapic_replace" # "lapic_eoi"
          /\ "lapic_replace" # "switch"
      BY <2>2
    <2> QED
      BY <2>1, <2>2, <2>3, TimerSplice, Zenon
  <1>11. PicServed'
    BY <1>1a DEF PicServed
  <1>12. Held'
    BY <1>1, <1>1a, HeldStays
  <1> QED
    BY <1>5, <1>6, <1>7, <1>8, <1>9, <1>10, <1>11, <1>12 DEF KernelInv

\* When the scheduler's handler is installed the timer is about to be started.
LEMMA InstallSchedulerKeeps == KernelInv /\ InstallScheduler => KernelInv'
  <1> SUFFICES ASSUME KernelInv, InstallScheduler PROVE KernelInv'
    OBVIOUS
  <1> USE DEF hardware
  <1> DEFINE s == todo[cpu]
             t == Tail(s)
             IS == {"install_scheduler", "start_timer_one_shot"}
             I == {"install_scheduler"}
             ST == {"start_timer_one_shot"}
             SW == {"switch"}
  <1>1. At("install_scheduler") /\ Replace(<<>>)
    BY DEF InstallScheduler
  <1>1a. /\ IDT33' = "sched"
         /\ UNCHANGED <<schedVars, IFlag, owner, hardware, LAPIC, TRIGGERED_ONCE, INITIALIZED,
                        made, kind>>
    BY DEF InstallScheduler
  <1>1b. UNCHANGED <<cpu, task_id>>
    BY <1>1a DEF schedVars
  <1>2. <<>> \in Seq(MicroOps) /\ Ops(<<>>) = {} /\ <<>> \o t = t
    BY <1>1, EmptyCode, PopShape
  <1>3. /\ s \in Seq(MicroOps) /\ s # <<>> /\ s[1][1] = "install_scheduler"
        /\ t \in Seq(MicroOps) /\ Ops(s) = {"install_scheduler"} \cup Ops(t)
        /\ Edit(t) /\ todo'[cpu] = t
        /\ \A c \in Threads : c # cpu => todo'[c] = todo[c]
    BY <1>1, <1>2, SpliceShape, Zenon
  <1>4. cpu = BOOT /\ LAPIC
    BY <1>1, OnlyBoot, ApicFirst DEF BootOps
  <1>5. SchedInv'
    BY <1>1a, SchedStays DEF KernelInv
  <1>6. KernelTypeOK'
    <2>1. DOMAIN todo' = Threads
      BY <1>1, ReplaceDomain
    <2>2. SchedTypeOK'
      BY <1>1a, SchedTyped
    <2>3. KernelTypeOK
      BY DEF KernelInv
    <2> QED
      BY <1>1a, <2>1, <2>2, <2>3 DEF KernelTypeOK
  <1>7. Code'
    <2>1. CodeOK(cpu, t, IFlag)
      BY <1>1, PoppedCode DEF Returning
    <2> QED
      BY <1>1a, <1>1b, <1>3, <2>1, Running, EditCode
  <1>8. Calls'
    <2>1. "int80" \in Ops(t) => "int80" \in Ops(s)
      BY <1>3
    <2> QED
      BY <1>1a, <1>1b, <1>3, <2>1, EditCalls
  <1>9. /\ NoneBefore(s, IS, I) /\ "start_timer_one_shot" \in Ops(s)
        /\ armed \/ irr \/ EachAfter(s, ST, SW)
        /\ isr => "lapic_eoi" \in Ops(s)
    BY <1>3, <1>4 DEF KernelInv, BootOrder, TimerRuns
  <1>10. /\ NoneBefore(t, IS, I) /\ Ops(t) \cap I = {} /\ "start_timer_one_shot" \in Ops(t)
    BY <1>3, <1>9, NoneBeforeTail
  <1>11. armed \/ irr \/ EachAfter(t, ST, SW)
    BY <1>3, <1>9, EachAfterTail
  <1> HIDE DEF s, t
  <1>12. BootOrder'
    BY <1>1a, <1>3, <1>4, <1>10 DEF BootOrder
  <1>13. TimerRuns'
    BY <1>1a, <1>1b, <1>3, <1>9, <1>10, <1>11 DEF TimerRuns
  <1>14. PicServed'
    BY <1>1a, <1>4 DEF PicServed
  <1>15. Held'
    BY <1>1, <1>1a, HeldStays
  <1> QED
    BY <1>5, <1>6, <1>7, <1>8, <1>12, <1>13, <1>14, <1>15 DEF KernelInv
=============================================================================
