---------------------------- MODULE KernelProofs ----------------------------
(***************************************************************************)
(* Proofs about Kernel, for any number of tasks and any kinds of function. *)
(*                                                                         *)
(* The end of interrupt, start_process, the loops, the interrupts and the  *)
(* switch keep KernelInv too, the invariant of KernelStepProofs; so it     *)
(* always holds, and the theorems follow from it.                          *)
(***************************************************************************)
EXTENDS KernelStepProofs
-----------------------------------------------------------------------------
(* The end of interrupt, start_process and the loops.                      *)

\* The EOI of the PIC ends IRQ 0 if it is in service.
LEMMA EndOfInterruptKeeps == KernelInv /\ EndOfInterrupt => KernelInv'
  <1> SUFFICES ASSUME KernelInv, EndOfInterrupt PROVE KernelInv'
    OBVIOUS
  <1> USE DEF schedVars, statics
  <1> DEFINE s == todo[cpu]
             t == Tail(s)
  <1>1. /\ At("end_of_interrupt") /\ Replace(<<>>) /\ isr' = (isr /\ ~LAPIC)
        /\ pic_isr' = IF LAPIC THEN pic_isr ELSE pic_isr \ Highest(pic_isr)
        /\ UNCHANGED <<schedVars, IFlag, owner, lapic_on, armed, irr, pic, statics>>
    BY DEF EndOfInterrupt
  <1>2. <<>> \in Seq(MicroOps) /\ Ops(<<>>) = {} /\ Ops(<<>>) \cap Special = {} /\ <<>> \o t = t
    BY <1>1, EmptyCode, PopShape
  <1>3. /\ Ops(s) = {"end_of_interrupt"} \cup Ops(t) /\ Edit(t) /\ todo'[cpu] = t
    BY <1>1, <1>2, SpliceShape, Zenon
  <1>4. SchedInv'
    BY <1>1, SchedStays DEF KernelInv
  <1>5. KernelTypeOK'
    <2>1. DOMAIN todo' = Threads
      BY <1>1, ReplaceDomain
    <2>2. SchedTypeOK'
      BY <1>1, SchedTyped
    <2>3. KernelTypeOK
      BY DEF KernelInv
    <2> QED
      BY <1>1, <2>1, <2>2, <2>3, Zenon DEF KernelTypeOK
  <1>6. Code'
    <2>1. CodeOK(cpu, t, IFlag)
      BY <1>1, PoppedCode DEF Returning
    <2> QED
      BY <1>1, <1>3, <2>1, Running, EditCode
  <1>7. Calls'
    BY <1>1, <1>3, EditCalls
  <1>8. isr' => isr
    BY <1>1 DEF KernelInv, KernelTypeOK
  <1>9. BootOrder'
    <2>1. ~LAPIC => ~armed' /\ ~irr' /\ ~isr' /\ ~lapic_on'
      BY <1>1, <1>8, NoApicNoTimer
    <2>2. <<>> \in Seq(MicroOps) /\ Ops(<<>>) \cap Special = {}
      BY <1>2
    <2>3. At("end_of_interrupt") /\ Replace(<<>>) /\ UNCHANGED <<cpu, IDT33, LAPIC>>
      BY <1>1
    <2>4. "end_of_interrupt" \notin {"switch", "lapic_replace"}
      OBVIOUS
    <2> QED
      BY <2>1, <2>2, <2>3, <2>4, BootSplice, Zenon
  <1>10. TimerRuns'
    <2>1. <<>> \in Seq(MicroOps) /\ Ops(<<>>) \cap Special = {}
      BY <1>2
    <2>2. At("end_of_interrupt") /\ Replace(<<>>) /\ UNCHANGED <<cpu, IDT33, armed, irr>>
      BY <1>1
    <2>3. /\ armed \/ irr \/ "end_of_interrupt" = "start_timer_one_shot" => armed' \/ irr'
          /\ isr' => isr /\ "end_of_interrupt" # "lapic_eoi"
          /\ "end_of_interrupt" # "switch"
      BY <1>8, <2>2
    <2> QED
      BY <2>1, <2>2, <2>3, TimerSplice, Zenon
  <1>11. PicServed'
    <2> SUFFICES ASSUME ~LAPIC PROVE PicServed'
      BY <1>1 DEF PicServed
    <2>1. cpu = BOOT /\ (1 \in pic_isr => "die" \in Ops(s))
      BY DEF KernelInv, BootOrder, PicServed
    <2>2. pic_isr \subseteq {0, 1}
      BY DEF KernelInv, KernelTypeOK
    <2>3. 0 \in pic_isr => 0 \in Highest(pic_isr)
      BY <2>2 DEF Highest
    <2>4. 0 \notin pic_isr' /\ (1 \in pic_isr' => 1 \in pic_isr)
      BY <1>1, <2>3
    <2> HIDE DEF s, t
    <2> QED
      BY <1>1, <1>3, <2>1, <2>4 DEF PicServed
  <1>12. Held'
    BY <1>1, HeldStays
  <1> QED
    BY <1>4, <1>5, <1>6, <1>7, <1>9, <1>10, <1>11, <1>12 DEF KernelInv

\* The new task gets its kind; no other changes.
LEMMA StartProcessStepKeeps == KernelInv /\ StartProcessStep => KernelInv'
  <1> SUFFICES ASSUME KernelInv, StartProcessStep PROVE KernelInv'
    OBVIOUS
  <1> USE DEF hardware
  <1> DEFINE s == todo[cpu]
             t == Tail(s)
  <1>1. /\ At("start_process") /\ Replace(<<>>) /\ StartProcess
        /\ UNCHANGED <<IFlag, owner, hardware, LAPIC, IDT33, TRIGGERED_ONCE, INITIALIZED, made>>
    BY DEF StartProcessStep
  <1>2. PICK k \in Kinds : kind' = [kind EXCEPT ![task_id'] = k]
    BY Zenon DEF StartProcessStep
  <1>3. cpu' = cpu /\ task_id' = task_id + 1 /\ task_id < MaxTasks
    BY <1>1 DEF StartProcess
  <1>4. <<>> \in Seq(MicroOps) /\ Ops(<<>>) = {} /\ Ops(<<>>) \cap Special = {} /\ <<>> \o t = t
    BY <1>1, EmptyCode, PopShape
  <1>5. /\ Ops(s) = {"start_process"} \cup Ops(t) /\ Edit(t) /\ todo'[cpu] = t
        /\ \A c \in Threads : c # cpu => todo'[c] = todo[c]
    BY <1>1, <1>4, SpliceShape, Zenon
  <1>6. SchedInv'
    BY <1>1, StartKeepsInv DEF KernelInv
  <1>7. kind \in [Tasks -> Kinds \cup {"none"}] /\ task_id \in Nat /\ task_id' \in Tasks
    BY <1>3, SchedulerAssumption DEF KernelInv, KernelTypeOK, SchedTypeOK, Tasks
  <1>8. KernelTypeOK'
    <2>1. kind' \in [Tasks -> Kinds \cup {"none"}]
      BY <1>2, <1>7
    <2> QED
      BY <1>1, <1>6, <2>1, ReplaceDomain DEF KernelInv, KernelTypeOK, SchedInv
  <1>9. Code'
    <2>1. CodeOK(cpu, t, IFlag)
      BY <1>1, PoppedCode DEF Returning
    <2> QED
      BY <1>1, <1>3, <1>5, <2>1, Running, EditCode
  <1> HIDE DEF s, t
  <1>10. Calls'
    <2>1. ASSUME NEW i \in Tasks, i <= task_id' PROVE kind'[i] \in Kinds
      <3>1. CASE i = task_id'
        BY <1>2, <1>7, <3>1
      <3>2. CASE i # task_id'
        <4>1. i \in Nat /\ i <= task_id
          BY <1>3, <1>7, <2>1, <3>2, SchedulerAssumption DEF Tasks
        <4>2. kind'[i] = kind[i]
          BY <1>2, <1>7, <3>2
        <4> QED
          BY <4>1, <4>2 DEF KernelInv, Calls
      <3> QED
        BY <3>1, <3>2
    <2>2. ASSUME NEW c \in Threads, "int80" \in Ops(todo'[c])
          PROVE  c \in Tasks /\ c <= task_id' /\ kind'[c] \in {"write", "badfd", "nosys"}
      <3>1. "int80" \in Ops(todo[c])
        BY <1>5, <2>2 DEF s
      <3>2. c \in Tasks /\ c <= task_id /\ kind[c] \in {"write", "badfd", "nosys"}
        BY <3>1 DEF KernelInv, Calls
      <3>3. c \in Nat
        BY <3>2, SchedulerAssumption DEF Tasks
      <3>4. c # task_id' /\ c <= task_id'
        BY <1>3, <1>7, <3>2, <3>3
      <3>5. kind'[c] = kind[c]
        BY <1>2, <1>7, <3>2, <3>4
      <3> QED
        BY <3>2, <3>4, <3>5
    <2> QED
      BY <2>1, <2>2 DEF Calls
  <1>11. At("start_process") /\ Replace(<<>>)
         /\ UNCHANGED <<cpu, IDT33, LAPIC, armed, irr, isr, lapic_on, pic_isr>>
    BY <1>1, <1>3
  <1>12. <<>> \in Seq(MicroOps) /\ Ops(<<>>) \cap Special = {}
    BY <1>4
  <1>13. BootOrder'
    <2>1. ~LAPIC => ~armed' /\ ~irr' /\ ~isr' /\ ~lapic_on'
      BY <1>11, NoApicNoTimer
    <2>2. "start_process" \notin {"switch", "lapic_replace"}
      OBVIOUS
    <2> QED
      BY <1>11, <1>12, <2>1, <2>2, BootSplice, Zenon
  <1>14. TimerRuns'
    <2>1. /\ armed \/ irr \/ "start_process" = "start_timer_one_shot" => armed' \/ irr'
          /\ isr' => isr /\ "start_process" # "lapic_eoi"
          /\ "start_process" # "switch"
      BY <1>11
    <2> QED
      BY <1>11, <1>12, <2>1, TimerSplice, Zenon
  <1>15. PicServed'
    <2>1. "start_process" \notin {"die", "end_of_interrupt"} /\ LAPIC' \in BOOLEAN
          /\ (LAPIC => LAPIC')
      BY <1>11, Running
    <2> QED
      BY <1>11, <1>12, <2>1, PicSplice, Zenon
  <1>16. Held'
    BY <1>1, HeldStays
  <1> QED
    BY <1>6, <1>8, <1>9, <1>10, <1>13, <1>14, <1>15, <1>16 DEF KernelInv

\* A context that has nothing left to do starts its next round.
LEMMA LoopKeeps == KernelInv /\ Loop => KernelInv'
  <1> SUFFICES ASSUME KernelInv, Loop PROVE KernelInv'
    OBVIOUS
  <1> USE DEF schedVars, hardware, statics
  <1> DEFINE u == LoopBody(cpu)
  <1>1. /\ todo[cpu] = <<>> /\ Edit(u)
        /\ UNCHANGED <<schedVars, IFlag, owner, hardware, statics>>
    BY DEF Loop, Edit
  <1>2. /\ CodeOK(cpu, u, TRUE)
        /\ Ops(u) \subseteq {"hlt", "nop", "print", "die", "exception", "int80"}
        /\ "int80" \in Ops(u) =>
              cpu \notin {BOOT, IDLE} /\ kind[cpu] \notin {"spin", "print", "panic", "fault"}
    BY LoopCode, Zenon
  <1> HIDE DEF u
  <1>3. Ops(todo[cpu]) = {}
    BY <1>1, EmptyCode
  <1>4. IFlag
    BY <1>3, Running DEF CodeOK
  <1>5. cpu \in Threads /\ BOOT \in Threads /\ IFlag = TRUE
    BY <1>4, Running
  <1>6. todo'[cpu] = u /\ \A c \in Threads : c # cpu => todo'[c] = todo[c]
    BY <1>1, EditShape
  <1>7. SchedInv'
    BY <1>1, SchedStays DEF KernelInv
  <1>8. KernelTypeOK'
    <2>1. DOMAIN todo' = Threads
      BY <1>1, EditShape
    <2>2. SchedTypeOK'
      BY <1>1, SchedTyped
    <2>3. KernelTypeOK
      BY DEF KernelInv
    <2> QED
      BY <1>1, <2>1, <2>2, <2>3 DEF KernelTypeOK
  <1>9. Code'
    BY <1>1, <1>2, <1>5, EditCode, Zenon
  <1>10. Calls'
    <2>1. ASSUME "int80" \in Ops(u)
          PROVE  cpu \in Tasks /\ cpu <= task_id /\ kind[cpu] \in {"write", "badfd", "nosys"}
      <3>1. cpu \in Tasks /\ cpu <= task_id
        BY <1>2, <2>1, Running
      <3>2. kind[cpu] \in Kinds
        BY <3>1 DEF KernelInv, Calls
      <3> QED
        BY <1>2, <2>1, <3>1, <3>2, KindsAssumption, Zenon
    <2> QED
      BY <1>1, <1>2, <1>6, <2>1 DEF KernelInv, Calls
  <1>11. BootOrder'
    <2> DEFINE LR == {"lapic_replace"}
               X == {"lapic_enable", "install_scheduler", "start_timer_one_shot"}
               IS == {"install_scheduler", "start_timer_one_shot"}
               I == {"install_scheduler"}
    <2>1. Ops(u) \cap IS = {} /\ Ops(u) \cap X = {}
      BY <1>2
    <2>2. NoneBefore(u, IS, I) /\ EachAfter(u, LR, X)
      BY <2>1, NoneBeforeFree, EachAfterFree
    <2>3. /\ NoneBefore(todo'[BOOT], IS, I)
          /\ "install_scheduler" \in Ops(todo'[BOOT]) => "start_timer_one_shot" \in Ops(todo'[BOOT])
          /\ IDT33 = "sched" => LAPIC /\ "install_scheduler" \notin Ops(todo'[BOOT])
          /\ ~LAPIC => EachAfter(todo'[BOOT], LR, X)
      <3>1. CASE cpu = BOOT
        BY <1>2, <1>6, <2>2, <3>1 DEF KernelInv, BootOrder
      <3>2. CASE cpu # BOOT
        BY <1>5, <1>6, <3>2 DEF KernelInv, BootOrder
      <3> QED
        BY <3>1, <3>2
    <2>4. \A c \in Threads : "switch" \in Ops(todo'[c]) => IDT33 = "sched"
      BY <1>2, <1>6 DEF KernelInv, BootOrder
    <2> QED
      BY <1>1, <2>3, <2>4 DEF KernelInv, BootOrder
  <1>12. TimerRuns'
    <2>1. Ops(u) \cap {"switch"} = {}
      BY <1>2
    <2>2. EachAfter(u, {"start_timer_one_shot"}, {"switch"})
      BY <2>1, EachAfterFree
    <2> QED
      BY <1>1, <1>3, <1>6, <2>2 DEF KernelInv, TimerRuns
  <1>13. PicServed'
    <2> SUFFICES ASSUME ~LAPIC PROVE PicServed'
      BY <1>1 DEF PicServed
    <2>1. cpu = BOOT
      BY DEF KernelInv, BootOrder
    <2>2. 0 \notin pic_isr /\ 1 \notin pic_isr
      BY <1>3, <2>1 DEF KernelInv, PicServed
    <2> QED
      BY <1>1, <2>2 DEF PicServed
  <1>14. Held'
    <2>1. \A l \in Locks : owner[l] \in {None, BOOT}
      BY <1>1, NothingHeld
    <2> QED
      BY <1>1, <2>1 DEF Held
  <1> QED
    BY <1>7, <1>8, <1>9, <1>10, <1>11, <1>12, <1>13, <1>14 DEF KernelInv
-----------------------------------------------------------------------------
(* Interrupts, switches and the start of the machine.                      *)

\* What an interrupt puts its handler on top of: the code of the running
\* context, which executes nothing that runs masked, without its hlt.
LEMMA DeliverShape ==
    ASSUME KernelInv, NEW h, HandlerOK(h), Deliver(h)
    PROVE  \E t \in Seq(MicroOps) :
              /\ CodeOK(cpu, t, TRUE) /\ Edit(h \o t)
              /\ Ops(h \o t) = Ops(h) \cup Ops(t)
              /\ Ops(t) \subseteq Ops(todo[cpu])
              /\ Ops(todo[cpu]) \subseteq Ops(t) \cup {"halted"}
              /\ \A A, B : NoneBefore(todo[cpu], A, B) => NoneBefore(t, A, B)
              /\ \A A, B : "halted" \notin A /\ EachAfter(todo[cpu], A, B) => EachAfter(t, A, B)
  <1> DEFINE s == todo[cpu]
  <1>1. CodeOK(cpu, s, TRUE) /\ s \in Seq(MicroOps) /\ h \in Seq(MicroOps)
    <2>1. IFlag = TRUE
      BY Running DEF Deliver
    <2> QED
      BY <2>1, Running, Zenon DEF HandlerOK
  <1>2. CASE At("halted")
    <2>1. s # <<>> /\ s[1][1] = "halted"
      BY <1>2 DEF At
    <2>2. Tail(s) \in Seq(MicroOps) /\ Ops(s) = {"halted"} \cup Ops(Tail(s))
      BY <1>1, <2>1, TailShape, OpsTail
    <2>3. CodeOK(cpu, Tail(s), TRUE)
      <3>1. CodeOK(cpu, <<>> \o Tail(s), IFlag) /\ IFlag = TRUE
        BY <1>2, PopCode, Running, Zenon DEF Returning, Deliver
      <3>2. <<>> \o Tail(s) = Tail(s)
        BY <2>2, EmptyCode
      <3> QED
        BY <3>1, <3>2, Zenon
    <2>4. Edit(h \o Tail(s))
      BY <1>2, Running DEF Deliver, Edit
    <2>5. Ops(h \o Tail(s)) = Ops(h) \cup Ops(Tail(s))
      BY <1>1, <2>2, OpsConcat, Zenon
    <2>6. ASSUME NEW A, NEW B, NoneBefore(s, A, B) PROVE NoneBefore(Tail(s), A, B)
      BY <1>1, <2>1, <2>6, NoneBeforeTail
    <2>7. ASSUME NEW A, NEW B, "halted" \notin A, EachAfter(s, A, B)
          PROVE  EachAfter(Tail(s), A, B)
      BY <1>1, <2>1, <2>7, EachAfterTail
    <2> HIDE DEF s
    <2> QED
      BY <2>2, <2>3, <2>4, <2>5, <2>6, <2>7, Zenon DEF s
  <1>3. CASE ~At("halted")
    <2>1. Edit(h \o s)
      BY <1>3, Running DEF Deliver, Edit
    <2>2. Ops(h \o s) = Ops(h) \cup Ops(s)
      BY <1>1, OpsConcat
    <2> QED
      BY <1>1, <2>1, <2>2, Zenon
  <1> QED
    BY <1>2, <1>3, Zenon

\* With interrupts on no task holds a lock.
LEMMA UnmaskedHoldsNothing ==
    ASSUME KernelInv, IFlag
    PROVE  \A l \in Locks : owner[l] \in {None, BOOT}
  <1> SUFFICES ASSUME NEW l \in Locks, owner[l] \notin {None, BOOT} PROVE FALSE
    OBVIOUS
  <1>1. /\ todo[cpu] # <<>> /\ todo[cpu][1][1] \in {"lock", "unlock"}
        /\ todo[cpu] \in Seq(MicroOps)
    BY NothingHeld, Running
  <1>2. todo[cpu][1][1] \in Ops(todo[cpu])
    BY <1>1, OpsTail
  <1>3. cpu # BOOT
    BY DEF KernelInv, Held
  <1>4. Ops(todo[cpu]) \cap Masked(cpu) = {}
    BY Running DEF CodeOK
  <1> QED
    BY <1>1, <1>2, <1>3, <1>4 DEF Masked

\* An interrupt: what its handler has to do for the invariant to be kept.
LEMMA DeliverStep ==
    ASSUME KernelInv, NEW h, HandlerOK(h), Deliver(h),
           "start_timer_one_shot" \in Ops(h) \/ "switch" \in Ops(h) => IDT33 = "sched",
           EachAfter(h, {"start_timer_one_shot"}, {"switch"}),
           IDT33 = "sched" /\ (armed \/ irr) =>
              armed' \/ irr' \/ "start_timer_one_shot" \in Ops(h),
           isr' => isr \/ "lapic_eoi" \in Ops(h),
           ~LAPIC => ~armed' /\ ~irr' /\ ~isr' /\ ~lapic_on',
           ~LAPIC /\ 1 \in pic_isr' => 1 \in pic_isr \/ "die" \in Ops(h),
           ~LAPIC /\ 0 \in pic_isr' => 0 \in pic_isr \/ "end_of_interrupt" \in Ops(h),
           {lapic_on', armed', irr', isr'} \subseteq BOOLEAN,
           pic' = pic, pic_isr' \subseteq {0, 1}
    PROVE  KernelInv'
  <1> USE DEF schedVars, statics
  <1>1. PICK t \in Seq(MicroOps) :
              /\ CodeOK(cpu, t, TRUE) /\ Edit(h \o t)
              /\ Ops(h \o t) = Ops(h) \cup Ops(t)
              /\ Ops(t) \subseteq Ops(todo[cpu])
              /\ Ops(todo[cpu]) \subseteq Ops(t) \cup {"halted"}
              /\ \A A, B : NoneBefore(todo[cpu], A, B) => NoneBefore(t, A, B)
              /\ \A A, B : "halted" \notin A /\ EachAfter(todo[cpu], A, B) => EachAfter(t, A, B)
    BY DeliverShape, Zenon
  <1> DEFINE u == h \o t
  <1>2. /\ IFlag /\ IFlag' = FALSE /\ UNCHANGED <<schedVars, owner, statics>>
        /\ cpu' = cpu /\ IDT33' = IDT33 /\ LAPIC' = LAPIC
    BY DEF Deliver
  <1>3. h \in Seq(MicroOps) /\ Ops(h) \subseteq {"print", "die", "lapic_eoi", "end_of_interrupt",
              "set_triggered", "start_timer_one_shot", "switch", "iret"}
    BY DEF HandlerOK
  <1>4. Ops(todo[cpu]) \cap {"switch", "lapic_eoi", "end_of_interrupt"} = {}
    BY <1>2, Running DEF CodeOK, Masked
  <1>5. CodeOK(cpu, u, FALSE)
    BY <1>1, DeliverCode, Zenon
  <1>6. Edit(u) /\ Ops(u) = Ops(h) \cup Ops(t)
    BY <1>1
  <1>7. /\ todo'[cpu] = u /\ DOMAIN todo' = Threads
        /\ \A c \in Threads : c # cpu => todo'[c] = todo[c]
    BY <1>6, EditShape, Zenon
  <1>8. cpu \in Threads /\ BOOT \in Threads
    BY Running
  <1>9. SchedInv'
    BY <1>2, SchedStays DEF KernelInv
  <1>10. KernelTypeOK'
    BY <1>2, <1>7, Zenon DEF KernelInv, KernelTypeOK, SchedTypeOK
  <1>11. Code'
    BY <1>2, <1>5, <1>6, EditCode, Zenon
  <1>12. Calls'
    <2>1. "int80" \in Ops(u) => "int80" \in Ops(todo[cpu])
      BY <1>1, <1>3
    <2> HIDE DEF u
    <2> QED
      BY <1>2, <1>6, <2>1, EditCalls
  <1>13. EachAfter(u, {"start_timer_one_shot"}, {"switch"})
    <2>1. Ops(t) \cap {"switch"} = {}
      BY <1>1, <1>4
    <2>2. EachAfter(t, {"start_timer_one_shot"}, {"switch"})
      BY <2>1, EachAfterFree
    <2> QED
      BY <1>3, <2>2, EachAfterConcat
  <1>14. BootOrder'
    <2> DEFINE LR == {"lapic_replace"}
               X == {"lapic_enable", "install_scheduler", "start_timer_one_shot"}
               IS == {"install_scheduler", "start_timer_one_shot"}
               I == {"install_scheduler"}
    <2>1. ASSUME cpu = BOOT PROVE NoneBefore(u, IS, I)
      <3>1. NoneBefore(todo[cpu], IS, I)
        BY <2>1 DEF KernelInv, BootOrder
      <3>2. NoneBefore(t, IS, I)
        BY <1>1, <3>1
      <3>3. Ops(h) \cap I = {}
        BY <1>3
      <3>4. NoneBefore(h, IS, I)
        BY <3>3, NoneBeforeFree
      <3>5. Ops(h) \cap IS = {} \/ Ops(t) \cap I = {}
        <4>1. CASE IDT33 = "sched"
          BY <1>1, <2>1, <4>1 DEF KernelInv, BootOrder
        <4>2. CASE IDT33 # "sched"
          BY <1>3, <4>2
        <4> QED
          BY <4>1, <4>2
      <3> HIDE DEF IS, I
      <3> QED
        BY <1>3, <3>2, <3>4, <3>5, NoneBeforeConcat
    <2>2. ASSUME cpu = BOOT, ~LAPIC PROVE EachAfter(u, LR, X)
      <3>1. EachAfter(todo[cpu], LR, X) /\ IDT33 # "sched"
        BY <2>2 DEF KernelInv, BootOrder
      <3>2. EachAfter(t, LR, X)
        <4>1. "halted" \notin LR
          OBVIOUS
        <4> HIDE DEF LR, X
        <4> QED
          BY <1>1, <3>1, <4>1
      <3>3. Ops(h) \cap X = {}
        BY <1>3, <3>1
      <3>4. EachAfter(h, LR, X)
        BY <3>3, EachAfterFree
      <3> HIDE DEF LR, X
      <3> QED
        BY <1>3, <3>2, <3>4, EachAfterConcat
    <2>3. /\ NoneBefore(todo'[BOOT], IS, I)
          /\ "install_scheduler" \in Ops(todo'[BOOT]) => "start_timer_one_shot" \in Ops(todo'[BOOT])
          /\ IDT33 = "sched" => LAPIC /\ "install_scheduler" \notin Ops(todo'[BOOT])
          /\ ~LAPIC => EachAfter(todo'[BOOT], LR, X)
      <3>1. CASE cpu = BOOT
        <4>1. todo'[BOOT] = u
          BY <1>7, <3>1
        <4>2. "install_scheduler" \in Ops(u) => "install_scheduler" \in Ops(todo[BOOT])
          BY <1>1, <1>3, <3>1
        <4>3. "start_timer_one_shot" \in Ops(todo[BOOT]) => "start_timer_one_shot" \in Ops(u)
          BY <1>1, <3>1
        <4> HIDE DEF u
        <4>4. "install_scheduler" \in Ops(u) => "start_timer_one_shot" \in Ops(u)
          BY <4>2, <4>3 DEF KernelInv, BootOrder
        <4>5. IDT33 = "sched" => LAPIC /\ "install_scheduler" \notin Ops(u)
          BY <4>2 DEF KernelInv, BootOrder
        <4> HIDE DEF LR, X, IS, I
        <4> QED
          BY <2>1, <2>2, <3>1, <4>1, <4>4, <4>5
      <3>2. CASE cpu # BOOT
        BY <1>7, <1>8, <3>2 DEF KernelInv, BootOrder
      <3> QED
        BY <3>1, <3>2
    <2>4. \A c \in Threads : "switch" \in Ops(todo'[c]) => IDT33 = "sched"
      <3> SUFFICES ASSUME NEW c \in Threads, "switch" \in Ops(todo'[c]) PROVE IDT33 = "sched"
        OBVIOUS
      <3>1. CASE c = cpu
        BY <1>1, <1>4, <1>7, <3>1, Zenon
      <3>2. CASE c # cpu
        BY <1>7, <3>2 DEF KernelInv, BootOrder
      <3> QED
        BY <3>1, <3>2
    <2> QED
      BY <1>2, <2>3, <2>4 DEF KernelInv, BootOrder
  <1>15. TimerRuns'
    <2>1. IDT33 = "sched" => armed' \/ irr' \/ "start_timer_one_shot" \in Ops(u)
      BY <1>1 DEF KernelInv, TimerRuns
    <2>2. isr' => "lapic_eoi" \in Ops(u)
      BY <1>4, <1>6 DEF KernelInv, TimerRuns
    <2> HIDE DEF u
    <2> QED
      BY <1>2, <1>7, <1>13, <2>1, <2>2 DEF TimerRuns
  <1>16. PicServed'
    <2> SUFFICES ASSUME ~LAPIC PROVE PicServed'
      BY <1>2 DEF PicServed
    <2>1. cpu = BOOT /\ todo'[BOOT] = u
      BY <1>7 DEF KernelInv, BootOrder
    <2>2. 1 \in pic_isr' => "die" \in Ops(u)
      BY <1>1, <2>1 DEF KernelInv, PicServed
    <2>3. 0 \in pic_isr' => Ops(u) \cap {"end_of_interrupt", "die"} # {}
      <3> SUFFICES ASSUME 0 \in pic_isr' PROVE "end_of_interrupt" \in Ops(u) \/ "die" \in Ops(u)
        OBVIOUS
      <3> QED
        BY <1>1, <2>1 DEF KernelInv, PicServed
    <2> HIDE DEF u
    <2> QED
      BY <1>2, <2>1, <2>2, <2>3 DEF PicServed
  <1>17. Held'
    BY <1>2, UnmaskedHoldsNothing DEF Held
  <1> QED
    BY <1>9, <1>10, <1>11, <1>12, <1>14, <1>15, <1>16, <1>17 DEF KernelInv

\* The timer's interrupt: apic_timer_handler ends the interrupt and restarts
\* the timer; the handler of the calibration ends it.
LEMMA TimerInterruptKeeps == KernelInv /\ TimerInterrupt => KernelInv'
  <1> SUFFICES ASSUME KernelInv, TimerInterrupt PROVE KernelInv'
    OBVIOUS
  <1> DEFINE h == Vector33
  <1>1. /\ irr /\ irr' = FALSE /\ isr' = TRUE /\ Deliver(h)
        /\ UNCHANGED <<lapic_on, armed, pic, pic_isr>>
    BY DEF TimerInterrupt
  <1>2. LAPIC /\ LAPIC \in BOOLEAN /\ IDT33 \in {"config", "sched"}
    BY <1>1, NoApicNoTimer, Running DEF KernelInv, KernelTypeOK
  <1>3. HandlerOK(h) /\ "lapic_eoi" \in Ops(h)
    BY <1>2, VectorCode
  <1>4. /\ "start_timer_one_shot" \in Ops(h) \/ "switch" \in Ops(h) => IDT33 = "sched"
        /\ IDT33 = "sched" => "start_timer_one_shot" \in Ops(h)
    BY <1>2, VectorCode
  <1>5. EachAfter(h, {"start_timer_one_shot"}, {"switch"})
    <2>1. CASE IDT33 = "sched"
      BY <1>2, <2>1, VectorCode
    <2>2. CASE IDT33 # "sched"
      <3>1. Ops(h) \cap {"switch"} = {}
        BY <1>4, <2>2
      <3> QED
        BY <3>1, EachAfterFree
    <2> QED
      BY <2>1, <2>2
  <1> HIDE DEF h
  <1>6. /\ {lapic_on', armed', irr', isr'} \subseteq BOOLEAN
        /\ pic' = pic /\ pic_isr' \subseteq {0, 1} /\ pic_isr' = pic_isr
    BY <1>1, Zenon DEF KernelInv, KernelTypeOK
  <1> QED
    BY <1>1, <1>2, <1>3, <1>4, <1>5, <1>6, DeliverStep

\* An error or a spurious interrupt: it neither switches nor touches the timer.
LEMMA ApicNoticeKeeps == KernelInv /\ ApicNotice => KernelInv'
  <1> SUFFICES ASSUME KernelInv, ApicNotice PROVE KernelInv'
    OBVIOUS
  <1> DEFINE h == ApicNoticeHandler
  <1>1. /\ Deliver(h) /\ UNCHANGED <<lapic_on, armed, irr, isr, pic, pic_isr>>
    BY DEF ApicNotice, hardware
  <1>2. HandlerOK(h) /\ Ops(h) = {"print", "lapic_eoi", "iret"}
    BY ApicNoticeHandlerCode
  <1>3. Ops(h) \cap {"switch"} = {}
    BY <1>2
  <1>4. EachAfter(h, {"start_timer_one_shot"}, {"switch"})
    BY <1>3, EachAfterFree
  <1>5. ~("start_timer_one_shot" \in Ops(h) \/ "switch" \in Ops(h))
    BY <1>2
  <1> HIDE DEF h
  <1>6. /\ {lapic_on', armed', irr', isr'} \subseteq BOOLEAN
        /\ pic' = pic /\ pic_isr' \subseteq {0, 1}
    BY <1>1 DEF KernelInv, KernelTypeOK
  <1>7. ~LAPIC => ~armed' /\ ~irr' /\ ~isr' /\ ~lapic_on'
    BY <1>1, NoApicNoTimer
  <1> QED
    BY <1>1, <1>2, <1>4, <1>5, <1>6, <1>7, DeliverStep

\* An IRQ of the PIC: IRQ 0 ends; IRQ 1 has the vector of the timer, and its
\* handler panics as long as there is no local APIC.
LEMMA PicInterruptKeeps ==
    ASSUME NEW irq \in {0, 1}, KernelInv, PicInterrupt(irq)
    PROVE  KernelInv'
  <1> DEFINE h == IF irq = 0 THEN TimerInterruptHandler ELSE Vector33
  <1>1. /\ Deliver(h) /\ pic_isr' = pic_isr \cup {irq}
        /\ UNCHANGED <<lapic_on, armed, irr, isr, pic>>
    BY DEF PicInterrupt
  <1>2. LAPIC \in BOOLEAN /\ IDT33 \in {"config", "sched"} /\ (IDT33 = "sched" => LAPIC)
    <2>1. IDT33 = "sched" => LAPIC
      BY DEF KernelInv, BootOrder
    <2>2. LAPIC \in BOOLEAN /\ IDT33 \in {"config", "sched"}
      BY DEF KernelInv, KernelTypeOK
    <2> QED
      BY <2>1, <2>2
  <1>3. HandlerOK(h)
    BY <1>2, VectorCode, TimerInterruptHandlerCode
  <1>4. "start_timer_one_shot" \in Ops(h) \/ "switch" \in Ops(h) => IDT33 = "sched"
    BY <1>2, VectorCode, TimerInterruptHandlerCode
  <1>5. EachAfter(h, {"start_timer_one_shot"}, {"switch"})
    <2>1. CASE irq # 0 /\ IDT33 = "sched"
      BY <1>2, <2>1, VectorCode
    <2>2. CASE ~(irq # 0 /\ IDT33 = "sched")
      <3>1. Ops(h) \cap {"switch"} = {}
        BY <1>2, <2>2, VectorCode, TimerInterruptHandlerCode
      <3> QED
        BY <3>1, EachAfterFree
    <2> QED
      BY <2>1, <2>2
  <1>6. ~LAPIC /\ 1 \in pic_isr' => 1 \in pic_isr \/ "die" \in Ops(h)
    BY <1>1, <1>2, VectorCode
  <1>7. ~LAPIC /\ 0 \in pic_isr' => 0 \in pic_isr \/ "end_of_interrupt" \in Ops(h)
    BY <1>1, TimerInterruptHandlerCode
  <1> HIDE DEF h
  <1>8. /\ {lapic_on', armed', irr', isr'} \subseteq BOOLEAN
        /\ pic' = pic /\ pic_isr' \subseteq {0, 1}
    BY <1>1 DEF KernelInv, KernelTypeOK
  <1>9. ~LAPIC => ~armed' /\ ~irr' /\ ~isr' /\ ~lapic_on'
    BY <1>1, NoApicNoTimer
  <1> QED
    BY <1>1, <1>3, <1>4, <1>5, <1>6, <1>7, <1>8, <1>9, DeliverStep

\* The timer has counted to zero: its interrupt is requested instead.
LEMMA TimerExpiresKeeps == KernelInv /\ TimerExpires => KernelInv'
  <1> SUFFICES ASSUME KernelInv, TimerExpires PROVE KernelInv'
    OBVIOUS
  <1> USE DEF schedVars, statics
  <1>1. /\ armed /\ armed' = FALSE /\ irr' = TRUE
        /\ UNCHANGED <<schedVars, todo, IFlag, owner, lapic_on, isr, pic, pic_isr, statics>>
    BY DEF TimerExpires
  <1>2. LAPIC
    BY <1>1, NoApicNoTimer
  <1>3. SchedInv'
    BY <1>1, SchedStays DEF KernelInv
  <1>4. KernelTypeOK'
    BY <1>1, Zenon DEF KernelInv, KernelTypeOK, SchedTypeOK
  <1>5. Code'
    BY <1>1 DEF KernelInv, Code
  <1>6. Calls'
    BY <1>1 DEF KernelInv, Calls
  <1>7. BootOrder'
    BY <1>1, <1>2 DEF KernelInv, BootOrder
  <1>8. TimerRuns'
    BY <1>1 DEF KernelInv, TimerRuns
  <1>9. PicServed'
    BY <1>1, <1>2 DEF PicServed
  <1>10. Held'
    BY <1>1 DEF KernelInv, Held
  <1> QED
    BY <1>3, <1>4, <1>5, <1>6, <1>7, <1>8, <1>9, <1>10 DEF KernelInv

\* The switch: the context that is left and the one that is resumed both go on
\* with interrupts on, and the timer has been restarted before.
LEMMA SwitchKeeps == KernelInv /\ Switch => KernelInv'
  <1> SUFFICES ASSUME KernelInv, Switch PROVE KernelInv'
    OBVIOUS
  <1> USE DEF hardware
  <1> DEFINE s == todo[cpu]
             t == Tail(s)
  <1>1. /\ At("switch") /\ Tick /\ made' = made \cup Needs /\ IFlag' = TRUE /\ Replace(<<>>)
        /\ UNCHANGED <<owner, hardware, LAPIC, IDT33, TRIGGERED_ONCE, INITIALIZED, kind>>
        /\ task_id' = task_id
    BY DEF Switch, Tick
  <1>2. <<>> \in Seq(MicroOps) /\ Ops(<<>>) = {} /\ <<>> \o t = t
    BY <1>1, EmptyCode, PopShape
  <1>3. /\ s \in Seq(MicroOps) /\ s # <<>> /\ s[1][1] = "switch"
        /\ Ops(s) = {"switch"} \cup Ops(t) /\ Edit(t) /\ todo'[cpu] = t
        /\ \A c \in Threads : c # cpu => todo'[c] = todo[c]
    BY <1>1, <1>2, SpliceShape, Zenon
  <1>4. cpu \in Threads /\ BOOT \in Threads /\ CodeOK(cpu, s, IFlag) /\ IFlag \in BOOLEAN
    BY Running
  <1>5. CodeOK(cpu, t, TRUE)
    <2>1. s[1][1] \in Enabling
      BY <1>3 DEF Enabling
    <2> QED
      BY <1>3, <1>4, <2>1, EnableCode, Zenon
  <1>6. IDT33 = "sched" /\ LAPIC
    BY <1>3, <1>4 DEF KernelInv, BootOrder
  <1>7. armed \/ irr
    <2>1. s[1][1] \in {"switch"}
      BY <1>3
    <2>2. ~EachAfter(s, {"start_timer_one_shot"}, {"switch"})
      BY <1>3, <2>1, EachAfterTail
    <2> QED
      BY <2>2 DEF KernelInv, TimerRuns
  <1>8. ~isr
    <2>1. "lapic_eoi" \notin Ops(t)
      BY <1>5 DEF CodeOK, Masked
    <2> QED
      BY <1>3, <2>1 DEF KernelInv, TimerRuns
  <1>9. SchedInv'
    BY <1>1, TickKeepsInv DEF KernelInv
  <1>10. KernelTypeOK'
    <2>1. made' \subseteq {"SCHEDULER", "IDLE_TASK"}
      BY <1>1 DEF Needs, KernelInv, KernelTypeOK
    <2>2. DOMAIN todo' = Threads
      BY <1>1, ReplaceDomain
    <2>3. SchedTypeOK'
      BY <1>9 DEF SchedInv
    <2>4. KernelTypeOK
      BY DEF KernelInv
    <2> QED
      BY <1>1, <2>1, <2>2, <2>3, <2>4 DEF KernelTypeOK
  <1>11. Calls'
    BY <1>1, <1>3, EditCalls
  <1>12. Held'
    <2>1. \A l \in Locks : owner[l] \in {None, BOOT}
      BY <1>3, NothingHeld
    <2> QED
      BY <1>1, <2>1 DEF Held
  <1>13. BootOrder'
    <2> DEFINE IS == {"install_scheduler", "start_timer_one_shot"}
               I == {"install_scheduler"}
    <2>0. IDT33 = "sched" => "install_scheduler" \notin Ops(todo[BOOT])
      BY DEF KernelInv, BootOrder
    <2>1. "install_scheduler" \notin Ops(todo'[BOOT])
      BY <1>3, <1>4, <1>6, <2>0
    <2>2. Ops(todo'[BOOT]) \cap I = {}
      BY <2>1
    <2>3. NoneBefore(todo'[BOOT], IS, I)
      BY <2>2, NoneBeforeFree
    <2> QED
      BY <1>1, <1>6, <2>1, <2>3 DEF BootOrder
  <1> HIDE DEF s, t
  <1>14. Code'
    <2> SUFFICES ASSUME NEW c \in Threads PROVE CodeOK(c, todo'[c], c = cpu' => IFlag')
      BY DEF Code
    <2>1. (c = cpu' => IFlag') = TRUE
      BY <1>1
    <2>2. CASE c = cpu
      BY <1>3, <1>5, <2>1, <2>2, Zenon
    <2>3. CASE c # cpu
      <3>1. (c = cpu => IFlag) = TRUE
        BY <2>3
      <3>2. CodeOK(c, todo[c], c = cpu => IFlag)
        BY DEF KernelInv, Code
      <3> QED
        BY <1>3, <2>1, <2>3, <3>1, <3>2
    <2> QED
      BY <2>2, <2>3
  <1>15. TimerRuns'
    BY <1>1, <1>7, <1>8 DEF TimerRuns
  <1>16. PicServed'
    BY <1>1, <1>6 DEF PicServed
  <1> QED
    BY <1>9, <1>10, <1>11, <1>12, <1>13, <1>14, <1>15, <1>16 DEF KernelInv
-----------------------------------------------------------------------------
(* The invariant, and what follows from it.                                *)

\* A context that has nothing ahead.
LEMMA EmptyIsOK == \A c : CodeOK(c, <<>>, TRUE)
  <1> SUFFICES ASSUME NEW c PROVE CodeOK(c, <<>>, TRUE)
    BY Zenon
  <1>1. AtMostOne(<<>>)
    BY EmptyCode DEF AtMostOne
  <1>2. AtMostTwo(<<>>)
    BY <1>1, OneIsAtMostTwo
  <1> QED
    BY <1>1, <1>2, EmptyCode DEF CodeOK

\* kernel_main has everything ahead, and nothing has happened.
LEMMA KernelInitOK == KernelInit => KernelInv
  <1> SUFFICES ASSUME KernelInit PROVE KernelInv
    OBVIOUS
  <1>1. /\ SchedInit
        /\ todo = [c \in Threads |-> IF c = BOOT THEN KernelMain ELSE <<>>]
        /\ kind = [i \in Tasks |-> "none"]
        /\ IFlag = FALSE
        /\ owner = [l \in Locks |-> None]
        /\ made = {} /\ LAPIC = FALSE
        /\ lapic_on = FALSE /\ armed = FALSE /\ irr = FALSE /\ isr = FALSE
        /\ pic = "off" /\ pic_isr = {}
        /\ IDT33 = "config"
        /\ TRIGGERED_ONCE = FALSE /\ INITIALIZED = FALSE
    BY DEF KernelInit
  <1>2. SchedInv
    BY <1>1, InitEstablishesInv
  <1>3. cpu = BOOT /\ task_id = 0 /\ BOOT \in Threads
    BY <1>1, SchedulerAssumption DEF SchedInit, Threads, Contexts
  <1>4. KernelTypeOK
    BY <1>1, <1>2, Zenon DEF KernelTypeOK, SchedInv
  <1>5. /\ BootPart(KernelMain) /\ "start_timer_one_shot" \in Ops(KernelMain)
        /\ todo[BOOT] = KernelMain
        /\ \A c \in Threads : c # BOOT => todo[c] = <<>>
    BY <1>1, <1>3, KernelMainCode
  <1>6. /\ KernelMain \in Seq(MicroOps)
        /\ Ops(KernelMain) \subseteq BootCode \cup {"init", "install_scheduler", "frequency"}
        /\ "init" \in Ops(KernelMain)
        /\ Ops(KernelMain) \cap {"switch", "int80", "exception", "iret"} = {}
    BY <1>5 DEF BootPart, BootCode
  <1>7. <<>> \in Seq(MicroOps) /\ Ops(<<>>) = {}
    BY EmptyCode
  <1>8. Code
    <2> SUFFICES ASSUME NEW c \in Threads PROVE CodeOK(c, todo[c], c = cpu => IFlag)
      BY DEF Code
    <2>1. CASE c = BOOT
      <3>1. (c = cpu => IFlag) = FALSE /\ todo[c] = KernelMain
        BY <1>1, <1>3, <1>5, <2>1
      <3>2. Ops(KernelMain) \cap {"int80", "exception"} = {} /\ Ops(KernelMain) \cap Ends = {}
        BY <1>6 DEF Ends
      <3>3. NoneBefore(KernelMain, {"int80", "exception"}, OpNames) /\ AtMostOne(KernelMain)
        BY <3>2, NoneBeforeFree DEF AtMostOne
      <3>4. AtMostTwo(KernelMain)
        BY <1>6, <3>3, OneIsAtMostTwo
      <3>5. NoneBefore(KernelMain, Enabling, Masked(BOOT))
        BY <1>5 DEF BootPart
      <3>6. Ops(KernelMain) \cap Returning # {}
        BY <1>6 DEF Returning
      <3>7. CodeOK(BOOT, KernelMain, FALSE)
        BY <1>6, <3>3, <3>4, <3>5, <3>6 DEF CodeOK
      <3> QED
        BY <2>1, <3>1, <3>7, Zenon
    <2>2. CASE c # BOOT
      <3>1. (c = cpu => IFlag) = TRUE /\ todo[c] = <<>>
        BY <1>3, <1>5, <2>2
      <3> QED
        BY <3>1, EmptyIsOK, Zenon
    <2> QED
      BY <2>1, <2>2
  <1>9. Calls
    <2>1. \A i \in Tasks : ~(i <= task_id)
      BY <1>3, SchedulerAssumption DEF Tasks
    <2>2. \A c \in Threads : "int80" \notin Ops(todo[c])
      BY <1>5, <1>6, <1>7
    <2> QED
      BY <2>1, <2>2 DEF Calls
  <1>10. BootOrder
    <2>1. \A c \in Threads : "switch" \notin Ops(todo[c])
      BY <1>5, <1>6, <1>7
    <2> QED
      BY <1>1, <1>3, <1>5, <2>1 DEF BootOrder, BootPart
  <1>11. TimerRuns
    <2>1. Ops(todo[cpu]) \cap {"switch"} = {}
      BY <1>3, <1>5, <1>6
    <2>2. EachAfter(todo[cpu], {"start_timer_one_shot"}, {"switch"})
      BY <2>1, EachAfterFree
    <2> QED
      BY <1>1, <2>2 DEF TimerRuns
  <1>12. PicServed
    BY <1>1 DEF PicServed
  <1>13. Held
    BY <1>1 DEF Held
  <1> QED
    BY <1>2, <1>4, <1>8, <1>9, <1>10, <1>11, <1>12, <1>13 DEF KernelInv

\* A step that changes nothing.
LEMMA KernelStutters == KernelInv /\ UNCHANGED vars => KernelInv'
  <1> SUFFICES ASSUME KernelInv, UNCHANGED vars PROVE KernelInv'
    OBVIOUS
  <1>1. UNCHANGED <<schedVars, todo, IFlag, owner, hardware, statics>>
    BY DEF vars
  <1>2. UNCHANGED <<cpu, task_id, todo, owner, armed, irr, isr, lapic_on, pic_isr, LAPIC, IDT33>>
    BY <1>1 DEF schedVars, hardware, statics
  <1>3. SchedInv'
    BY <1>1, SchedStays DEF KernelInv
  <1>4. KernelTypeOK'
    <2>1. SchedTypeOK'
      BY <1>1, SchedTyped
    <2>2. KernelTypeOK
      BY DEF KernelInv
    <2> QED
      BY <1>1, <2>1, <2>2 DEF KernelTypeOK, hardware, statics
  <1>5. Code' /\ Calls'
    <2>1. UNCHANGED <<cpu, task_id, todo, IFlag, kind>>
      BY <1>1 DEF schedVars, statics
    <2>2. Code /\ Calls
      BY DEF KernelInv
    <2> QED
      BY <2>1, <2>2 DEF Code, Calls
  <1>6. BootOrder'
    <2>1. BootOrder
      BY DEF KernelInv
    <2> QED
      BY <1>2, <2>1 DEF BootOrder
  <1>7. TimerRuns'
    <2>1. TimerRuns
      BY DEF KernelInv
    <2> QED
      BY <1>2, <2>1 DEF TimerRuns
  <1>8. PicServed' /\ Held'
    <2>1. PicServed /\ Held
      BY DEF KernelInv
    <2> QED
      BY <1>2, <2>1 DEF PicServed, Held
  <1> QED
    BY <1>3, <1>4, <1>5, <1>6, <1>7, <1>8 DEF KernelInv

\* Every operation, and every interrupt between two of them.
LEMMA KernelStepKeeps == KernelInv /\ [KernelNext]_vars => KernelInv'
  <1> SUFFICES ASSUME KernelInv, [KernelNext]_vars PROVE KernelInv'
    OBVIOUS
  <1>1. CASE CpuStep
    BY <1>1, LoopKeeps, OrPanicKeeps, NopKeeps, AcquireLockKeeps, ReleaseLockKeeps, PrintlnKeeps,
       PitAccessKeeps, StiKeeps, HltKeeps, InitStepKeeps, LapicReplaceKeeps, LapicEnableKeeps,
       PicDisableKeeps, WaitTriggeredKeeps, ComputeFrequencyKeeps, InstallSchedulerKeeps,
       StartTimerOneShotKeeps, SetTriggeredKeeps, LapicEoiKeeps, EndOfInterruptKeeps,
       DerefSchedulerKeeps, SchedulerMadeKeeps, StartProcessStepKeeps, ShellInitializedKeeps,
       Int80Keeps, ExceptionKeeps, IretKeeps, SwitchKeeps, SwitchPanicsKeeps
       DEF CpuStep
  <1>2. CASE TimerExpires
    BY <1>2, TimerExpiresKeeps
  <1>3. CASE TimerInterrupt
    BY <1>3, TimerInterruptKeeps
  <1>4. CASE ApicNotice
    BY <1>4, ApicNoticeKeeps
  <1>5. CASE \E irq \in {0, 1} : PicInterrupt(irq)
    BY <1>5, PicInterruptKeeps
  <1>6. CASE UNCHANGED vars
    BY <1>6, KernelStutters
  <1> QED
    BY <1>1, <1>2, <1>3, <1>4, <1>5, <1>6 DEF KernelNext

\* KernelInv holds in every state the kernel reaches, whatever the number of
\* tasks, whatever they do, and whenever interrupts come.
THEOREM KernelInvariant == KernelSpec => []KernelInv
  BY KernelInitOK, KernelStepKeeps, PTL DEF KernelSpec

\* What is ahead of the running context is what it has still to execute.
LEMMA AheadOps == \A op : Ahead(op) <=> op \in Ops(todo[cpu])
  BY DEF Ahead, Ops

\* The contexts, the locks, the interrupt controllers and the statics keep
\* their types.
THEOREM KernelTyped == KernelSpec => []KernelTypeOK
  BY KernelInvariant, PTL DEF KernelInv

\* Whoever spins on a lock spins on one that kernel_main took: no task and no
\* handler is preempted with a lock in its hand.
LEMMA BlocksOnBoot ==
    ASSUME KernelInv, NEW l \in Locks, BlockedOn(l)
    PROVE  owner[l] = BOOT
  <1>1. owner[l] # None /\ (todo[cpu][1] = Lock(l) \/ todo[cpu][1][1] = "switch")
    BY DEF BlockedOn, At
  <1> SUFFICES ASSUME owner[l] # BOOT PROVE FALSE
    OBVIOUS
  <1>2. Releases(todo[cpu], l) /\ todo[cpu] \in Seq(MicroOps)
    BY <1>1, Running DEF KernelInv, Held
  <1> QED
    BY <1>1, <1>2, ReleasesTail

\* Nobody but kernel_main is ever waited for.
THEOREM OnlyBootEverBlocks == KernelSpec => []OnlyBootBlocks
  <1>1. KernelInv => OnlyBootBlocks
    BY BlocksOnBoot DEF OnlyBootBlocks
  <1> QED
    BY <1>1, KernelInvariant, PTL

\* The one-shot timer is always counting, pending or about to be restarted
\* once the scheduler is installed, and no interrupt stays in service.
THEOREM TickAlwaysComing == KernelSpec => []TickComing
  <1>1. KernelInv => TickComing
    BY AheadOps DEF KernelInv, TimerRuns, TickComing
  <1> QED
    BY <1>1, KernelInvariant, PTL

\* The interrupt flag is never off without an operation ahead that turns it
\* on, except after a panic.
THEOREM InterruptsAlwaysComeBack == KernelSpec => []InterruptsComeBack
  <1>1. KernelInv => InterruptsComeBack
    <2> SUFFICES ASSUME KernelInv, ~IFlag
                 PROVE  \E op \in {"init", "sti", "iret", "switch", "die"} : Ahead(op)
      BY DEF InterruptsComeBack
    <2>1. Ops(todo[cpu]) \cap Returning # {}
      BY Running DEF CodeOK
    <2> QED
      BY <2>1, AheadOps DEF Returning
  <1> QED
    BY <1>1, KernelInvariant, PTL

\* A handler that has not sent its EOI is not interrupted, also not by way of
\* the println it calls.
THEOREM HandlersAlwaysMasked == KernelSpec => []HandlersRunMasked
  <1>1. KernelInv => HandlersRunMasked
    <2> SUFFICES ASSUME KernelInv, IFlag
                 PROVE  ~Ahead("lapic_eoi") /\ ~Ahead("end_of_interrupt")
      BY DEF HandlersRunMasked
    <2>1. Ops(todo[cpu]) \cap Masked(cpu) = {}
      BY Running DEF CodeOK
    <2> QED
      BY <2>1, AheadOps DEF Masked
  <1> QED
    BY <1>1, KernelInvariant, PTL

\* No kernel stack ever holds more than two handlers.
THEOREM NestingAlwaysBounded == KernelSpec => []NestingBounded
  <1>1. KernelInv => NestingBounded
    <2> SUFFICES ASSUME KernelInv, NEW c \in Threads,
                        NEW i \in Frames(c), NEW j \in Frames(c), NEW k \in Frames(c),
                        i # j, j # k, i # k
                 PROVE  FALSE
      BY DEF NestingBounded
    <2> DEFINE s == todo[c]
    <2>1. AtMostTwo(s)
      BY DEF KernelInv, Code, CodeOK
    <2>2. \A n \in {i, j, k} : n \in 1 .. Len(s) /\ s[n][1] \in Ends
      BY DEF Frames, Ends
    <2>3. s \in Seq(MicroOps)
      BY DEF KernelInv, Code, CodeOK
    <2> HIDE DEF s
    <2>4. i \in Int /\ j \in Int /\ k \in Int
      BY <2>2, <2>3
    <2>5. \/ i < j /\ j < k
          \/ i < k /\ k < j
          \/ j < i /\ i < k
          \/ j < k /\ k < i
          \/ k < i /\ i < j
          \/ k < j /\ j < i
      BY <2>4
    <2> QED
      BY <2>1, <2>2, <2>5 DEF AtMostTwo
  <1> QED
    BY <1>1, KernelInvariant, PTL

\* As long as the PIC is the only interrupt controller, an IRQ in service is
\* about to be ended or has ended in a panic.
THEOREM PicServiceAlwaysEnds == KernelSpec => []PicServiceEnds
  <1>1. KernelInv => PicServiceEnds
    <2> SUFFICES ASSUME KernelInv, ~LAPIC, pic_isr # {}
                 PROVE  Ahead("end_of_interrupt") \/ Ahead("die")
      BY DEF PicServiceEnds
    <2>1. cpu = BOOT /\ (0 \in pic_isr \/ 1 \in pic_isr)
      BY Zenon DEF KernelInv, BootOrder, KernelTypeOK
    <2>2. Ops(todo[cpu]) \cap {"end_of_interrupt", "die"} # {}
      BY <2>1 DEF KernelInv, PicServed
    <2> QED
      BY <2>2, AheadOps
  <1> QED
    BY <1>1, KernelInvariant, PTL

\* The kernel runs the scheduler: every step of the kernel is a start_process,
\* a tick, or leaves the scheduler alone.
THEOREM KernelSchedules == KernelSpec => SchedSpec
  <1>1. KernelInit => SchedInit
    BY DEF KernelInit
  <1>2. [KernelNext]_vars => [SchedNext]_schedVars
    <2> SUFFICES ASSUME [KernelNext]_vars PROVE SchedNext \/ UNCHANGED schedVars
      OBVIOUS
    <2>1. CASE CpuStep
      <3>1. CASE StartProcessStep
        BY <3>1 DEF StartProcessStep, SchedNext
      <3>2. CASE Switch
        BY <3>2 DEF Switch, SchedNext
      <3>3. CASE Loop \/ OrPanic \/ Nop \/ AcquireLock \/ ReleaseLock
        BY <3>3 DEF Loop, OrPanic, Nop, AcquireLock, ReleaseLock
      <3>4. CASE Println \/ PitAccess \/ Sti \/ Hlt
        BY <3>4 DEF Println, PitAccess, Sti, Hlt
      <3>5. CASE InitStep \/ LapicReplace \/ LapicEnable \/ PicDisable \/ WaitTriggered
        BY <3>5 DEF InitStep, LapicReplace, LapicEnable, PicDisable, WaitTriggered
      <3>6. CASE ComputeFrequency \/ InstallScheduler \/ StartTimerOneShot \/ SetTriggered
        BY <3>6 DEF ComputeFrequency, InstallScheduler, StartTimerOneShot, SetTriggered
      <3>7. CASE LapicEoi \/ EndOfInterrupt \/ DerefScheduler \/ SchedulerMade
        BY <3>7 DEF LapicEoi, EndOfInterrupt, DerefScheduler, SchedulerMade
      <3>8. CASE ShellInitialized \/ Int80 \/ Exception \/ Iret \/ SwitchPanics
        BY <3>8 DEF ShellInitialized, Int80, Exception, Iret, SwitchPanics
      <3> QED
        BY <2>1, <3>1, <3>2, <3>3, <3>4, <3>5, <3>6, <3>7, <3>8 DEF CpuStep
    <2>2. CASE TimerExpires \/ TimerInterrupt \/ ApicNotice
      BY <2>2 DEF TimerExpires, TimerInterrupt, ApicNotice, Deliver
    <2>3. CASE \E irq \in {0, 1} : PicInterrupt(irq)
      BY <2>3 DEF PicInterrupt, Deliver
    <2>4. CASE UNCHANGED vars
      BY <2>4 DEF vars
    <2> QED
      BY <2>1, <2>2, <2>3, <2>4 DEF KernelNext
  <1> QED
    BY <1>1, <1>2, PTL DEF KernelSpec, SchedSpec

\* What the scheduler promises on its own it also keeps among the locks and
\* the interrupts of the kernel: no task is lost, a frame resumes the context
\* it belongs to, tasks take turns, none waits for MaxTasks ticks, and a
\* switch is one of the dispatcher's.
THEOREM KernelKeepsSchedule ==
    KernelSpec => [](TasksConserved /\ CpuAgreesWithTask /\ FramesAreOwn)
                  /\ RoundRobinOrder /\ IdleOnlyWhenAlone /\ BoundedWait /\ D!Safety
  BY KernelSchedules, TasksAlwaysConserved, CpuAlwaysAgrees, FramesAlwaysOwn, RoundRobin,
     IdleAlone, WaitBounded, RefinesDispatcher, PTL
-----------------------------------------------------------------------------
(* A machine that has stopped stays stopped.                               *)

\* kernel_main takes its locks in turn, and waits for one that it holds itself
\* only with interrupts off.
BootHolds == {l \in Locks : owner[l] = BOOT}
BootLocks ==
    /\ InTurn(todo[BOOT])
    /\ Available(todo[BOOT], BootHolds, cpu = BOOT /\ ~IFlag)

\* The halt that a panic ends in stays ahead, and nothing that turns
\* interrupts on gets before it, if the first operation is replaced by r.
LEMMA HaltSplice ==
    ASSUME NEW s \in Seq(MicroOps), s # <<>>, s[1][1] # "die",
           NEW i \in 1 .. Len(s), s[i][1] = "die",
           \A j \in 1 .. i - 1 : s[j][1] \notin Enabling,
           NEW r \in Seq(MicroOps), Ops(r) \cap Enabling = {}
    PROVE  \E k \in 1 .. Len(r \o Tail(s)) :
              /\ (r \o Tail(s))[k][1] = "die"
              /\ \A j \in 1 .. k - 1 : (r \o Tail(s))[j][1] \notin Enabling
  <1> DEFINE t == Tail(s)
             u == r \o t
             k == Len(r) + i - 1
  <1>1. /\ t \in Seq(MicroOps) /\ Len(t) = Len(s) - 1
        /\ \A m \in 1 .. Len(t) : t[m] = s[m + 1]
    BY TailShape
  <1>2. /\ Len(u) = Len(r) + Len(t)
        /\ \A m \in 1 .. Len(u) : u[m] = IF m <= Len(r) THEN r[m] ELSE t[m - Len(r)]
    BY <1>1, ConcatShape
  <1>3. Len(r) \in Nat /\ Len(s) \in Nat /\ i > 1
    OBVIOUS
  <1>4. \A m \in 1 .. Len(r) : r[m][1] \notin Enabling
    BY DEF Ops
  <1> HIDE DEF t, u
  <1>5. k \in 1 .. Len(u) /\ u[k] = s[i]
    BY <1>1, <1>2, <1>3
  <1>6. ASSUME NEW j \in 1 .. k - 1 PROVE u[j][1] \notin Enabling
    <2>1. CASE j <= Len(r)
      BY <1>1, <1>2, <1>3, <1>4, <1>5, <2>1
    <2>2. CASE j > Len(r)
      <3> DEFINE m == j - Len(r)
      <3>1. m \in 1 .. Len(t) /\ m + 1 \in 1 .. i - 1 /\ j \in 1 .. Len(u) /\ ~(j <= Len(r))
        BY <1>1, <1>2, <1>3, <2>2
      <3>2. u[j] = t[m]
        BY <1>2, <3>1
      <3> HIDE DEF m
      <3>3. t[m] = s[m + 1]
        BY <1>1, <3>1
      <3>4. s[m + 1][1] \notin Enabling
        BY <3>1
      <3> QED
        BY <3>2, <3>3, <3>4
    <2> QED
      BY <1>3, <2>1, <2>2
  <1> HIDE DEF k
  <1> QED
    BY <1>5, <1>6, Zenon DEF u, t

\* The first operation is replaced by r; if interrupts are off, and not to be
\* turned on, they stay off.
Goes(op, r) ==
    /\ At(op) /\ op # "die"
    /\ r \in Seq(MicroOps) /\ Replace(r)
    /\ cpu' = cpu
    /\ ~IFlag /\ op \notin Enabling => ~IFlag' /\ Ops(r) \cap Enabling = {}

\* A processor about to halt has something ahead, and is not about to turn
\* interrupts on.
LEMMA HaltingAt ==
    ASSUME KernelInv, Halting
    PROVE  /\ ~IFlag /\ todo[cpu] # <<>>
           /\ \A op : At(op) /\ op # "die" => op \notin Enabling /\ Tail(todo[cpu]) # <<>>
  <1> DEFINE s == todo[cpu]
  <1>1. PICK i \in 1 .. Len(s) : s[i][1] = "die" /\ \A j \in 1 .. i - 1 : s[j][1] \notin Enabling
    BY DEF Halting
  <1>2. s \in Seq(MicroOps) /\ s # <<>>
    BY <1>1, Running
  <1>3. ASSUME NEW op, At(op), op # "die" PROVE op \notin Enabling /\ Tail(s) # <<>>
    <2>1. s[1][1] = op
      BY <1>3 DEF At
    <2> HIDE DEF s
    <2>2. i > 1 /\ Len(s) > 1
      BY <1>1, <1>2, <1>3, <2>1
    <2>3. Len(Tail(s)) = Len(s) - 1
      BY <1>2, TailShape
    <2>4. op \notin Enabling
      BY <1>1, <2>1, <2>2
    <2>5. Tail(s) # <<>>
      <3>1. Len(Tail(s)) # Len(<<>>)
        BY <1>2, <2>2, <2>3, EmptyCode
      <3> QED
        BY <3>1, Zenon
    <2> QED
      BY <2>4, <2>5
  <1> QED
    BY <1>2, <1>3, Zenon DEF Halting

\* Going on goes on towards the halt.
LEMMA GoesHalting ==
    ASSUME KernelInv, NEW op, NEW r, Goes(op, r), Halting
    PROVE  Halting'
  <1> DEFINE s == todo[cpu]
             u == r \o Tail(s)
  <1>1. /\ At(op) /\ op # "die" /\ r \in Seq(MicroOps) /\ Replace(r) /\ cpu' = cpu
    BY DEF Goes
  <1>2. ~IFlag /\ op \notin Enabling
    BY <1>1, HaltingAt
  <1>3. ~IFlag' /\ Ops(r) \cap Enabling = {}
    BY <1>2 DEF Goes
  <1>4. /\ s \in Seq(MicroOps) /\ s # <<>> /\ s[1][1] # "die" /\ todo'[cpu'] = u
    BY <1>1, SpliceShape
  <1>5. PICK i \in 1 .. Len(s) : s[i][1] = "die" /\ \A j \in 1 .. i - 1 : s[j][1] \notin Enabling
    BY DEF Halting
  <1> HIDE DEF s
  <1>6. \E k \in 1 .. Len(u) : u[k][1] = "die" /\ \A j \in 1 .. k - 1 : u[j][1] \notin Enabling
    BY <1>1, <1>3, <1>4, <1>5, HaltSplice, Zenon
  <1> HIDE DEF u
  <1> QED
    BY <1>3, <1>4, <1>6, Zenon DEF Halting

\* The locks of kernel_main, if the first operation is replaced by r.
LEMMA LocksSplice ==
    ASSUME KernelInv, BootLocks, NEW op, At(op), NEW r \in Seq(MicroOps), Replace(r),
           cpu = BOOT => InTurn(r) /\ Available(r, BootHolds', cpu' = BOOT /\ ~IFlag'),
           BootHolds' \subseteq BootHolds,
           cpu = BOOT => \A l \in BootHolds' : ~Gives(todo[cpu][1], l),
           cpu = BOOT /\ ~IFlag /\ op \notin Enabling =>
              cpu' = BOOT /\ ~IFlag' /\ Ops(r) \cap Enabling = {}
    PROVE  BootLocks'
  <1> DEFINE s == todo[cpu]
             t == Tail(s)
             off == cpu = BOOT /\ ~IFlag
             on == cpu' = BOOT /\ ~IFlag'
  <1>1. /\ s \in Seq(MicroOps) /\ s # <<>> /\ s[1][1] = op
        /\ t \in Seq(MicroOps) /\ todo'[cpu] = r \o t
        /\ \A c \in Threads : c # cpu => todo'[c] = todo[c]
    BY SpliceShape, Zenon
  <1>2. cpu \in Threads /\ BOOT \in Threads
    BY Running
  <1>3. InTurn(todo[BOOT]) /\ Available(todo[BOOT], BootHolds, off)
    BY DEF BootLocks
  <1>4. CASE cpu = BOOT
    <2>1. InTurn(s) /\ Available(s, BootHolds, off)
      BY <1>3, <1>4
    <2> DEFINE mid == off /\ op \notin Enabling
    <2>2. mid => on /\ Ops(r) \cap Enabling = {}
      OBVIOUS
    <2>3. off /\ s[1][1] \notin Enabling => mid
      BY <1>1
    <2>4. InTurn(r) /\ Available(r, BootHolds', on) /\ \A l \in BootHolds' : ~Gives(s[1], l)
      BY <1>4
    <2> HIDE DEF s, off, on, mid
    <2>5. Available(t, BootHolds', mid)
      BY <1>1, <2>1, <2>3, <2>4, AvailableTail
    <2>6. Available(r \o t, BootHolds', on)
      BY <1>1, <2>2, <2>4, <2>5, AvailableConcat, Zenon
    <2>7. InTurn(r \o t)
      BY <1>1, <2>1, <2>4, InTurnTail, InTurnConcat, Zenon
    <2>8. todo'[BOOT] = r \o t
      BY <1>1, <1>4
    <2> QED
      BY <2>6, <2>7, <2>8, Zenon DEF BootLocks, on
  <1>5. CASE cpu # BOOT
    <2>1. todo'[BOOT] = todo[BOOT] /\ ~off
      BY <1>1, <1>2, <1>5
    <2> HIDE DEF off, on
    <2>2. Available(todo[BOOT], BootHolds', on)
      BY <1>3, <2>1, Zenon DEF Available
    <2> QED
      BY <1>3, <2>1, <2>2, Zenon DEF BootLocks, on
  <1> QED
    BY <1>4, <1>5

\* The locks of kernel_main, if the first operation has nothing to do with any.
LEMMA GoesLocks ==
    ASSUME KernelInv, BootLocks, NEW op, At(op), NEW r \in Seq(MicroOps), Replace(r),
           op \notin {"unlock", "deref_scheduler"}, Ops(r) \cap {"lock", "deref_scheduler"} = {},
           owner' = owner,
           cpu = BOOT /\ ~IFlag /\ op \notin Enabling =>
              cpu' = BOOT /\ ~IFlag' /\ Ops(r) \cap Enabling = {}
    PROVE  BootLocks'
  <1>1. InTurn(r) /\ Available(r, BootHolds', cpu' = BOOT /\ ~IFlag')
    BY InTurnFree, Zenon
  <1>2. BootHolds' \subseteq BootHolds
    BY DEF BootHolds
  <1>3. \A l : ~Gives(todo[cpu][1], l)
    BY TakesOps DEF At
  <1> QED
    BY <1>1, <1>2, <1>3, LocksSplice, Zenon

\* The steps that neither take nor give back a lock, nor switch.
LEMMA PlainSteps ==
    ASSUME KernelInv,
           \/ Nop \/ PitAccess \/ Sti \/ Hlt \/ InitStep \/ LapicReplace \/ LapicEnable
           \/ PicDisable \/ WaitTriggered \/ InstallScheduler \/ StartTimerOneShot
           \/ SetTriggered \/ LapicEoi \/ EndOfInterrupt \/ SchedulerMade \/ StartProcessStep
           \/ ShellInitialized \/ Iret \/ OrPanic \/ ComputeFrequency \/ Exception
           \/ SwitchPanics
    PROVE  \E op, r : /\ Goes(op, r) /\ owner' = owner
                      /\ op \notin {"lock", "unlock", "deref_scheduler"}
                      /\ Ops(r) \cap {"lock", "deref_scheduler"} = {}
  <1> USE DEF schedVars, statics
  <1> DEFINE Plainly(op, r) == /\ Goes(op, r) /\ owner' = owner
                               /\ op \notin {"lock", "unlock", "deref_scheduler"}
                               /\ Ops(r) \cap {"lock", "deref_scheduler"} = {}
  <1>1. <<>> \in Seq(MicroOps) /\ Ops(<<>>) = {}
    BY EmptyCode
  <1>2. ASSUME NEW op \in OpNames \ {"switch", "die", "lock", "unlock", "deref_scheduler"},
               At(op), Replace(<<>>), UNCHANGED <<cpu, owner>>, IFlag' = IFlag \/ op \in Enabling
        PROVE  \E o, r : Plainly(o, r)
    <2>1. Plainly(op, <<>>)
      BY <1>1, <1>2 DEF Goes
    <2> QED
      BY <2>1, Zenon
  <1>3. CASE Nop \/ SetTriggered \/ LapicEoi \/ EndOfInterrupt \/ StartTimerOneShot
    BY <1>2, <1>3 DEF Nop, SetTriggered, LapicEoi, EndOfInterrupt, StartTimerOneShot, OpNames,
       TaskOps
  <1>4. CASE LapicReplace \/ LapicEnable \/ PicDisable \/ InstallScheduler \/ SchedulerMade
             \/ ShellInitialized
    BY <1>2, <1>4 DEF LapicReplace, LapicEnable, PicDisable, InstallScheduler, SchedulerMade,
       ShellInitialized, OpNames, BootOps
  <1>5. CASE StartProcessStep
    BY <1>2, <1>5 DEF StartProcessStep, StartProcess, OpNames, BootOps
  <1>6. CASE Sti \/ InitStep \/ Iret
    BY <1>2, <1>6 DEF Sti, InitStep, Iret, OpNames, TaskOps, BootOps, Enabling
  <1>7. \A op \in OpNames : Do(op) \in MicroOps /\ Do(op)[1] = op
    BY DoOp
  <1>8. /\ Do("sti") \in MicroOps /\ Do("sti")[1] = "sti"
        /\ Do("halted") \in MicroOps /\ Do("halted")[1] = "halted"
        /\ Do("hlt") \in MicroOps /\ Do("hlt")[1] = "hlt"
        /\ Do("wait_triggered") \in MicroOps /\ Do("wait_triggered")[1] = "wait_triggered"
    BY <1>7 DEF OpNames, TaskOps, BootOps
  <1>9. CASE PitAccess
    <2> DEFINE r == IF IFlag THEN <<Do("sti")>> ELSE <<>>
    <2>1. /\ At("pit") /\ Replace(r) /\ IFlag' = FALSE /\ UNCHANGED <<cpu, owner>>
      BY <1>9 DEF PitAccess
    <2>2. r \in Seq(MicroOps) /\ Ops(r) \subseteq {"sti"} /\ (~IFlag => Ops(r) = {})
      BY <1>1, <1>8, Code1
    <2> HIDE DEF r
    <2>3. Plainly("pit", r)
      BY <2>1, <2>2 DEF Goes
    <2> QED
      BY <2>3, Zenon
  <1>10. CASE Hlt
    <2> DEFINE r == <<Do("halted")>>
    <2>1. /\ At("hlt") /\ Replace(r) /\ UNCHANGED <<cpu, owner, IFlag>>
      BY <1>10 DEF Hlt
    <2>2. r \in Seq(MicroOps) /\ Ops(r) = {"halted"}
      BY <1>8, Code1
    <2> HIDE DEF r
    <2>3. Plainly("hlt", r)
      BY <2>1, <2>2 DEF Goes, Enabling
    <2> QED
      BY <2>3, Zenon
  <1>11. CASE WaitTriggered
    <2> DEFINE r == IF TRIGGERED_ONCE THEN <<>> ELSE <<Do("hlt"), Do("wait_triggered")>>
    <2>1. /\ At("wait_triggered") /\ Replace(r) /\ UNCHANGED <<cpu, owner, IFlag>>
      BY <1>11 DEF WaitTriggered
    <2>2. r \in Seq(MicroOps) /\ Ops(r) \subseteq {"hlt", "wait_triggered"}
      BY <1>1, <1>8, Code2
    <2> HIDE DEF r
    <2>3. Plainly("wait_triggered", r)
      BY <2>1, <2>2 DEF Goes, Enabling
    <2> QED
      BY <2>3, Zenon
  <1>12. CASE OrPanic \/ ComputeFrequency \/ Exception \/ SwitchPanics
    <2>1. PICK r \in {<<>>, Panic} \cup ExceptionHandlers,
               op \in {"or_panic", "frequency", "exception", "switch"} :
             At(op) /\ Replace(r) /\ (IFlag' = IFlag \/ IFlag' = FALSE) /\ UNCHANGED <<cpu, owner>>
      BY <1>12 DEF OrPanic, ComputeFrequency, Exception, SwitchPanics
    <2>2. r \in Seq(MicroOps) /\ Ops(r) \subseteq {"print", "die"}
      <3>1. CASE r \in {<<>>, Panic}
        BY <1>1, <3>1, PanicCode, Zenon
      <3>2. CASE r \in ExceptionHandlers
        <4>1. CodeOK(cpu, r, FALSE) /\ Ops(r) = {"print", "die"}
          BY <3>2, ExceptionCode, Zenon
        <4> QED
          BY <4>1 DEF CodeOK
      <3> QED
        BY <3>1, <3>2
    <2>3. Ops(r) \cap Enabling = {} /\ Ops(r) \cap {"lock", "deref_scheduler"} = {}
      BY <2>2 DEF Enabling
    <2>4. Plainly(op, r)
      BY <2>1, <2>2, <2>3 DEF Goes
    <2> QED
      BY <2>4, Zenon
  <1> QED
    BY <1>3, <1>4, <1>5, <1>6, <1>9, <1>10, <1>11, <1>12

\* What keeps a stopped machine stopped is kept, and so is a halt.
StaysStopped == BootLocks' /\ (Halting => Halting')

\* The plain steps.
LEMMA PlainStop ==
    ASSUME KernelInv, BootLocks,
           \/ Nop \/ PitAccess \/ Sti \/ Hlt \/ InitStep \/ LapicReplace \/ LapicEnable
           \/ PicDisable \/ WaitTriggered \/ InstallScheduler \/ StartTimerOneShot
           \/ SetTriggered \/ LapicEoi \/ EndOfInterrupt \/ SchedulerMade \/ StartProcessStep
           \/ ShellInitialized \/ Iret \/ OrPanic \/ ComputeFrequency \/ Exception
           \/ SwitchPanics
    PROVE  StaysStopped
  <1>1. PICK op, r : /\ Goes(op, r) /\ owner' = owner
                     /\ op \notin {"lock", "unlock", "deref_scheduler"}
                     /\ Ops(r) \cap {"lock", "deref_scheduler"} = {}
    BY PlainSteps, Zenon
  <1>2. At(op) /\ r \in Seq(MicroOps) /\ Replace(r) /\ cpu' = cpu
    BY <1>1 DEF Goes
  <1>3. cpu = BOOT /\ ~IFlag /\ op \notin Enabling =>
           cpu' = BOOT /\ ~IFlag' /\ Ops(r) \cap Enabling = {}
    BY <1>1 DEF Goes
  <1>4. Halting => Halting'
    BY <1>1, GoesHalting, Zenon
  <1>5. BootLocks'
    BY <1>1, <1>2, <1>3, GoesLocks
  <1> QED
    BY <1>4, <1>5 DEF StaysStopped

\* The lock that kernel_main takes is available to it again; a lock that a
\* task takes is none of kernel_main's.
LEMMA AcquireStop ==
    ASSUME KernelInv, BootLocks, AcquireLock
    PROVE  StaysStopped
  <1> USE DEF schedVars, statics
  <1> DEFINE s == todo[cpu]
             t == Tail(s)
             l == s[1][2]
  <1>1. /\ At("lock") /\ Replace(<<>>) /\ owner' = [owner EXCEPT ![l] = cpu]
        /\ UNCHANGED <<cpu, IFlag>>
    BY DEF AcquireLock
  <1>2. <<>> \in Seq(MicroOps) /\ Ops(<<>>) = {}
    BY EmptyCode
  <1>3. Goes("lock", <<>>)
    BY <1>1, <1>2 DEF Goes
  <1>4. Halting => Halting'
    BY <1>3, GoesHalting, Zenon
  <1>5. /\ s \in Seq(MicroOps) /\ s # <<>> /\ s[1][1] = "lock" /\ s[1] \in MicroOps
        /\ todo'[cpu] = t /\ \A c \in Threads : c # cpu => todo'[c] = todo[c]
    <2>1. s[1][1] = "lock"
      BY <1>1 DEF At
    <2> QED
      BY <1>1, <2>1, PopLeaves, Zenon
  <1>6. cpu \in Threads /\ BOOT \in Threads /\ owner \in [Locks -> Threads \cup {None}]
    BY Running DEF KernelInv, KernelTypeOK
  <1>7. InTurn(todo[BOOT]) /\ Available(todo[BOOT], BootHolds, cpu = BOOT /\ ~IFlag)
    BY DEF BootLocks
  <1>8. BootLocks'
    <2>1. CASE cpu = BOOT
      <3> DEFINE off == ~IFlag
      <3>1. InTurn(s) /\ Available(s, BootHolds, off)
        BY <1>7, <2>1
      <3>2. s[1] = Lock(l)
        BY <1>5 DEF MicroOps, Lock
      <3>3. \A k \in BootHolds' : k \in BootHolds \/ (k \in Locks /\ k = l)
        BY <1>1, <1>6 DEF BootHolds
      <3>4. \A k : ~Gives(s[1], k)
        BY <1>5, TakesOps
      <3> HIDE DEF s, l, off
      <3>5. Available(t, BootHolds, off)
        BY <1>5, <3>1, <3>4, AvailableTail
      <3>6. InTurn(t) /\ (l \in Locks => Available(t, {l}, off))
        BY <1>5, <3>1, <3>2, InTurnTail
      <3>7. Available(t, BootHolds', off)
        BY <3>3, <3>5, <3>6, Zenon DEF Available
      <3>8. todo'[BOOT] = t /\ (cpu' = BOOT /\ ~IFlag') = off
        BY <1>1, <1>5, <2>1 DEF off
      <3> QED
        BY <3>6, <3>7, <3>8, Zenon DEF BootLocks
    <2>2. CASE cpu # BOOT
      <3>1. todo'[BOOT] = todo[BOOT] /\ (cpu' = BOOT /\ ~IFlag') = (cpu = BOOT /\ ~IFlag)
        BY <1>1, <1>5, <1>6, <2>2
      <3>2. BootHolds' \subseteq BootHolds
        BY <1>1, <1>6, <2>2 DEF BootHolds
      <3>3. Available(todo[BOOT], BootHolds', cpu = BOOT /\ ~IFlag)
        BY <1>7, <3>2, Zenon DEF Available
      <3> QED
        BY <1>7, <3>1, <3>3, Zenon DEF BootLocks
    <2> QED
      BY <2>1, <2>2
  <1> QED
    BY <1>4, <1>8 DEF StaysStopped

\* A lock that is given back is held no more.
LEMMA ReleaseStop ==
    ASSUME KernelInv, BootLocks, ReleaseLock
    PROVE  StaysStopped
  <1> USE DEF schedVars, statics
  <1>1. /\ At("unlock") /\ Replace(<<>>) /\ owner' = [owner EXCEPT ![todo[cpu][1][2]] = None]
        /\ UNCHANGED <<cpu, IFlag>>
    BY DEF ReleaseLock
  <1>2. <<>> \in Seq(MicroOps) /\ Ops(<<>>) = {} /\ InTurn(<<>>)
        /\ Available(<<>>, BootHolds', cpu' = BOOT /\ ~IFlag')
    BY EmptyCode, InTurnFree
  <1>3. Goes("unlock", <<>>)
    BY <1>1, <1>2 DEF Goes
  <1>4. Halting => Halting'
    BY <1>3, GoesHalting, Zenon
  <1>5. owner \in [Locks -> Threads \cup {None}] /\ None # BOOT
    BY SchedulerAssumption DEF KernelInv, KernelTypeOK
  <1>6. BootHolds' \subseteq BootHolds
    BY <1>1, <1>5 DEF BootHolds
  <1>7. ASSUME NEW l \in BootHolds' PROVE ~Gives(todo[cpu][1], l)
    <2> SUFFICES ASSUME Gives(todo[cpu][1], l) PROVE FALSE
      OBVIOUS
    <2>1. todo[cpu][1][2] = l
      BY <1>1 DEF Gives, Makes, Unlock, At
    <2> QED
      BY <1>1, <1>5, <2>1 DEF BootHolds
  <1>8. BootLocks'
    BY <1>1, <1>2, <1>6, <1>7, LocksSplice, Zenon
  <1> QED
    BY <1>4, <1>8 DEF StaysStopped

\* println comes to its locks with interrupts off.
LEMMA PrintlnStop ==
    ASSUME KernelInv, BootLocks, Println
    PROVE  StaysStopped
  <1> USE DEF schedVars, statics
  <1> DEFINE on == IF IFlag THEN <<Do("sti")>> ELSE <<>>
             r == PrintBody \o on
  <1>1. /\ At("print") /\ Replace(r) /\ IFlag' = FALSE /\ UNCHANGED <<cpu, owner>>
    BY DEF Println
  <1>2. /\ PrintBody \in Seq(MicroOps) /\ Ops(PrintBody) \subseteq {"lock", "unlock"}
        /\ InTurn(PrintBody) /\ Available(PrintBody, BootHolds', TRUE)
    <2>1. INITIALIZED \in BOOLEAN
      BY DEF KernelInv, KernelTypeOK
    <2> QED
      BY <2>1, PrintBodyCode, WellLockedInTurn, Zenon
  <1>3. /\ on \in Seq(MicroOps) /\ Ops(on) \subseteq {"sti"} /\ (~IFlag => Ops(on) = {})
    <2>1. Do("sti") \in MicroOps /\ Do("sti")[1] = "sti"
      BY DoOp DEF OpNames, TaskOps
    <2> QED
      BY <2>1, Code1, EmptyCode
  <1> HIDE DEF on
  <1>4. InTurn(on) /\ Available(on, BootHolds', TRUE)
    <2>1. Ops(on) \cap {"lock", "deref_scheduler"} = {}
      BY <1>3
    <2> QED
      BY <2>1, InTurnFree, Zenon
  <1>5. r \in Seq(MicroOps) /\ Ops(r) = Ops(PrintBody) \cup Ops(on)
    BY <1>2, <1>3, ConcatShape, OpsConcat
  <1>6. InTurn(r) /\ Available(r, BootHolds', TRUE)
    <2>1. Ops(PrintBody) \cap Enabling = {}
      BY <1>2 DEF Enabling
    <2> QED
      BY <1>2, <1>3, <1>4, <2>1, InTurnConcat, AvailableConcat, Zenon
  <1> HIDE DEF r
  <1>7. ~IFlag => Ops(r) \cap Enabling = {}
    BY <1>2, <1>3, <1>5 DEF Enabling
  <1>8. Goes("print", r)
    BY <1>1, <1>2, <1>3, <1>5, <1>7 DEF Goes
  <1>9. Halting => Halting'
    BY <1>8, GoesHalting, Zenon
  <1>10. BootLocks'
    <2>1. cpu = BOOT => Available(r, BootHolds', cpu' = BOOT /\ ~IFlag')
      <3> SUFFICES ASSUME cpu = BOOT PROVE Available(r, BootHolds', cpu' = BOOT /\ ~IFlag')
        OBVIOUS
      <3>1. (cpu' = BOOT /\ ~IFlag') = TRUE
        BY <1>1
      <3> QED
        BY <1>6, <3>1, Zenon
    <2>2. BootHolds' \subseteq BootHolds
      BY <1>1 DEF BootHolds
    <2>3. \A l : ~Gives(todo[cpu][1], l)
      BY <1>1, TakesOps DEF At
    <2>4. cpu = BOOT /\ ~IFlag /\ "print" \notin Enabling =>
             cpu' = BOOT /\ ~IFlag' /\ Ops(r) \cap Enabling = {}
      BY <1>1, <1>7
    <2> QED
      BY <1>1, <1>5, <1>6, <2>1, <2>2, <2>3, <2>4, LocksSplice, Zenon
  <1> QED
    BY <1>9, <1>10 DEF StaysStopped

\* The first use of SCHEDULER takes locks that kernel_main does not hold.
LEMMA DerefStop ==
    ASSUME KernelInv, BootLocks, DerefScheduler
    PROVE  StaysStopped
  <1> USE DEF schedVars, statics
  <1> DEFINE r == IF "SCHEDULER" \in made THEN <<>> ELSE MakeScheduler
  <1>1. /\ At("deref_scheduler") /\ Replace(r) /\ UNCHANGED <<cpu, owner, IFlag>>
    BY DEF DerefScheduler
  <1>2. r \in Seq(MicroOps) /\ Ops(r) \subseteq {"lock", "unlock", "or_panic", "scheduler_made"}
    BY EmptyCode, MakeSchedulerCode
  <1>3. InTurn(<<>>) /\ Len(<<>>) = 0
    BY InTurnFree, EmptyCode
  <1>4. /\ InTurn(r)
        /\ \A l : \A i \in 1 .. Len(r) : Takes(r[i], l) => l \in {"ONCE", "ALLOCATOR"}
    <2>1. CASE "SCHEDULER" \in made
      <3>1. r = <<>> /\ 1 .. Len(<<>>) = {}
        BY <1>3, <2>1
      <3> QED
        BY <1>3, <3>1, Zenon
    <2>2. CASE "SCHEDULER" \notin made
      <3>1. r = MakeScheduler
        BY <2>2
      <3> QED
        BY <3>1, MakeSchedulerTurn, Zenon
    <2> QED
      BY <2>1, <2>2
  <1> HIDE DEF r
  <1>5. cpu = BOOT
    BY <1>1, OnlyBoot DEF BootOps
  <1>6. BootHolds' \subseteq BootHolds
    BY <1>1 DEF BootHolds
  <1>7. ASSUME NEW l \in BootHolds, l \in {"ONCE", "ALLOCATOR"} PROVE FALSE
    <2> DEFINE s == todo[BOOT]
    <2>1. s \in Seq(MicroOps) /\ s # <<>> /\ s[1][1] = "deref_scheduler"
      BY <1>1, <1>5, Running DEF At
    <2>2. 1 \in 1 .. Len(s)
      BY <2>1
    <2>3. Takes(s[1], l)
      BY <1>7, <2>1 DEF Takes, Makes
    <2>4. Available(s, BootHolds, cpu = BOOT /\ ~IFlag)
      BY DEF BootLocks
    <2>5. ~\E j \in 1 .. Len(s) : j < 1
      OBVIOUS
    <2> HIDE DEF s
    <2>6. s[1][1] = "lock"
      BY <2>2, <2>3, <2>4, <2>5, Zenon DEF Available
    <2> QED
      BY <2>1, <2>6
  <1>8. Available(r, BootHolds', cpu' = BOOT /\ ~IFlag')
    BY <1>4, <1>6, <1>7, Zenon DEF Available
  <1>9. \A l \in BootHolds' : ~Gives(todo[cpu][1], l)
    <2>1. todo[cpu][1][1] = "deref_scheduler"
      BY <1>1 DEF At
    <2> QED
      BY <1>6, <1>7, <2>1 DEF Gives, Makes, Unlock
  <1>10. Ops(r) \cap Enabling = {}
    BY <1>2 DEF Enabling
  <1>11. Goes("deref_scheduler", r)
    BY <1>1, <1>2, <1>10 DEF Goes
  <1>12. Halting => Halting'
    BY <1>11, GoesHalting, Zenon
  <1>13. cpu = BOOT /\ ~IFlag /\ "deref_scheduler" \notin Enabling =>
            cpu' = BOOT /\ ~IFlag' /\ Ops(r) \cap Enabling = {}
    BY <1>1, <1>10
  <1>14. BootLocks'
    BY <1>1, <1>2, <1>4, <1>6, <1>8, <1>9, <1>13, LocksSplice, Zenon
  <1> QED
    BY <1>12, <1>14 DEF StaysStopped

\* A system call is the last thing that its task has ahead, and no lock of
\* kernel_main is involved.
LEMMA Int80Stop ==
    ASSUME KernelInv, BootLocks, Int80
    PROVE  StaysStopped
  <1> USE DEF schedVars, statics
  <1> DEFINE r == SyscallHandler(kind[cpu])
  <1>1. At("int80") /\ Replace(r) /\ IFlag' = FALSE /\ UNCHANGED <<cpu, owner>>
    BY DEF Int80
  <1>2. todo[cpu] \in Seq(MicroOps) /\ todo[cpu] # <<>> /\ todo[cpu][1][1] = "int80"
    BY <1>1, Running DEF At
  <1>3. kind[cpu] \in {"write", "badfd", "nosys"} /\ cpu # BOOT
    <2>1. "int80" \in Ops(todo[cpu])
      BY <1>2, OpsTail
    <2>2. cpu \in Tasks /\ kind[cpu] \in {"write", "badfd", "nosys"}
      BY <2>1, Running DEF KernelInv, Calls
    <2> QED
      BY <2>2, SchedulerAssumption DEF Tasks
  <1>4. r \in Seq(MicroOps)
    <2>1. CodeOK(cpu, r, FALSE)
      BY <1>3, SyscallCode, Zenon
    <2> QED
      BY <2>1 DEF CodeOK
  <1> HIDE DEF r
  <1>5. ~Halting
    <2>1. Tail(todo[cpu]) = <<>>
      BY <1>2, Running, NothingBehind, Zenon
    <2> QED
      BY <1>1, <2>1, HaltingAt
  <1>6. BootLocks'
    <2>1. BootHolds' \subseteq BootHolds
      BY <1>1 DEF BootHolds
    <2> QED
      BY <1>1, <1>3, <1>4, <2>1, LocksSplice, Zenon
  <1> QED
    BY <1>5, <1>6 DEF StaysStopped

\* A context that starts its next round takes no lock at once.
LEMMA LoopStop ==
    ASSUME KernelInv, BootLocks, Loop
    PROVE  StaysStopped
  <1> USE DEF schedVars, statics
  <1> DEFINE u == LoopBody(cpu)
  <1>1. todo[cpu] = <<>> /\ Edit(u) /\ UNCHANGED <<cpu, owner, IFlag>>
    BY DEF Loop, Edit
  <1>2. Ops(u) \subseteq {"hlt", "nop", "print", "die", "exception", "int80"}
    BY LoopCode, Zenon
  <1> HIDE DEF u
  <1>3. /\ todo'[cpu] = u /\ \A c \in Threads : c # cpu => todo'[c] = todo[c]
        /\ cpu \in Threads /\ BOOT \in Threads
    BY <1>1, EditShape, Running
  <1>4. Ops(u) \cap {"lock", "deref_scheduler"} = {}
    BY <1>2
  <1>5. InTurn(u) /\ Available(u, BootHolds', cpu' = BOOT /\ ~IFlag')
    BY <1>4, InTurnFree, Zenon
  <1>6. BootLocks'
    <2>1. BootHolds' = BootHolds /\ (cpu' = BOOT /\ ~IFlag') = (cpu = BOOT /\ ~IFlag)
      BY <1>1 DEF BootHolds
    <2>2. CASE cpu = BOOT
      BY <1>3, <1>5, <2>2, Zenon DEF BootLocks
    <2>3. CASE cpu # BOOT
      <3>1. todo'[BOOT] = todo[BOOT]
        BY <1>3, <2>3
      <3> QED
        BY <2>1, <3>1, Zenon DEF BootLocks
    <2> QED
      BY <2>2, <2>3
  <1>7. ~Halting
    BY <1>1, HaltingAt
  <1> QED
    BY <1>6, <1>7 DEF StaysStopped

\* A context that switches is not about to halt.
LEMMA SwitchStop ==
    ASSUME KernelInv, BootLocks, Switch
    PROVE  StaysStopped
  <1>1. At("switch") /\ Replace(<<>>) /\ owner' = owner
    BY DEF Switch
  <1>2. <<>> \in Seq(MicroOps) /\ Ops(<<>>) = {}
    BY EmptyCode
  <1>3. /\ "switch" \notin {"unlock", "deref_scheduler"} /\ "switch" \in Enabling
        /\ Ops(<<>>) \cap {"lock", "deref_scheduler"} = {}
    BY <1>2 DEF Enabling
  <1>4. BootLocks'
    BY <1>1, <1>2, <1>3, GoesLocks, Zenon
  <1>5. ~Halting
    BY <1>1, <1>3, HaltingAt
  <1> QED
    BY <1>4, <1>5 DEF StaysStopped

\* No interrupt is taken by a processor that is about to halt with them off.
LEMMA DeliverStop ==
    ASSUME KernelInv, BootLocks, NEW h, HandlerOK(h), Deliver(h)
    PROVE  StaysStopped
  <1> USE DEF schedVars, statics
  <1> DEFINE s == todo[cpu]
             t == IF At("halted") THEN Tail(s) ELSE s
             u == h \o t
  <1>1. /\ IFlag /\ IFlag' = FALSE /\ UNCHANGED <<cpu, owner>>
    BY DEF Deliver
  <1>2. Edit(u)
    BY Running DEF Deliver, Edit
  <1>3. h \in Seq(MicroOps) /\ Ops(h) \subseteq {"print", "die", "lapic_eoi", "end_of_interrupt",
              "set_triggered", "start_timer_one_shot", "switch", "iret"}
    BY DEF HandlerOK
  <1>4. s \in Seq(MicroOps) /\ cpu \in Threads /\ BOOT \in Threads
    BY Running
  <1>5. /\ t \in Seq(MicroOps)
        /\ InTurn(s) => InTurn(t)
        /\ \A H : Available(s, H, FALSE) => Available(t, H, FALSE)
    <2>1. CASE At("halted")
      <3>1. s # <<>> /\ s[1][1] = "halted" /\ t = Tail(s)
        BY <2>1 DEF At
      <3>2. \A l : ~Gives(s[1], l)
        BY <3>1, TakesOps
      <3> HIDE DEF s, t
      <3>3. Tail(s) \in Seq(MicroOps)
        BY <1>4, <3>1, TailShape
      <3>4. InTurn(s) => InTurn(Tail(s))
        BY <1>4, <3>1, InTurnTail
      <3>5. ASSUME NEW H, Available(s, H, FALSE) PROVE Available(Tail(s), H, FALSE)
        BY <1>4, <3>1, <3>2, <3>5, AvailableTail, Zenon
      <3> QED
        BY <3>1, <3>3, <3>4, <3>5, Zenon
    <2>2. CASE ~At("halted")
      BY <1>4, <2>2, Zenon
    <2> QED
      BY <2>1, <2>2, Zenon
  <1> HIDE DEF s, t, u
  <1>6. /\ todo'[cpu] = u /\ \A c \in Threads : c # cpu => todo'[c] = todo[c]
    BY <1>2, EditShape, Zenon
  <1>7. BootLocks'
    <2>1. BootHolds' = BootHolds /\ (cpu = BOOT /\ ~IFlag) = FALSE
      BY <1>1 DEF BootHolds
    <2>2. InTurn(todo[BOOT]) /\ Available(todo[BOOT], BootHolds, FALSE)
      BY <2>1, Zenon DEF BootLocks
    <2>3. CASE cpu = BOOT
      <3>1. Ops(h) \cap {"lock", "deref_scheduler"} = {}
        BY <1>3
      <3>2. InTurn(h) /\ Available(h, BootHolds, cpu' = BOOT /\ ~IFlag')
        BY <3>1, InTurnFree, Zenon
      <3>3. InTurn(t) /\ Available(t, BootHolds, FALSE)
        BY <1>5, <2>2, <2>3, Zenon DEF s
      <3>4. InTurn(u) /\ Available(u, BootHolds, cpu' = BOOT /\ ~IFlag')
        BY <1>3, <1>5, <3>2, <3>3, InTurnConcat, AvailableConcat, Zenon DEF u
      <3>5. todo'[BOOT] = u
        BY <1>6, <2>3
      <3> QED
        BY <2>1, <3>4, <3>5, Zenon DEF BootLocks
    <2>4. CASE cpu # BOOT
      <3>1. todo'[BOOT] = todo[BOOT]
        BY <1>4, <1>6, <2>4
      <3>2. Available(todo[BOOT], BootHolds, cpu' = BOOT /\ ~IFlag')
        BY <2>2, Zenon DEF Available
      <3> QED
        BY <2>1, <2>2, <3>1, <3>2, Zenon DEF BootLocks
    <2> QED
      BY <2>3, <2>4
  <1>8. ~Halting
    BY <1>1 DEF Halting
  <1> QED
    BY <1>7, <1>8 DEF StaysStopped

\* Every interrupt.
LEMMA InterruptStop ==
    ASSUME KernelInv, BootLocks,
           TimerInterrupt \/ ApicNotice \/ \E irq \in {0, 1} : PicInterrupt(irq)
    PROVE  StaysStopped
  <1>1. PICK h \in {Vector33, ApicNoticeHandler, TimerInterruptHandler} : Deliver(h)
    <2>1. CASE TimerInterrupt
      BY <2>1 DEF TimerInterrupt
    <2>2. CASE ApicNotice
      BY <2>2 DEF ApicNotice
    <2>3. CASE \E irq \in {0, 1} : PicInterrupt(irq)
      BY <2>3 DEF PicInterrupt
    <2> QED
      BY <2>1, <2>2, <2>3
  <1>2. LAPIC \in BOOLEAN /\ IDT33 \in {"config", "sched"}
    BY DEF KernelInv, KernelTypeOK
  <1>3. HandlerOK(h)
    BY <1>2, VectorCode, ApicNoticeHandlerCode, TimerInterruptHandlerCode
  <1> QED
    BY <1>1, <1>3, DeliverStop

\* Whoever spins on a lock does so with interrupts off.
LEMMA SpinsMasked ==
    ASSUME KernelInv, BootLocks, NEW l \in Locks, BlockedOn(l)
    PROVE  ~IFlag
  <1> DEFINE s == todo[cpu]
  <1>1. owner[l] # None /\ s # <<>> /\ (s[1] = Lock(l) \/ s[1][1] = "switch")
    BY DEF BlockedOn, At
  <1>2. s \in Seq(MicroOps) /\ (IFlag => Ops(s) \cap Masked(cpu) = {})
    BY Running DEF CodeOK
  <1>3. s[1][1] \in Ops(s)
    BY <1>1, <1>2, OpsTail
  <1>4. CASE s[1][1] = "switch"
    BY <1>2, <1>3, <1>4 DEF Masked
  <1>5. CASE s[1] = Lock(l) /\ cpu # BOOT
    <2>1. s[1][1] = "lock"
      BY <1>5, LockOp
    <2> QED
      BY <1>2, <1>3, <1>5, <2>1 DEF Masked
  <1>6. CASE s[1] = Lock(l) /\ cpu = BOOT
    <2>1. owner[l] = BOOT
      BY BlocksOnBoot
    <2>2. l \in BootHolds /\ Takes(s[1], l)
      BY <1>6, <2>1 DEF BootHolds, Takes
    <2>3. Available(s, BootHolds, cpu = BOOT /\ ~IFlag)
      BY <1>6 DEF BootLocks
    <2>4. 1 \in 1 .. Len(s) /\ ~\E j \in 1 .. Len(s) : j < 1
      BY <1>1, <1>2
    <2> HIDE DEF s
    <2> QED
      BY <2>2, <2>3, <2>4, Zenon DEF Available
  <1> QED
    BY <1>1, <1>4, <1>5, <1>6

\* Nothing but the timer's count moves while the running context spins.
LEMMA SpinsOn ==
    ASSUME KernelInv, BootLocks, [KernelNext]_vars, NEW l \in Locks, BlockedOn(l)
    PROVE  BlockedOn(l)'
  <1> USE DEF schedVars, statics
  <1>1. /\ owner[l] # None /\ todo[cpu] # <<>>
        /\ todo[cpu][1] = Lock(l) \/ (todo[cpu][1][1] = "switch" /\ l \in SwitchLocks)
    BY DEF BlockedOn, At
  <1>2. ~IFlag
    BY SpinsMasked
  <1>3. /\ Lock(l)[1] = "lock" /\ Lock(l)[2] = l
    BY LockOp
  <1>4. todo[cpu][1][1] \in {"lock", "switch"}
    BY <1>1, <1>3
  <1>5. ~CpuStep
    <2>1. ~AcquireLock
      BY <1>1, <1>3 DEF AcquireLock, At
    <2>2. ~Switch
      BY <1>1, <1>3 DEF Switch, At
    <2>3. ~SwitchPanics
      BY <1>1, <1>3 DEF SwitchPanics, At
    <2>4. ~(Loop \/ OrPanic \/ Nop \/ ReleaseLock \/ Println \/ PitAccess \/ Sti \/ Hlt \/ InitStep
            \/ LapicReplace \/ LapicEnable \/ PicDisable \/ WaitTriggered)
      BY <1>1, <1>4, Zenon DEF At, Loop, OrPanic, Nop, ReleaseLock, Println, PitAccess, Sti, Hlt,
         InitStep, LapicReplace, LapicEnable, PicDisable, WaitTriggered
    <2>5. ~(ComputeFrequency \/ InstallScheduler \/ StartTimerOneShot \/ SetTriggered
            \/ LapicEoi \/ EndOfInterrupt \/ DerefScheduler \/ SchedulerMade)
      BY <1>4, Zenon DEF At, ComputeFrequency, InstallScheduler, StartTimerOneShot, SetTriggered,
         LapicEoi, EndOfInterrupt, DerefScheduler, SchedulerMade
    <2>6. ~(StartProcessStep \/ ShellInitialized \/ Int80 \/ Exception \/ Iret)
      BY <1>4, Zenon DEF At, StartProcessStep, ShellInitialized, Int80, Exception, Iret
    <2> QED
      BY <2>1, <2>2, <2>3, <2>4, <2>5, <2>6, Zenon DEF CpuStep
  <1>6. ~TimerInterrupt /\ ~ApicNotice /\ ~\E irq \in {0, 1} : PicInterrupt(irq)
    BY <1>2 DEF TimerInterrupt, ApicNotice, PicInterrupt, Deliver
  <1>7. TimerExpires \/ UNCHANGED vars
    BY <1>5, <1>6, Zenon DEF KernelNext
  <1>8. UNCHANGED <<cpu, todo, owner, tasks, made>>
    BY <1>7 DEF TimerExpires, vars
  <1>9. SwitchLocks' = SwitchLocks
    BY <1>8 DEF SwitchLocks, Needs
  <1> QED
    BY <1>1, <1>8, <1>9 DEF BlockedOn, At

\* At the start kernel_main holds nothing.
LEMMA BootLocksInitOK == KernelInit => BootLocks
  <1> SUFFICES ASSUME KernelInit PROVE BootLocks
    OBVIOUS
  <1>1. /\ owner = [l \in Locks |-> None]
        /\ todo = [c \in Threads |-> IF c = BOOT THEN KernelMain ELSE <<>>]
    BY DEF KernelInit
  <1>2. BOOT \in Threads
    BY KernelInitOK, Running
  <1>3. todo[BOOT] = KernelMain
    BY <1>1, <1>2
  <1>4. BootHolds = {}
    BY <1>1, SchedulerAssumption DEF BootHolds
  <1> QED
    BY <1>3, <1>4, KernelMainTurn, Zenon DEF BootLocks, Available

\* Every step.
LEMMA StopStep ==
    ASSUME KernelInv, BootLocks, [KernelNext]_vars
    PROVE  StaysStopped
  <1> USE DEF schedVars, statics
  <1>1. CASE CpuStep
    BY <1>1, LoopStop, AcquireStop, ReleaseStop, PrintlnStop, DerefStop, Int80Stop, SwitchStop,
       PlainStop DEF CpuStep
  <1>2. CASE TimerInterrupt \/ ApicNotice \/ \E irq \in {0, 1} : PicInterrupt(irq)
    BY <1>2, InterruptStop
  <1>3. CASE TimerExpires \/ UNCHANGED vars
    <2>1. UNCHANGED <<cpu, todo, owner, IFlag>>
      BY <1>3 DEF TimerExpires, vars
    <2> QED
      BY <2>1 DEF StaysStopped, BootLocks, BootHolds, Halting
  <1> QED
    BY <1>1, <1>2, <1>3 DEF KernelNext

\* A processor that is about to halt with interrupts off, as every exception
\* handler and every panic under without_interrupts makes it, or that spins on
\* a lock of kernel_main, never runs anything else again: no interrupt gets
\* through, and nothing on the way to the halt turns interrupts on.  A panic
\* with interrupts on is not among them: the next tick switches away from it.
THEOREM StoppedForGood == KernelSpec => WedgedForGood
  <1>1. KernelInv /\ BootLocks /\ [KernelNext]_vars => BootLocks'
    BY StopStep DEF StaysStopped
  <1>2. KernelInv /\ BootLocks /\ [KernelNext]_vars => [Wedged => Wedged']_vars
    <2> SUFFICES ASSUME KernelInv, BootLocks, [KernelNext]_vars, Wedged PROVE Wedged'
      OBVIOUS
    <2>1. CASE Halting
      <3>1. Halting'
        BY <2>1, StopStep DEF StaysStopped
      <3> QED
        BY <3>1 DEF Wedged
    <2>2. CASE \E l \in Locks : BlockedOn(l)
      <3>1. PICK l \in Locks : BlockedOn(l)
        BY <2>2
      <3>2. BlockedOn(l)'
        BY <3>1, SpinsOn
      <3> QED
        BY <3>2 DEF Wedged
    <2> QED
      BY <2>1, <2>2 DEF Wedged
  <1> QED
    BY <1>1, <1>2, BootLocksInitOK, KernelInvariant, PTL DEF KernelSpec, WedgedForGood
=============================================================================
