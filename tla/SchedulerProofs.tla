--------------------------- MODULE SchedulerProofs ---------------------------
(***************************************************************************)
(* Proofs about Scheduler, for any number of tasks.  The inductive         *)
(* invariant is the conjunction of the four invariants of the module: none *)
(* of the last three is inductive alone.  TasksConserved needs the current *)
(* task to be where the statics say; the frames are the right ones only if *)
(* the interrupted context is saved to the ProcessState it came from,      *)
(* which is CpuAgreesWithTask, and that in turn is kept by a switch only   *)
(* if the frame that is loaded resumes its own context.                    *)
(***************************************************************************)
EXTENDS Scheduler, SequenceTheorems, TLAPS

SchedInv ==
    /\ SchedTypeOK
    /\ TasksConserved
    /\ CpuAgreesWithTask
    /\ FramesAreOwn

\* A prefix of a sequence.
LEMMA PrefixShape ==
    ASSUME NEW S, NEW s \in Seq(S), NEW n \in Nat, n <= Len(s)
    PROVE  /\ SubSeq(s, 1, n) \in Seq(S)
           /\ Len(SubSeq(s, 1, n)) = n
           /\ \A i \in 1 .. n : SubSeq(s, 1, n)[i] = s[i]
  OBVIOUS

\* select_next_task on a queue that is not empty: what is left is the queue
\* without its last element, which is a task.
LEMMA PickShape ==
    ASSUME SchedTypeOK, tasks # <<>>
    PROVE  /\ Len(tasks) \in Nat /\ Len(tasks) > 0
           /\ PickNext = tasks[Len(tasks)]
           /\ PickNext \in Tasks
           /\ AfterPick \in Seq(Tasks)
           /\ Len(AfterPick) = Len(tasks) - 1
           /\ \A i \in 1 .. Len(tasks) - 1 : AfterPick[i] = tasks[i]
  <1>1. tasks \in Seq(Tasks)
    BY DEF SchedTypeOK
  <1>2. Len(tasks) \in Nat /\ Len(tasks) > 0
    BY <1>1, EmptySeq
  <1>3. \A i \in 1 .. Len(tasks) : tasks[i] \in Tasks
    BY <1>1
  <1>4. PickNext = tasks[Len(tasks)] /\ PickNext \in Tasks
    BY <1>2, <1>3 DEF PickNext
  <1>5. /\ AfterPick \in Seq(Tasks)
        /\ Len(AfterPick) = Len(tasks) - 1
        /\ \A i \in 1 .. Len(tasks) - 1 : AfterPick[i] = tasks[i]
    <2>1. Len(tasks) - 1 \in Nat /\ Len(tasks) - 1 <= Len(tasks)
      BY <1>2
    <2> QED
      BY <1>1, <2>1, PrefixShape, Zenon DEF AfterPick
  <1> QED
    BY <1>2, <1>4, <1>5

\* On an empty queue nothing is picked and nothing is left.
LEMMA PickEmpty ==
    ASSUME tasks = <<>>
    PROVE  PickNext = None /\ AfterPick = <<>>
  BY SubSeqEmpty DEF PickNext, AfterPick

\* reinsert_task moves every element back by one place and puts the current
\* task first.
LEMMA ReinsertShape ==
    ASSUME NEW q \in Seq(Tasks), TASK \in Tasks
    PROVE  /\ ReinsertTask(q) \in Seq(Tasks)
           /\ Len(ReinsertTask(q)) = Len(q) + 1
           /\ ReinsertTask(q)[1] = TASK
           /\ \A i \in 1 .. Len(q) : ReinsertTask(q)[i + 1] = q[i]
  <1>1. TASK # None
    BY SchedulerAssumption DEF Tasks
  <1>2. ReinsertTask(q) = <<TASK>> \o q
    BY <1>1 DEF ReinsertTask
  <1> QED
    BY <1>2

\* The queue after a tick, case by case.  The first fact says which tasks it
\* holds, the second that it holds none of them twice.
LEMMA TickQueue ==
    ASSUME SchedTypeOK, TasksConserved, Tick
    PROVE  /\ tasks' \in Seq(Tasks)
           /\ Queued' = (Queued \ {TASK'}) \cup ({TASK} \ {None})
           /\ \A i, j \in 1 .. Len(tasks') : tasks'[i] = tasks'[j] => i = j
           /\ TASK' = IF tasks = <<>> THEN None ELSE tasks[Len(tasks)]
           /\ tasks = <<>> => Queued = {}
  <1> USE DEF Queued
  <1>0. /\ TASK = None \/ TASK \in Tasks
        /\ tasks' = ReinsertTask(AfterPick)
        /\ TASK' = PickNext
        /\ None \notin Tasks
        /\ Len(tasks) \in Nat
    BY SchedulerAssumption DEF SchedTypeOK, Tick, Tasks
  <1>1. CASE tasks = <<>> /\ TASK = None
    BY <1>0, <1>1, PickEmpty DEF ReinsertTask
  <1>2. CASE tasks = <<>> /\ TASK \in Tasks
    <2>1. AfterPick \in Seq(Tasks) /\ Len(AfterPick) = 0 /\ PickNext = None
      BY <1>2, PickEmpty
    <2>2. tasks' \in Seq(Tasks) /\ Len(tasks') = Len(AfterPick) + 1 /\ tasks'[1] = TASK
      BY <1>0, <1>2, <2>1, ReinsertShape, Zenon
    <2> QED
      BY <1>0, <1>2, <2>1, <2>2
  <1>3. CASE tasks # <<>> /\ TASK = None
    <2>1. tasks' = AfterPick
      BY <1>0, <1>3 DEF ReinsertTask
    <2> QED
      BY <1>0, <1>3, <2>1, PickShape DEF TasksConserved
  <1>4. CASE tasks # <<>> /\ TASK \in Tasks
    <2> DEFINE n == Len(tasks)
    <2>1. /\ tasks' \in Seq(Tasks)
          /\ n > 0
          /\ Len(tasks') = n
          /\ tasks'[1] = TASK
          /\ \A i \in 1 .. n - 1 : tasks'[i + 1] = tasks[i]
          /\ TASK' = tasks[n]
      <3>1. /\ n > 0
            /\ TASK' = tasks[n]
            /\ AfterPick \in Seq(Tasks)
            /\ Len(AfterPick) = n - 1
            /\ \A i \in 1 .. n - 1 : AfterPick[i] = tasks[i]
        BY <1>0, <1>4, PickShape, Zenon
      <3>2. /\ tasks' \in Seq(Tasks)
            /\ Len(tasks') = Len(AfterPick) + 1
            /\ tasks'[1] = TASK
            /\ \A i \in 1 .. Len(AfterPick) : tasks'[i + 1] = AfterPick[i]
        BY <1>0, <1>4, <3>1, ReinsertShape, Zenon
      <3> QED
        BY <1>0, <3>1, <3>2
    <2>2. \A k \in 2 .. n : tasks'[k] = tasks[k - 1]
      <3>1. \A k \in 2 .. n : k - 1 \in 1 .. n - 1 /\ (k - 1) + 1 = k
        BY <1>0
      <3> QED
        BY <2>1, <3>1
    <2>3. \A i, j \in 1 .. n : tasks[i] = tasks[j] => i = j
      BY DEF TasksConserved
    <2>4. \A i \in 1 .. n : tasks[i] # TASK
      BY DEF TasksConserved
    <2>5. \A i, j \in 1 .. n : tasks'[i] = tasks'[j] => i = j
      <3> SUFFICES ASSUME NEW i \in 1 .. n, NEW j \in 1 .. n, tasks'[i] = tasks'[j]
                   PROVE  i = j
        OBVIOUS
      <3>1. CASE i = 1 /\ j # 1
        BY <1>0, <2>1, <2>2, <2>4, <3>1
      <3>2. CASE i # 1 /\ j = 1
        BY <1>0, <2>1, <2>2, <2>4, <3>2
      <3>3. CASE i # 1 /\ j # 1
        <4>1. i - 1 \in 1 .. n /\ j - 1 \in 1 .. n
          BY <1>0, <3>3
        <4>2. tasks[i - 1] = tasks[j - 1]
          BY <1>0, <2>2, <3>3
        <4> QED
          BY <1>0, <2>3, <4>1, <4>2
      <3> QED
        BY <3>1, <3>2, <3>3
    <2>6. Queued' = (Queued \ {TASK'}) \cup ({TASK} \ {None})
      BY <1>0, <1>4, <2>1, <2>2, <2>3
    <2> QED
      BY <1>0, <1>4, <2>1, <2>5, <2>6, Zenon
  <1> QED
    BY <1>0, <1>1, <1>2, <1>3, <1>4, Zenon

\* start_process appends an id that is not in use.
LEMMA StartQueue ==
    ASSUME SchedTypeOK, TasksConserved, StartProcess
    PROVE  /\ tasks' \in Seq(Tasks)
           /\ Queued' = Queued \cup {task_id + 1}
           /\ \A i, j \in 1 .. Len(tasks') : tasks'[i] = tasks'[j] => i = j
           /\ task_id + 1 \in Tasks
           /\ task_id + 1 \notin Queued
  <1> DEFINE n == Len(tasks)
             t == task_id + 1
  <1>1. /\ tasks \in Seq(Tasks) /\ n \in Nat
        /\ t \in Tasks
        /\ tasks' = Append(tasks, t)
    BY SchedulerAssumption DEF SchedTypeOK, StartProcess, Tasks
  <1>2. Queued \subseteq 1 .. task_id
    BY DEF TasksConserved
  <1>3. t \notin Queued
    BY <1>2 DEF SchedTypeOK
  <1>4. /\ tasks' \in Seq(Tasks)
        /\ Len(tasks') = n + 1
        /\ \A i \in 1 .. n : tasks'[i] = tasks[i]
        /\ tasks'[n + 1] = t
    BY <1>1
  <1> HIDE DEF t
  <1>5. Queued' = Queued \cup {t}
    BY <1>1, <1>4 DEF Queued
  <1>6. \A i, j \in 1 .. Len(tasks') : tasks'[i] = tasks'[j] => i = j
    BY <1>1, <1>3, <1>4 DEF TasksConserved, Queued
  <1> QED
    BY <1>1, <1>3, <1>4, <1>5, <1>6 DEF t
-----------------------------------------------------------------------------
\* The initial state satisfies the inductive invariant.
LEMMA InitEstablishesInv == SchedInit => SchedInv
  <1> SUFFICES ASSUME SchedInit PROVE SchedInv
    OBVIOUS
  <1> USE SchedulerAssumption DEF SchedInit
  <1>1. SchedTypeOK
    BY DEF SchedTypeOK, ProcessStates, Contexts, Tasks, IDLE
  <1>2. TasksConserved
    BY DEF TasksConserved, Queued
  <1>3. CpuAgreesWithTask
    BY DEF CpuAgreesWithTask
  <1>4. FramesAreOwn
    BY DEF FramesAreOwn, ProcessStates, Tasks, IDLE
  <1> QED
    BY <1>1, <1>2, <1>3, <1>4 DEF SchedInv

\* start_process keeps the inductive invariant.
LEMMA StartKeepsInv == SchedInv /\ StartProcess => SchedInv'
  <1> SUFFICES ASSUME SchedInv, StartProcess PROVE SchedInv'
    OBVIOUS
  <1> USE SchedulerAssumption
  <1>0. SchedTypeOK /\ TasksConserved /\ CpuAgreesWithTask /\ FramesAreOwn
    BY DEF SchedInv
  <1>1. SchedTypeOK'
    <2>1. tasks' \in Seq(Tasks) /\ task_id + 1 \in Tasks
      BY <1>0, StartQueue
    <2> QED
      BY <1>0, <2>1 DEF SchedTypeOK, StartProcess, ProcessStates, Contexts, Tasks
  <1>2. TasksConserved'
    <2>1. Queued' \cup ({TASK'} \ {None}) = 1 .. task_id'
      BY <1>0, StartQueue DEF TasksConserved, StartProcess, SchedTypeOK
    <2>2. TASK' \notin Queued'
      <3>1. TASK # task_id + 1
        BY <1>0 DEF TasksConserved, SchedTypeOK
      <3> QED
        BY <1>0, <3>1, StartQueue DEF TasksConserved, StartProcess
    <2> QED
      BY <1>0, <2>1, <2>2, StartQueue DEF TasksConserved
  <1>3. CpuAgreesWithTask'
    BY <1>0 DEF CpuAgreesWithTask, StartProcess
  <1>4. FramesAreOwn'
    <2>1. cpu # task_id + 1
      BY <1>0 DEF CpuAgreesWithTask, TasksConserved, SchedTypeOK, IDLE
    <2> QED
      BY <1>0, <2>1 DEF FramesAreOwn, StartProcess, SchedTypeOK, ProcessStates, Tasks, IDLE
  <1> QED
    BY <1>1, <1>2, <1>3, <1>4 DEF SchedInv

\* The context switch: the interrupted context is saved to its own
\* ProcessState (the boot context to VOID_TASK) and the one that is loaded
\* resumes its own context.
LEMMA SwitchIsClean ==
    ASSUME SchedInv
    PROVE  /\ CurrentTaskPtr = IF cpu = BOOT THEN VOID ELSE cpu
           /\ SelectNextTask \in {IDLE} \cup Tasks
           /\ SelectNextTask \in {IDLE} \cup 1 .. task_id
           /\ SavedFrames[SelectNextTask] = SelectNextTask
           /\ TASK # None => SelectNextTask # TASK
  <1> USE SchedulerAssumption
  <1>0. SchedTypeOK /\ TasksConserved /\ CpuAgreesWithTask /\ FramesAreOwn
    BY DEF SchedInv
  <1>1. CurrentTaskPtr = IF cpu = BOOT THEN VOID ELSE cpu
    BY <1>0 DEF CurrentTaskPtr, CpuAgreesWithTask, SchedTypeOK, Tasks, IDLE
  <1>2. CASE tasks = <<>>
    <2>1. SelectNextTask = IDLE
      BY <1>2, PickEmpty DEF SelectNextTask
    <2>2. SavedFrames[IDLE] = IDLE
      BY <1>0, <1>1 DEF SavedFrames, FramesAreOwn, SchedTypeOK, ProcessStates, Tasks, IDLE, Contexts
    <2> QED
      BY <1>0, <1>1, <2>1, <2>2 DEF SchedTypeOK, Tasks, IDLE
  <1>3. CASE tasks # <<>>
    <2>1. PickNext \in Tasks /\ PickNext \in Queued
      BY <1>0, <1>3, PickShape DEF Queued
    <2>2. SelectNextTask = PickNext
      BY <2>1 DEF SelectNextTask, Tasks
    <2>3. PickNext \in 1 .. task_id /\ PickNext # TASK
      BY <1>0, <2>1 DEF TasksConserved
    <2>4. PickNext # cpu
      BY <1>0, <2>1, <2>3 DEF CpuAgreesWithTask, Tasks, IDLE
    <2>5. kernel_rsp[PickNext] = PickNext
      BY <1>0, <2>1, <2>3, <2>4 DEF FramesAreOwn, ProcessStates, SchedTypeOK, Tasks
    <2>6. SavedFrames[PickNext] = PickNext
      BY <1>0, <1>1, <2>1, <2>4, <2>5 DEF SavedFrames, SchedTypeOK, ProcessStates, Tasks
    <2> QED
      BY <1>1, <2>1, <2>2, <2>3, <2>6
  <1> QED
    BY <1>2, <1>3

\* A timer interrupt keeps the inductive invariant.
LEMMA TickKeepsInv == SchedInv /\ Tick => SchedInv'
  <1> SUFFICES ASSUME SchedInv, Tick PROVE SchedInv'
    OBVIOUS
  <1> USE SchedulerAssumption
  <1>0. SchedTypeOK /\ TasksConserved /\ CpuAgreesWithTask /\ FramesAreOwn
    BY DEF SchedInv
  <1>1. cpu' = SelectNextTask
    BY SwitchIsClean DEF Tick
  <1>2. SchedTypeOK'
    <2>1. kernel_rsp' \in [ProcessStates -> Contexts \cup {None, Popped}]
      BY <1>0, Zenon DEF Tick, SavedFrames, SchedTypeOK
    <2>2. TASK' \in Tasks \cup {None}
      BY <1>0, PickEmpty, PickShape DEF Tick
    <2>3. cpu' \in Contexts
      BY <1>1, SwitchIsClean DEF Contexts, ProcessStates
    <2>4. INIT' \in BOOLEAN /\ task_id' = task_id
      BY <1>0 DEF Tick, SchedTypeOK
    <2>5. tasks' \in Seq(Tasks)
      BY <1>0, TickQueue
    <2> QED
      BY <1>0, <2>1, <2>2, <2>3, <2>4, <2>5 DEF SchedTypeOK
  <1>3. TasksConserved'
    <2>1. Queued' = (Queued \ {TASK'}) \cup ({TASK} \ {None})
      BY <1>0, TickQueue
    <2>2. TASK' \in Queued \cup {None} /\ (TASK' = None => Queued = {})
      <3>1. CASE tasks = <<>>
        BY <1>0, <3>1, TickQueue
      <3>2. CASE tasks # <<>>
        BY <1>0, <3>2, TickQueue, PickShape DEF Queued, Tasks
      <3> QED
        BY <3>1, <3>2
    <2>3. TASK' \notin Queued'
      BY <1>0, <2>1, <2>2 DEF TasksConserved
    <2>4. Queued' \cup ({TASK'} \ {None}) = 1 .. task_id'
      <3>1. task_id' = task_id /\ None \notin Queued
        BY <1>0 DEF Tick, TasksConserved, SchedTypeOK
      <3> QED
        BY <1>0, <2>1, <2>2, <3>1 DEF TasksConserved
    <2>5. \A i, j \in 1 .. Len(tasks') : tasks'[i] = tasks'[j] => i = j
      BY <1>0, TickQueue
    <2> QED
      BY <2>3, <2>4, <2>5 DEF TasksConserved
  <1>4. CpuAgreesWithTask'
    <2>1. INIT' = TRUE
      BY <1>0, Zenon DEF Tick, CpuAgreesWithTask, SchedTypeOK
    <2>2. cpu' = IF TASK' # None THEN TASK' ELSE IDLE
      BY <1>1 DEF Tick, SelectNextTask
    <2> QED
      BY <2>1, <2>2 DEF CpuAgreesWithTask
  <1>5. FramesAreOwn'
    <2> SUFFICES ASSUME NEW p \in ProcessStates \ {VOID}
                 PROVE  kernel_rsp'[p] = IF p = cpu' THEN Popped
                                         ELSE IF p > task_id' THEN None ELSE p
      BY DEF FramesAreOwn
    <2>1. task_id' = task_id /\ kernel_rsp' = [SavedFrames EXCEPT ![SelectNextTask] = Popped]
      BY DEF Tick
    <2>2. SavedFrames \in [ProcessStates -> Contexts \cup {None, Popped}]
      BY <1>0, Zenon DEF SavedFrames, SchedTypeOK
    <2>3. CASE p = cpu'
      BY <1>1, <2>1, <2>2, <2>3
    <2>4. CASE p # cpu' /\ p = cpu
      <3>1. SavedFrames[p] = p
        BY <1>0, <2>4, SwitchIsClean DEF SavedFrames, SchedTypeOK, ProcessStates, Tasks, IDLE
      <3>2. ~(p > task_id)
        BY <1>0, <2>4 DEF CpuAgreesWithTask, TasksConserved, SchedTypeOK, ProcessStates, Tasks, IDLE
      <3> QED
        BY <1>1, <2>1, <2>2, <2>4, <3>1, <3>2
    <2>5. CASE p # cpu' /\ p # cpu
      <3>1. SavedFrames[p] = kernel_rsp[p]
        BY <1>0, <2>5, SwitchIsClean DEF SavedFrames, SchedTypeOK, ProcessStates, Tasks, IDLE
      <3>2. kernel_rsp[p] = IF p > task_id THEN None ELSE p
        BY <1>0, <2>5 DEF FramesAreOwn
      <3> QED
        BY <1>1, <2>1, <2>2, <2>5, <3>1, <3>2
    <2> QED
      BY <2>3, <2>4, <2>5
  <1> QED
    BY <1>2, <1>3, <1>4, <1>5 DEF SchedInv

\* The inductive invariant holds in every reachable state.
THEOREM SchedInvariant == SchedSpec => []SchedInv
  <1>1. SchedInv /\ [SchedNext]_schedVars => SchedInv'
    <2> SUFFICES ASSUME SchedInv, [SchedNext]_schedVars PROVE SchedInv'
      OBVIOUS
    <2>1. CASE StartProcess
      BY <2>1, StartKeepsInv
    <2>2. CASE Tick
      BY <2>2, TickKeepsInv
    <2>3. CASE UNCHANGED schedVars
      BY <2>3 DEF schedVars, SchedInv, SchedTypeOK, TasksConserved, Queued,
                  CpuAgreesWithTask, FramesAreOwn
    <2> QED
      BY <2>1, <2>2, <2>3 DEF SchedNext
  <1> QED
    BY <1>1, InitEstablishesInv, PTL DEF SchedSpec

\* No task is ever lost or duplicated by pick_next, reinsert_task and
\* start_process, however the ticks and the starts interleave.
THEOREM TasksAlwaysConserved == SchedSpec => []TasksConserved
  BY SchedInvariant, PTL DEF SchedInv

\* The queue, the statics and the frames keep their types.
THEOREM SchedulerTyped == SchedSpec => []SchedTypeOK
  BY SchedInvariant, PTL DEF SchedInv

\* What runs is always what the statics TASK and INIT say, so current_task_ptr
\* saves a context to the ProcessState it came from.
THEOREM CpuAlwaysAgrees == SchedSpec => []CpuAgreesWithTask
  BY SchedInvariant, PTL DEF SchedInv

\* Every frame the handler may load resumes its own context, and no frame is
\* loaded twice without being saved in between.
THEOREM FramesAlwaysOwn == SchedSpec => []FramesAreOwn
  BY SchedInvariant, PTL DEF SchedInv

\* The idle task is switched to only when at most one task was ever started.
THEOREM IdleAlone == SchedSpec => IdleOnlyWhenAlone
  <1>1. SchedInv /\ [SchedNext]_schedVars
          => [cpu # IDLE /\ cpu' = IDLE => task_id <= 1]_schedVars
    <2> SUFFICES ASSUME SchedInv, SchedNext, cpu # IDLE, cpu' = IDLE
                 PROVE  task_id <= 1
      OBVIOUS
    <2>0. SchedTypeOK /\ TasksConserved
      BY DEF SchedInv
    <2>1. Tick
      BY DEF SchedNext, StartProcess
    <2>2. tasks = <<>>
      <3>1. SUFFICES ASSUME tasks # <<>> PROVE FALSE
        OBVIOUS
      <3>2. PickNext \in Tasks
        BY <2>0, <3>1, PickShape
      <3> QED
        BY <2>1, <3>2, SwitchIsClean, SchedulerAssumption DEF Tick, SelectNextTask, Tasks, IDLE
    <2>3. Queued = {}
      BY <2>0, <2>1, <2>2, TickQueue
    <2>4. {TASK} \ {None} = 1 .. task_id
      BY <2>0, <2>3 DEF TasksConserved
    <2>5. SUFFICES ASSUME task_id > 1 PROVE FALSE
      BY <2>0, SchedulerAssumption DEF SchedTypeOK
    <2>6. 1 \in 1 .. task_id /\ 2 \in 1 .. task_id
      BY <2>0, <2>5, SchedulerAssumption DEF SchedTypeOK
    <2> QED
      BY <2>4, <2>6
  <1> QED
    BY <1>1, SchedInvariant, PTL DEF SchedSpec, IdleOnlyWhenAlone

\* A tick keeps the order of the tasks that go on waiting.
LEMMA TickKeepsOrder ==
    ASSUME SchedInv, Tick, NEW t \in Tasks, NEW u \in Tasks,
           Before(t, u), t \in Queued'
    PROVE  Before(t, u)'
  <1> USE SchedulerAssumption
  <1> DEFINE n == Len(tasks)
  <1>0. SchedTypeOK /\ TasksConserved /\ n \in Nat
    BY DEF SchedInv, SchedTypeOK
  <1>1. PICK i \in 1 .. n : tasks[i] = t
    BY DEF Before, Queued
  <1>2. tasks # <<>>
    BY <1>0, <1>1
  <1>3. /\ TASK' = tasks[n] /\ n > 0
        /\ AfterPick \in Seq(Tasks)
        /\ Len(AfterPick) = n - 1
        /\ \A k \in 1 .. n - 1 : AfterPick[k] = tasks[k]
        /\ tasks' = ReinsertTask(AfterPick)
    BY <1>0, <1>2, PickShape, Zenon DEF Tick
  <1>4. i # n
    BY <1>0, <1>1, <1>3, TickKeepsInv DEF SchedInv, TasksConserved
  <1>5. CASE TASK = None
    <2>1. tasks' = AfterPick
      BY <1>3, <1>5 DEF ReinsertTask
    <2>2. PICK k, j \in 1 .. n : j < k /\ tasks[k] = t /\ tasks[j] = u
      BY <1>5 DEF Before, Tasks
    <2>3. k = i
      BY <1>0, <1>1, <2>2 DEF TasksConserved
    <2>4. i \in 1 .. n - 1 /\ j \in 1 .. n - 1
      BY <1>0, <1>1, <1>4, <2>2, <2>3
    <2> QED
      BY <1>1, <1>3, <2>1, <2>2, <2>3, <2>4 DEF Before
  <1>6. CASE TASK # None
    <2>1. /\ Len(tasks') = Len(AfterPick) + 1
          /\ tasks'[1] = TASK
          /\ \A k \in 1 .. Len(AfterPick) : tasks'[k + 1] = AfterPick[k]
      <3>1. TASK \in Tasks
        BY <1>0, <1>6 DEF SchedTypeOK
      <3> QED
        BY <1>3, <3>1, ReinsertShape, Zenon
    <2>2. i \in 1 .. n - 1 /\ tasks'[i + 1] = t /\ Len(tasks') = n
      <3>1. n \in Nat /\ n > 0 /\ Len(AfterPick) = n - 1
        BY <1>0, <1>3
      <3> HIDE DEF n
      <3>2. i \in 1 .. n - 1
        BY <1>1, <1>4, <3>1
      <3>3. tasks'[i + 1] = AfterPick[i]
        BY <2>1, <3>1, <3>2
      <3>4. AfterPick[i] = t
        BY <1>1, <1>3, <3>2
      <3>5. Len(tasks') = n
        BY <2>1, <3>1
      <3> QED
        BY <3>2, <3>3, <3>4, <3>5
    <2>3. CASE u = TASK
      BY <1>0, <2>1, <2>2, <2>3 DEF Before
    <2>4. CASE u # TASK
      <3>1. PICK k, j \in 1 .. n : j < k /\ tasks[k] = t /\ tasks[j] = u
        BY <2>4 DEF Before
      <3>2. k = i
        BY <1>0, <1>1, <3>1 DEF TasksConserved
      <3>3. j \in 1 .. n - 1 /\ tasks'[j + 1] = u
        <4>1. n \in Nat /\ Len(AfterPick) = n - 1
          BY <1>0, <1>3
        <4> HIDE DEF n
        <4>2. j \in 1 .. n - 1
          BY <2>2, <3>1, <3>2, <4>1
        <4>3. tasks'[j + 1] = AfterPick[j]
          BY <2>1, <4>1, <4>2
        <4>4. AfterPick[j] = u
          BY <1>3, <3>1, <4>2
        <4> QED
          BY <4>2, <4>3, <4>4
      <3> QED
        BY <1>0, <2>2, <3>1, <3>2, <3>3 DEF Before
    <2> QED
      BY <2>3, <2>4
  <1> QED
    BY <1>5, <1>6

\* Round robin: no waiting task is overtaken by one that is already waiting
\* behind it or by the one that is running.
THEOREM RoundRobin == SchedSpec => RoundRobinOrder
  <1> DEFINE Kept == \A t, u \in Tasks :
               Before(t, u) /\ t \in Queued' /\ u \in Queued' => Before(t, u)'
  <1>1. SchedInv /\ [SchedNext]_schedVars => [Kept]_schedVars
    <2> SUFFICES ASSUME SchedInv, SchedNext, NEW t \in Tasks, NEW u \in Tasks,
                        Before(t, u), t \in Queued', u \in Queued'
                 PROVE  Before(t, u)'
      OBVIOUS
    <2>1. CASE Tick
      BY <2>1, TickKeepsOrder
    <2>2. CASE StartProcess
      <3>1. /\ tasks \in Seq(Tasks) /\ Len(tasks) \in Nat
            /\ tasks' = Append(tasks, task_id + 1) /\ TASK' = TASK
        BY <2>2 DEF SchedInv, SchedTypeOK, StartProcess
      <3>2. Len(tasks') = Len(tasks) + 1 /\ \A i \in 1 .. Len(tasks) : tasks'[i] = tasks[i]
        BY <3>1
      <3> QED
        BY <3>1, <3>2 DEF Before
    <2> QED
      BY <2>1, <2>2 DEF SchedNext
  <1> QED
    BY <1>1, SchedInvariant, PTL DEF SchedSpec, RoundRobinOrder
-----------------------------------------------------------------------------
(* How long a task waits.  The queue holds all tasks but the current one,  *)
(* so it is no longer than the number of tasks started; the lemmas say     *)
(* where a waiting task is after a step.                                   *)

\* The number of tasks in the queue: all that were started, but the current.
QueueLength == Len(tasks) = task_id - (IF TASK = None THEN 0 ELSE 1)

\* A tick takes the last task of the queue and moves the others back by one
\* place if reinsert_task puts the current task before them.
LEMMA TickPlaces ==
    ASSUME SchedTypeOK, Tick, tasks # <<>>,
           NEW d, d = IF TASK = None THEN 0 ELSE 1
    PROVE  /\ Len(tasks) \in Nat /\ Len(tasks) > 0 /\ Len(tasks') = Len(tasks) - 1 + d
           /\ TASK' = tasks[Len(tasks)] /\ TASK' \in Tasks
           /\ \A i \in 1 .. Len(tasks) - 1 : tasks'[i + d] = tasks[i]
  <1>1. /\ Len(tasks) \in Nat /\ Len(tasks) > 0
        /\ TASK' = tasks[Len(tasks)] /\ TASK' \in Tasks
        /\ AfterPick \in Seq(Tasks) /\ Len(AfterPick) = Len(tasks) - 1
        /\ \A i \in 1 .. Len(tasks) - 1 : AfterPick[i] = tasks[i]
    BY PickShape DEF Tick
  <1>2. tasks' = ReinsertTask(AfterPick) /\ (TASK = None \/ TASK \in Tasks)
    BY DEF Tick, SchedTypeOK
  <1>3. CASE TASK = None
    BY <1>1, <1>2, <1>3 DEF ReinsertTask
  <1>4. CASE TASK # None
    BY <1>1, <1>2, <1>4, ReinsertShape
  <1> QED
    BY <1>3, <1>4

\* With nothing queued a tick leaves the task that was current, if any, alone
\* in the queue.
LEMMA TickAlone ==
    ASSUME SchedTypeOK, Tick, tasks = <<>>
    PROVE  TASK' = None /\ Len(tasks') = IF TASK = None THEN 0 ELSE 1
  <1>1. AfterPick = <<>> /\ TASK' = None /\ tasks' = ReinsertTask(<<>>)
    BY PickEmpty DEF Tick
  <1> QED
    BY <1>1 DEF ReinsertTask

\* A new task is pushed behind the others, which stay where they are.
LEMMA StartPlaces ==
    ASSUME SchedTypeOK, StartProcess
    PROVE  /\ Len(tasks) \in Nat /\ Len(tasks') = Len(tasks) + 1 /\ TASK' = TASK
           /\ task_id \in Nat /\ task_id' = task_id + 1
           /\ \A i \in 1 .. Len(tasks) : tasks'[i] = tasks[i]
  <1>1. /\ tasks \in Seq(Tasks) /\ task_id \in Nat /\ TASK' = TASK
        /\ task_id' = task_id + 1 /\ tasks' = Append(tasks, task_id + 1)
    BY SchedulerAssumption DEF SchedTypeOK, StartProcess
  <1> QED
    BY <1>1

\* Every task that was started waits or is the current one.
LEMMA QueueHoldsTheOthers == SchedSpec => []QueueLength
  <1>1. SchedInit => QueueLength
    BY DEF SchedInit, QueueLength
  <1>2. SchedInv /\ QueueLength /\ [SchedNext]_schedVars => QueueLength'
    <2> SUFFICES ASSUME SchedInv, QueueLength, [SchedNext]_schedVars PROVE QueueLength'
      OBVIOUS
    <2>0. SchedTypeOK /\ task_id \in Nat /\ None \notin Tasks
      BY SchedulerAssumption DEF SchedInv, SchedTypeOK, Tasks
    <2>1. CASE StartProcess
      BY <2>0, <2>1, StartPlaces DEF QueueLength
    <2>2. CASE Tick
      <3>1. task_id' = task_id
        BY <2>2 DEF Tick
      <3>2. CASE tasks = <<>>
        <4>1. TASK' = None /\ Len(tasks') = (IF TASK = None THEN 0 ELSE 1) /\ Len(tasks) = 0
          BY <2>0, <2>2, <3>2, TickAlone
        <4> QED
          BY <2>0, <3>1, <4>1 DEF QueueLength
      <3>3. CASE tasks # <<>>
        <4> DEFINE d == IF TASK = None THEN 0 ELSE 1
        <4>1. Len(tasks) \in Nat /\ Len(tasks') = Len(tasks) - 1 + d /\ TASK' # None
          BY <2>0, <2>2, <3>3, TickPlaces
        <4> QED
          BY <2>0, <3>1, <4>1 DEF QueueLength
      <3> QED
        BY <3>2, <3>3
    <2>3. CASE UNCHANGED schedVars
      BY <2>3 DEF schedVars, QueueLength
    <2> QED
      BY <2>1, <2>2, <2>3 DEF SchedNext
  <1> QED
    BY <1>1, <1>2, SchedInvariant, PTL DEF SchedSpec

\* No task waits for MaxTasks ticks or more: of the ticks left to it every tick
\* takes one, and start_process takes the one that was counted for it.
THEOREM WaitBounded == SchedSpec => BoundedWait
  <1> USE SchedulerAssumption
  <1> DEFINE Moves(i) ==
        /\ TicksLeft(i) < MaxTasks
        /\ \/ cpu' = tasks[i]
           \/ \E j \in 1 .. Len(tasks') :
                 /\ tasks'[j] = tasks[i]
                 /\ TicksLeft(j)' <= TicksLeft(i) - (IF Tick THEN 1 ELSE 0)
  <1>1. SchedInv /\ QueueLength /\ [SchedNext]_schedVars
          => [\A i \in 1 .. Len(tasks) : Moves(i)]_schedVars
    <2> SUFFICES ASSUME SchedInv, QueueLength, SchedNext, NEW i \in 1 .. Len(tasks)
                 PROVE  Moves(i)
      OBVIOUS
    <2>0. /\ SchedTypeOK /\ tasks # <<>> /\ Len(tasks) \in Nat /\ task_id \in Nat
          /\ MaxTasks \in Nat /\ None \notin Tasks /\ i \in Int /\ TicksLeft(i) \in Int
      BY DEF SchedInv, SchedTypeOK, Tasks, TicksLeft
    <2>1. TicksLeft(i) < MaxTasks
      BY <2>0 DEF TicksLeft, QueueLength
    <2>2. CASE Tick
      <3>0. PICK d \in 0 .. 1 : d = IF TASK = None THEN 0 ELSE 1
        OBVIOUS
      <3>1. /\ Len(tasks') = Len(tasks) - 1 + d /\ Len(tasks) > 0
            /\ TASK' = tasks[Len(tasks)] /\ TASK' \in Tasks
            /\ \A k \in 1 .. Len(tasks) - 1 : tasks'[k + d] = tasks[k]
        BY <2>0, <2>2, <3>0, TickPlaces
      <3>2. CASE i = Len(tasks)
        <4>1. cpu' = SelectNextTask /\ TASK' = PickNext
          BY <2>2, SwitchIsClean DEF Tick
        <4>2. cpu' = TASK'
          BY <2>0, <3>1, <4>1 DEF SelectNextTask
        <4> QED
          BY <2>1, <3>1, <3>2, <4>2
      <3>3. CASE i # Len(tasks)
        <4>1. i + d \in 1 .. Len(tasks') /\ tasks'[i + d] = tasks[i]
          BY <2>0, <3>1, <3>3
        <4>2. TicksLeft(i + d)' <= TicksLeft(i) - 1
          BY <2>0, <2>2, <3>1 DEF TicksLeft, Tick
        <4> QED
          BY <2>1, <2>2, <4>1, <4>2
      <3> QED
        BY <3>2, <3>3
    <2>3. CASE StartProcess /\ ~Tick
      <3>1. /\ Len(tasks') = Len(tasks) + 1 /\ task_id' = task_id + 1
            /\ i \in 1 .. Len(tasks') /\ tasks'[i] = tasks[i]
        BY <2>0, <2>3, StartPlaces
      <3>2. TicksLeft(i)' <= TicksLeft(i) - 0
        BY <2>0, <3>1 DEF TicksLeft
      <3> QED
        BY <2>1, <2>3, <3>1, <3>2
    <2> QED
      BY <2>2, <2>3 DEF SchedNext
  <1> QED
    BY <1>1, SchedInvariant, QueueHoldsTheOthers, PTL DEF SchedSpec, BoundedWait
-----------------------------------------------------------------------------
\* The scheduler implements the safety part of the abstract dispatcher: each
\* start is a Start, each tick a Dispatch of the task at the end of the queue
\* or, with nothing queued, a GoIdle.
THEOREM RefinesDispatcher == SchedSpec => D!Safety
  <1> USE SchedulerAssumption
  <1>1. SchedInit => D!Init
    BY DEF SchedInit, D!Init, Queued
  <1>2. SchedInv /\ [SchedNext]_schedVars => [D!Next]_(D!vars)
    <2> SUFFICES ASSUME SchedInv, [SchedNext]_schedVars
                 PROVE  D!Next \/ UNCHANGED <<Queued, cpu>>
      BY DEF D!vars
    <2>0. SchedTypeOK /\ TasksConserved /\ CpuAgreesWithTask
      BY DEF SchedInv
    <2>1. CASE StartProcess
      <3>1. cpu # task_id + 1
        BY <2>0 DEF CpuAgreesWithTask, TasksConserved, SchedTypeOK, IDLE
      <3>2. D!Start(task_id + 1)
        BY <2>0, <2>1, <3>1, StartQueue DEF D!Start, StartProcess
      <3> QED
        BY <2>0, <2>1, <3>2, StartQueue DEF D!Next
    <2>2. CASE Tick
      <3>1. {cpu} \cap Tasks = {TASK} \ {None}
        BY <2>0 DEF CpuAgreesWithTask, SchedTypeOK, Tasks, IDLE
      <3>2. Queued' = (Queued \ {TASK'}) \cup ({cpu} \cap Tasks)
        BY <2>0, <2>2, <3>1, TickQueue
      <3>3. cpu' = IF TASK' # None THEN TASK' ELSE IDLE
        BY <2>2, SwitchIsClean DEF Tick, SelectNextTask
      <3>4. CASE tasks = <<>>
        <4>1. D!GoIdle
          BY <2>0, <2>2, <3>2, <3>3, <3>4, TickQueue DEF D!GoIdle
        <4> QED
          BY <4>1 DEF D!Next
      <3>5. CASE tasks # <<>>
        <4>1. TASK' \in Queued /\ TASK' \in Tasks
          BY <2>0, <2>2, <3>5, PickShape DEF Tick, Queued
        <4>2. D!Dispatch(TASK')
          BY <3>2, <3>3, <4>1 DEF D!Dispatch, Tasks
        <4> QED
          BY <4>1, <4>2 DEF D!Next
      <3> QED
        BY <3>4, <3>5
    <2>3. CASE UNCHANGED schedVars
      BY <2>3 DEF schedVars, Queued
    <2> QED
      BY <2>1, <2>2, <2>3 DEF SchedNext
  <1> QED
    BY <1>1, <1>2, SchedInvariant, PTL DEF SchedSpec, D!Safety
=============================================================================
