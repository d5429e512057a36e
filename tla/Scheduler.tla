------------------------------ MODULE Scheduler ------------------------------
(***************************************************************************)
(* The round-robin scheduler and the context switch: src/src/scheduler.rs  *)
(* and the part of apic_timer_handler in src/src/interrupts.rs that saves  *)
(* one context and loads another.                                          *)
(*                                                                         *)
(* A timer interrupt runs through an interrupt gate on a single core, so   *)
(* no other code runs between current_task_ptr and iretq: Tick is one      *)
(* step.  start_process runs under the SCHEDULER lock and is one step too. *)
(* What happens when the lock is taken and the interrupt comes is the      *)
(* subject of module Kernel.                                               *)
(*                                                                         *)
(* A context is named after the ProcessState whose frame starts it.  The   *)
(* word kernel_rsp of a ProcessState is modelled by the context that       *)
(* loading it resumes.  Once a frame has been loaded and iretq has popped  *)
(* it, the word is stale until it is written again: it is Popped.          *)
(***************************************************************************)
EXTENDS Integers, Sequences

CONSTANTS
    MaxTasks,  \* bound on the number of start_process calls
    BOOT,      \* the context of kernel_main, which no ProcessState describes
    VOID,      \* VOID_TASK
    None,      \* Option::None
    Popped     \* a kernel_rsp whose frame has been popped

IDLE == 0      \* IDLE_TASK is Process::new(0, ..); other ids start at 1
Tasks == 1 .. MaxTasks
ProcessStates == {VOID, IDLE} \cup Tasks
Contexts == {BOOT} \cup ProcessStates

ASSUME SchedulerAssumption ==
    /\ MaxTasks \in Nat
    /\ BOOT \notin Nat /\ VOID \notin Nat /\ None \notin Nat /\ Popped \notin Nat
    /\ BOOT # VOID /\ BOOT # None /\ BOOT # Popped
    /\ VOID # None /\ VOID # Popped /\ None # Popped

VARIABLES
    tasks,       \* RoundRobinScheduler::tasks, the Vec of waiting tasks
    task_id,     \* RoundRobinScheduler::task_id, the last id given out
    TASK,        \* the static TASK: the current task, or None
    INIT,        \* the static INIT: has a timer interrupt been taken
    kernel_rsp,  \* for each ProcessState the context its frame resumes
    cpu          \* the context on the processor

schedVars == <<tasks, task_id, TASK, INIT, kernel_rsp, cpu>>

SchedInit ==
    /\ tasks = <<>>
    /\ task_id = 0
    /\ TASK = None
    /\ INIT = FALSE
    /\ kernel_rsp = [p \in ProcessStates |-> IF p \in Tasks THEN None ELSE p]
    /\ cpu = BOOT
-----------------------------------------------------------------------------
\* pick_next: Vec::pop takes the last element; on an empty Vec it is None.
PickNext == IF tasks = <<>> THEN None ELSE tasks[Len(tasks)]
AfterPick == SubSeq(tasks, 1, Len(tasks) - 1)

\* reinsert_task: Vec::insert(0, ..), called for the old TASK if there is one.
ReinsertTask_Push(q) == IF TASK = None THEN q ELSE Append(q, TASK)
ReinsertTask_Dropped(q) == q
ReinsertTask_NoCheck(q) == <<TASK>> \o q
ReinsertTask(q) == IF TASK = None THEN q ELSE <<TASK>> \o q

\* start_process: the new task is pushed on the end that pop takes from, so
\* it runs at the next tick.
StartProcess_SameId ==
    /\ task_id < MaxTasks
    /\ task_id' = IF task_id = 0 THEN 1 ELSE task_id
    /\ tasks' = Append(tasks, task_id')
    /\ kernel_rsp' = [kernel_rsp EXCEPT ![task_id'] = task_id']
    /\ UNCHANGED <<TASK, INIT, cpu>>

StartProcess ==
    /\ task_id < MaxTasks
    /\ task_id' = task_id + 1
    /\ tasks' = Append(tasks, task_id')
    /\ kernel_rsp' = [kernel_rsp EXCEPT ![task_id'] = task_id']
    /\ UNCHANGED <<TASK, INIT, cpu>>
-----------------------------------------------------------------------------
\* current_task_ptr: the ProcessState the interrupted context is saved to.
CurrentTaskPtr_NoVoid == IF TASK # None THEN TASK ELSE IDLE
CurrentTaskPtr ==
    CASE TASK # None            -> TASK
      [] TASK = None /\ ~INIT   -> VOID
      [] TASK = None /\ INIT    -> IDLE

\* "mov [rax], rsp": every frame, with the interrupted context stored.
SavedFrames_Skipped == kernel_rsp
SavedFrames == [kernel_rsp EXCEPT ![CurrentTaskPtr] = cpu]

\* select_next_task: the ProcessState that is loaded next.
SelectNextTask == IF PickNext = None THEN IDLE ELSE PickNext

\* apic_timer_handler from current_task_ptr to iretq.
Tick ==
    /\ INIT' = (INIT \/ TASK = None)
    /\ tasks' = ReinsertTask(AfterPick)
    /\ TASK' = PickNext
    /\ cpu' = SavedFrames[SelectNextTask]
    /\ kernel_rsp' = [SavedFrames EXCEPT ![SelectNextTask] = Popped]
    /\ UNCHANGED task_id

SchedNext == StartProcess \/ Tick

SchedSpec == SchedInit /\ [][SchedNext]_schedVars

\* The handler re-arms the one-shot timer before it does anything else
\* (restart_apic), so ticks never stop.
FairSchedSpec == SchedSpec /\ WF_schedVars(Tick)
-----------------------------------------------------------------------------
Queued == {tasks[i] : i \in 1 .. Len(tasks)}

SchedTypeOK ==
    /\ tasks \in Seq(Tasks)
    /\ task_id \in 0 .. MaxTasks
    /\ TASK \in Tasks \cup {None}
    /\ INIT \in BOOLEAN
    /\ kernel_rsp \in [ProcessStates -> Contexts \cup {None, Popped}]
    /\ cpu \in Contexts \cup {None, Popped}

\* No task is lost and none is duplicated: every id start_process returned is
\* at exactly one place of the queue, or is the current task and not queued.
TasksConserved ==
    /\ \A i, j \in 1 .. Len(tasks) : tasks[i] = tasks[j] => i = j
    /\ Queued \cup ({TASK} \ {None}) = 1 .. task_id
    /\ TASK \notin Queued

\* The context on the processor is the one the statics TASK and INIT stand
\* for, so the next save goes to the ProcessState the context came from.
CpuAgreesWithTask ==
    /\ cpu = IF TASK # None THEN TASK ELSE IF INIT THEN IDLE ELSE BOOT
    /\ TASK # None => INIT

\* A frame that may be loaded resumes the context it belongs to and is not
\* stale.  In particular the boot stack is never stored in a task or in the
\* idle task, which is what the comment in current_task_ptr asks of VOID_TASK.
FramesAreOwn ==
    \A p \in ProcessStates \ {VOID} :
        kernel_rsp[p] = IF p = cpu THEN Popped
                        ELSE IF p > task_id THEN None
                        ELSE p

\* Round robin: the tasks that wait keep their order, the task that was
\* switched out waits behind all of them, and nobody is overtaken by a task
\* that has already run.  t goes before u in the queue if it is nearer to the
\* end that pick_next takes from; the current task goes behind everybody.
Before(t, u) ==
    \/ \E i, j \in 1 .. Len(tasks) : j < i /\ tasks[i] = t /\ tasks[j] = u
    \/ t \in Queued /\ u = TASK

RoundRobinOrder ==
    [][\A t, u \in Tasks :
          Before(t, u) /\ t \in Queued' /\ u \in Queued' => Before(t, u)']_schedVars

\* The idle task is switched to only when at most one task was ever started:
\* with two tasks one of them is always waiting when the other is preempted.
IdleOnlyWhenAlone ==
    [][cpu # IDLE /\ cpu' = IDLE => task_id <= 1]_schedVars

\* The most ticks that may go by before the one that brings the task at place
\* i of the queue to the processor: one for every task ahead of it and one for
\* every task that may still be started, as start_process puts it ahead of all.
TicksLeft(i) == (Len(tasks) - i) + (MaxTasks - task_id)

\* No task waits long: fewer than MaxTasks ticks are left to a waiting task,
\* every tick that does not take it takes one of them away, and a new task
\* pushed on the end of the queue uses up the one counted for it.
BoundedWait ==
    [][\A i \in 1 .. Len(tasks) :
          /\ TicksLeft(i) < MaxTasks
          /\ \/ cpu' = tasks[i]
             \/ \E j \in 1 .. Len(tasks') :
                   /\ tasks'[j] = tasks[i]
                   /\ TicksLeft(j)' <= TicksLeft(i) - (IF Tick THEN 1 ELSE 0)]_schedVars

\* The scheduler implements the abstract dispatcher: a switch takes a ready
\* task if there is one, a task switched out stays ready, and (under weak
\* fairness of the timer) every started task runs again and again.
D == INSTANCE Dispatcher WITH
        Idle <- IDLE, Boot <- BOOT, ready <- Queued, running <- cpu

ImplementsDispatcher == D!Spec
=============================================================================
