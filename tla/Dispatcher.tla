----------------------------- MODULE Dispatcher -----------------------------
(***************************************************************************)
(* What a preemptive scheduler promises, and nothing about how it keeps    *)
(* its queue: one context runs at a time, a task that is switched out      *)
(* stays ready, a switch takes some ready task when there is one and the   *)
(* idle task otherwise, and no task waits forever.  Module Scheduler, the  *)
(* round-robin scheduler of src/src/scheduler.rs, implements it.           *)
(***************************************************************************)
CONSTANTS Tasks,   \* identifiers of the tasks that may be started; not Idle, not Boot
          Idle,    \* the context that runs when no task is ready
          Boot     \* the context the machine starts in

VARIABLES ready,   \* started tasks that are waiting for the processor
          running  \* the context on the processor

vars == <<ready, running>>

Init ==
    /\ ready = {}
    /\ running = Boot

\* A new task becomes ready.
Start(t) ==
    /\ t \notin ready \cup {running}
    /\ ready' = ready \cup {t}
    /\ UNCHANGED running

\* The running context gives way to the ready task t.
Dispatch(t) ==
    /\ t \in ready
    /\ running' = t
    /\ ready' = (ready \ {t}) \cup ({running} \cap Tasks)

\* No task is ready: the idle task runs, and the one that ran becomes ready.
GoIdle ==
    /\ ready = {}
    /\ running' = Idle
    /\ ready' = {running} \cap Tasks

Next ==
    \/ \E t \in Tasks : Start(t) \/ Dispatch(t)
    \/ GoIdle

Safety == Init /\ [][Next]_vars

\* No starvation: a task that is ready again and again is dispatched again
\* and again.
Spec == Safety /\ \A t \in Tasks : SF_vars(Dispatch(t))
=============================================================================
