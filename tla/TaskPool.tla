------------------------------ MODULE TaskPool ------------------------------
(***************************************************************************)
(* What common/thread_pool promises to the code that uses it: a task that  *)
(* add_task_to_pool_* returns from is in the pool exactly once, tasks are  *)
(* started in the order in which they entered, and each is started once.   *)
(* How the threads agree on it (mutex, condition variable, counters) is    *)
(* the business of ThreadPool, which is shown to implement this module.    *)
(* Tasks finish in any order: they run in several threads.                 *)
(***************************************************************************)
EXTENDS Sequences

CONSTANT Task          \* the calls of add_task_to_pool_*, each a task_t of its own

VARIABLES
    pending,           \* the tasks that wait in the pool, oldest first
    stage              \* how far each task is

vars == <<pending, stage>>

Stage == {"new", "queued", "running", "done"}

Init ==
    /\ pending = << >>
    /\ stage = [t \in Task |-> "new"]

\* add_task_to_pool_*: the task enters at the tail.
Submit(t) ==
    /\ stage[t] = "new"
    /\ pending' = Append(pending, t)
    /\ stage' = [stage EXCEPT ![t] = "queued"]

\* Some pool thread takes the oldest task and calls its handler.
Start ==
    /\ pending # << >>
    /\ pending' = Tail(pending)
    /\ stage' = [stage EXCEPT ![Head(pending)] = "running"]

\* A handler returns.
Finish(t) ==
    /\ stage[t] = "running"
    /\ stage' = [stage EXCEPT ![t] = "done"]
    /\ UNCHANGED pending

Next ==
    \/ \E t \in Task : Submit(t)
    \/ Start
    \/ \E t \in Task : Finish(t)

Spec == Init /\ [][Next]_vars

=============================================================================
