----------------------------- MODULE ThreadPool -----------------------------
(***************************************************************************)
(* The thread pool of work_srcs/socket: common/thread_pool/thread_pool.c   *)
(* and its task_queue.c, as server_pool.c and client_pool.c use it.        *)
(*                                                                         *)
(* One action is one step of one thread between two points where another   *)
(* thread can notice: acquiring the mutex, the work done under it, the     *)
(* wait, the release, the handler, the release of the argument's memory.   *)
(* A handler is abstracted to the fact that it returns; what the server's  *)
(* handlers do is in SocketServer.                                         *)
(*                                                                         *)
(* destroy_thread_pool (112-133) has no action: main never leaves its      *)
(* while(1), and destroy_server_thread_pool/destroy_client_thread_pool     *)
(* have empty bodies, so the program never calls it.                       *)
(***************************************************************************)
EXTENDS Integers, Sequences, FiniteSets

CONSTANTS
    Worker,        \* the init_threads_cnt threads create_thread_pool starts
    Submitter,     \* the threads that call add_task_to_pool_*
    Task,          \* the calls of add_task_to_pool_*: a bound on their number
    CopiedArg,     \* the calls of ..._release_arg_mem with an argument
    NoTask,        \* no task_t in the thread's local variable
    NoOne,         \* the mutex is free
    Creator        \* the thread that runs create_thread_pool (main)

ASSUME ThreadsDistinct ==
    /\ Worker \cap Submitter = {}
    /\ NoOne \notin Worker \cup Submitter \cup {Creator}
    /\ Creator \notin Worker \cup Submitter

ASSUME WorkersFinite == IsFiniteSet(Worker)

ASSUME TasksAssumption == CopiedArg \subseteq Task /\ NoTask \notin Task

VARIABLES
    pcW,               \* where each pool thread is in pool_task_process_thread
    pcS,               \* where each submitting thread is in add_task_to_pool_*
    mutex,             \* pool->mutex_: its holder
    queue,             \* pool->queue, head first
    cur_tasks_cnt,     \* pool->cur_tasks_cnt
    cur_threads_cnt,   \* pool->cur_threads_cnt
    g_pool,            \* g_srv_thread_pool / g_cli_thread_pool is set
    taskW, taskS,      \* the local variable task of each thread
    heap,              \* the argument copies that are allocated
    stage              \* history: how far each task is

poolVars == <<queue, cur_tasks_cnt>>
createVars == <<cur_threads_cnt, g_pool>>
vars == <<pcW, pcS, mutex, queue, cur_tasks_cnt, cur_threads_cnt, g_pool,
          taskW, taskS, heap, stage>>

WorkerPC == {"none", "failed", "lock", "deq", "wait", "wake", "count", "run", "free"}
SubmitPC == {"idle", "lock", "enq", "bcast", "unlock"}
Stage == {"fresh", "submitting", "queued", "running", "done"}

\* create_thread_pool up to the loop: main holds the mutex and no thread exists.
Init ==
    /\ pcW = [w \in Worker |-> "none"]
    /\ pcS = [s \in Submitter |-> "idle"]
    /\ mutex = Creator
    /\ queue = << >>
    /\ cur_tasks_cnt = 0
    /\ cur_threads_cnt = 0
    /\ g_pool = FALSE
    /\ taskW = [w \in Worker |-> NoTask]
    /\ taskS = [s \in Submitter |-> NoTask]
    /\ heap = {}
    /\ stage = [t \in Task |-> "fresh"]

-----------------------------------------------------------------------------
(* create_thread_pool *)

\* One round of the loop.  The new thread runs at once and blocks on the mutex.
CreateThread(w) ==
    /\ ~g_pool
    /\ pcW[w] = "none"
    /\ pcW' = [pcW EXCEPT ![w] = "lock"]
    /\ cur_threads_cnt' = cur_threads_cnt + 1
    /\ UNCHANGED <<pcS, mutex, poolVars, g_pool, taskW, taskS, heap, stage>>

\* pthread_create fails: it is logged and the loop goes on without the thread.
CreateThreadError(w) ==
    /\ ~g_pool
    /\ pcW[w] = "none"
    /\ pcW' = [pcW EXCEPT ![w] = "failed"]
    /\ UNCHANGED <<pcS, mutex, poolVars, createVars, taskW, taskS, heap, stage>>

\* The loop is over: unlock, return, and the caller's global gets the pool.
CreateDone ==
    /\ ~g_pool
    /\ \A w \in Worker : pcW[w] # "none"
    /\ mutex' = NoOne
    /\ g_pool' = TRUE
    /\ UNCHANGED <<pcW, pcS, poolVars, cur_threads_cnt, taskW, taskS, heap, stage>>

-----------------------------------------------------------------------------
(* add_task_to_pool_use_arg_mem and add_task_to_pool_release_arg_mem *)

\* The call up to the lock: the task is built and its argument copied.  The
\* global is set: main creates the pool before it starts the other threads.
AddTask(s, t) ==
    /\ g_pool
    /\ pcS[s] = "idle"
    /\ stage[t] = "fresh"
    /\ pcS' = [pcS EXCEPT ![s] = "lock"]
    /\ taskS' = [taskS EXCEPT ![s] = t]
    /\ heap' = heap \cup ({t} \cap CopiedArg)
    /\ stage' = [stage EXCEPT ![t] = "submitting"]
    /\ UNCHANGED <<pcW, mutex, poolVars, createVars, taskW>>

SubmitLock(s) ==
    /\ pcS[s] = "lock"
    /\ mutex = NoOne
    /\ mutex' = s
    /\ pcS' = [pcS EXCEPT ![s] = "enq"]
    /\ UNCHANGED <<pcW, poolVars, createVars, taskW, taskS, heap, stage>>

\* Mutant: list_add for list_add_tail in en_task_to_queue.
SubmitEnqueueAtHead(s) ==
    /\ pcS[s] = "enq"
    /\ queue' = <<taskS[s]>> \o queue
    /\ cur_tasks_cnt' = cur_tasks_cnt + 1
    /\ stage' = [stage EXCEPT ![taskS[s]] = "queued"]
    /\ taskS' = [taskS EXCEPT ![s] = NoTask]
    /\ pcS' = [pcS EXCEPT ![s] = "bcast"]
    /\ UNCHANGED <<pcW, mutex, createVars, taskW, heap>>

\* en_task_to_queue, which cannot fail here, and cur_tasks_cnt++.
SubmitEnqueue(s) ==
    /\ pcS[s] = "enq"
    /\ queue' = Append(queue, taskS[s])
    /\ cur_tasks_cnt' = cur_tasks_cnt + 1
    /\ stage' = [stage EXCEPT ![taskS[s]] = "queued"]
    /\ taskS' = [taskS EXCEPT ![s] = NoTask]
    /\ pcS' = [pcS EXCEPT ![s] = "bcast"]
    /\ UNCHANGED <<pcW, mutex, createVars, taskW, heap>>

\* Mutant: the broadcast is left out.
SubmitNoBroadcast(s) ==
    /\ pcS[s] = "bcast"
    /\ pcS' = [pcS EXCEPT ![s] = "unlock"]
    /\ UNCHANGED <<pcW, mutex, poolVars, createVars, taskW, taskS, heap, stage>>

\* pthread_cond_broadcast: every waiting thread goes to reacquire the mutex.
SubmitBroadcast(s) ==
    /\ pcS[s] = "bcast"
    /\ pcW' = [w \in Worker |-> IF pcW[w] = "wait" THEN "wake" ELSE pcW[w]]
    /\ pcS' = [pcS EXCEPT ![s] = "unlock"]
    /\ UNCHANGED <<mutex, poolVars, createVars, taskW, taskS, heap, stage>>

SubmitUnlock(s) ==
    /\ pcS[s] = "unlock"
    /\ mutex' = NoOne
    /\ pcS' = [pcS EXCEPT ![s] = "idle"]
    /\ UNCHANGED <<pcW, poolVars, createVars, taskW, taskS, heap, stage>>

-----------------------------------------------------------------------------
(* pool_task_process_thread *)

\* pthread_mutex_lock at the top of the loop, or inside pthread_cond_wait.
WorkerLock(w) ==
    /\ pcW[w] \in {"lock", "wake"}
    /\ mutex = NoOne
    /\ mutex' = w
    /\ pcW' = [pcW EXCEPT ![w] = "deq"]
    /\ UNCHANGED <<pcS, poolVars, createVars, taskW, taskS, heap, stage>>

\* de_task_from_queue succeeds: the oldest task is copied to the local variable.
WorkerDequeue(w) ==
    /\ pcW[w] = "deq"
    /\ queue # << >>
    /\ taskW' = [taskW EXCEPT ![w] = Head(queue)]
    /\ queue' = Tail(queue)
    /\ stage' = [stage EXCEPT ![Head(queue)] = "running"]
    /\ pcW' = [pcW EXCEPT ![w] = "count"]
    /\ UNCHANGED <<pcS, mutex, cur_tasks_cnt, createVars, taskS, heap>>

\* de_task_from_queue answers QUEUE_EMPTY: pthread_cond_wait gives the mutex up
\* and sleeps in one step.
WorkerWait(w) ==
    /\ pcW[w] = "deq"
    /\ queue = << >>
    /\ pcW' = [pcW EXCEPT ![w] = "wait"]
    /\ mutex' = NoOne
    /\ UNCHANGED <<pcS, poolVars, createVars, taskW, taskS, heap, stage>>

\* A condition variable may wake a thread that nobody signalled.
SpuriousWake(w) ==
    /\ pcW[w] = "wait"
    /\ pcW' = [pcW EXCEPT ![w] = "wake"]
    /\ UNCHANGED <<pcS, mutex, poolVars, createVars, taskW, taskS, heap, stage>>

\* Mutant: cur_tasks_cnt-- forgotten.
WorkerUnlockUncounted(w) ==
    /\ pcW[w] = "count"
    /\ mutex' = NoOne
    /\ pcW' = [pcW EXCEPT ![w] = "run"]
    /\ UNCHANGED <<pcS, poolVars, createVars, taskW, taskS, heap, stage>>

\* cur_tasks_cnt-- and unlock.
WorkerUnlock(w) ==
    /\ pcW[w] = "count"
    /\ cur_tasks_cnt' = cur_tasks_cnt - 1
    /\ mutex' = NoOne
    /\ pcW' = [pcW EXCEPT ![w] = "run"]
    /\ UNCHANGED <<pcS, queue, createVars, taskW, taskS, heap, stage>>

\* The handler is called and returns.
WorkerHandle(w) ==
    /\ pcW[w] = "run"
    /\ stage' = [stage EXCEPT ![taskW[w]] = "done"]
    /\ pcW' = [pcW EXCEPT ![w] = "free"]
    /\ UNCHANGED <<pcS, mutex, poolVars, createVars, taskW, taskS, heap>>

\* Mutant: the copy is never freed.
WorkerNoFree(w) ==
    /\ pcW[w] = "free"
    /\ taskW' = [taskW EXCEPT ![w] = NoTask]
    /\ pcW' = [pcW EXCEPT ![w] = "lock"]
    /\ UNCHANGED <<pcS, mutex, poolVars, createVars, taskS, heap, stage>>

\* Mutant: the thread leaves its loop after a task.
WorkerFreeExit(w) ==
    /\ pcW[w] = "free"
    /\ heap' = heap \ ({taskW[w]} \cap CopiedArg)
    /\ taskW' = [taskW EXCEPT ![w] = NoTask]
    /\ pcW' = [pcW EXCEPT ![w] = "failed"]
    /\ UNCHANGED <<pcS, mutex, poolVars, createVars, taskS, stage>>

\* The argument's copy is freed, unless there is none, and the loop goes round.
WorkerFree(w) ==
    /\ pcW[w] = "free"
    /\ heap' = heap \ ({taskW[w]} \cap CopiedArg)
    /\ taskW' = [taskW EXCEPT ![w] = NoTask]
    /\ pcW' = [pcW EXCEPT ![w] = "lock"]
    /\ UNCHANGED <<pcS, mutex, poolVars, createVars, taskS, stage>>

-----------------------------------------------------------------------------
Create == \/ \E w \in Worker : CreateThread(w) \/ CreateThreadError(w)
          \/ CreateDone

SubmitStep(s) == \/ SubmitLock(s)
                 \/ SubmitEnqueue(s)
                 \/ SubmitBroadcast(s)
                 \/ SubmitUnlock(s)

WorkerStep(w) == \/ WorkerLock(w)
                 \/ WorkerDequeue(w)
                 \/ WorkerWait(w)
                 \/ WorkerUnlock(w)
                 \/ WorkerHandle(w)
                 \/ WorkerFree(w)

Next ==
    \/ Create
    \/ \E s \in Submitter : SubmitStep(s) \/ \E t \in Task : AddTask(s, t)
    \/ \E w \in Worker : WorkerStep(w) \/ SpuriousWake(w)

Spec == Init /\ [][Next]_vars

\* The operating system runs every runnable thread.  A submitter that waits for
\* the mutex is not passed over for ever while the mutex keeps becoming free,
\* although pool threads that wake for nothing may take it again and again.
\* Nothing obliges a caller to submit, nor a thread to wake unsignalled.
Fairness ==
    /\ WF_vars(Create)
    /\ \A s \in Submitter : WF_vars(SubmitStep(s)) /\ SF_vars(SubmitLock(s))
    /\ \A w \in Worker : WF_vars(WorkerStep(w))

FairSpec == Spec /\ Fairness

-----------------------------------------------------------------------------
TypeOK ==
    /\ pcW \in [Worker -> WorkerPC]
    /\ pcS \in [Submitter -> SubmitPC]
    /\ mutex \in Worker \cup Submitter \cup {Creator, NoOne}
    /\ queue \in Seq(Task)
    /\ cur_tasks_cnt \in Nat
    /\ cur_threads_cnt \in Nat
    /\ g_pool \in BOOLEAN
    /\ taskW \in [Worker -> Task \cup {NoTask}]
    /\ taskS \in [Submitter -> Task \cup {NoTask}]
    /\ heap \subseteq Task
    /\ stage \in [Task -> Stage]

\* pool->cur_tasks_cnt is the number of tasks in the queue, except between a
\* thread's de_queue and its cur_tasks_cnt--, which no other thread can see
\* because both happen under the mutex.  With it the unsigned counter never
\* wraps below zero.  (thread_pool.c:20, 41, 68)
TaskCountExact ==
    cur_tasks_cnt = Len(queue) + (IF \E w \in Worker : pcW[w] = "count" THEN 1 ELSE 0)

\* No pool thread sleeps in pthread_cond_wait while a task is queued, unless
\* the broadcast that will wake it is still to come in the thread that holds
\* the mutex: the wake-up is never lost between the empty answer of de_queue
\* and the wait.  (thread_pool.c:43, 65-66)
NoLostWakeup ==
    queue # << >> /\ (\A s \in Submitter : pcS[s] # "bcast")
        => \A w \in Worker : pcW[w] # "wait"

\* The argument copies that are allocated are exactly those of the tasks that
\* are being submitted, queued or handled and of the thread that is about to
\* free one: a handler never runs on freed memory, nothing is freed twice and
\* nothing leaks.  (thread_pool.c:31, 70-73)
ArgMemoryExact ==
    heap = {t \in CopiedArg : \/ stage[t] \in {"submitting", "queued", "running"}
                              \/ \E w \in Worker : pcW[w] = "free" /\ taskW[w] = t}

\* The pool implements TaskPool: a task enters once, in en_task_to_queue, is
\* started once, in the order of entry, and finishes once.
Pool == INSTANCE TaskPool WITH
            pending <- queue,
            stage <- [t \in Task |-> IF stage[t] \in {"fresh", "submitting"}
                                     THEN "new" ELSE stage[t]]

ImplementsTaskPool == Pool!Spec

\* Every task whose submission has begun is handled, if at least one thread of
\* the pool could be created.  (thread_pool.c:63-74, 98-105)
TasksServed ==
    \A t \in Task : stage[t] = "submitting" /\ cur_threads_cnt > 0 ~> stage[t] = "done"

-----------------------------------------------------------------------------
(* The inductive invariant: what the proofs of the properties above need.  *)

\* Who holds the mutex is who is between lock and unlock.
MutexInv ==
    /\ \A w \in Worker : pcW[w] \in {"deq", "count"} <=> mutex = w
    /\ \A s \in Submitter : pcS[s] \in {"enq", "bcast", "unlock"} <=> mutex = s
    /\ mutex = Creator <=> ~g_pool
    /\ g_pool => \A w \in Worker : pcW[w] # "none"
    /\ ~g_pool => \A w \in Worker : pcW[w] \in {"none", "failed", "lock"}
    /\ ~g_pool => \A s \in Submitter : pcS[s] = "idle"

\* Every task is in one place, and its stage says which.
PlaceInv ==
    /\ \A w \in Worker : IF pcW[w] \in {"count", "run", "free"}
                         THEN /\ taskW[w] \in Task
                              /\ stage[taskW[w]] = IF pcW[w] = "free" THEN "done" ELSE "running"
                         ELSE taskW[w] = NoTask
    /\ \A v, w \in Worker : taskW[v] = taskW[w] /\ taskW[v] # NoTask => v = w
    /\ \A s \in Submitter : IF pcS[s] \in {"lock", "enq"}
                            THEN taskS[s] \in Task /\ stage[taskS[s]] = "submitting"
                            ELSE taskS[s] = NoTask
    /\ \A r, s \in Submitter : taskS[r] = taskS[s] /\ taskS[r] # NoTask => r = s
    /\ \A i \in 1..Len(queue) : stage[queue[i]] = "queued"
    /\ \A i, j \in 1..Len(queue) : queue[i] = queue[j] => i = j

\* The properties above hold together, and with them who may hold the mutex and
\* where each task is, in every step of every thread.
IndInv ==
    /\ TypeOK
    /\ MutexInv
    /\ PlaceInv
    /\ TaskCountExact
    /\ NoLostWakeup
    /\ ArgMemoryExact

=============================================================================
