--------------------------- MODULE UdpThreadPool ---------------------------
(***************************************************************************)
(* The older thread pool, of work_srcs/socket_udp/common/thread_pool.  It  *)
(* differs from the one ThreadPool models: a submitter signals one thread, *)
(* after it has released the mutex, and the creation loop makes up for     *)
(* threads that could not be created.                                      *)
(*                                                                         *)
(* What runs under the mutex is one step; the loop of CreateThreadPool     *)
(* holds the mutex to its end.  curTaskCnt is left out: the code changes   *)
(* it and never reads it.  DestoryThreadPool has no action: main never     *)
(* leaves its while(1).                                                    *)
(***************************************************************************)
EXTENDS Integers, Sequences, SequencesExt, FiniteSets

CONSTANTS
    Worker,            \* the threads, at least initThreadsCnt of them
    Submitter,         \* the threads that call AddTaskToPool
    Task,              \* the calls of AddTaskToPool: a bound on their number
    NoTask,            \* no task in the local variable task_
    initThreadsCnt,
    maxThreadsCnt

ASSUME CountsAssumption ==
    /\ initThreadsCnt \in Nat /\ maxThreadsCnt \in Nat
    /\ IsFiniteSet(Worker) /\ initThreadsCnt <= Cardinality(Worker)

ASSUME NoTaskAssumption == NoTask \notin Task

VARIABLES
    i,                 \* the loop variable of CreateThreadPool
    created,           \* CreateThreadPool has returned
    failures,          \* history: the calls of pthread_create that failed
    pcW, task,         \* each pool thread, and its local variable task_
    pcS,               \* each submitting thread
    queue,             \* pool->taskQueue, head first
    stage              \* history: how far each task is

vars == <<i, created, failures, pcW, task, pcS, queue, stage>>

Threads == {w \in Worker : pcW[w] # "none"}          \* curThreadsCnt of them
Waiting == {w \in Worker : pcW[w] = "wait"}
Awake == {w \in Worker : pcW[w] = "lock"}
Signalling == {s \in Submitter : pcS[s] = "signal"}

Init ==
    /\ i = 0
    /\ created = FALSE
    /\ failures = 0
    /\ pcW = [w \in Worker |-> "none"]
    /\ task = [w \in Worker |-> NoTask]
    /\ pcS = [s \in Submitter |-> "idle"]
    /\ queue = << >>
    /\ stage = [t \in Task |-> "new"]

-----------------------------------------------------------------------------
(* CreateThreadPool *)

\* Mutant: the loop runs to initThreadsCnt.
CreateRoundToInit == ~created /\ i < initThreadsCnt /\ Cardinality(Threads) < initThreadsCnt

CreateRound == ~created /\ i < maxThreadsCnt /\ Cardinality(Threads) < initThreadsCnt

\* The new thread runs at once and blocks on the mutex.
CreateThread(w) ==
    /\ CreateRound
    /\ pcW[w] = "none"
    /\ i' = i + 1
    /\ pcW' = [pcW EXCEPT ![w] = "lock"]
    /\ UNCHANGED <<created, failures, task, pcS, queue, stage>>

CreateThreadError ==
    /\ CreateRound
    /\ i' = i + 1
    /\ failures' = failures + 1
    /\ UNCHANGED <<created, pcW, task, pcS, queue, stage>>

CreateDone ==
    /\ ~created
    /\ ~CreateRound
    /\ created' = TRUE
    /\ UNCHANGED <<i, failures, pcW, task, pcS, queue, stage>>

Create == (\E w \in Worker : CreateThread(w)) \/ CreateThreadError \/ CreateDone

-----------------------------------------------------------------------------
(* AddTaskToPool *)

\* Mutant: only the task that ends an empty queue is signalled.
AddTaskToPoolFirst(s, t) ==
    /\ created
    /\ pcS[s] = "idle"
    /\ stage[t] = "new"
    /\ queue' = Append(queue, t)
    /\ stage' = [stage EXCEPT ![t] = "queued"]
    /\ pcS' = [pcS EXCEPT ![s] = IF queue = << >> THEN "signal" ELSE "idle"]
    /\ UNCHANGED <<i, created, failures, pcW, task>>

\* Mutant: list_add for list_add_tail.
AddTaskToPoolAtHead(s, t) ==
    /\ created
    /\ pcS[s] = "idle"
    /\ stage[t] = "new"
    /\ queue' = <<t>> \o queue
    /\ stage' = [stage EXCEPT ![t] = "queued"]
    /\ pcS' = [pcS EXCEPT ![s] = "signal"]
    /\ UNCHANGED <<i, created, failures, pcW, task>>

\* From the lock to the unlock.  main starts the submitters after the pool.
AddTaskToPool(s, t) ==
    /\ created
    /\ pcS[s] = "idle"
    /\ stage[t] = "new"
    /\ queue' = Append(queue, t)
    /\ stage' = [stage EXCEPT ![t] = "queued"]
    /\ pcS' = [pcS EXCEPT ![s] = "signal"]
    /\ UNCHANGED <<i, created, failures, pcW, task>>

\* pthread_cond_signal wakes one of the waiting threads, if there is one.
Signal(s) ==
    /\ pcS[s] = "signal"
    /\ pcS' = [pcS EXCEPT ![s] = "idle"]
    /\ \/ Waiting = {} /\ UNCHANGED pcW
       \/ \E w \in Waiting : pcW' = [pcW EXCEPT ![w] = "lock"]
    /\ UNCHANGED <<i, created, failures, task, queue, stage>>

-----------------------------------------------------------------------------
(* ProcessTask *)

DeTask(w) ==
    /\ created /\ pcW[w] = "lock" /\ queue # << >>
    /\ task' = [task EXCEPT ![w] = Head(queue)]
    /\ queue' = Tail(queue)
    /\ stage' = [stage EXCEPT ![Head(queue)] = "running"]
    /\ pcW' = [pcW EXCEPT ![w] = "run"]
    /\ UNCHANGED <<i, created, failures, pcS>>

Wait(w) ==
    /\ created /\ pcW[w] = "lock" /\ queue = << >>
    /\ pcW' = [pcW EXCEPT ![w] = "wait"]
    /\ UNCHANGED <<i, created, failures, task, pcS, queue, stage>>

\* pthread_cond_wait may return unsignalled: the loop looks again.
SpuriousWake(w) ==
    /\ pcW[w] = "wait"
    /\ pcW' = [pcW EXCEPT ![w] = "lock"]
    /\ UNCHANGED <<i, created, failures, task, pcS, queue, stage>>

Handle(w) ==
    /\ pcW[w] = "run"
    /\ stage' = [stage EXCEPT ![task[w]] = "done"]
    /\ task' = [task EXCEPT ![w] = NoTask]
    /\ pcW' = [pcW EXCEPT ![w] = "lock"]
    /\ UNCHANGED <<i, created, failures, pcS, queue>>

WorkerStep(w) == DeTask(w) \/ Wait(w) \/ Handle(w)

Next ==
    \/ Create
    \/ \E s \in Submitter : Signal(s) \/ \E t \in Task : AddTaskToPool(s, t)
    \/ \E w \in Worker : WorkerStep(w) \/ SpuriousWake(w)

Spec == Init /\ [][Next]_vars

-----------------------------------------------------------------------------
TypeOK ==
    /\ i \in 0..maxThreadsCnt /\ failures \in 0..i /\ created \in BOOLEAN
    /\ pcW \in [Worker -> {"none", "lock", "wait", "run"}]
    /\ task \in [Worker -> Task \cup {NoTask}]
    /\ pcS \in [Submitter -> {"idle", "signal"}]
    /\ queue \in Seq(Task)
    /\ stage \in [Task -> {"new", "queued", "running", "done"}]

\* The pool gets its initThreadsCnt threads although calls of pthread_create
\* fail, unless more fail than the loop has rounds to spare.
\* (thread_pool.c:94-111)
PoolFull ==
    /\ TypeOK
    /\ created => Cardinality(Threads)
                    = IF initThreadsCnt + failures <= maxThreadsCnt THEN initThreadsCnt
                      ELSE maxThreadsCnt - failures

\* One signal per task, given after the unlock, is enough: while a thread
\* sleeps, every queued task has a thread on its way to it, or a signal to come.
\* (thread_pool.c:32-33, 57-58)
WakeupsSuffice ==
    Waiting # {} => Len(queue) <= Cardinality(Signalling) + Cardinality(Awake)

\* The pool implements TaskPool: tasks enter once, start in that order, and
\* finish once.
Pool == INSTANCE TaskPool WITH pending <- queue

ImplementsTaskPool == Pool!Spec

=============================================================================
