-------------------------- MODULE ThreadPoolProofs --------------------------
(***************************************************************************)
(* Machine-checked proofs about ThreadPool for any number of pool threads, *)
(* submitting threads and tasks.  The argument is one inductive invariant, *)
(* IndInv, from which every safety property and the refinement of TaskPool *)
(* follow.                                                                 *)
(***************************************************************************)
EXTENDS ThreadPool, TLAPS

USE DEF WorkerPC, SubmitPC, Stage, poolVars, createVars

\* What taking the head off a non-empty sequence of tasks does.
LEMMA TailFacts ==
    ASSUME NEW q \in Seq(Task), q # << >>
    PROVE  /\ Head(q) = q[1]
           /\ Head(q) \in Task
           /\ Tail(q) \in Seq(Task)
           /\ Len(q) \in Nat \ {0}
           /\ Len(Tail(q)) = Len(q) - 1
           /\ \A i \in 1..Len(Tail(q)) : Tail(q)[i] = q[i + 1]
  OBVIOUS

\* What adding a task at the end of a sequence does.
LEMMA AppendFacts ==
    ASSUME NEW q \in Seq(Task), NEW t \in Task
    PROVE  /\ Append(q, t) \in Seq(Task)
           /\ Append(q, t) # << >>
           /\ Len(q) \in Nat
           /\ Len(Append(q, t)) = Len(q) + 1
           /\ \A i \in 1..Len(q) : Append(q, t)[i] = q[i]
           /\ Append(q, t)[Len(q) + 1] = t
  OBVIOUS

LEMMA InitInd == Init => IndInv
<1> SUFFICES ASSUME Init PROVE IndInv
  OBVIOUS
<1> USE ThreadsDistinct, TasksAssumption DEF Init
<1>1. TypeOK
  <2>1. queue \in Seq(Task)
    OBVIOUS
  <2>2. g_pool \in BOOLEAN
    OBVIOUS
  <2> QED
    BY <2>1, <2>2 DEF TypeOK
<1>2. MutexInv
  BY DEF MutexInv
<1>3. PlaceInv
  BY DEF PlaceInv
<1>4. TaskCountExact
  BY DEF TaskCountExact
<1>5. NoLostWakeup
  BY DEF NoLostWakeup
<1>6. ArgMemoryExact
  BY DEF ArgMemoryExact
<1> QED
  BY <1>1, <1>2, <1>3, <1>4, <1>5, <1>6 DEF IndInv

LEMMA NextInd == IndInv /\ [Next]_vars => IndInv'
<1> SUFFICES ASSUME IndInv, [Next]_vars PROVE IndInv'
  OBVIOUS
<1> USE ThreadsDistinct, TasksAssumption DEF IndInv
<1>1. ASSUME NEW w \in Worker, CreateThread(w)
      PROVE  IndInv'
  <2> USE <1>1 DEF CreateThread
  <2>1. TypeOK'
    BY DEF TypeOK, PlaceInv, TaskCountExact
  <2>2. MutexInv'
    BY DEF TypeOK, MutexInv
  <2>3. PlaceInv'
    BY DEF TypeOK, PlaceInv, MutexInv
  <2>4. TaskCountExact'
    BY DEF TypeOK, TaskCountExact, MutexInv, PlaceInv
  <2>5. NoLostWakeup'
    BY DEF TypeOK, NoLostWakeup, MutexInv
  <2>6. ArgMemoryExact'
    BY DEF TypeOK, ArgMemoryExact, PlaceInv
  <2> QED
    BY <2>1, <2>2, <2>3, <2>4, <2>5, <2>6
<1>2. ASSUME NEW w \in Worker, CreateThreadError(w)
      PROVE  IndInv'
  <2> USE <1>2 DEF CreateThreadError
  <2>1. TypeOK'
    BY DEF TypeOK, PlaceInv, TaskCountExact
  <2>2. MutexInv'
    BY DEF TypeOK, MutexInv
  <2>3. PlaceInv'
    BY DEF TypeOK, PlaceInv, MutexInv
  <2>4. TaskCountExact'
    BY DEF TypeOK, TaskCountExact, MutexInv, PlaceInv
  <2>5. NoLostWakeup'
    BY DEF TypeOK, NoLostWakeup, MutexInv
  <2>6. ArgMemoryExact'
    BY DEF TypeOK, ArgMemoryExact, PlaceInv
  <2> QED
    BY <2>1, <2>2, <2>3, <2>4, <2>5, <2>6
<1>3. ASSUME CreateDone
      PROVE  IndInv'
  <2> USE <1>3 DEF CreateDone
  <2>1. TypeOK'
    BY DEF TypeOK, PlaceInv, TaskCountExact
  <2>2. MutexInv'
    BY DEF TypeOK, MutexInv
  <2>3. PlaceInv'
    BY DEF TypeOK, PlaceInv, MutexInv
  <2>4. TaskCountExact'
    BY DEF TypeOK, TaskCountExact, MutexInv, PlaceInv
  <2>5. NoLostWakeup'
    BY DEF TypeOK, NoLostWakeup, MutexInv
  <2>6. ArgMemoryExact'
    BY DEF TypeOK, ArgMemoryExact, PlaceInv
  <2> QED
    BY <2>1, <2>2, <2>3, <2>4, <2>5, <2>6
<1>4. ASSUME NEW s \in Submitter, NEW t \in Task, AddTask(s, t)
      PROVE  IndInv'
  <2> USE <1>4 DEF AddTask
  <2>1. TypeOK'
    BY DEF TypeOK, PlaceInv, TaskCountExact
  <2>2. MutexInv'
    BY DEF TypeOK, MutexInv
  <2>3. PlaceInv'
    BY DEF TypeOK, PlaceInv, MutexInv
  <2>4. TaskCountExact'
    BY DEF TypeOK, TaskCountExact, MutexInv, PlaceInv
  <2>5. NoLostWakeup'
    BY DEF TypeOK, NoLostWakeup, MutexInv
  <2>6. ArgMemoryExact'
    BY DEF TypeOK, ArgMemoryExact, PlaceInv
  <2> QED
    BY <2>1, <2>2, <2>3, <2>4, <2>5, <2>6
<1>5. ASSUME NEW s \in Submitter, SubmitLock(s)
      PROVE  IndInv'
  <2> USE <1>5 DEF SubmitLock
  <2>1. TypeOK'
    BY DEF TypeOK, PlaceInv, TaskCountExact
  <2>2. MutexInv'
    BY DEF TypeOK, MutexInv
  <2>3. PlaceInv'
    BY DEF TypeOK, PlaceInv, MutexInv
  <2>4. TaskCountExact'
    BY DEF TypeOK, TaskCountExact, MutexInv, PlaceInv
  <2>5. NoLostWakeup'
    BY DEF TypeOK, NoLostWakeup, MutexInv
  <2>6. ArgMemoryExact'
    BY DEF TypeOK, ArgMemoryExact, PlaceInv
  <2> QED
    BY <2>1, <2>2, <2>3, <2>4, <2>5, <2>6
<1>6. ASSUME NEW s \in Submitter, SubmitEnqueue(s)
      PROVE  IndInv'
  <2> USE <1>6 DEF SubmitEnqueue
  <2>1. TypeOK'
    BY AppendFacts DEF TypeOK, PlaceInv, TaskCountExact
  <2>2. MutexInv'
    BY AppendFacts DEF TypeOK, MutexInv
  <2>3. PlaceInv'
    BY AppendFacts DEF TypeOK, PlaceInv, MutexInv
  <2>4. TaskCountExact'
    BY AppendFacts DEF TypeOK, TaskCountExact, MutexInv, PlaceInv
  <2>5. NoLostWakeup'
    BY AppendFacts DEF TypeOK, NoLostWakeup, MutexInv
  <2>6. ArgMemoryExact'
    BY AppendFacts DEF TypeOK, ArgMemoryExact, PlaceInv
  <2> QED
    BY <2>1, <2>2, <2>3, <2>4, <2>5, <2>6
<1>7. ASSUME NEW s \in Submitter, SubmitBroadcast(s)
      PROVE  IndInv'
  <2> USE <1>7 DEF SubmitBroadcast
  <2>1. TypeOK'
    BY DEF TypeOK, PlaceInv, TaskCountExact
  <2>2. MutexInv'
    BY DEF TypeOK, MutexInv
  <2>3. PlaceInv'
    BY DEF TypeOK, PlaceInv, MutexInv
  <2>4. TaskCountExact'
    BY DEF TypeOK, TaskCountExact, MutexInv, PlaceInv
  <2>5. NoLostWakeup'
    BY DEF TypeOK, NoLostWakeup, MutexInv
  <2>6. ArgMemoryExact'
    BY DEF TypeOK, ArgMemoryExact, PlaceInv
  <2> QED
    BY <2>1, <2>2, <2>3, <2>4, <2>5, <2>6
<1>8. ASSUME NEW s \in Submitter, SubmitUnlock(s)
      PROVE  IndInv'
  <2> USE <1>8 DEF SubmitUnlock
  <2>1. TypeOK'
    BY DEF TypeOK, PlaceInv, TaskCountExact
  <2>2. MutexInv'
    BY DEF TypeOK, MutexInv
  <2>3. PlaceInv'
    BY DEF TypeOK, PlaceInv, MutexInv
  <2>4. TaskCountExact'
    BY DEF TypeOK, TaskCountExact, MutexInv, PlaceInv
  <2>5. NoLostWakeup'
    BY DEF TypeOK, NoLostWakeup, MutexInv
  <2>6. ArgMemoryExact'
    BY DEF TypeOK, ArgMemoryExact, PlaceInv
  <2> QED
    BY <2>1, <2>2, <2>3, <2>4, <2>5, <2>6
<1>9. ASSUME NEW w \in Worker, WorkerLock(w)
      PROVE  IndInv'
  <2> USE <1>9 DEF WorkerLock
  <2>1. TypeOK'
    BY DEF TypeOK, PlaceInv, TaskCountExact
  <2>2. MutexInv'
    BY DEF TypeOK, MutexInv
  <2>3. PlaceInv'
    BY DEF TypeOK, PlaceInv, MutexInv
  <2>4. TaskCountExact'
    BY DEF TypeOK, TaskCountExact, MutexInv, PlaceInv
  <2>5. NoLostWakeup'
    BY DEF TypeOK, NoLostWakeup, MutexInv
  <2>6. ArgMemoryExact'
    BY DEF TypeOK, ArgMemoryExact, PlaceInv
  <2> QED
    BY <2>1, <2>2, <2>3, <2>4, <2>5, <2>6
<1>10. ASSUME NEW w \in Worker, WorkerDequeue(w)
      PROVE  IndInv'
  <2> USE <1>10 DEF WorkerDequeue
  <2>1. TypeOK'
    BY TailFacts DEF TypeOK, PlaceInv, TaskCountExact
  <2>2. MutexInv'
    BY TailFacts DEF TypeOK, MutexInv
  <2>3. PlaceInv'
    BY TailFacts DEF TypeOK, PlaceInv, MutexInv
  <2>4. TaskCountExact'
    BY TailFacts DEF TypeOK, TaskCountExact, MutexInv, PlaceInv
  <2>5. NoLostWakeup'
    BY TailFacts DEF TypeOK, NoLostWakeup, MutexInv
  <2>6. ArgMemoryExact'
    BY TailFacts DEF TypeOK, ArgMemoryExact, PlaceInv
  <2> QED
    BY <2>1, <2>2, <2>3, <2>4, <2>5, <2>6
<1>11. ASSUME NEW w \in Worker, WorkerWait(w)
      PROVE  IndInv'
  <2> USE <1>11 DEF WorkerWait
  <2>1. TypeOK'
    BY DEF TypeOK, PlaceInv, TaskCountExact
  <2>2. MutexInv'
    BY DEF TypeOK, MutexInv
  <2>3. PlaceInv'
    BY DEF TypeOK, PlaceInv, MutexInv
  <2>4. TaskCountExact'
    BY DEF TypeOK, TaskCountExact, MutexInv, PlaceInv
  <2>5. NoLostWakeup'
    BY DEF TypeOK, NoLostWakeup, MutexInv
  <2>6. ArgMemoryExact'
    BY DEF TypeOK, ArgMemoryExact, PlaceInv
  <2> QED
    BY <2>1, <2>2, <2>3, <2>4, <2>5, <2>6
<1>12. ASSUME NEW w \in Worker, SpuriousWake(w)
      PROVE  IndInv'
  <2> USE <1>12 DEF SpuriousWake
  <2>1. TypeOK'
    BY DEF TypeOK, PlaceInv, TaskCountExact
  <2>2. MutexInv'
    BY DEF TypeOK, MutexInv
  <2>3. PlaceInv'
    BY DEF TypeOK, PlaceInv, MutexInv
  <2>4. TaskCountExact'
    BY DEF TypeOK, TaskCountExact, MutexInv, PlaceInv
  <2>5. NoLostWakeup'
    BY DEF TypeOK, NoLostWakeup, MutexInv
  <2>6. ArgMemoryExact'
    BY DEF TypeOK, ArgMemoryExact, PlaceInv
  <2> QED
    BY <2>1, <2>2, <2>3, <2>4, <2>5, <2>6
<1>13. ASSUME NEW w \in Worker, WorkerUnlock(w)
      PROVE  IndInv'
  <2> USE <1>13 DEF WorkerUnlock
  <2>1. TypeOK'
    BY DEF TypeOK, PlaceInv, TaskCountExact
  <2>2. MutexInv'
    BY DEF TypeOK, MutexInv
  <2>3. PlaceInv'
    BY DEF TypeOK, PlaceInv, MutexInv
  <2>4. TaskCountExact'
    BY DEF TypeOK, TaskCountExact, MutexInv, PlaceInv
  <2>5. NoLostWakeup'
    BY DEF TypeOK, NoLostWakeup, MutexInv
  <2>6. ArgMemoryExact'
    BY DEF TypeOK, ArgMemoryExact, PlaceInv
  <2> QED
    BY <2>1, <2>2, <2>3, <2>4, <2>5, <2>6
<1>14. ASSUME NEW w \in Worker, WorkerHandle(w)
      PROVE  IndInv'
  <2> USE <1>14 DEF WorkerHandle
  <2>1. TypeOK'
    BY DEF TypeOK, PlaceInv, TaskCountExact
  <2>2. MutexInv'
    BY DEF TypeOK, MutexInv
  <2>3. PlaceInv'
    BY DEF TypeOK, PlaceInv, MutexInv
  <2>4. TaskCountExact'
    BY DEF TypeOK, TaskCountExact, MutexInv, PlaceInv
  <2>5. NoLostWakeup'
    BY DEF TypeOK, NoLostWakeup, MutexInv
  <2>6. ArgMemoryExact'
    BY DEF TypeOK, ArgMemoryExact, PlaceInv
  <2> QED
    BY <2>1, <2>2, <2>3, <2>4, <2>5, <2>6
<1>15. ASSUME NEW w \in Worker, WorkerFree(w)
      PROVE  IndInv'
  <2> USE <1>15 DEF WorkerFree
  <2>1. TypeOK'
    BY DEF TypeOK, PlaceInv, TaskCountExact
  <2>2. MutexInv'
    BY DEF TypeOK, MutexInv
  <2>3. PlaceInv'
    BY DEF TypeOK, PlaceInv, MutexInv
  <2>4. TaskCountExact'
    BY DEF TypeOK, TaskCountExact, MutexInv, PlaceInv
  <2>5. NoLostWakeup'
    BY DEF TypeOK, NoLostWakeup, MutexInv
  <2>6. ArgMemoryExact'
    BY DEF TypeOK, ArgMemoryExact, PlaceInv
  <2> QED
    BY <2>1, <2>2, <2>3, <2>4, <2>5, <2>6
<1>16. CASE UNCHANGED vars
  BY <1>16 DEF vars, TypeOK, MutexInv, PlaceInv, TaskCountExact, NoLostWakeup, ArgMemoryExact
<1> QED
  BY <1>1, <1>2, <1>3, <1>4, <1>5, <1>6, <1>7, <1>8, <1>9, <1>10, <1>11, <1>12, <1>13, <1>14, <1>15, <1>16 DEF Next, Create, SubmitStep, WorkerStep

\* IndInv holds in every state the pool can reach.
THEOREM Invariance == Spec => []IndInv
<1>1. Init => IndInv
  BY InitInd
<1>2. IndInv /\ [Next]_vars => IndInv'
  BY NextInd
<1> QED
  BY <1>1, <1>2, PTL DEF Spec

\* The pool's variables keep their types; in particular the task counter, which
\* the code keeps in a uint32_t, never goes below zero.
THEOREM TypeCorrect == Spec => []TypeOK
<1>1. IndInv => TypeOK
  BY DEF IndInv
<1> QED
  BY <1>1, Invariance, PTL

\* cur_tasks_cnt counts the queue exactly (thread_pool.c:20, 41, 68).
THEOREM TaskCount == Spec => []TaskCountExact
<1>1. IndInv => TaskCountExact
  BY DEF IndInv
<1> QED
  BY <1>1, Invariance, PTL

\* No pool thread sleeps on a queued task (thread_pool.c:43, 65-66).
THEOREM Wakeup == Spec => []NoLostWakeup
<1>1. IndInv => NoLostWakeup
  BY DEF IndInv
<1> QED
  BY <1>1, Invariance, PTL

\* Argument copies are neither leaked nor used or freed twice
\* (thread_pool.c:31, 70-73).
THEOREM ArgMemory == Spec => []ArgMemoryExact
<1>1. IndInv => ArgMemoryExact
  BY DEF IndInv
<1> QED
  BY <1>1, Invariance, PTL

\* The pool implements TaskPool: every step of a thread is one of its steps or
\* leaves the abstract state alone.
THEOREM Refinement == Spec => ImplementsTaskPool
<1>1. Init => Pool!Init
  BY DEF Init, Pool!Init
<1>2. IndInv /\ [Next]_vars => [Pool!Next]_(Pool!vars)
  <2> SUFFICES ASSUME IndInv, [Next]_vars
               PROVE  Pool!Next \/ UNCHANGED Pool!vars
    OBVIOUS
  <2> USE TasksAssumption DEF IndInv, Pool!vars
  <2> DEFINE Simulated == Pool!Next \/ UNCHANGED Pool!vars
  <2>1. CASE UNCHANGED <<queue, stage>>
    BY <2>1
  <2>2. ASSUME NEW s \in Submitter, NEW t \in Task, AddTask(s, t)
        PROVE  Simulated
    BY <2>2 DEF AddTask, TypeOK
  <2>3. ASSUME NEW s \in Submitter, SubmitStep(s)
        PROVE  Simulated
    <3>1. CASE SubmitEnqueue(s)
      <4>1. PICK t \in Task : t = taskS[s]
        BY <3>1 DEF SubmitEnqueue, PlaceInv
      <4>2. Pool!Submit(t)
        BY <3>1, <4>1 DEF SubmitEnqueue, TypeOK, PlaceInv, Pool!Submit
      <4> QED
        BY <4>2 DEF Pool!Next
    <3>2. CASE SubmitLock(s) \/ SubmitBroadcast(s) \/ SubmitUnlock(s)
      BY <3>2, <2>1 DEF SubmitLock, SubmitBroadcast, SubmitUnlock
    <3> QED
      BY <2>3, <3>1, <3>2 DEF SubmitStep
  <2>4. ASSUME NEW w \in Worker, WorkerStep(w)
        PROVE  Simulated
    <3>1. CASE WorkerDequeue(w)
      <4>1. Pool!Start
        BY <3>1, TailFacts DEF WorkerDequeue, TypeOK, Pool!Start
      <4> QED
        BY <4>1 DEF Pool!Next
    <3>2. CASE WorkerHandle(w)
      <4>1. PICK t \in Task : t = taskW[w]
        BY <3>2 DEF WorkerHandle, PlaceInv
      <4>2. Pool!Finish(t)
        BY <3>2, <4>1 DEF WorkerHandle, TypeOK, PlaceInv, Pool!Finish
      <4> QED
        BY <4>2 DEF Pool!Next
    <3>3. CASE WorkerLock(w) \/ WorkerWait(w) \/ WorkerUnlock(w) \/ WorkerFree(w)
      BY <3>3, <2>1 DEF WorkerLock, WorkerWait, WorkerUnlock, WorkerFree
    <3> QED
      BY <2>4, <3>1, <3>2, <3>3 DEF WorkerStep
  <2>5. ASSUME NEW w \in Worker, SpuriousWake(w)
        PROVE  Simulated
    BY <2>5, <2>1 DEF SpuriousWake
  <2>6. CASE Create
    BY <2>6, <2>1 DEF Create, CreateThread, CreateThreadError, CreateDone
  <2>7. CASE UNCHANGED vars
    BY <2>7, <2>1 DEF vars
  <2> QED
    BY <2>2, <2>3, <2>4, <2>5, <2>6, <2>7 DEF Next
<1> QED
  BY <1>1, <1>2, Invariance, PTL DEF Spec, ImplementsTaskPool, Pool!Spec

=============================================================================
