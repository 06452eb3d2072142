------------------------ MODULE UdpThreadPoolProofs -------------------------
(***************************************************************************)
(* UdpThreadPool gets its threads, loses no wake-up and is the pool        *)
(* TaskPool, for any threads, submitters, tasks and counts.  The last      *)
(* section is about another queue than the pool's, the ring of lib_queue   *)
(* (SeqQueue), which no program uses.                                      *)
(***************************************************************************)
EXTENDS UdpThreadPool, SeqQueue, FiniteSetTheorems, SequenceTheorems, TLAPS

\* Every round of the creation loop makes a thread or counts a failure.
CreateInv ==
    /\ Cardinality(Threads) = i - failures
    /\ Cardinality(Threads) <= initThreadsCnt
    /\ created => i = maxThreadsCnt \/ Cardinality(Threads) = initThreadsCnt

\* The tasks in the queue are queued, each once; a thread that runs has a
\* running task, and no two the same.
TaskInv ==
    /\ \A p \in 1..Len(queue) : stage[queue[p]] = "queued"
    /\ \A p, q \in 1..Len(queue) : queue[p] = queue[q] => p = q
    /\ \A w \in Worker : pcW[w] = "run" => task[w] \in Task /\ stage[task[w]] = "running"
    /\ \A v, w \in Worker : pcW[v] = "run" /\ pcW[w] = "run" /\ task[v] = task[w] => v = w

SignalInv == IsFiniteSet(Signalling) /\ WakeupsSuffice

IndInv == TypeOK /\ CreateInv /\ TaskInv /\ SignalInv

-----------------------------------------------------------------------------
(* Counting threads                                                        *)

LEMMA WorkersFinite ==
    /\ IsFiniteSet(Threads) /\ Cardinality(Threads) \in Nat
    /\ IsFiniteSet(Awake) /\ Cardinality(Awake) \in Nat
<1>1. IsFiniteSet(Worker) /\ Threads \in SUBSET Worker /\ Awake \in SUBSET Worker
  BY CountsAssumption DEF Threads, Awake
<1>2. IsFiniteSet(Threads) /\ IsFiniteSet(Awake)
  BY <1>1, FS_Subset
<1> QED
  BY <1>2, FS_CardinalityType

LEMMA WorkersFiniteNext ==
    /\ IsFiniteSet(Threads') /\ Cardinality(Threads') \in Nat
    /\ IsFiniteSet(Awake') /\ Cardinality(Awake') \in Nat
<1>1. IsFiniteSet(Worker) /\ Threads' \in SUBSET Worker /\ Awake' \in SUBSET Worker
  BY CountsAssumption DEF Threads, Awake
<1>2. IsFiniteSet(Threads') /\ IsFiniteSet(Awake')
  BY <1>1, FS_Subset
<1> QED
  BY <1>2, FS_CardinalityType

\* A thread that exists goes from one place to another.
LEMMA Moves ==
    ASSUME TypeOK, NEW w \in Worker, NEW p \in {"lock", "wait", "run"}, pcW[w] # "none",
           pcW[w] # p, pcW' = [pcW EXCEPT ![w] = p]
    PROVE  /\ Threads' = Threads
           /\ Cardinality(Awake') = IF p = "lock" THEN Cardinality(Awake) + 1
                                    ELSE IF pcW[w] = "lock" THEN Cardinality(Awake) - 1
                                    ELSE Cardinality(Awake)
<1>1. Threads' = Threads
  BY DEF Threads, TypeOK
<1>2. CASE p = "lock"
  <2>1. Awake' = Awake \cup {w} /\ w \notin Awake
    BY <1>2 DEF Awake, TypeOK
  <2> QED
    BY <1>1, <1>2, <2>1, WorkersFinite, FS_AddElement
<1>3. CASE p # "lock" /\ pcW[w] = "lock"
  <2>1. Awake' = Awake \ {w} /\ w \in Awake
    BY <1>3 DEF Awake, TypeOK
  <2> QED
    BY <1>1, <1>3, <2>1, WorkersFinite, FS_RemoveElement
<1>4. CASE p # "lock" /\ pcW[w] # "lock"
  <2>1. Awake' = Awake
    BY <1>4 DEF Awake, TypeOK
  <2> QED
    BY <1>1, <1>4, <2>1
<1> QED
  BY <1>2, <1>3, <1>4

-----------------------------------------------------------------------------
LEMMA InitInd == Init => IndInv
<1> SUFFICES ASSUME Init PROVE IndInv
  OBVIOUS
<1> USE DEF Init
<1>1. TypeOK
  <2>1. i \in 0..maxThreadsCnt /\ failures \in 0..i
    BY CountsAssumption
  <2>2. created \in BOOLEAN
    OBVIOUS
  <2>3. queue \in Seq(Task)
    OBVIOUS
  <2>4. /\ pcW \in [Worker -> {"none", "lock", "wait", "run"}]
        /\ task \in [Worker -> Task \cup {NoTask}]
        /\ pcS \in [Submitter -> {"idle", "signal"}]
        /\ stage \in [Task -> {"new", "queued", "running", "done"}]
    OBVIOUS
  <2> QED
    BY <2>1, <2>2, <2>3, <2>4 DEF TypeOK
<1>2. CreateInv
  <2>1. Threads = {}
    BY DEF Threads
  <2> QED
    BY <2>1, FS_EmptySet, CountsAssumption DEF CreateInv
<1>3. TaskInv
  BY DEF TaskInv
<1>4. SignalInv
  <2>1. Signalling = {} /\ Waiting = {}
    BY DEF Signalling, Waiting
  <2> QED
    BY <2>1, FS_EmptySet DEF SignalInv, WakeupsSuffice
<1> QED
  BY <1>1, <1>2, <1>3, <1>4 DEF IndInv

LEMMA NextInd == IndInv /\ [Next]_vars => IndInv'
<1> SUFFICES ASSUME IndInv, [Next]_vars PROVE IndInv'
  OBVIOUS
<1> USE CountsAssumption, NoTaskAssumption DEF IndInv
<1>f. Cardinality(Signalling) \in Nat /\ Len(queue) \in Nat
  BY FS_CardinalityType DEF SignalInv, TypeOK
<1>1. ASSUME NEW w \in Worker, CreateThread(w) PROVE IndInv'
  <2> USE <1>1 DEF CreateThread
  <2>1. Threads' = Threads \cup {w} /\ w \notin Threads
    BY DEF Threads, TypeOK
  <2>2. Cardinality(Threads') = Cardinality(Threads) + 1
    BY <2>1, WorkersFinite, FS_AddElement
  <2>3. TypeOK'
    BY DEF TypeOK, CreateRound
  <2>4. CreateInv'
    BY <2>2, WorkersFinite DEF CreateInv, CreateRound, TypeOK
  <2>5. TaskInv'
    BY DEF TaskInv, TypeOK
  <2>6. Awake' = Awake \cup {w} /\ w \notin Awake /\ Waiting' = Waiting /\ Signalling' = Signalling
    BY DEF Awake, Waiting, Signalling, TypeOK
  <2>7. Cardinality(Awake') = Cardinality(Awake) + 1
    BY <2>6, WorkersFinite, FS_AddElement
  <2>8. SignalInv'
    BY <1>f, <2>6, <2>7, WorkersFinite DEF SignalInv, WakeupsSuffice
  <2> QED
    BY <2>3, <2>4, <2>5, <2>8
<1>2. CASE CreateThreadError
  <2> USE <1>2 DEF CreateThreadError
  <2>1. TypeOK'
    BY DEF TypeOK, CreateRound
  <2>2. CreateInv'
    BY WorkersFinite DEF CreateInv, CreateRound, TypeOK, Threads
  <2>3. TaskInv' /\ SignalInv'
    BY DEF TaskInv, SignalInv, WakeupsSuffice, Signalling, Waiting, Awake
  <2> QED
    BY <2>1, <2>2, <2>3
<1>3. CASE CreateDone
  <2> USE <1>3 DEF CreateDone
  <2>1. TypeOK'
    BY DEF TypeOK
  <2>2. CreateInv'
    BY WorkersFinite DEF CreateInv, CreateRound, TypeOK, Threads
  <2>3. TaskInv' /\ SignalInv'
    BY DEF TaskInv, SignalInv, WakeupsSuffice, Signalling, Waiting, Awake
  <2> QED
    BY <2>1, <2>2, <2>3
<1>4. ASSUME NEW s \in Submitter, NEW t \in Task, AddTaskToPool(s, t) PROVE IndInv'
  <2> USE <1>4 DEF AddTaskToPool
  <2>1. TypeOK'
    BY DEF TypeOK
  <2>2. CreateInv'
    BY DEF CreateInv, Threads
  <2>3. TaskInv'
    <3>1. Len(queue') = Len(queue) + 1 /\ queue'[Len(queue) + 1] = t
      BY DEF TypeOK
    <3>2. \A p \in 1..Len(queue) : queue'[p] = queue[p] /\ queue[p] \in Task /\ queue[p] # t
      BY DEF TypeOK, TaskInv
    <3> QED
      BY <3>1, <3>2 DEF TypeOK, TaskInv
  <2>4. Signalling' = Signalling \cup {s} /\ s \notin Signalling
    BY DEF Signalling, TypeOK
  <2>5. IsFiniteSet(Signalling') /\ Cardinality(Signalling') = Cardinality(Signalling) + 1
    BY <2>4, FS_AddElement DEF SignalInv
  <2>6. Len(queue') = Len(queue) + 1
    BY DEF TypeOK
  <2>7. SignalInv'
    BY <1>f, <2>5, <2>6, WorkersFinite DEF SignalInv, WakeupsSuffice, Waiting, Awake
  <2> QED
    BY <2>1, <2>2, <2>3, <2>7
<1>5. ASSUME NEW s \in Submitter, Signal(s) PROVE IndInv'
  <2> USE <1>5 DEF Signal
  <2>1. Signalling' = Signalling \ {s} /\ s \in Signalling
    BY DEF Signalling, TypeOK
  <2>2. IsFiniteSet(Signalling') /\ Cardinality(Signalling') = Cardinality(Signalling) - 1
    BY <2>1, FS_RemoveElement DEF SignalInv
  <2>3. CASE Waiting = {} /\ UNCHANGED pcW
    <3>1. TypeOK'
      BY <2>3 DEF TypeOK
    <3>2. CreateInv' /\ TaskInv'
      BY <2>3 DEF CreateInv, TaskInv, Threads
    <3>3. SignalInv'
      BY <2>2, <2>3 DEF SignalInv, WakeupsSuffice, Waiting
    <3> QED
      BY <3>1, <3>2, <3>3
  <2>4. ASSUME NEW w \in Waiting, pcW' = [pcW EXCEPT ![w] = "lock"] PROVE IndInv'
    <3>1. w \in Worker /\ pcW[w] = "wait"
      BY DEF Waiting
    <3>2. Threads' = Threads /\ Cardinality(Awake') = Cardinality(Awake) + 1
      BY <2>4, <3>1, Moves
    <3>3. TypeOK'
      BY <2>4, <3>1 DEF TypeOK
    <3>4. CreateInv' /\ TaskInv'
      BY <2>4, <3>1, <3>2, SMTT(30) DEF CreateInv, TaskInv, TypeOK
    <3>5. SignalInv'
      BY <1>f, <2>2, <3>2, WorkersFinite DEF SignalInv, WakeupsSuffice
    <3> QED
      BY <3>3, <3>4, <3>5
  <2> QED
    BY <2>3, <2>4
<1>6. ASSUME NEW w \in Worker, DeTask(w) PROVE IndInv'
  <2> USE <1>6 DEF DeTask
  <2>0. /\ Head(queue) \in Task /\ Head(queue) = queue[1]
        /\ Tail(queue) \in Seq(Task) /\ Len(Tail(queue)) = Len(queue) - 1 /\ Len(queue) >= 1
        /\ \A p \in 1..Len(Tail(queue)) : Tail(queue)[p] = queue[p + 1]
    BY DEF TypeOK
  <2>1. TypeOK'
    BY <2>0 DEF TypeOK
  <2>2. Threads' = Threads /\ Cardinality(Awake') = Cardinality(Awake) - 1
    BY Moves
  <2>3. CreateInv'
    BY <2>2 DEF CreateInv
  <2>4. TaskInv'
    <3>1. \A p \in 1..Len(queue') : queue'[p] # Head(queue) /\ stage[queue'[p]] = "queued"
                                     /\ queue'[p] \in Task
      BY <2>0 DEF TypeOK, TaskInv
    <3>2. \A p, q \in 1..Len(queue') : queue'[p] = queue'[q] => p = q
      BY <2>0 DEF TypeOK, TaskInv
    <3>3. \A v \in Worker \ {w} : pcW[v] = "run" => task[v] # Head(queue)
      BY <2>0 DEF TypeOK, TaskInv
    <3> QED
      BY <2>0, <3>1, <3>2, <3>3 DEF TypeOK, TaskInv
  <2>5. SignalInv'
    <3>1. Signalling' = Signalling
      BY DEF Signalling
    <3>2. Waiting' = Waiting
      BY DEF Waiting, TypeOK
    <3> QED
      BY <1>f, <2>0, <2>2, <3>1, <3>2, WorkersFinite DEF SignalInv, WakeupsSuffice
  <2> QED
    BY <2>1, <2>3, <2>4, <2>5
<1>7. ASSUME NEW w \in Worker, Wait(w) PROVE IndInv'
  <2> USE <1>7 DEF Wait
  <2>1. TypeOK'
    BY DEF TypeOK
  <2>2. Threads' = Threads
    BY Moves
  <2>3. CreateInv' /\ TaskInv'
    BY <2>2 DEF CreateInv, TaskInv, TypeOK
  <2>4. SignalInv'
    BY <1>f, WorkersFiniteNext DEF SignalInv, WakeupsSuffice, Signalling
  <2> QED
    BY <2>1, <2>3, <2>4
<1>8. ASSUME NEW w \in Worker, SpuriousWake(w) PROVE IndInv'
  <2> USE <1>8 DEF SpuriousWake
  <2>1. TypeOK'
    BY DEF TypeOK
  <2>2. Threads' = Threads /\ Cardinality(Awake') = Cardinality(Awake) + 1
    BY Moves
  <2>3. CreateInv' /\ TaskInv'
    BY <2>2 DEF CreateInv, TaskInv, TypeOK
  <2>4. Waiting # {} /\ Signalling' = Signalling
    BY DEF Waiting, Signalling
  <2>5. SignalInv'
    BY <1>f, <2>2, <2>4, WorkersFinite DEF SignalInv, WakeupsSuffice
  <2> QED
    BY <2>1, <2>3, <2>5
<1>9. ASSUME NEW w \in Worker, Handle(w) PROVE IndInv'
  <2> USE <1>9 DEF Handle
  <2>0. task[w] \in Task /\ stage[task[w]] = "running"
    BY DEF TaskInv
  <2>1. TypeOK'
    BY <2>0 DEF TypeOK
  <2>2. Threads' = Threads /\ Cardinality(Awake') = Cardinality(Awake) + 1
    BY Moves
  <2>3. CreateInv'
    BY <2>2 DEF CreateInv
  <2>4. TaskInv'
    BY <2>0 DEF TaskInv, TypeOK
  <2>5. Waiting' = Waiting /\ Signalling' = Signalling
    BY DEF Waiting, Signalling, TypeOK
  <2>6. SignalInv'
    BY <1>f, <2>2, <2>5, WorkersFinite DEF SignalInv, WakeupsSuffice
  <2> QED
    BY <2>1, <2>3, <2>4, <2>6
<1>10. CASE UNCHANGED vars
  BY <1>10 DEF vars, TypeOK, CreateInv, TaskInv, SignalInv, WakeupsSuffice, Threads, Awake,
               Waiting, Signalling
<1> QED
  BY <1>1, <1>2, <1>3, <1>4, <1>5, <1>6, <1>7, <1>8, <1>9, <1>10 DEF Next, Create, WorkerStep

\* The inductive invariant of the pool: how many threads there are, where each
\* task is, and that the signals suffice.  (thread_pool.c:18-111)
THEOREM Invariance == Spec => []IndInv
<1>1. Init => IndInv
  BY InitInd
<1>2. IndInv /\ [Next]_vars => IndInv'
  BY NextInd
<1> QED
  BY <1>1, <1>2, PTL DEF Spec

\* However many calls of pthread_create fail, the pool has its initThreadsCnt
\* threads if the loop's spare rounds suffice, and else one per success.
\* (thread_pool.c:94-111)
THEOREM Full == Spec => []PoolFull
<1>1. IndInv => PoolFull
  BY CountsAssumption, WorkersFinite DEF IndInv, TypeOK, CreateInv, PoolFull
<1> QED
  BY <1>1, Invariance, PTL

\* One signal per task after the unlock is enough.  (thread_pool.c:32-33, 57-58)
THEOREM Wakeups == Spec => []WakeupsSuffice
<1>1. IndInv => WakeupsSuffice
  BY DEF IndInv, SignalInv
<1> QED
  BY <1>1, Invariance, PTL

\* Every step is a step of TaskPool or none.
LEMMA NextRefines == IndInv /\ [Next]_vars => [Pool!Next]_(Pool!vars)
<1> SUFFICES ASSUME IndInv, [Next]_vars PROVE Pool!Next \/ UNCHANGED Pool!vars
  OBVIOUS
<1>1. ASSUME NEW s \in Submitter, NEW t \in Task, AddTaskToPool(s, t) PROVE Pool!Next
  <2>1. Pool!Submit(t)
    BY <1>1 DEF AddTaskToPool, Pool!Submit
  <2> QED
    BY <2>1 DEF Pool!Next
<1>2. ASSUME NEW w \in Worker, DeTask(w) PROVE Pool!Next
  <2>1. Pool!Start
    BY <1>2 DEF DeTask, Pool!Start
  <2> QED
    BY <2>1 DEF Pool!Next
<1>3. ASSUME NEW w \in Worker, Handle(w) PROVE Pool!Next
  <2>1. task[w] \in Task /\ Pool!Finish(task[w])
    BY <1>3 DEF Handle, IndInv, TaskInv, Pool!Finish
  <2> QED
    BY <2>1 DEF Pool!Next
<1>4. ASSUME NEW w \in Worker, CreateThread(w) \/ Wait(w) \/ SpuriousWake(w)
      PROVE  UNCHANGED Pool!vars
  BY <1>4 DEF CreateThread, Wait, SpuriousWake, Pool!vars
<1>5. CASE CreateThreadError \/ CreateDone \/ UNCHANGED vars
  BY <1>5 DEF CreateThreadError, CreateDone, vars, Pool!vars
<1>6. ASSUME NEW s \in Submitter, Signal(s) PROVE UNCHANGED Pool!vars
  BY <1>6 DEF Signal, Pool!vars
<1> QED
  BY <1>1, <1>2, <1>3, <1>4, <1>5, <1>6 DEF Next, Create, WorkerStep

\* The pool is a first-in first-out pool that starts and finishes every task
\* once, whatever threads it has.  (thread_pool.c:18-61, 120-150)
THEOREM Refinement == Spec => ImplementsTaskPool
<1>1. Init => Pool!Init
  BY DEF Init, Pool!Init
<1>2. IndInv /\ [Next]_vars => [Pool!Next]_(Pool!vars)
  BY NextRefines
<1> QED
  BY <1>1, <1>2, Invariance, PTL DEF Spec, ImplementsTaskPool, Pool!Spec

-----------------------------------------------------------------------------
(* The ring queue of lib_queue, by itself: SeqQueue is a bounded queue, for *)
(* every queueLen and every set of values.                                 *)

Index == 0..queueLen

\* What advancing an index modulo the size of the array does.
LEMMA Advance ==
    ASSUME NEW n \in Index
    PROVE  (n + 1) % nodeCnt = IF n = queueLen THEN 0 ELSE n + 1
  BY QueueLenAssumption DEF Index, nodeCnt

\* The ring between two indices is a sequence of at most queueLen values.
LEMMA ContentsType ==
    ASSUME NEW f \in Index, NEW r \in Index, NEW s \in [Index -> Value]
    PROVE  /\ Count(f, r) \in 0..queueLen
           /\ \A k \in 0..queueLen : Slot(f, k) \in Index
           /\ Contents(f, r, s) \in Seq(Value)
           /\ Len(Contents(f, r, s)) = Count(f, r)
           /\ \A k \in 1..Count(f, r) : Contents(f, r, s)[k] = s[Slot(f, k - 1)]
<1> USE QueueLenAssumption DEF Index, nodeCnt
<1>1. Count(f, r) \in 0..queueLen
  BY DEF Count
<1>2. \A k \in 0..queueLen : Slot(f, k) \in Index
  BY DEF Slot
<1>3. ASSUME NEW k \in 1..Count(f, r) PROVE s[Slot(f, k - 1)] \in Value
  <2>1. k - 1 \in 0..queueLen
    BY <1>1
  <2> QED
    BY <1>2, <2>1
<1>4. Contents(f, r, s) \in [1..Count(f, r) -> Value]
  BY <1>3 DEF Contents
<1>5. Contents(f, r, s) \in Seq(Value) /\ Len(Contents(f, r, s)) = Count(f, r)
  BY <1>1, <1>4
<1> QED
  BY <1>1, <1>2, <1>5 DEF Contents

\* The code's test for full is right.
LEMMA FullTest ==
    ASSUME NEW f \in Index, NEW r \in Index
    PROVE  (r + 1) % nodeCnt = f <=> Count(f, r) = queueLen
  BY Advance, QueueLenAssumption DEF Index, Count, nodeCnt

\* Writing at rear and advancing it appends.
LEMMA EnAppends ==
    ASSUME NEW f \in Index, NEW r \in Index, NEW s \in [Index -> Value], NEW v \in Value,
           Count(f, r) < queueLen
    PROVE  Contents(f, (r + 1) % nodeCnt, [s EXCEPT ![r] = v]) = Append(Contents(f, r, s), v)
<1> DEFINE r2 == (r + 1) % nodeCnt
           s2 == [s EXCEPT ![r] = v]
           old == Contents(f, r, s)
           new == Contents(f, r2, s2)
<1>1. r2 \in Index /\ s2 \in [Index -> Value]
  BY Advance, QueueLenAssumption DEF Index
<1>2. Count(f, r2) = Count(f, r) + 1
  BY Advance, QueueLenAssumption DEF Index, Count, nodeCnt
<1>0. Count(f, r) \in Nat
  BY QueueLenAssumption DEF Index, Count, nodeCnt
<1>3. /\ old \in Seq(Value) /\ Len(old) = Count(f, r) /\ Count(f, r) \in Nat
      /\ \A k \in 1..Count(f, r) : old[k] = s[Slot(f, k - 1)]
  BY <1>0, ContentsType, Zenon
<1>4. /\ new \in Seq(Value) /\ Len(new) = Count(f, r2)
      /\ \A k \in 1..Count(f, r2) : new[k] = s2[Slot(f, k - 1)]
  <2> HIDE DEF r2, s2
  <2> QED
    BY <1>1, ContentsType, Zenon
<1>5. \A k \in 1..Count(f, r) : Slot(f, k - 1) \in Index /\ Slot(f, k - 1) # r
  BY QueueLenAssumption DEF Index, Count, Slot, nodeCnt
<1>6. Slot(f, Count(f, r)) = r
  BY QueueLenAssumption DEF Index, Count, Slot, nodeCnt
<1> HIDE DEF r2, s2, old, new
<1>7. \A k \in 1..Count(f, r) : new[k] = old[k]
  BY <1>2, <1>3, <1>4, <1>5 DEF s2
<1>8. new[Count(f, r) + 1] = v
  BY <1>2, <1>3, <1>4, <1>6 DEF s2
<1>9. /\ Append(old, v) \in Seq(Value) /\ Len(Append(old, v)) = Count(f, r) + 1
      /\ \A k \in 1..Count(f, r) : Append(old, v)[k] = old[k]
      /\ Append(old, v)[Count(f, r) + 1] = v
  BY <1>3
<1>10. \A k \in 1..Len(new) : new[k] = Append(old, v)[k]
  BY <1>2, <1>3, <1>4, <1>7, <1>8, <1>9
<1>11. new = Append(old, v)
  BY <1>2, <1>4, <1>9, <1>10, SeqEqual
<1> QED
  BY <1>11 DEF r2, s2, old, new

\* Advancing front takes the head off.
LEMMA DeTakesHead ==
    ASSUME NEW f \in Index, NEW r \in Index, NEW s \in [Index -> Value], f # r
    PROVE  /\ Contents(f, r, s) # << >>
           /\ Head(Contents(f, r, s)) = s[f]
           /\ Contents((f + 1) % nodeCnt, r, s) = Tail(Contents(f, r, s))
<1> DEFINE f2 == (f + 1) % nodeCnt
           old == Contents(f, r, s)
           new == Contents(f2, r, s)
<1>1. f2 \in Index
  BY Advance, QueueLenAssumption DEF Index
<1>2. Count(f, r) = Count(f2, r) + 1
  BY Advance, QueueLenAssumption DEF Index, Count, nodeCnt
<1>3. /\ old \in Seq(Value) /\ Len(old) = Count(f, r)
      /\ \A k \in 1..Count(f, r) : old[k] = s[Slot(f, k - 1)]
  BY ContentsType, Zenon
<1>0. Count(f2, r) \in Nat
  BY <1>1, QueueLenAssumption DEF Index, Count, nodeCnt
<1>4. /\ new \in Seq(Value) /\ Len(new) = Count(f2, r) /\ Count(f2, r) \in Nat
      /\ \A k \in 1..Count(f2, r) : new[k] = s[Slot(f2, k - 1)]
  BY <1>0, <1>1, ContentsType, Zenon
<1>5. \A k \in 1..Count(f2, r) : Slot(f2, k - 1) = Slot(f, k)
  BY Advance, <1>2, QueueLenAssumption, SMTT(30) DEF Index, Count, Slot, nodeCnt
<1>6. Slot(f, 0) = f
  BY QueueLenAssumption DEF Index, Slot, nodeCnt
<1> HIDE DEF f2, old, new
<1>7. old # << >> /\ Head(old) = s[f]
  BY <1>2, <1>3, <1>4, <1>6
<1>8. /\ Tail(old) \in Seq(Value) /\ Len(Tail(old)) = Count(f2, r)
      /\ \A k \in 1..Count(f2, r) : Tail(old)[k] = old[k + 1]
  BY <1>2, <1>3, <1>4, <1>7
<1>9. \A k \in 1..Count(f2, r) : new[k] = old[k + 1]
  BY <1>2, <1>3, <1>4, <1>5
<1>10. new = Tail(old)
  BY <1>4, <1>8, <1>9, SeqEqual
<1> QED
  BY <1>7, <1>10 DEF f2, old, new

\* The indices stay inside the array and the elements are values.
THEOREM RingTypes == RingSpec => []RingTypeOK
<1>1. RingInit => RingTypeOK
  BY QueueLenAssumption, ZeroAssumption DEF RingInit, RingTypeOK
<1>2. RingTypeOK /\ [RingNext]_ringVars => RingTypeOK'
  <2> SUFFICES ASSUME RingTypeOK, [RingNext]_ringVars PROVE RingTypeOK'
    OBVIOUS
  <2> USE QueueLenAssumption, Advance DEF RingTypeOK, Index
  <2>1. ASSUME NEW v \in Value, EnSeqQueue(v) PROVE RingTypeOK'
    BY <2>1 DEF EnSeqQueue
  <2>2. CASE EnSeqQueueFull
    BY <2>2 DEF EnSeqQueueFull
  <2>3. CASE DeSeqQueue
    BY <2>3 DEF DeSeqQueue
  <2>4. CASE DeSeqQueueEmpty
    BY <2>4 DEF DeSeqQueueEmpty
  <2>5. CASE UNCHANGED ringVars
    BY <2>5 DEF ringVars
  <2> QED
    BY <2>1, <2>2, <2>3, <2>4, <2>5 DEF RingNext
<1> QED
  BY <1>1, <1>2, PTL DEF RingSpec

\* The ring implements the bounded first-in first-out queue.
THEOREM RingRefines == RingSpec => ImplementsFifo
<1>1. RingInit => Fifo!Init
  <2> SUFFICES ASSUME RingInit PROVE Fifo!Init
    OBVIOUS
  <2>1. Contents(0, 0, slots) = << >>
    BY QueueLenAssumption DEF Contents, Count
  <2> QED
    BY <2>1, ZeroAssumption DEF RingInit, Fifo!Init
<1>2. RingTypeOK /\ [RingNext]_ringVars => [Fifo!Next]_(Fifo!vars)
  <2> SUFFICES ASSUME RingTypeOK, [RingNext]_ringVars
               PROVE  Fifo!Next \/ UNCHANGED Fifo!vars
    OBVIOUS
  <2> DEFINE items == Contents(front, rear, slots)
  <2>0. /\ front \in Index /\ rear \in Index /\ slots \in [Index -> Value]
        /\ items \in Seq(Value) /\ Len(items) = Count(front, rear)
        /\ Count(front, rear) \in 0..queueLen
        /\ (front = rear <=> items = << >>)
    <3>1. front \in Index /\ rear \in Index /\ slots \in [Index -> Value]
      BY DEF RingTypeOK, Index
    <3>2. items \in Seq(Value) /\ Len(items) = Count(front, rear)
          /\ Count(front, rear) \in 0..queueLen
      BY <3>1, ContentsType
    <3>3. front = rear <=> Count(front, rear) = 0
      BY <3>1, QueueLenAssumption DEF Index, Count, nodeCnt
    <3> QED
      BY <3>1, <3>2, <3>3
  <2>1. ASSUME NEW v \in Value, EnSeqQueue(v) PROVE Fifo!Next
    <3>1. Count(front, rear) < queueLen
      BY <2>0, <2>1, FullTest, QueueLenAssumption DEF EnSeqQueue
    <3>2. items' = Append(items, v)
      BY <2>0, <2>1, <3>1, EnAppends DEF EnSeqQueue
    <3>3. Fifo!En(v)
      BY <2>0, <2>1, <3>1, <3>2 DEF EnSeqQueue, Fifo!En
    <3> QED
      BY <3>3 DEF Fifo!Next
  <2>2. CASE EnSeqQueueFull
    <3>1. Fifo!EnFull
      BY <2>0, <2>2, FullTest DEF EnSeqQueueFull, Fifo!EnFull
    <3> QED
      BY <3>1 DEF Fifo!Next
  <2>3. CASE DeSeqQueue
    <3>1. items # << >> /\ Head(items) = slots[front] /\ items' = Tail(items)
      BY <2>0, <2>3, DeTakesHead DEF DeSeqQueue
    <3>2. Fifo!De
      BY <2>3, <3>1 DEF DeSeqQueue, Fifo!De
    <3> QED
      BY <3>2 DEF Fifo!Next
  <2>4. CASE DeSeqQueueEmpty
    <3>1. Fifo!DeEmpty
      BY <2>0, <2>4 DEF DeSeqQueueEmpty, Fifo!DeEmpty
    <3> QED
      BY <3>1 DEF Fifo!Next
  <2>5. CASE UNCHANGED ringVars
    BY <2>5 DEF ringVars, Fifo!vars
  <2> QED
    BY <2>1, <2>2, <2>3, <2>4, <2>5 DEF RingNext
<1> QED
  BY <1>1, <1>2, RingTypes, PTL DEF RingSpec, ImplementsFifo, Fifo!Spec

=============================================================================
