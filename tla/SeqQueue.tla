------------------------------ MODULE SeqQueue ------------------------------
(***************************************************************************)
(* lib_srcs/lib_queue/seq/seq_queue.c: a queue in an array of queueLen + 1 *)
(* slots, of which one always stays free so that front = rear means empty. *)
(* A value stands for the dataSize bytes of one element.  A caller's wrong *)
(* dataSize is only logged by the code and changes nothing else.           *)
(***************************************************************************)
EXTENDS Integers, Sequences

CONSTANTS
    queueLen,      \* the argument of InitSeqQueue
    Value,         \* what an element can hold
    Zero           \* the element calloc() leaves

ASSUME QueueLenAssumption == queueLen \in Nat

ASSUME ZeroAssumption == Zero \in Value

VARIABLES
    front, rear,   \* the fields of SeqQueue
    slots,         \* the array behind queuePtr
    ret,           \* what the last call returned
    data           \* the caller's buffer for DeSeqQueue

ringVars == <<front, rear, slots, ret, data>>

nodeCnt == queueLen + 1

\* InitSeqQueue
RingInit ==
    /\ front = 0
    /\ rear = 0
    /\ slots = [i \in 0..queueLen |-> Zero]
    /\ ret = "QUEUE_SUCCESS"
    /\ data = Zero

\* Mutant: no slot is kept free.
EnSeqQueueLastSlot(v) ==
    /\ slots' = [slots EXCEPT ![rear] = v]
    /\ rear' = (rear + 1) % nodeCnt
    /\ ret' = "QUEUE_SUCCESS"
    /\ UNCHANGED <<front, data>>

EnSeqQueue(v) ==
    /\ (rear + 1) % nodeCnt # front
    /\ slots' = [slots EXCEPT ![rear] = v]
    /\ rear' = (rear + 1) % nodeCnt
    /\ ret' = "QUEUE_SUCCESS"
    /\ UNCHANGED <<front, data>>

EnSeqQueueFull ==
    /\ (rear + 1) % nodeCnt = front
    /\ ret' = "QUEUE_FULL"
    /\ UNCHANGED <<front, rear, slots, data>>

DeSeqQueue ==
    /\ front # rear
    /\ data' = slots[front]
    /\ front' = (front + 1) % nodeCnt
    /\ ret' = "QUEUE_SUCCESS"
    /\ UNCHANGED <<rear, slots>>

DeSeqQueueEmpty ==
    /\ front = rear
    /\ ret' = "QUEUE_EMPTY"
    /\ UNCHANGED <<front, rear, slots, data>>

RingNext ==
    \/ \E v \in Value : EnSeqQueue(v)
    \/ EnSeqQueueFull
    \/ DeSeqQueue
    \/ DeSeqQueueEmpty

RingSpec == RingInit /\ [][RingNext]_ringVars

-----------------------------------------------------------------------------
\* The indices stay inside the array (seq_queue.c:41, 59).
RingTypeOK ==
    /\ front \in 0..queueLen
    /\ rear \in 0..queueLen
    /\ slots \in [0..queueLen -> Value]
    /\ ret \in {"QUEUE_SUCCESS", "QUEUE_FULL", "QUEUE_EMPTY"}
    /\ data \in Value

\* How many elements lie between f and r, the k-th slot from f, and the elements
\* in the order in which DeSeqQueue will return them.
Count(f, r) == IF f <= r THEN r - f ELSE r - f + nodeCnt
Slot(f, k) == IF f + k < nodeCnt THEN f + k ELSE f + k - nodeCnt
Contents(f, r, s) == [k \in 1..Count(f, r) |-> s[Slot(f, k - 1)]]

\* The ring is a first-in first-out queue of queueLen elements: it reports full
\* and empty exactly then, and a wrapped index never overwrites or repeats an
\* element (seq_queue.c:34, 39-41, 52, 57-59).
Fifo == INSTANCE BoundedFifo WITH
            Capacity <- queueLen, items <- Contents(front, rear, slots), out <- data

ImplementsFifo == Fifo!Spec

=============================================================================
