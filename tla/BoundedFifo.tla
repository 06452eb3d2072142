---------------------------- MODULE BoundedFifo -----------------------------
(***************************************************************************)
(* A first-in first-out queue of at most Capacity values: what the queues  *)
(* of lib_srcs/lib_queue promise their callers, return codes included.     *)
(***************************************************************************)
EXTENDS Naturals, Sequences

CONSTANTS Value, Capacity

VARIABLES
    items,     \* the values in the queue, oldest first
    ret,       \* what the last call returned
    out        \* where callers have their values copied to

vars == <<items, ret, out>>

Init == items = << >> /\ ret = "QUEUE_SUCCESS" /\ out \in Value

En(v) ==
    /\ Len(items) < Capacity
    /\ items' = Append(items, v)
    /\ ret' = "QUEUE_SUCCESS"
    /\ UNCHANGED out

EnFull ==
    /\ Len(items) = Capacity
    /\ ret' = "QUEUE_FULL"
    /\ UNCHANGED <<items, out>>

De ==
    /\ items # << >>
    /\ out' = Head(items)
    /\ items' = Tail(items)
    /\ ret' = "QUEUE_SUCCESS"

DeEmpty ==
    /\ items = << >>
    /\ ret' = "QUEUE_EMPTY"
    /\ UNCHANGED <<items, out>>

Next == (\E v \in Value : En(v)) \/ EnFull \/ De \/ DeEmpty

Spec == Init /\ [][Next]_vars

=============================================================================
