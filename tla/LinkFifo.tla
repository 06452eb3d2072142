------------------------------ MODULE LinkFifo ------------------------------
(***************************************************************************)
(* What the list queue of lib_srcs/lib_queue/link promises one producer    *)
(* and one consumer that share it without a lock: every put adds one       *)
(* element, in order, and none is lost or taken twice; the element is the  *)
(* value put, except that a put during which the consumer was clearing a   *)
(* node away may leave uninitialised memory in its place.                  *)
(***************************************************************************)
EXTENDS Naturals, Sequences

CONSTANTS
    Value,         \* what an element can hold
    Junk           \* an element that was never written

VARIABLES
    items,         \* the elements in the queue, oldest first
    begun,         \* a put has begun whose value is not fixed
    pending,       \* the element of a put that has not ended, if it is fixed
    got,           \* the element taken last
    clearing,      \* the consumer is clearing away the node of that element
    overlapped     \* it has done so since the put in progress began

fifoVars == <<items, begun, pending, got, clearing, overlapped>>

FifoInit ==
    /\ items = << >>
    /\ begun = FALSE
    /\ pending = << >>
    /\ got \in Value
    /\ clearing = FALSE
    /\ overlapped = FALSE

BeginPut ==
    /\ ~begun /\ pending = << >>
    /\ begun' = TRUE
    /\ overlapped' = clearing
    /\ UNCHANGED <<items, pending, got, clearing>>

Fill(v) ==
    /\ begun
    /\ begun' = FALSE
    /\ pending' = <<v>> \/ (overlapped /\ pending' = <<Junk>>)
    /\ overlapped' = FALSE
    /\ UNCHANGED <<items, got, clearing>>

EndPut ==
    /\ pending # << >>
    /\ items' = items \o pending
    /\ pending' = << >>
    /\ UNCHANGED <<begun, got, clearing, overlapped>>

Get ==
    /\ ~clearing /\ items # << >>
    /\ got' = Head(items)
    /\ items' = Tail(items)
    /\ UNCHANGED <<begun, pending, clearing, overlapped>>

Clear ==
    /\ ~clearing
    /\ clearing' = TRUE
    /\ overlapped' = (overlapped \/ begun)
    /\ UNCHANGED <<items, begun, pending, got>>

EndGet ==
    /\ clearing
    /\ clearing' = FALSE
    /\ UNCHANGED <<items, begun, pending, got, overlapped>>

FifoNext == BeginPut \/ (\E v \in Value : Fill(v)) \/ EndPut \/ Get \/ Clear \/ EndGet

FifoSpec == FifoInit /\ [][FifoNext]_fifoVars

=============================================================================
