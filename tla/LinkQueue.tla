----------------------------- MODULE LinkQueue ------------------------------
(***************************************************************************)
(* lib_srcs/lib_queue/link/link_queue.c as socket_tcp uses it: one thread  *)
(* calls EnLinkQueue, another DeLinkQueue, and no lock is held.  A step is *)
(* what lies between two accesses to memory the other thread writes.       *)
(*                                                                         *)
(* Nodes are numbered as malloc() hands them out, 0 is NULL; a freed node  *)
(* leaves the domain of data and next.  The producer's address of a node   *)
(* never outlives a malloc() of its own, so that an address used again     *)
(* would not be mistaken.  malloc() succeeds, and both callers pass the    *)
(* dataSize the queue was made for.                                        *)
(***************************************************************************)
EXTENDS Naturals, Sequences

CONSTANTS
    Value,         \* what the dataSize bytes of an element can hold
    Null,          \* the NULL of a node's data
    Junk           \* what malloc() returns: data nobody has written

ASSUME DataAssumption == Null \notin Value /\ Junk \notin Value /\ Null # Junk

VARIABLES
    front, rear,   \* the fields of LinkQueue
    data, next,    \* the fields of the nodes that are allocated
    en,            \* EnLinkQueue: where it is, and the front it has loaded
    de,            \* DeLinkQueue: where it is, and its tmp
    buf            \* the buffer DeLinkQueue copies to

linkVars == <<front, rear, data, next, en, de, buf>>

Nodes == DOMAIN data

\* InitLinkQueue
LinkInit ==
    /\ front = 1 /\ rear = 1
    /\ data = [n \in {1} |-> Null]
    /\ next = [n \in {1} |-> 0]
    /\ en = [pc |-> "idle", at |-> 0]
    /\ de = [pc |-> "idle", tmp |-> 0]
    /\ buf \in Value

-----------------------------------------------------------------------------
(* EnLinkQueue                                                             *)

\* The node that will be the next rear, and memory for the value.
EnAlloc ==
    /\ en.pc = "idle"
    /\ data' = [n \in Nodes \cup {rear + 1} |->
                  IF n = rear + 1 THEN Null
                  ELSE IF n = rear /\ data[n] = Null THEN Junk ELSE data[n]]
    /\ next' = [n \in Nodes \cup {rear + 1} |-> IF n = rear + 1 THEN 0 ELSE next[n]]
    /\ en' = [en EXCEPT !.pc = "load"]
    /\ UNCHANGED <<front, rear, de, buf>>

EnLoadFront ==
    /\ en.pc = "load"
    /\ en' = [pc |-> "copy", at |-> front]
    /\ UNCHANGED <<front, rear, data, next, de, buf>>

\* Mutant: the value is copied to the node at the front.
EnCopyToFront(v) ==
    /\ en.pc = "copy"
    /\ data' = [n \in Nodes |-> IF n = front THEN v ELSE data[n]]
    /\ en' = [pc |-> "link", at |-> 0]
    /\ UNCHANGED <<front, rear, next, de, buf>>

\* The value is copied only if the front that was loaded has data; of a node
\* that has been freed since, either may be found.
EnCopy(v) ==
    /\ en.pc = "copy"
    /\ \/ /\ en.at \in Nodes => data[en.at] # Null
          /\ data' = [data EXCEPT ![rear] = v]
       \/ /\ en.at \in Nodes => data[en.at] = Null
          /\ UNCHANGED data
    /\ en' = [pc |-> "link", at |-> 0]
    /\ UNCHANGED <<front, rear, next, de, buf>>

EnLink ==
    /\ en.pc = "link"
    /\ next' = [next EXCEPT ![rear] = rear + 1]
    /\ en' = [en EXCEPT !.pc = "publish"]
    /\ UNCHANGED <<front, rear, data, de, buf>>

EnPublish ==
    /\ en.pc = "publish"
    /\ rear' = rear + 1
    /\ en' = [en EXCEPT !.pc = "idle"]
    /\ UNCHANGED <<front, data, next, de, buf>>

-----------------------------------------------------------------------------
(* DeLinkQueue                                                             *)

\* Mutant: a queue of one element is taken for empty.
DeTestOne ==
    /\ de.pc = "idle"
    /\ front # rear /\ next[front] # rear
    /\ de' = [pc |-> "copy", tmp |-> next[front]]
    /\ UNCHANGED <<front, rear, data, next, en, buf>>

\* On QUEUE_EMPTY the caller sleeps and comes back.
DeTest ==
    /\ de.pc = "idle"
    /\ front # rear
    /\ de' = [pc |-> "copy", tmp |-> next[front]]
    /\ UNCHANGED <<front, rear, data, next, en, buf>>

DeCopy ==
    /\ de.pc = "copy"
    /\ buf' = IF data[front] # Null THEN data[front] ELSE buf
    /\ de' = [de EXCEPT !.pc = "null"]
    /\ UNCHANGED <<front, rear, data, next, en>>

DeNull ==
    /\ de.pc = "null"
    /\ data' = [data EXCEPT ![front] = Null]
    /\ next' = [next EXCEPT ![front] = 0]
    /\ de' = [de EXCEPT !.pc = "free"]
    /\ UNCHANGED <<front, rear, en, buf>>

DeFree ==
    /\ de.pc = "free"
    /\ data' = [n \in Nodes \ {front} |-> data[n]]
    /\ next' = [n \in Nodes \ {front} |-> next[n]]
    /\ de' = [de EXCEPT !.pc = "advance"]
    /\ UNCHANGED <<front, rear, en, buf>>

DeAdvance ==
    /\ de.pc = "advance"
    /\ front' = de.tmp
    /\ de' = [pc |-> "idle", tmp |-> 0]
    /\ UNCHANGED <<rear, data, next, en, buf>>

LinkNext ==
    \/ EnAlloc \/ EnLoadFront \/ (\E v \in Value : EnCopy(v)) \/ EnLink \/ EnPublish
    \/ DeTest \/ DeCopy \/ DeNull \/ DeFree \/ DeAdvance

LinkSpec == LinkInit /\ [][LinkNext]_linkVars

-----------------------------------------------------------------------------
LinkTypeOK ==
    /\ front \in Nat \ {0} /\ rear \in Nat \ {0}
    /\ data \in [Nodes -> Value \cup {Null, Junk}]
    /\ next \in [Nodes -> Nat]
    /\ en \in [pc : {"idle", "load", "copy", "link", "publish"}, at : Nat]
    /\ de \in [pc : {"idle", "copy", "null", "free", "advance"}, tmp : Nat]
    /\ buf \in Value \cup {Junk}

\* The node of the oldest element that DeLinkQueue has not copied.
Oldest == IF de.pc \in {"null", "free", "advance"} THEN de.tmp ELSE front

\* The elements from node f up to node r, which is the empty one behind them.
Elements(f, r, d) == [k \in 1..(r - f) |-> d[f + k - 1]]

\* The list is the queue LinkFifo: whatever the two threads' order, elements
\* come out once each and in order, no freed node is used for one, and only a
\* put that meets the clean-up of a node can lose its value.
\* (link_queue.c:55-67, 81-95)
Fifo == INSTANCE LinkFifo WITH
            items <- Elements(Oldest, rear, data),
            begun <- en.pc = "copy",
            pending <- IF en.pc \in {"link", "publish"} THEN <<data[rear]>> ELSE << >>,
            got <- buf,
            clearing <- de.pc \in {"free", "advance"},
            overlapped <- en.pc = "copy" /\ (en.at \in Nodes => data[en.at] = Null)

ImplementsLinkFifo == Fifo!FifoSpec

=============================================================================
