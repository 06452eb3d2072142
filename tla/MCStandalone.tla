---------------------------- MODULE MCStandalone ----------------------------
(***************************************************************************)
(* The parts of the repository that stand alone, on small instances: the   *)
(* ring of lib_queue, the message queue of the socket server with its      *)
(* unlocked first use, and the sorting functions.  A behaviour exercises   *)
(* one of them and leaves the others as they begin.                        *)
(***************************************************************************)
EXTENDS SeqQueue, MsgQueue, SortAlgos

CONSTANTS p1, p2, m1, m2, m3

VARIABLE part

partVars == <<ringVars, queueVars, sortVars, part>>

PartInit ==
    /\ RingInit /\ QueueInit
    /\ \/ part \in {"ring", "messages"} /\ algo = "lc_insert_sort" /\ a = [x \in {} |-> 0] /\ SortInit
       \/ part = "sort" /\ SortInit

PartNext ==
    /\ \/ part = "ring" /\ RingNext /\ UNCHANGED <<queueVars, sortVars>>
       \/ part = "messages" /\ QueueNext /\ UNCHANGED <<ringVars, sortVars>>
       \/ part = "sort" /\ SortNext /\ UNCHANGED <<ringVars, queueVars>>
    /\ UNCHANGED part

PartSpec == PartInit /\ [][PartNext]_partVars

=============================================================================
