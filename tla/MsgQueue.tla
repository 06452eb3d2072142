------------------------------ MODULE MsgQueue ------------------------------
(***************************************************************************)
(* The server's message queue: msg_queue.c behind server_msgqueue.c, which *)
(* creates it on first use.  The pointer is looked at without the mutex,   *)
(* twice, and what runs under the mutex is one step.  SocketServer uses    *)
(* the queue as it is once created.  malloc succeeds.                      *)
(***************************************************************************)
EXTENDS Naturals, Sequences, SequencesExt, FiniteSets

CONSTANTS
    Producer,      \* the pool threads that call en_srv_msg_queue
    Consumer,      \* the thread of socket_msg_process_thread, not among them
    Msg,           \* the messages, each put in once: a bound on their number
    NoMsg          \* no message

Thread == Producer \cup {Consumer}

VARIABLES
    queue,         \* srv_msg_queue.queue: which list it points at, 0 for NULL
    lists,         \* the lists created so far, each head first
    pc, arg,       \* where each thread is, and the message it puts in
    accepted,      \* history: the messages put in, in that order
    taken          \* history: the messages taken out, in that order

queueVars == <<queue, lists, pc, arg, accepted, taken>>

QueueInit ==
    /\ queue = 0
    /\ lists = << >>
    /\ pc = [t \in Thread |-> "idle"]
    /\ arg = [t \in Thread |-> NoMsg]
    /\ accepted = << >>
    /\ taken = << >>

\* The first look at the pointer, in en_ and de_srv_msg_queue.
Called(t) == pc' = [pc EXCEPT ![t] = IF queue = 0 THEN "init" ELSE "queue"]

EnCall(t, m) ==
    /\ t \in Producer
    /\ pc[t] = "idle"
    /\ m \notin Range(accepted) /\ \A u \in Thread : arg[u] # m
    /\ arg' = [arg EXCEPT ![t] = m]
    /\ Called(t)
    /\ UNCHANGED <<queue, lists, accepted, taken>>

DeCall(t) ==
    /\ t = Consumer
    /\ pc[t] = "idle"
    /\ Called(t)
    /\ UNCHANGED <<queue, lists, arg, accepted, taken>>

\* Mutant: init_srv_msg_queue creates a list whatever it finds.
InitSrvMsgQueueAlways(t) ==
    /\ pc[t] = "init"
    /\ pc' = [pc EXCEPT ![t] = "create"]
    /\ UNCHANGED <<queue, lists, arg, accepted, taken>>

\* The second look at the pointer, in init_srv_msg_queue.
InitSrvMsgQueue(t) ==
    /\ pc[t] = "init"
    /\ pc' = [pc EXCEPT ![t] = IF queue = 0 THEN "create" ELSE "queue"]
    /\ UNCHANGED <<queue, lists, arg, accepted, taken>>

InitMsgQueue(t) ==
    /\ pc[t] = "create"
    /\ lists' = Append(lists, << >>)
    /\ queue' = Len(lists')
    /\ pc' = [pc EXCEPT ![t] = "queue"]
    /\ UNCHANGED <<arg, accepted, taken>>

Returned(t) == pc' = [pc EXCEPT ![t] = "idle"] /\ arg' = [arg EXCEPT ![t] = NoMsg]

\* list_add puts the new node behind the head, in front of the others.
EnMsgToQueue(t) ==
    /\ pc[t] = "queue" /\ t \in Producer
    /\ lists' = [lists EXCEPT ![queue] = <<arg[t]>> \o @]
    /\ accepted' = Append(accepted, arg[t])
    /\ Returned(t)
    /\ UNCHANGED <<queue, taken>>

\* The first node is taken; on an empty list the caller comes back later.
DeMsgFromQueue(t) ==
    /\ pc[t] = "queue" /\ t = Consumer
    /\ IF lists[queue] = << >>
         THEN UNCHANGED <<lists, taken>>
         ELSE /\ taken' = Append(taken, Head(lists[queue]))
              /\ lists' = [lists EXCEPT ![queue] = Tail(@)]
    /\ Returned(t)
    /\ UNCHANGED <<queue, accepted>>

Run(t) == InitSrvMsgQueue(t) \/ InitMsgQueue(t) \/ EnMsgToQueue(t) \/ DeMsgFromQueue(t)

QueueNext == \E t \in Thread : DeCall(t) \/ Run(t) \/ \E m \in Msg : EnCall(t, m)

QueueSpec == QueueInit /\ [][QueueNext]_queueVars

-----------------------------------------------------------------------------
\* Messages nobody will see: in a list the pointer has left.
Stranded == UNION {Range(lists[l]) : l \in DOMAIN lists \ {queue}}

\* The list exists and no thread is on its way to create another.
Settled == queue # 0 /\ \A t \in Thread : pc[t] # "create"

\* Threads that meet at the first use may replace each other's list, with what
\* is in it, but none uses a list that is not there; and once they have passed
\* the list stays, and every message put in before or since is still in it,
\* taken out, or lost already, for ever.
\* (server_msgqueue.c:12-17, 27-29, 42-44; msg_queue.c:15-51)
SettledForGood ==
    [][/\ \A t \in Thread : pc[t] = "queue" => queue # 0
       /\ Settled =>
            /\ Settled' /\ queue' = queue
            /\ Stranded' = Stranded
            /\ Range(accepted') = Range(taken') \cup Range(lists'[queue]) \cup Stranded]_queueVars

=============================================================================
