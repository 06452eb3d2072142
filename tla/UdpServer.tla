----------------------------- MODULE UdpServer -----------------------------
(***************************************************************************)
(* The UDP message server of work_srcs/socket_udp/server: the epoll        *)
(* thread, the handlers the pool runs for it, the list of client addresses *)
(* and the message queue with the thread that empties it.                  *)
(*                                                                         *)
(* The socket is the kernel's: blocking, edge-triggered, datagrams may be  *)
(* lost or overtake each other on their way.  The pool is used through     *)
(* TaskPool's promise.  A client that moves registers its new address, and *)
(* repeats a registration until it has seen the acknowledgement.           *)
(*                                                                         *)
(* Abstracted: a message is an identity with a destination, a registration *)
(* the address it comes from and the number of the try; malloc does        *)
(* not fail; the list and the queue, which their first users create, are   *)
(* there from the start.  The handler of standard input reads and drops    *)
(* what it reads, and is left out with its event.                          *)
(***************************************************************************)
EXTENDS Integers, Sequences, FiniteSets, SequencesExt

CONSTANTS
    Worker,        \* the pool's threads
    Client,        \* the end ids of the clients
    Server,        \* SETVER_ENDID
    Addr,          \* the addresses clients send from
    Owner,         \* the client that uses each address
    Data,          \* the data messages, each sent at most once: a bound
    Dest,          \* the destEndID of each
    Tries,         \* how often its client registers each address: up to 5 times
    None           \* nothing

\* The registrations.
Reg == UNION {{a} \X (1..Tries[a]) : a \in Addr}

ASSUME TriesAssumption == Tries \in [Addr -> Nat]

ASSUME NamesAssumption ==
    /\ Owner \in [Addr -> Client]
    /\ Dest \in [Data -> Client \cup {Server}]
    /\ Server \notin Client /\ None \notin Addr \cup Data
    /\ Reg \cap Data = {} /\ {"udp", "ack"} \cap Data = {}
    /\ IsFiniteSet(Worker) /\ IsFiniteSet(Addr)

VARIABLES
    net,           \* the datagrams on their way: registrations and messages
    sent,          \* the datagrams that were sent
    rx,            \* what has arrived at udpFd and is not read
    edge,          \* an edge epoll_wait will report
    events,        \* how many events of udpFd the epoll thread has still to handle
    taskq,         \* the pool's queue: "udp", or the copy of a message
    wk,            \* what each pool thread is doing
    infoList,      \* g_clisInfoList: the addresses registered, newest first
    msgq,          \* g_srvMsgQueue, head first
    mt,            \* msgBuf of SrvMsgProcessThread, once filled
    heap,          \* the message copies that are allocated
    inbox,         \* what was sent to each address: messages and "ack"
    srv,           \* "up", or "crashed"
    merged,        \* history: a datagram has arrived before the last was reported
    known,         \* history: the addresses of its addressee acknowledged when each
                   \* message was sent
    newest,        \* history: the address its addressee had registered last when
                   \* each message was sent, and those it has registered since
    displayed      \* history: the messages the server has shown

vars == <<net, sent, rx, edge, events, taskq, wk, infoList, msgq, mt, heap, inbox, srv, merged,
          known, newest, displayed>>

At(pc, on, addr) == [pc |-> pc, on |-> on, addr |-> addr]
Idle == At("idle", None, None)
Goto(w, local) == wk' = [wk EXCEPT ![w] = local]

Init ==
    /\ net = {} /\ sent = {}
    /\ rx = << >>
    /\ edge = FALSE
    /\ events = 0
    /\ taskq = << >>
    /\ wk = [w \in Worker |-> Idle]
    /\ infoList = << >>
    /\ msgq = << >>
    /\ mt = None
    /\ heap = {}
    /\ inbox = [a \in Addr |-> {}]
    /\ srv = "up"
    /\ merged = FALSE
    /\ known = [m \in Data |-> {}] /\ newest = [m \in Data |-> {}]
    /\ displayed = {}

-----------------------------------------------------------------------------
(* The clients and the network.                                            *)

\* The addresses of x that were acknowledged.
Acked(x) == {a \in Addr : Owner[a] = x /\ "ack" \in inbox[a]}

\* A client sends a message once, and the registration of an address again and
\* again: it sees the acknowledgement of the last only when it looks the next time.
ClientSend(d) ==
    /\ d \notin sent
    /\ d \in Reg /\ d[2] > 1 => <<d[1], d[2] - 1>> \in sent
    /\ sent' = sent \cup {d}
    /\ net' = net \cup {d}
    /\ known' = [m \in Data |-> IF m = d THEN Acked(Dest[m]) ELSE known[m]]
    /\ UNCHANGED <<rx, edge, events, taskq, wk, infoList, msgq, mt, heap, inbox, srv, merged,
                   newest, displayed>>

Lose(d) ==
    /\ d \in net
    /\ net' = net \ {d}
    /\ UNCHANGED <<sent, rx, edge, events, taskq, wk, infoList, msgq, mt, heap, inbox, srv, merged,
                   known, newest, displayed>>

\* Arrival raises an edge; edges not yet reported are merged.
Arrive(d) ==
    /\ d \in net
    /\ net' = net \ {d}
    /\ rx' = Append(rx, d)
    /\ edge' = TRUE
    /\ merged' = (merged \/ edge)
    /\ UNCHANGED <<sent, events, taskq, wk, infoList, msgq, mt, heap, inbox, srv, known, newest,
                   displayed>>

-----------------------------------------------------------------------------
(* ServerEpollThread                                                       *)

EpollWait ==
    /\ events = 0
    /\ edge
    /\ events' = 1
    /\ edge' = FALSE
    /\ UNCHANGED <<net, sent, rx, taskq, wk, infoList, msgq, mt, heap, inbox, srv, merged, known, newest,
                   displayed>>

\* Mutant: an event makes two tasks.
EpollDispatchTwice ==
    /\ events > 0
    /\ events' = events - 1
    /\ taskq' = taskq \o <<"udp", "udp">>
    /\ UNCHANGED <<net, sent, rx, edge, wk, infoList, msgq, mt, heap, inbox, srv, merged, known, newest,
                   displayed>>

EpollDispatch ==
    /\ events > 0
    /\ events' = events - 1
    /\ taskq' = Append(taskq, "udp")
    /\ UNCHANGED <<net, sent, rx, edge, wk, infoList, msgq, mt, heap, inbox, srv, merged, known, newest,
                   displayed>>

-----------------------------------------------------------------------------
(* The handlers                                                            *)

TakeTask(w) ==
    /\ wk[w].pc = "idle"
    /\ taskq # << >>
    /\ Goto(w, IF Head(taskq) = "udp" THEN At("recv", None, None) ELSE At("msg", Head(taskq), None))
    /\ taskq' = Tail(taskq)
    /\ UNCHANGED <<net, sent, rx, edge, events, infoList, msgq, mt, heap, inbox, srv, merged,
                   known, newest, displayed>>

\* PorcessUdpMsg: recvfrom() blocks while there is nothing.
RecvFrom(w) ==
    /\ wk[w].pc = "recv"
    /\ rx # << >>
    /\ rx' = Tail(rx)
    /\ Goto(w, IF Head(rx) \in Reg THEN At("save", None, Head(rx)[1]) ELSE At("enq", Head(rx), None))
    /\ UNCHANGED <<net, sent, edge, events, taskq, infoList, msgq, mt, heap, inbox, srv, merged,
                   known, newest, displayed>>

\* The history of a registration that is handled: what is not yet sent is to go
\* to its address, what is on its way may.
Registered(a) ==
    newest' = [m \in Data |-> IF Dest[m] # Owner[a] THEN newest[m]
                             ELSE IF m \in sent THEN newest[m] \cup {a} ELSE {a}]

\* Mutant: list_add_tail for list_add.
AddNodeToTail(w) ==
    /\ wk[w].pc = "save"
    /\ infoList' = Append(infoList, wk[w].addr)
    /\ Registered(wk[w].addr)
    /\ Goto(w, [wk[w] EXCEPT !.pc = "ack"])
    /\ UNCHANGED <<net, sent, rx, edge, events, taskq, msgq, mt, heap, inbox, srv, merged, known,
                   displayed>>

\* AddNodeToCliInfoList: also when the address is in the list already.
AddNode(w) ==
    /\ wk[w].pc = "save"
    /\ infoList' = <<wk[w].addr>> \o infoList
    /\ Registered(wk[w].addr)
    /\ Goto(w, [wk[w] EXCEPT !.pc = "ack"])
    /\ UNCHANGED <<net, sent, rx, edge, events, taskq, msgq, mt, heap, inbox, srv, merged, known,
                   displayed>>

SendAck(w) ==
    /\ wk[w].pc = "ack"
    /\ inbox' = [inbox EXCEPT ![wk[w].addr] = @ \cup {"ack"}]
    /\ Goto(w, Idle)
    /\ UNCHANGED <<net, sent, rx, edge, events, taskq, infoList, msgq, mt, heap, srv, merged,
                   known, newest, displayed>>

\* Mutant: the node is allocated and not linked.
EnSrvMsgQueueForgotten(w) ==
    /\ wk[w].pc = "enq"
    /\ Goto(w, Idle)
    /\ UNCHANGED <<net, sent, rx, edge, events, taskq, infoList, msgq, mt, heap, inbox, srv,
                   merged, known, newest, displayed>>

EnSrvMsgQueue(w) ==
    /\ wk[w].pc = "enq"
    /\ msgq' = Append(msgq, wk[w].on)
    /\ Goto(w, Idle)
    /\ UNCHANGED <<net, sent, rx, edge, events, taskq, infoList, mt, heap, inbox, srv, merged,
                   known, newest, displayed>>

\* SrvMsgProcessTask for the server itself: it returns before free().
Display(w) ==
    /\ wk[w].pc = "msg" /\ Dest[wk[w].on] = Server
    /\ displayed' = displayed \cup {wk[w].on}
    /\ Goto(w, Idle)
    /\ UNCHANGED <<net, sent, rx, edge, events, taskq, infoList, msgq, mt, heap, inbox, srv,
                   merged, known, newest>>

\* For a client: the first node of the list with its id.  There is no test for
\* NULL before the node is copied.
GetCliInfoNode(w) ==
    /\ wk[w].pc = "msg" /\ Dest[wk[w].on] # Server
    /\ LET mine == {p \in DOMAIN infoList : Owner[infoList[p]] = Dest[wk[w].on]}
       IN  \/ /\ mine = {}
              /\ srv' = "crashed"
              /\ UNCHANGED wk
           \/ \E p \in mine :
                 /\ \A q \in mine : p <= q
                 /\ Goto(w, At("send", wk[w].on, infoList[p]))
                 /\ UNCHANGED srv
    /\ UNCHANGED <<net, sent, rx, edge, events, taskq, infoList, msgq, mt, heap, inbox, merged,
                   known, newest, displayed>>

\* Mutant: the early return here too.
SendToNoFree(w) ==
    /\ wk[w].pc = "send"
    /\ inbox' = [inbox EXCEPT ![wk[w].addr] = @ \cup {wk[w].on}]
    /\ Goto(w, Idle)
    /\ UNCHANGED <<net, sent, rx, edge, events, taskq, infoList, msgq, mt, heap, srv, merged, known, newest,
                   displayed>>

SendTo(w) ==
    /\ wk[w].pc = "send"
    /\ inbox' = [inbox EXCEPT ![wk[w].addr] = @ \cup {wk[w].on}]
    /\ heap' = heap \ {wk[w].on}
    /\ Goto(w, Idle)
    /\ UNCHANGED <<net, sent, rx, edge, events, taskq, infoList, msgq, mt, srv, merged, known, newest,
                   displayed>>

WorkerStep(w) ==
    \/ TakeTask(w) \/ RecvFrom(w) \/ AddNode(w) \/ SendAck(w) \/ EnSrvMsgQueue(w)
    \/ Display(w) \/ GetCliInfoNode(w) \/ SendTo(w)

-----------------------------------------------------------------------------
(* SrvMsgProcessThread                                                     *)

DeSrvMsgQueue ==
    /\ mt = None
    /\ msgq # << >>
    /\ mt' = Head(msgq)
    /\ msgq' = Tail(msgq)
    /\ UNCHANGED <<net, sent, rx, edge, events, taskq, wk, infoList, heap, inbox, srv, merged,
                   known, newest, displayed>>

\* AddTaskToServerPoolReleaseArgMem copies the message.
AddMsgTask ==
    /\ mt # None
    /\ heap' = heap \cup {mt}
    /\ taskq' = Append(taskq, mt)
    /\ mt' = None
    /\ UNCHANGED <<net, sent, rx, edge, events, wk, infoList, msgq, inbox, srv, merged, known, newest,
                   displayed>>

-----------------------------------------------------------------------------
Epoll == EpollWait \/ EpollDispatch
MsgThread == DeSrvMsgQueue \/ AddMsgTask

Next ==
    /\ srv = "up"
    /\ \/ \E d \in Reg \cup Data : ClientSend(d) \/ Lose(d) \/ Arrive(d)
       \/ Epoll
       \/ MsgThread
       \/ \E w \in Worker : WorkerStep(w)

Spec == Init /\ [][Next]_vars

\* The server's threads go on; nothing is assumed of clients and network.
FairSpec ==
    /\ Spec
    /\ WF_vars(srv = "up" /\ Epoll)
    /\ WF_vars(srv = "up" /\ MsgThread)
    /\ \A w \in Worker : WF_vars(srv = "up" /\ WorkerStep(w))

-----------------------------------------------------------------------------
TypeOK ==
    /\ net \subseteq Reg \cup Data /\ sent \subseteq Reg \cup Data
    /\ rx \in Seq(Reg \cup Data)
    /\ edge \in BOOLEAN /\ merged \in BOOLEAN /\ events \in 0..1
    /\ taskq \in Seq(Data \cup {"udp"})
    /\ wk \in [Worker -> [pc : {"idle", "recv", "save", "ack", "enq", "msg", "send"},
                          on : Data \cup {None}, addr : Addr \cup {None}]]
    /\ infoList \in Seq(Addr)
    /\ msgq \in Seq(Data) /\ mt \in Data \cup {None} /\ heap \subseteq Data
    /\ inbox \in [Addr -> SUBSET (Data \cup {"ack"})]
    /\ srv \in {"up", "crashed"}
    /\ known \in [Data -> SUBSET Addr] /\ newest \in [Data -> SUBSET Addr]
    /\ displayed \subseteq Data

\* No pool thread waits in recvfrom() for ever: there is a datagram for every
\* handler that was started, although edges are merged and handled by several
\* threads at once.  (server_epoll.c:76-86, server_udp.c:98)
NoBlockedWorker ==
    Cardinality({w \in Worker : wk[w].pc = "recv"}) <= Len(rx)

\* A message goes to the address whose registration was handled last when it was
\* sent, or to one handled since, never to one its addressee had left before,
\* although the old nodes stay in the list and handlers overtake each other.  A
\* repeat of an old registration that is handled late counts as the latest: the
\* code takes it for a move back.  (clientinfo_list.c:60, 74-81)
DeliveredToNewest ==
    \A m \in Data, a \in Addr : m \in inbox[a] => Owner[a] = Dest[m] /\ a \in newest[m]

\* The server survives as long as every message it is sent is for itself or for
\* a client that had been acknowledged: the acknowledgement follows the node.
\* (server_udp.c:109-114, 139)
NoCrash ==
    (\A m \in Data \cap sent : Dest[m] = Server \/ known[m] # {}) => srv = "up"

Places(m) ==
    Cardinality({w \in Worker : wk[w].on = m}) + Cardinality({p \in DOMAIN msgq : msgq[p] = m})
    + Cardinality({p \in DOMAIN taskq : taskq[p] = m}) + Cardinality({p \in DOMAIN rx : rx[p] = m})
    + Cardinality({a \in Addr : m \in inbox[a]})
    + (IF mt = m THEN 1 ELSE 0) + (IF m \in net THEN 1 ELSE 0) + (IF m \in displayed THEN 1 ELSE 0)

\* A message has been shown or is in one place at most, all well typed: never
\* forwarded or shown twice.  (lcmsg_queue.c:36-54, server_udp.c:125-174)
MessageOnce == TypeOK /\ \A m \in Data : Places(m) <= 1

\* A client that has been acknowledged is served: messages to it do not end the
\* server, and go, once each, to the address registered last when they were sent
\* or to one registered since.  (clientinfo_list.c:60, server_udp.c:139)
KnownClientsServed == NoCrash /\ DeliveredToNewest /\ MessageOnce

\* As long as datagrams do not share an edge, every message that arrives is
\* forwarded or shown, unless the server crashes.
MessagesSettled ==
    \A m \in Data : Contains(rx, m) ~>
        m \in displayed \/ (\E a \in Addr : m \in inbox[a]) \/ srv = "crashed" \/ merged

\* The copies that are allocated are those of the messages on their way through
\* the pool, no more and no less, and those of the messages shown: the handler
\* returns from them without free().  (server_udp.c:137, 148)
CopiesExact ==
    heap = displayed \cup {m \in Data : \/ Contains(taskq, m)
                                       \/ \E w \in Worker : wk[w].on = m /\ wk[w].pc \in {"msg", "send"}}

=============================================================================
