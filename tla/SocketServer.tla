---------------------------- MODULE SocketServer ----------------------------
(***************************************************************************)
(* The message server of work_srcs/socket/server: the epoll thread, the    *)
(* pool threads that run its handlers, the client registry (an SQLite      *)
(* table), the message queue and the thread that empties it.               *)
(*                                                                         *)
(* The sockets are the kernel's, modelled from how the code uses them:     *)
(* every descriptor is blocking and edge-triggered, descriptors are small  *)
(* integers that accept() reuses lowest first, closing by a peer is read   *)
(* as end-of-file, and a write to a connection whose peer has gone brings  *)
(* a reset first and SIGPIPE afterwards, which nothing in the server       *)
(* handles.  The pool is used through TaskPool's promise: add_task_... is  *)
(* one step at the tail of taskq, and an idle thread takes its head.       *)
(*                                                                         *)
(* Abstracted: a message is an identity with a destination, and a package  *)
(* arrives whole; the listen backlog, the socket buffers and LC_MAXEVENTS  *)
(* are never full; malloc and sqlite3_open succeed; the lazy creation of   *)
(* the queue and of the database is not part of this module.               *)
(***************************************************************************)
EXTENDS Integers, FiniteSets, SequencesExt

CONSTANTS
    Worker,        \* the pool's threads
    Client,        \* the end ids of the clients
    Server,        \* g_server_endid
    Conn,          \* the TCP connections clients may open: a bound on their number
    UdpAddr,       \* the addresses clients send datagrams from
    Owner,         \* the client at the other end of each connection and address
    Data,          \* the data messages clients may send: a bound on their number
    Via, Dest,     \* the connection or address each is sent on, and its destid
    Fd,            \* the descriptors accept() may return: the process's limit
    Lines,         \* how often stdin becomes readable: a bound on the input
    MaxActs,       \* how many of all these happen in one behaviour: a bound
    Spaced,        \* TRUE: a socket's next item arrives after the last was reported
    Listener,      \* g_srv_tcpfd
    UdpSock,       \* g_srv_udpfd
    Stdin,         \* STDIN_FILENO
    None           \* nothing: no connection, no row, no message

Link == Conn \cup UdpAddr
Sock == Conn \cup {Listener, UdpSock, Stdin}

ASSUME LinksAssumption ==
    /\ Owner \in [Link -> Client]
    /\ Via \in [Data -> Link]
    /\ Dest \in [Data -> Client \cup {Server}]
    /\ Server \notin Client

\* What the program tells apart by its type or its number.
ASSUME NamesAssumption ==
    /\ Conn \cap (UdpAddr \cup Data \cup Fd) = {} /\ Data \cap UdpAddr = {} /\ Fd \cap UdpAddr = {}
    /\ {"EOF", "line", "ack"} \cap (Link \cup Data) = {}
    /\ {Listener, UdpSock, Stdin} \cap (Conn \cup UdpAddr \cup Fd) = {}
    /\ Listener # UdpSock /\ Listener # Stdin /\ UdpSock # Stdin
    /\ None \notin Link \cup Data \cup Fd \cup Client \cup {Listener, UdpSock, Stdin}

ASSUME BoundsAssumption ==
    /\ IsFiniteSet(Fd) /\ Fd \subseteq Nat /\ Fd # {}
    /\ IsFiniteSet(Worker) /\ IsFiniteSet(Conn) /\ IsFiniteSet(UdpAddr)
    /\ Spaced \in BOOLEAN /\ MaxActs \in Nat
    /\ Lines \in Seq({"line", "EOF"})

VARIABLES
    peer,          \* the client's end of each connection, and what the server's end knows of it
    rx,            \* what has arrived at each socket and is not read
    sent,          \* the links whose registration was sent, and the messages sent
    typed,         \* how many times stdin has become readable
    fdt,           \* the descriptor table: the connection of each descriptor
    interest,      \* the sockets registered with g_epfd
    ready,         \* the sockets with an edge that epoll_wait will report
    events,        \* what is left of the epoll thread's events[] array
    taskq,         \* the pool's queue
    wk,            \* what each pool thread is doing
    row,           \* the CliInfo table: fd or address of each registered client
    msgq,          \* srv_msg_queue, head first
    mt,            \* msgbuf of the message thread
    inbox,         \* what the server has delivered on each link
    srv,           \* "up", or "killed" by SIGPIPE
    stale          \* history: a descriptor was used after its connection was gone

netVars == <<peer, rx, sent, typed, inbox>>
epollVars == <<interest, ready, events>>
serverVars == <<fdt, interest, events, taskq, wk, row, msgq, mt, srv, stale>>
vars == <<peer, rx, sent, typed, fdt, interest, ready, events, taskq, wk, row, msgq, mt,
          inbox, srv, stale>>

\* What a pool thread holds: where it is, the descriptor or address and the
\* message it works on, and (history) the connection the descriptor stood for.
At(pc, fd, msg, on) == [pc |-> pc, fd |-> fd, msg |-> msg, on |-> on]
Idle == At("idle", None, None, None)
Goto(w, local) == wk' = [wk EXCEPT ![w] = local]

Task(h, arg) == [h |-> h, arg |-> arg]

\* A message as a link receives it: the destid in it, and what it carries.
Package(to, body) == [to |-> to, body |-> body]

Init ==
    /\ peer = [c \in Conn |-> "new"]
    /\ rx = [s \in Sock |-> << >>]
    /\ sent = {}
    /\ typed = 0
    /\ fdt = [f \in Fd |-> None]
    /\ interest = {Listener, UdpSock, Stdin}
    /\ ready = {}
    /\ events = {}
    /\ taskq = << >>
    /\ wk = [w \in Worker |-> Idle]
    /\ row = [x \in Client |-> None]
    /\ msgq = << >>
    /\ mt = None
    /\ inbox = [l \in Link |-> {}]
    /\ srv = "up"
    /\ stale = FALSE

-----------------------------------------------------------------------------
(* The kernel and the clients.                                             *)

\* An edge on a registered socket; edges not yet reported are merged.
Edge(s) == ready \cup ({s} \cap interest)

\* When Spaced, an item comes only after the edge of the last was reported.
MayArrive(s) ==
    Spaced => rx[s] = << >> \/ s \in interest \ ready

\* What clients and terminal have done so far.
Acts == Cardinality({c \in Conn : peer[c] # "new"})
        + Cardinality({c \in Conn : peer[c] \notin {"new", "open"}}) + Cardinality(sent) + typed

Arrive(s, item) ==
    /\ MayArrive(s)
    /\ Acts < MaxActs
    /\ rx' = [rx EXCEPT ![s] = Append(@, item)]
    /\ ready' = Edge(s)

Connect(c) ==
    /\ peer[c] = "new"
    /\ peer' = [peer EXCEPT ![c] = "open"]
    /\ Arrive(Listener, c)
    /\ UNCHANGED <<sent, typed, inbox, serverVars>>

\* The socket at which the items of a link arrive.
Wire(l) == IF l \in Conn THEN l ELSE UdpSock

\* The client on a link sends SAVE_CLI_INFO once, and each message of its own once.
ClientSend(l, item) ==
    /\ item \notin sent
    /\ item = l \/ (item \in Data /\ Via[item] = l)
    /\ l \in Conn => peer[l] = "open"
    /\ sent' = sent \cup {item}
    /\ Arrive(Wire(l), item)
    /\ UNCHANGED <<peer, typed, inbox, serverVars>>

\* A client leaves or dies.  Its kernel resets the connection instead of
\* finishing it if the client has not read all that was delivered; the server's
\* end then has an error to return once, before the end-of-file.
ClientClose(c, how) ==
    /\ peer[c] = "open"
    /\ how = "rst" => inbox[c] # {}
    /\ peer' = [peer EXCEPT ![c] = how]
    /\ Arrive(c, "EOF")
    /\ UNCHANGED <<sent, typed, inbox, serverVars>>

StdinInput ==
    /\ typed < Len(Lines)
    /\ typed' = typed + 1
    /\ Arrive(Stdin, Lines[typed + 1])
    /\ UNCHANGED <<peer, sent, inbox, serverVars>>

\* send() of pkt on descriptor f, which stood for connection on when the sender
\* learnt of it.  No descriptor: EBADF.  Peer closed: the data is answered by a
\* reset.  Reset: the pending error is returned once, after that SIGPIPE kills.
TcpSend(f, on, pkt) ==
    LET c == fdt[f] IN
    /\ stale' = (stale \/ c # on)
    /\ \/ /\ c = None
          /\ UNCHANGED <<peer, ready, inbox, srv>>
       \/ /\ c # None /\ peer[c] = "open"
          /\ inbox' = [inbox EXCEPT ![c] = @ \cup {pkt}]
          /\ UNCHANGED <<peer, ready, srv>>
       \/ /\ c # None /\ peer[c] = "fin"
          /\ peer' = [peer EXCEPT ![c] = "reset"]
          /\ ready' = Edge(c)
          /\ UNCHANGED <<inbox, srv>>
       \/ /\ c # None /\ peer[c] = "rst"
          /\ peer' = [peer EXCEPT ![c] = "gone"]
          /\ UNCHANGED <<ready, inbox, srv>>
       \/ /\ c # None /\ peer[c] \in {"gone", "reset"}
          /\ srv' = "killed"
          /\ UNCHANGED <<peer, ready, inbox>>

\* sendto() of pkt to address a: the datagram arrives or is lost.
UdpSend(a, pkt) ==
    /\ \/ inbox' = [inbox EXCEPT ![a] = @ \cup {pkt}]
       \/ UNCHANGED inbox
    /\ UNCHANGED <<peer, ready, srv, stale>>

-----------------------------------------------------------------------------
(* server_epoll_thread: one epoll_wait returns every ready socket; the     *)
(* loop then adds one task per event.                                      *)

FdOf(s) == IF s \in Conn THEN CHOOSE f \in Fd : fdt[f] = s ELSE s

\* Mutant: only the first of the reported events is looked at.
EpollWaitFirstOnly ==
    /\ srv = "up"
    /\ events = {} /\ ready # {}
    /\ events' = {FdOf(CHOOSE s \in ready : TRUE)}
    /\ ready' = {}
    /\ UNCHANGED <<netVars, fdt, interest, taskq, wk, row, msgq, mt, srv, stale>>

EpollWait ==
    /\ srv = "up"
    /\ events = {} /\ ready # {}
    /\ events' = {FdOf(s) : s \in ready}
    /\ ready' = {}
    /\ UNCHANGED <<netVars, fdt, interest, taskq, wk, row, msgq, mt, srv, stale>>

Handler(fd) == CASE fd = Stdin -> "stdin"
                 [] fd = Listener -> "accept"
                 [] OTHER -> "recv"

\* The order of the array is the kernel's: any.
EpollDispatch ==
    /\ srv = "up"
    /\ \E fd \in events :
         /\ taskq' = Append(taskq, Task(Handler(fd), fd))
         /\ events' = events \ {fd}
    /\ UNCHANGED <<netVars, fdt, interest, ready, wk, row, msgq, mt, srv, stale>>

-----------------------------------------------------------------------------
(* The pool threads and the handlers they run.                             *)

\* A pool thread takes the oldest task and enters its handler.
TakeTask(w) ==
    /\ wk[w] = Idle
    /\ taskq # << >>
    /\ taskq' = Tail(taskq)
    /\ LET t == Head(taskq)
       IN  Goto(w, IF t.h \in {"display", "forward"} THEN At(t.h, None, t.arg, None)
                                                     ELSE At(t.h, t.arg, None, None))
    /\ UNCHANGED <<netVars, fdt, epollVars, row, msgq, mt, srv, stale>>

FreeFds == {f \in Fd : fdt[f] = None}

\* process_accept_tcp_link: one accept(), which blocks while no connection waits.
Accept(w) ==
    /\ wk[w].pc = "accept"
    /\ rx[Listener] # << >>
    /\ \E f \in FreeFds :
         /\ \A g \in FreeFds : f <= g
         /\ fdt' = [fdt EXCEPT ![f] = Head(rx[Listener])]
         /\ Goto(w, At("epoll_add", f, None, Head(rx[Listener])))
    /\ rx' = [rx EXCEPT ![Listener] = Tail(@)]
    /\ UNCHANGED <<peer, sent, typed, inbox, epollVars, taskq, row, msgq, mt, srv, stale>>

\* accept() fails for want of a descriptor: the connection stays in the backlog.
AcceptError(w) ==
    /\ wk[w].pc = "accept"
    /\ rx[Listener] # << >>
    /\ FreeFds = {}
    /\ Goto(w, Idle)
    /\ UNCHANGED <<netVars, fdt, epollVars, taskq, row, msgq, mt, srv, stale>>

\* Mutant: the handler loops to accept() everything that waits.
EpollAddAndLoop(w) ==
    /\ wk[w].pc = "epoll_add"
    /\ LET c == fdt[wk[w].fd] IN
       IF c \in Conn \ interest
       THEN /\ interest' = interest \cup {c}
            /\ ready' = IF rx[c] # << >> THEN ready \cup {c} ELSE ready
       ELSE UNCHANGED <<interest, ready>>
    /\ Goto(w, At("accept", Listener, None, None))
    /\ UNCHANGED <<netVars, fdt, events, taskq, row, msgq, mt, srv, stale>>

\* add_fd_to_srv_epoll(newfd): what has already arrived counts as an edge.
EpollAdd(w) ==
    /\ wk[w].pc = "epoll_add"
    /\ LET c == fdt[wk[w].fd] IN
       IF c \in Conn \ interest
       THEN /\ interest' = interest \cup {c}
            /\ ready' = IF rx[c] # << >> THEN ready \cup {c} ELSE ready
       ELSE UNCHANGED <<interest, ready>>
    /\ Goto(w, Idle)
    /\ UNCHANGED <<netVars, fdt, events, taskq, row, msgq, mt, srv, stale>>

\* recv_tcp_cli_msg up to the use of what recv() returned, which blocks while
\* nothing has arrived.  The descriptor is no longer open, or the connection was
\* reset: an error, and nothing is closed.
RecvTcpError(w) ==
    /\ wk[w].pc = "recv" /\ wk[w].fd \in Fd
    /\ LET c == fdt[wk[w].fd]
       IN  \/ c = None /\ UNCHANGED peer
           \/ /\ c # None /\ rx[c] # << >> /\ Head(rx[c]) = "EOF" /\ peer[c] = "rst"
              /\ peer' = [peer EXCEPT ![c] = "gone"]
    /\ Goto(w, Idle)
    /\ UNCHANGED <<rx, sent, typed, inbox, fdt, epollVars, taskq, row, msgq, mt, srv, stale>>

\* Mutant: end-of-file is taken for an error (RXsize <= 0), and nothing is closed.
RecvTcpEofIgnored(w) ==
    /\ wk[w].pc = "recv" /\ wk[w].fd \in Fd
    /\ LET c == fdt[wk[w].fd]
       IN  c # None /\ rx[c] # << >> /\ Head(rx[c]) = "EOF" /\ peer[c] # "rst"
    /\ Goto(w, Idle)
    /\ UNCHANGED <<netVars, fdt, epollVars, taskq, row, msgq, mt, srv, stale>>

\* End-of-file, which stays readable.
RecvTcpEof(w) ==
    /\ wk[w].pc = "recv" /\ wk[w].fd \in Fd
    /\ LET c == fdt[wk[w].fd]
       IN  /\ c # None /\ rx[c] # << >> /\ Head(rx[c]) = "EOF" /\ peer[c] # "rst"
           /\ Goto(w, At("epoll_del", wk[w].fd, None, c))
    /\ UNCHANGED <<netVars, fdt, epollVars, taskq, row, msgq, mt, srv, stale>>

RecvTcpMsg(w) ==
    /\ wk[w].pc = "recv" /\ wk[w].fd \in Fd
    /\ LET c == fdt[wk[w].fd]
       IN  /\ c # None /\ rx[c] # << >> /\ Head(rx[c]) # "EOF"
           /\ Goto(w, IF Head(rx[c]) = c THEN At("save", wk[w].fd, Owner[c], c)
                                         ELSE At("en_queue", None, Head(rx[c]), None))
           /\ rx' = [rx EXCEPT ![c] = Tail(@)]
    /\ UNCHANGED <<peer, sent, typed, inbox, fdt, epollVars, taskq, row, msgq, mt, srv, stale>>

\* recv_udp_cli_msg up to the use of what recvfrom() returned.
RecvUdp(w) ==
    /\ wk[w].pc = "recv" /\ wk[w].fd = UdpSock
    /\ rx[UdpSock] # << >>
    /\ LET item == Head(rx[UdpSock])
       IN  Goto(w, IF item \in Data THEN At("en_queue", None, item, None)
                                    ELSE At("save", item, Owner[item], None))
    /\ rx' = [rx EXCEPT ![UdpSock] = Tail(@)]
    /\ UNCHANGED <<peer, sent, typed, inbox, fdt, epollVars, taskq, row, msgq, mt, srv, stale>>

\* lc_sqls.mutex_ is free: only a broadcast holds it for longer than one step.
SqlFree == \A v \in Worker : wk[v].pc # "broadcast"

\* add_tcp_cli_to_database: INSERT, or UPDATE when the client has a row.
AddTcpCli(w) ==
    /\ wk[w].pc = "save" /\ wk[w].fd \in Fd
    /\ SqlFree
    /\ row' = [row EXCEPT ![wk[w].msg] = wk[w].fd]
    /\ stale' = (stale \/ fdt[wk[w].fd] # wk[w].on
                       \/ \E v \in Worker : wk[v].pc = "close" /\ wk[v].fd = wk[w].fd)
    /\ Goto(w, [wk[w] EXCEPT !.pc = "ack"])
    /\ UNCHANGED <<netVars, fdt, epollVars, taskq, msgq, mt, srv>>

\* add_udp_cli_to_database: INSERT; when the client has a row, the UPDATE names
\* a column the table does not have, so it fails and the row stays as it was.
AddUdpCli(w) ==
    /\ wk[w].pc = "save" /\ wk[w].fd \in UdpAddr
    /\ SqlFree
    /\ row' = [row EXCEPT ![wk[w].msg] = IF @ = None THEN wk[w].fd ELSE @]
    /\ Goto(w, [wk[w] EXCEPT !.pc = "ack"])
    /\ UNCHANGED <<netVars, fdt, epollVars, taskq, msgq, mt, srv, stale>>

\* send_msg_by_tcp / send_msg_by_udp of the acknowledgement, whatever the
\* database answered.
SendAck(w) ==
    /\ wk[w].pc = "ack"
    /\ IF wk[w].fd \in Fd THEN TcpSend(wk[w].fd, wk[w].on, Package(wk[w].msg, "ack"))
                          ELSE UdpSend(wk[w].fd, Package(wk[w].msg, "ack"))
    /\ Goto(w, Idle)
    /\ UNCHANGED <<rx, sent, typed, fdt, interest, events, taskq, row, msgq, mt>>

\* en_srv_msg_queue: list_add puts the message at the head.
EnSrvMsgQueue(w) ==
    /\ wk[w].pc = "en_queue"
    /\ msgq' = <<wk[w].msg>> \o msgq
    /\ Goto(w, Idle)
    /\ UNCHANGED <<netVars, fdt, epollVars, taskq, row, mt, srv, stale>>

\* Mutant: the descriptor is already closed here, and again after the DELETE.
EpollDelAndClose(w) ==
    /\ wk[w].pc = "epoll_del"
    /\ LET c == fdt[wk[w].fd] IN
       /\ interest' = interest \ {c}
       /\ ready' = ready \ {c}
    /\ fdt' = [fdt EXCEPT ![wk[w].fd] = None]
    /\ Goto(w, [wk[w] EXCEPT !.pc = "delete"])
    /\ UNCHANGED <<netVars, events, taskq, row, msgq, mt, srv, stale>>

\* The end of a connection: del_fd_from_srv_epoll, then the DELETE, then close.
EpollDel(w) ==
    /\ wk[w].pc = "epoll_del"
    /\ LET c == fdt[wk[w].fd] IN
       /\ interest' = interest \ {c}
       /\ ready' = ready \ {c}
    /\ Goto(w, [wk[w] EXCEPT !.pc = "delete"])
    /\ UNCHANGED <<netVars, fdt, events, taskq, row, msgq, mt, srv, stale>>

\* Mutant: the DELETE has no WHERE clause.
DelEveryCli(w) ==
    /\ wk[w].pc = "delete"
    /\ SqlFree
    /\ row' = [x \in Client |-> None]
    /\ Goto(w, [wk[w] EXCEPT !.pc = "close"])
    /\ UNCHANGED <<netVars, fdt, epollVars, taskq, msgq, mt, srv, stale>>

\* Mutant: the DELETE is forgotten.
DelNoCli(w) ==
    /\ wk[w].pc = "delete"
    /\ SqlFree
    /\ Goto(w, [wk[w] EXCEPT !.pc = "close"])
    /\ UNCHANGED <<netVars, fdt, epollVars, taskq, row, msgq, mt, srv, stale>>

DelTcpCliByFd(w) ==
    /\ wk[w].pc = "delete"
    /\ SqlFree
    /\ row' = [x \in Client |-> IF row[x] = wk[w].fd THEN None ELSE row[x]]
    /\ Goto(w, [wk[w] EXCEPT !.pc = "close"])
    /\ UNCHANGED <<netVars, fdt, epollVars, taskq, msgq, mt, srv, stale>>

CloseFd(w) ==
    /\ wk[w].pc = "close"
    /\ LET c == fdt[wk[w].fd] IN
       /\ interest' = interest \ {c}
       /\ ready' = ready \ {c}
    /\ fdt' = [fdt EXCEPT ![wk[w].fd] = None]
    /\ Goto(w, Idle)
    /\ UNCHANGED <<netVars, events, taskq, row, msgq, mt, srv, stale>>

\* dispaly_msg_package
Display(w) ==
    /\ wk[w].pc = "display"
    /\ Goto(w, Idle)
    /\ UNCHANGED <<netVars, fdt, epollVars, taskq, row, msgq, mt, srv, stale>>

\* forward_msg_clients, the look-up: get_cli_by_endid.  Without a row the
\* message is dropped.
ForwardLookup(w) ==
    /\ wk[w].pc = "forward"
    /\ SqlFree
    /\ LET to == row[Dest[wk[w].msg]]
       IN  Goto(w, CASE to = None -> Idle
                     [] to \in Fd -> At("send", to, wk[w].msg, fdt[to])
                     [] to \in UdpAddr -> At("send", to, wk[w].msg, None))
    /\ UNCHANGED <<netVars, fdt, epollVars, taskq, row, msgq, mt, srv, stale>>

\* forward_msg_clients, the send: send_tcp_cli_msg or send_udp_cli_msg.
ForwardSend(w) ==
    /\ wk[w].pc = "send"
    /\ LET pkt == Package(Dest[wk[w].msg], wk[w].msg)
       IN  IF wk[w].fd \in Fd THEN TcpSend(wk[w].fd, wk[w].on, pkt)
                              ELSE UdpSend(wk[w].fd, pkt)
    /\ Goto(w, Idle)
    /\ UNCHANGED <<rx, sent, typed, fdt, interest, events, taskq, row, msgq, mt>>

\* process_stdin_msg: a line starts a broadcast under the database's mutex;
\* end-of-file is read once and ignored.
ReadStdin(w) ==
    /\ wk[w].pc = "stdin"
    /\ rx[Stdin] # << >>
    /\ Head(rx[Stdin]) = "line" => SqlFree
    /\ Goto(w, IF Head(rx[Stdin]) = "EOF" THEN Idle
               ELSE At("broadcast", None, {x \in Client : row[x] # None}, None))
    /\ rx' = [rx EXCEPT ![Stdin] = Tail(@)]
    /\ UNCHANGED <<peer, sent, typed, inbox, fdt, epollVars, taskq, row, msgq, mt, srv, stale>>

\* send_msg_to_all_ret, the callback for one row of the SELECT.
BroadcastRow(w, x) ==
    /\ wk[w].pc = "broadcast"
    /\ x \in wk[w].msg
    /\ IF row[x] \in Fd THEN TcpSend(row[x], fdt[row[x]], Package(x, "line"))
                        ELSE UdpSend(row[x], Package(x, "line"))
    /\ Goto(w, [wk[w] EXCEPT !.msg = @ \ {x}])
    /\ UNCHANGED <<rx, sent, typed, fdt, interest, events, taskq, row, msgq, mt>>

\* The SELECT is over and the mutex is released.
BroadcastDone(w) ==
    /\ wk[w].pc = "broadcast"
    /\ wk[w].msg = {}
    /\ Goto(w, Idle)
    /\ UNCHANGED <<netVars, fdt, epollVars, taskq, row, msgq, mt, srv, stale>>

WorkerStep(w) ==
    /\ srv = "up"
    /\ \/ TakeTask(w)
       \/ Accept(w) \/ AcceptError(w) \/ EpollAdd(w)
       \/ RecvTcpError(w) \/ RecvTcpEof(w) \/ RecvTcpMsg(w) \/ RecvUdp(w)
       \/ AddTcpCli(w) \/ AddUdpCli(w) \/ SendAck(w)
       \/ EnSrvMsgQueue(w)
       \/ EpollDel(w) \/ DelTcpCliByFd(w) \/ CloseFd(w)
       \/ Display(w) \/ ForwardLookup(w) \/ ForwardSend(w)
       \/ ReadStdin(w) \/ (\E x \in Client : BroadcastRow(w, x)) \/ BroadcastDone(w)

-----------------------------------------------------------------------------
(* socket_msg_process_thread                                               *)

DeSrvMsgQueue ==
    /\ srv = "up"
    /\ mt = None /\ msgq # << >>
    /\ mt' = Head(msgq)
    /\ msgq' = Tail(msgq)
    /\ UNCHANGED <<netVars, fdt, epollVars, taskq, wk, row, srv, stale>>

MsgDispatch ==
    /\ srv = "up"
    /\ mt # None
    /\ taskq' = Append(taskq, Task(IF Dest[mt] = Server THEN "display" ELSE "forward", mt))
    /\ mt' = None
    /\ UNCHANGED <<netVars, fdt, epollVars, wk, row, msgq, srv, stale>>

-----------------------------------------------------------------------------
Environment ==
    /\ srv = "up"
    /\ \/ \E c \in Conn : Connect(c) \/ \E how \in {"fin", "rst"} : ClientClose(c, how)
       \/ \E l \in Link, item \in Link \cup Data : ClientSend(l, item)
       \/ StdinInput

Next ==
    \/ Environment
    \/ EpollWait
    \/ EpollDispatch
    \/ \E w \in Worker : WorkerStep(w)
    \/ DeSrvMsgQueue
    \/ MsgDispatch

Spec == Init /\ [][Next]_vars

\* Every thread of the server keeps running; the clients need not do anything.
Fairness ==
    /\ WF_vars(EpollWait) /\ WF_vars(EpollDispatch)
    /\ \A w \in Worker : WF_vars(WorkerStep(w))
    /\ WF_vars(DeSrvMsgQueue) /\ WF_vars(MsgDispatch)

FairSpec == Spec /\ Fairness

-----------------------------------------------------------------------------
(* Properties *)

SockFd == Fd \cup {Listener, UdpSock, Stdin}
SockAt(f) == IF f \in Fd THEN fdt[f] ELSE f
ReadPC == {"accept", "recv", "stdin"}

Local == [pc : {"idle", "accept", "epoll_add", "recv", "save", "ack", "en_queue", "epoll_del",
                "delete", "close", "display", "forward", "send", "stdin", "broadcast"},
          fd : SockFd \cup UdpAddr \cup {None},
          msg : Data \cup Client \cup {None} \cup SUBSET Client,
          on : Conn \cup {None}]

Work == {Task("accept", Listener), Task("stdin", Stdin)} \cup [h : {"recv"}, arg : Fd \cup {UdpSock}]
        \cup {Task(IF Dest[m] = Server THEN "display" ELSE "forward", m) : m \in Data}

\* What may arrive at a socket.
Items(s) ==
    CASE s \in Conn -> {s, "EOF"} \cup {m \in Data : Via[m] = s}
      [] s = Listener -> Conn
      [] s = UdpSock -> UdpAddr \cup {m \in Data : Via[m] \in UdpAddr}
      [] s = Stdin -> {"line", "EOF"}

TypeOK ==
    /\ peer \in [Conn -> {"new", "open", "fin", "rst", "gone", "reset"}]
    /\ rx \in [Sock -> Seq(UNION {Items(s) : s \in Sock})] /\ \A s \in Sock : rx[s] \in Seq(Items(s))
    /\ sent \subseteq Link \cup Data
    /\ typed \in 0..Len(Lines)
    /\ fdt \in [Fd -> Conn \cup {None}]
    /\ interest \subseteq Sock /\ ready \subseteq interest /\ events \subseteq SockFd
    /\ taskq \in Seq(Work)
    /\ wk \in [Worker -> Local]
    /\ row \in [Client -> Fd \cup UdpAddr \cup {None}]
    /\ msgq \in Seq(Data) /\ mt \in Data \cup {None}
    /\ inbox \in [Link -> SUBSET [to : Client, body : Data \cup {"ack", "line"}]]
    /\ srv \in {"up", "killed"}
    /\ stale \in BOOLEAN

\* The two things the server does not guard against and the properties below
\* assume away: a pool thread that uses a descriptor number after another one
\* has closed the connection it stood for, and a write to a connection whose
\* client has already closed it, which raises a second event for it.
Regular == ~stale /\ \A c \in Conn : peer[c] # "reset"

\* No pool thread blocks for ever: one that is about to accept(), recv() or
\* read() on a blocking descriptor finds the descriptor open and something to
\* read, although several events of one socket may be handled at once.
\* (server_epoll.c:94, 139-150; server_tcp.c:89; server_udp.c:85)
NoBlockedWorker ==
    Regular => \A w \in Worker : wk[w].pc \in ReadPC =>
                  SockAt(wk[w].fd) # None /\ rx[SockAt(wk[w].fd)] # << >>

\* The end of one connection never takes another one down: an accepted
\* connection whose client is there keeps its descriptor and its place in the
\* epoll set, although descriptors are reused.  (server_tcp.c:93-98)
LiveConnServed ==
    Regular => \A c \in Conn : peer[c] = "open" /\ ~Contains(rx[Listener], c) =>
                  \E f \in Fd : /\ fdt[f] = c
                                /\ \/ c \in interest
                                   \/ \E w \in Worker : wk[w].pc = "epoll_add" /\ wk[w].fd = f

\* An acknowledged registration holds as long as its link does, if its client
\* registers on no other link: no teardown of another connection deletes it.
\* (server_tcp.c:94-96, 101-105; cli_sqlite3.c:116)
RegistrationKept ==
    Regular => \A l \in Link :
        /\ Package(Owner[l], "ack") \in inbox[l]
        /\ l \in Conn => peer[l] = "open"
        /\ \A k \in Link : Owner[k] = Owner[l] /\ k \in sent => k = l
        => row[Owner[l]] # None /\ (IF l \in Conn THEN row[Owner[l]] \in Fd /\ fdt[row[Owner[l]]] = l
                                                  ELSE row[Owner[l]] = l)

Number(b) == IF b THEN 1 ELSE 0

\* Where a data message can be: with a pool thread, in the queue, with the message
\* thread, in a task, unread in its link's socket, delivered.
Holding(m) == {w \in Worker : wk[w].pc \in {"en_queue", "display", "forward", "send"} /\ wk[w].msg = m}
TasksFor(m) == {i \in DOMAIN taskq : taskq[i].h \in {"display", "forward"} /\ taskq[i].arg = m}
Queued(m) == {i \in DOMAIN msgq : msgq[i] = m}
Unread(m) == {i \in DOMAIN rx[Wire(Via[m])] : rx[Wire(Via[m])][i] = m}
Told(m) == {l \in Link : \E p \in inbox[l] : p.body = m}

Inside(m) == Cardinality(Holding(m)) + Cardinality(TasksFor(m)) + Cardinality(Queued(m)) + Number(mt = m)
Places(m) == Inside(m) + Cardinality(Unread(m)) + Cardinality(Told(m))

\* A data message is in one place at a time and is delivered at most once,
\* through the queue, the message thread and the pool, all well typed.
MessageOnce == TypeOK /\ \A m \in Data : Places(m) <= 1

\* Whatever arrives at a client is addressed to it and comes once: reuse of a
\* descriptor never sends one client's messages to another.
\* (server_socket.c:18-25, cli_sqlite3.c:240-248)
NoMisroute == MessageOnce /\ (Regular => \A l \in Link : \A p \in inbox[l] : p.to = Owner[l])

\* Handling a registration makes the registry point at the link it came by.
\* (cli_sqlite3.c:73-103, 126-159)
RegistrationTakesEffect ==
    [][\A w \in Worker : wk[w].pc = "save" /\ wk'[w].pc = "ack"
                            => row'[wk[w].msg] = wk[w].fd]_vars

Excused == srv = "killed" \/ ~Regular

\* The client has finished one of its connections, or may be sent datagrams, which
\* may be lost.
Elusive(x) ==
    \E l \in Link : Owner[l] = x /\ IF l \in Conn THEN peer[l] \notin {"new", "open"} ELSE l \in sent

\* When a socket's items do not come faster than epoll_wait reports them, every
\* message a client sends is read and goes through the queue and the pool; one for
\* another client is delivered, unless that client is not registered when it is
\* looked up or is leaving.
\* (server_epoll.c:131-141, server_socket.c:18-25, cli_sqlite3.c:240-248)
MessagesSettled ==
    \A m \in Data : Unread(m) # {} ~>
        \/ /\ Unread(m) = {} /\ Inside(m) = 0
           /\ Dest[m] # Server =>
                \/ \E l \in Told(m) : Owner[l] = Dest[m]
                \/ row[Dest[m]] = None \/ Elusive(Dest[m])
        \/ Excused

\* Under the same condition the descriptor of a connection its client has
\* finished is given back.  (server_tcp.c:93-98)
FinishedConnReclaimed ==
    \A c \in Conn : peer[c] = "fin" ~>
        (~Contains(rx[Listener], c) /\ \A f \in Fd : fdt[f] # c) \/ Excused

=============================================================================
