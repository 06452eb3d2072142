----------------------------- MODULE TcpServer ------------------------------
(***************************************************************************)
(* The server of work_srcs/socket_tcp/server: SrvEp waits for events,      *)
(* accepts, registers clients and puts their messages into a queue;        *)
(* SrvProMsg takes them out, looks sender and receiver up and forwards.    *)
(* The queue is used through LinkFifo's promise.  The two threads share    *)
(* the list of clients without a lock: SrvProMsg walks it node by node     *)
(* while SrvEp adds, changes, unlinks and frees nodes.                     *)
(*                                                                         *)
(* SrvEp is the only one to touch the sockets' input, the epoll set and    *)
(* the list's links, so that a handler is one step up to the queue.  The   *)
(* build defines LOCAL_DEBUG (include.mk).  A connection stands for its    *)
(* list node too.  A program that reads a freed node or an element nobody  *)
(* wrote is "undefined", one that dereferences NULL is "crashed", and      *)
(* neither is followed further.  recv() and send() move whole MsgBufs;     *)
(* send() does not block.                                                  *)
(***************************************************************************)
EXTENDS LinkFifo, FiniteSets, SequencesExt

CONSTANTS
    Conn,          \* the connections clients make, each by a client of its own
    Dest, Via,     \* to whom each message goes, and on which connection it comes
    Fd,            \* the descriptors accept() may return
    MaxLine,       \* how many lines are typed at the server: a bound
    MaxActs,       \* how much clients and terminal do in all: a bound
    Server,        \* SERVER_ENDID
    Listener, Stdin, None

ASSUME TcpServerAssumption ==
    /\ Via \in [Value -> Conn] /\ Dest \in [Value -> Conn \cup {Server}]
    /\ Fd \subseteq Nat /\ MaxLine \in Nat /\ MaxActs \in Nat
    /\ {Server, Listener, Stdin, None} \cap Conn = {} /\ Listener # Stdin
    /\ {"SAVE_CLI_INFO", "EOF", "RST", "line", "ack", Junk, None} \cap Value = {}

VARIABLES
    peer,          \* the client's end of each connection
    rx,            \* what has arrived and is not read, by source
    fdt,           \* the descriptor table: the connection of each descriptor
    interest,      \* the connections added to epFd
    ready,         \* the sources with an edge that epoll_wait will report
    events,        \* the rest of epEventsArr
    list,          \* cliInfoManager: the nodes, first to last
    cliEndid, fd,  \* the fields of the nodes
    ep,            \* the message SrvEp is putting into the queue, or None
    pm,            \* SrvProMsg
    inbox,         \* what each client, and the server, has been sent
    sent, typed,   \* the messages clients have sent, in order, and the lines typed
    acts,          \* how much clients and terminal have done
    proc,          \* "up", "crashed" or "undefined"
    merged,        \* history: the sources of which one edge stands for two items, or none
    early,         \* history: a message was sent to a client not registered
    stale          \* history: SrvProMsg sent on a descriptor closed since it read it

queueVars == fifoVars
netVars == <<sent, typed, early>>
epollVars == <<fdt, interest, events>>
listVars == <<list, cliEndid, fd>>
vars == <<queueVars, netVars, acts, peer, rx, ready, epollVars, listVars, ep, pm, inbox, proc, stale, merged>>

Source == Conn \cup {Listener, Stdin}
Idle == [pc |-> "idle", at |-> None, src |-> None, dst |-> None, fd |-> 0]

\* InitServerSock, InitEpoll and the creation of the threads.
Init ==
    /\ FifoInit /\ got = CHOOSE v \in Value : TRUE
    /\ peer = [c \in Conn |-> "new"]
    /\ rx = [s \in Source |-> << >>]
    /\ fdt = [f \in Fd |-> None]
    /\ interest = {Listener, Stdin}
    /\ ready = {} /\ events = {}
    /\ list = << >>
    /\ cliEndid = [c \in Conn |-> Server] /\ fd = [c \in Conn |-> 0]
    /\ ep = None
    /\ pm = Idle
    /\ inbox = [c \in Conn \cup {Server} |-> << >>]
    /\ sent = << >> /\ typed = 0 /\ acts = 0
    /\ proc = "up"
    /\ early = FALSE /\ stale = FALSE /\ merged = {}

-----------------------------------------------------------------------------
(* The kernel, the clients and the terminal.                               *)

Edge(s) == IF s \in interest THEN ready \cup {s} ELSE ready

Gone == {"fin", "rst", "reset"}

Arrive(s, queue) ==
    /\ acts < MaxActs /\ acts' = acts + 1
    /\ rx' = [rx EXCEPT ![s] = queue]
    /\ ready' = Edge(s)
    /\ merged' = IF s \in ready \/ Len(queue) > Len(rx[s]) + 1 THEN merged \cup {s} ELSE merged
    /\ UNCHANGED <<queueVars, epollVars, listVars, ep, pm, inbox, proc, stale>>

Connect(c) ==
    /\ peer[c] = "new"
    /\ peer' = [peer EXCEPT ![c] = "open"]
    /\ Arrive(Listener, Append(rx[Listener], c))
    /\ UNCHANGED netVars

ClientSave(c) ==
    /\ peer[c] = "open"
    /\ peer' = [peer EXCEPT ![c] = "saved"]
    /\ Arrive(c, Append(rx[c], "SAVE_CLI_INFO"))
    /\ UNCHANGED netVars

Registered(c) == Contains(list, c) /\ cliEndid[c] = c

\* Left out: a client's line before its registration, for whose sender every walk
\* comes to nothing.
ClientSend(m) ==
    /\ ~Contains(sent, m) /\ peer[Via[m]] = "saved"
    /\ sent' = Append(sent, m)
    /\ early' = (early \/ (Dest[m] # Server /\ ~Registered(Dest[m])))
    /\ Arrive(Via[m], Append(rx[Via[m]], m))
    /\ UNCHANGED <<peer, typed>>

\* A client ends.  If it has not read all it was sent its kernel resets the
\* connection: what the server has not read, an error, and then the end.
ClientClose(c, how) ==
    /\ peer[c] \in {"open", "saved"}
    /\ peer' = [peer EXCEPT ![c] = how]
    /\ \/ how = "fin" /\ Arrive(c, Append(rx[c], "EOF"))
       \/ how = "rst" /\ inbox[c] # << >> /\ Arrive(c, rx[c] \o <<"RST", "EOF">>)
    /\ UNCHANGED netVars

StdinInput ==
    /\ typed < MaxLine
    /\ typed' = typed + 1
    /\ Arrive(Stdin, Append(rx[Stdin], "line"))
    /\ UNCHANGED <<peer, sent, early>>

\* send() of m on the descriptors in F.  A client that has finished answers the
\* first by a reset, which is an edge; after a reset, as on a descriptor that is
\* closed, send() fails.
Send(F, m) ==
    LET to == {fdt[f] : f \in F} \ {None}
        answered == {c \in to : peer[c] = "fin"}
    IN  /\ inbox' = [c \in DOMAIN inbox |-> IF c \in to /\ peer[c] \notin Gone
                                            THEN Append(inbox[c], m) ELSE inbox[c]]
        /\ peer' = [c \in Conn |-> IF c \in answered THEN "reset" ELSE peer[c]]
        /\ ready' = ready \cup (answered \cap interest)

SendFails(f) == fdt[f] = None \/ peer[fdt[f]] \in {"rst", "reset"}

-----------------------------------------------------------------------------
(* SrvEp: ProcessEpoll and ProcessEventsByFd                               *)

\* Mutant: only the first of the events reported is handled.
EpollWaitFirstOnly ==
    /\ ep = None /\ events = {} /\ ready # {}
    /\ events' = {CHOOSE s \in ready : TRUE}
    /\ ready' = {}
    /\ UNCHANGED <<queueVars, netVars, acts, peer, rx, fdt, interest, listVars, ep, pm, inbox, proc, stale, merged>>

EpollWait ==
    /\ ep = None /\ events = {} /\ ready # {}
    /\ events' = ready
    /\ ready' = {}
    /\ UNCHANGED <<queueVars, netVars, acts, peer, rx, fdt, interest, listVars, ep, pm, inbox, proc, stale, merged>>

\* SrvEp goes on to the next event, any of those reported.
Event(s) ==
    /\ ep = None /\ s \in events
    /\ events' = events \ {s}

\* AcceptNewClient, AddToCliInfo and AddEpollByFd, which reports what is there.
AcceptNewClient ==
    /\ Event(Listener) /\ rx[Listener] # << >>
    /\ LET c == Head(rx[Listener])
       IN  \E f \in Fd :
           /\ fdt[f] = None /\ \A g \in Fd : fdt[g] = None => f <= g
           /\ fdt' = [fdt EXCEPT ![f] = c]
           /\ fd' = [fd EXCEPT ![c] = f]
           /\ list' = <<c>> \o list
           /\ interest' = interest \cup {c}
           /\ ready' = IF rx[c] # << >> THEN ready \cup {c} ELSE ready
           /\ merged' = IF Len(rx[c]) > 1 THEN merged \cup {c} ELSE merged
    /\ rx' = [rx EXCEPT ![Listener] = Tail(@)]
    /\ UNCHANGED <<queueVars, netVars, acts, peer, cliEndid, ep, pm, inbox, proc, stale>>

\* Descriptors have run out: the edge is spent, the client waits.
AcceptError ==
    /\ Event(Listener) /\ rx[Listener] # << >>
    /\ \A f \in Fd : fdt[f] # None
    /\ merged' = merged \cup {Listener}
    /\ UNCHANGED <<queueVars, netVars, acts, peer, rx, ready, fdt, interest, listVars, ep, pm, inbox, proc, stale>>

\* BroadcastAllClient and SendMsgAllClient: to every node, registered or not.
BroadcastAllClient ==
    /\ Event(Stdin) /\ rx[Stdin] # << >>
    /\ rx' = [rx EXCEPT ![Stdin] = Tail(@)]
    /\ Send({fd[c] : c \in Range(list)}, "line")
    /\ UNCHANGED <<queueVars, netVars, acts, fdt, interest, listVars, ep, pm, proc, stale, merged>>

\* GetOneCliInfoByFd, and the walks of the other functions given a descriptor:
\* where the first node with it is, if there is one.
NodeOfFd(f) == {p \in DOMAIN list : fd[list[p]] = f /\ \A q \in 1..(p - 1) : fd[list[q]] # f}

\* Mutant: recv() is called until nothing is left.
RecvAll(c, i) ==
    /\ Event(c)
    /\ NodeOfFd(fd[c]) # {}
    /\ rx[c] # << >> /\ i = Head(rx[c])
    /\ rx' = [rx EXCEPT ![c] = << >>]

\* ClientMsgEnQueue for an event of connection c: recv() returns i.
Recv(c, i) ==
    /\ Event(c)
    /\ NodeOfFd(fd[c]) # {}
    /\ rx[c] # << >> /\ i = Head(rx[c])
    /\ rx' = [rx EXCEPT ![c] = Tail(@)]

\* Mutant: the descriptor of a connection that has ended is not closed.
RecvEndNoClose(c) ==
    /\ Recv(c, "EOF")
    /\ \E p \in NodeOfFd(fd[c]) : list' = RemoveAt(list, p)
    /\ ready' = ready \ {c}
    /\ UNCHANGED <<queueVars, netVars, acts, peer, fdt, interest, cliEndid, fd, ep, pm, inbox, proc, stale, merged>>

\* Mutant: the end of a connection is handled as an error is.
RecvEndIgnored(c) ==
    /\ Recv(c, "EOF")
    /\ UNCHANGED <<queueVars, netVars, acts, peer, ready, fdt, interest, listVars, ep, pm, inbox, proc, stale, merged>>

\* DelFromCliInfoByFd: unlinked, freed and closed.
RecvEnd(c) ==
    /\ Recv(c, "EOF")
    /\ \E p \in NodeOfFd(fd[c]) : list' = RemoveAt(list, p)
    /\ fdt' = [fdt EXCEPT ![fd[c]] = None]
    /\ interest' = interest \ {c}
    /\ ready' = ready \ {c}
    /\ stale' = (stale \/ (pm.pc = "send" /\ pm.fd = fd[c]))
    /\ UNCHANGED <<queueVars, netVars, acts, peer, cliEndid, fd, ep, pm, inbox, proc, merged>>

\* recv() returns an error: the node and the descriptor stay.
RecvError(c) ==
    /\ Recv(c, "RST")
    /\ UNCHANGED <<queueVars, netVars, acts, peer, ready, fdt, interest, listVars, ep, pm, inbox, proc, stale, merged>>

\* SaveOneCliInfoByFd and SendInitInfoToCliByFd
RecvSave(c) ==
    /\ Recv(c, "SAVE_CLI_INFO")
    /\ \E p \in NodeOfFd(fd[c]) : cliEndid' = [cliEndid EXCEPT ![list[p]] = c]
    /\ Send({fd[c]}, "ack")
    /\ UNCHANGED <<queueVars, netVars, acts, fdt, interest, list, fd, ep, pm, proc, stale, merged>>

\* EnMsgLinkQueue begins, ...
RecvMsg(c, m) ==
    /\ Recv(c, m)
    /\ BeginPut
    /\ ep' = m
    /\ UNCHANGED <<netVars, acts, peer, ready, fdt, interest, listVars, pm, inbox, proc, stale, merged>>

\* ... copies the message, and links it.
PutCopy ==
    /\ ep # None /\ Fill(ep)
    /\ UNCHANGED <<netVars, acts, peer, rx, ready, epollVars, listVars, ep, pm, inbox, proc, stale, merged>>

PutEnd ==
    /\ ep # None /\ EndPut
    /\ ep' = None
    /\ UNCHANGED <<netVars, acts, peer, rx, ready, epollVars, listVars, pm, inbox, proc, stale, merged>>

SrvEp ==
    \/ EpollWait \/ AcceptNewClient \/ AcceptError \/ BroadcastAllClient \/ PutCopy \/ PutEnd
    \/ \E c \in Conn : RecvEnd(c) \/ RecvError(c) \/ RecvSave(c) \/ \E m \in Value : RecvMsg(c, m)

-----------------------------------------------------------------------------
(* SrvProMsg: ProcessCliMsg and ProcessMsg                                 *)

PmUnchanged == UNCHANGED <<netVars, acts, peer, rx, epollVars, listVars, ep>>
Quiet == PmUnchanged /\ UNCHANGED <<queueVars, ready, inbox, stale, merged>>

\* DeMsgLinkQueue
PmGet ==
    /\ pm.pc = "idle" /\ Get
    /\ pm' = [pm EXCEPT !.pc = "clear"]
    /\ PmUnchanged /\ UNCHANGED <<ready, inbox, proc, stale, merged>>

PmClear ==
    /\ pm.pc = "clear" /\ Clear
    /\ pm' = [pm EXCEPT !.pc = "end"]
    /\ PmUnchanged /\ UNCHANGED <<ready, inbox, proc, stale, merged>>

\* Mutant: the walk leaves out the node behind the head.
FirstSkipped == IF Len(list) < 2 THEN None ELSE list[2]

\* The first node of the list, from which a walk begins.
First == IF list = << >> THEN None ELSE Head(list)

After(c) == LET i == CHOOSE j \in DOMAIN list : list[j] = c
            IN  IF i = Len(list) THEN None ELSE list[i + 1]

Walk(pc) == pm' = [pm EXCEPT !.pc = pc, !.at = First]

PmEndGet ==
    /\ pm.pc = "end" /\ EndGet
    /\ IF got = Junk THEN proc' = "undefined" /\ UNCHANGED pm
                     ELSE Walk("show_src") /\ UNCHANGED proc
    /\ PmUnchanged /\ UNCHANGED <<ready, inbox, stale, merged>>

\* GetOneCliInfoByEndID, called by DisplayMsgBuf and then by ProcessMsg, for the
\* sender and, unless that is the server, for the receiver: one node.
Walking == {"show_src", "show_dst", "src", "dst"}
Wanted == IF pm.pc \in {"show_src", "src"} THEN Via[got] ELSE Dest[got]

WalkOn ==
    /\ pm.pc \in Walking /\ Contains(list, pm.at) /\ cliEndid[pm.at] # Wanted
    /\ pm' = [pm EXCEPT !.at = After(pm.at)]
    /\ Quiet /\ UNCHANGED proc

\* The node under the walk, or one that was found, has been freed meanwhile.
Freed(p) == p # None /\ ~Contains(list, p)

WalkLost ==
    /\ pm.pc \in Walking /\ Freed(pm.at)
    /\ proc' = "undefined"
    /\ Quiet /\ UNCHANGED pm

\* The walk ends: the node, or NULL, and what its caller does next.
WalkEnd ==
    /\ pm.pc \in Walking
    /\ pm.at = None \/ (Contains(list, pm.at) /\ cliEndid[pm.at] = Wanted)
    /\ pm' = CASE pm.pc = "show_src" ->
                    IF Dest[got] = Server
                      THEN [pm EXCEPT !.pc = "show", !.src = pm.at, !.at = None]
                      ELSE [pm EXCEPT !.pc = "show_dst", !.src = pm.at, !.at = First]
               [] pm.pc = "show_dst" -> [pm EXCEPT !.pc = "show", !.dst = pm.at, !.at = None]
               [] pm.pc = "src" ->
                    IF Dest[got] = Server
                      THEN [pm EXCEPT !.pc = "write", !.src = pm.at, !.at = None]
                      ELSE [pm EXCEPT !.pc = "dst", !.src = pm.at, !.at = First]
               [] pm.pc = "dst" -> [pm EXCEPT !.pc = "load", !.dst = pm.at, !.at = None]
    /\ Quiet /\ UNCHANGED proc

\* A dereference of the nodes in P: NULL ends the program.
Deref(P, step) ==
    \/ None \in P /\ proc' = "crashed" /\ UNCHANGED pm
    \/ (\E p \in P : Freed(p)) /\ proc' = "undefined" /\ UNCHANGED pm
    \/ None \notin P /\ (\A p \in P : ~Freed(p)) /\ step /\ UNCHANGED proc

\* DisplayMsgBuf prints both ends' cliEndid.
Show ==
    /\ pm.pc = "show"
    /\ Deref({pm.src} \cup (IF Dest[got] = Server THEN {} ELSE {pm.dst}), Walk("src"))
    /\ Quiet

\* A write() that fails, and is logged with the sender's cliEndid, is left out.
Write ==
    /\ pm.pc = "write"
    /\ inbox' = [inbox EXCEPT ![Server] = Append(@, got)]
    /\ pm' = Idle
    /\ PmUnchanged /\ UNCHANGED <<queueVars, ready, proc, stale, merged>>

\* Mutant: the descriptor is the sender's.
LoadSenderFd ==
    /\ pm.pc = "load"
    /\ Deref({pm.src}, pm' = [pm EXCEPT !.pc = "send", !.fd = fd[pm.src]])
    /\ Quiet

LoadFd ==
    /\ pm.pc = "load"
    /\ Deref({pm.dst}, pm' = [pm EXCEPT !.pc = "send", !.fd = fd[pm.dst]])
    /\ Quiet

\* A send() that fails is logged with both ends' cliEndid.
SendMsg ==
    /\ pm.pc = "send"
    /\ Send({pm.fd}, got)
    /\ pm' = IF SendFails(pm.fd) THEN [pm EXCEPT !.pc = "log"] ELSE Idle
    /\ UNCHANGED <<queueVars, netVars, acts, rx, epollVars, listVars, ep, proc, stale, merged>>

Log ==
    /\ pm.pc = "log"
    /\ Deref({pm.src, pm.dst}, pm' = Idle)
    /\ Quiet

SrvProMsg ==
    PmGet \/ PmClear \/ PmEndGet \/ WalkOn \/ WalkLost \/ WalkEnd \/ Show \/ Write \/ LoadFd
    \/ SendMsg \/ Log

-----------------------------------------------------------------------------
Environment ==
    \/ \E c \in Conn : Connect(c) \/ ClientSave(c) \/ \E how \in {"fin", "rst"} : ClientClose(c, how)
    \/ (\E m \in Value : ClientSend(m)) \/ StdinInput

Next == proc = "up" /\ (Environment \/ SrvEp \/ SrvProMsg)

Spec == Init /\ [][Next]_vars

\* The two threads run; nothing is assumed of clients and terminal.
FairSpec == Spec /\ WF_vars(proc = "up" /\ SrvEp) /\ WF_vars(proc = "up" /\ SrvProMsg)

-----------------------------------------------------------------------------
Item == Value \cup {"SAVE_CLI_INFO", "EOF", "RST"}
Element == Value \cup {Junk}

TypeOK ==
    /\ peer \in [Conn -> {"new", "open", "saved"} \cup Gone]
    /\ rx \in [Source -> Seq(Conn \cup Item \cup {"line"})]
    /\ rx[Listener] \in Seq(Conn) /\ \A c \in Conn : rx[c] \in Seq(Item)
    /\ fdt \in [Fd -> Conn \cup {None}]
    /\ ready \subseteq interest /\ events \subseteq interest /\ interest \subseteq Source
    /\ list \in Seq(Conn) /\ cliEndid \in [Conn -> Conn \cup {Server}] /\ fd \in [Conn -> Fd \cup {0}]
    /\ ep \in Value \cup {None}
    /\ items \in Seq(Element) /\ pending \in Seq(Element) /\ got \in Element
    /\ pm \in [pc : Walking \cup {"idle", "clear", "end", "show", "write", "load", "send", "log"},
               at : Conn \cup {None}, src : Conn \cup {None}, dst : Conn \cup {None}, fd : Fd \cup {0}]
    /\ inbox \in [Conn \cup {Server} -> Seq(Value \cup {"line", "ack"})]
    /\ sent \in Seq(Value)
    /\ proc \in {"up", "crashed", "undefined"}

\* The list, the epoll set and the descriptor table name the same connections,
\* through every order of accepts, ends and reuse of descriptors: no node is
\* left behind for another connection's descriptor, and an event is always that
\* of a node.  (server_socket.c:78-86, client_info.c:35-38, 48-56)
RegistryExact ==
    /\ TypeOK
    /\ Len(list) = Cardinality(Range(list))
    /\ Range(list) = interest \cap Conn
    /\ \A f \in Fd : \A c \in Conn : fdt[f] = c <=> Contains(list, c) /\ fd[c] = f
    /\ events \cap Conn \subseteq Range(list)

\* SrvEp never blocks in accept(), recv() or read(), each called once per event
\* on a blocking descriptor, although edges are merged, spent on a failed
\* accept() or raised by a reset.  (server_socket.c:78, 96, 111; server_epoll.c:56-61)
EventsBacked == \A s \in events : rx[s] # << >>

\* Message a was sent before message b.
Before(a, b) == \E k, l \in DOMAIN sent : k < l /\ sent[k] = a /\ sent[l] = b

\* Clients and server get the messages for them, once each and one sender's in
\* the order they were sent, unless a descriptor is closed between its reading
\* and the send().  (server_socket.c:125, 181, 192-194, 212)
DeliveredInOrder ==
    ~stale => \A c \in Conn \cup {Server} : \A i \in DOMAIN inbox[c] : inbox[c][i] \in Value =>
        /\ Dest[inbox[c][i]] = c
        /\ \A j \in DOMAIN inbox[c] :
             i < j /\ inbox[c][j] \in Value /\ Via[inbox[c][j]] = Via[inbox[c][i]] =>
               Before(inbox[c][i], inbox[c][j])

\* While every client stays, registers before it sends (ClientSend lets no other
\* send: the first line of one that has not is a NULL srcEndInfo) and messages are
\* only for clients that have registered, no walk of the unlocked list comes to
\* nothing: the server dereferences no NULL, and reads no freed node although nodes
\* are added and changed meanwhile.
\* (server_socket.c:141-150, 178-194; client_info.c:83-90)
StaysUp ==
    (\A c \in Conn : peer[c] \notin Gone) =>
        /\ ~early => proc # "crashed"
        /\ proc = "undefined" => got = Junk

\* One event for two items leaves the second waiting for an event that may not come.
Behind(c) == c \in merged \/ (Listener \in merged /\ Contains(rx[Listener], c))

\* A message for the server is shown, and one for a client delivered, unless the
\* receiver has left meanwhile, the message's edge is merged with another, or the
\* server ends.  (server_epoll.c:82-92, server_socket.c:181, 192-194, 211-218)
MessagesSettled ==
    \A m \in Value : Contains(rx[Via[m]], m) ~>
        \/ Contains(inbox[Dest[m]], m)
        \/ Dest[m] \in Conn /\ peer[Dest[m]] \in Gone
        \/ Behind(Via[m]) \/ proc # "up"

\* So does the end of a connection: node and descriptor are given back.
\* (server_socket.c:115-118, client_info.c:53-55)
FinishedReclaimed ==
    \A c \in Conn : peer[c] \in {"fin", "reset"} ~>
        (~Contains(list, c) /\ ~Contains(rx[Listener], c)) \/ Behind(c) \/ proc # "up"

=============================================================================
