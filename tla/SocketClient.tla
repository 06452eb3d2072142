---------------------------- MODULE SocketClient ----------------------------
(***************************************************************************)
(* The client of work_srcs/socket/client: the interface thread that        *)
(* switches between a UDP and a TCP link and sends what the user types,    *)
(* the receiving thread, and the pool threads that send, note the server's *)
(* acknowledgement and display.                                            *)
(*                                                                         *)
(* The sockets are the kernel's, modelled from how the code uses them: a   *)
(* descriptor number is reused lowest first, a thread blocked in recv()    *)
(* keeps its socket alive although another thread closes the descriptor,   *)
(* a write to a TCP socket that is not connected, or whose peer has gone,  *)
(* raises SIGPIPE.  The pool is used through TaskPool's promise.           *)
(*                                                                         *)
(* Abstracted: what the user types is a number of messages; socket() and   *)
(* setsockopt() succeed; sleeps let any time pass.  What the client does   *)
(* after it has closed its own standard input is not followed.             *)
(***************************************************************************)
EXTENDS Integers, Sequences, SequencesExt, FiniteSetsExt

CONSTANTS
    Worker,        \* the pool's threads
    Fd,            \* the descriptors socket() may return, all above STDERR_FILENO
    MaxSwitch,     \* how often the user switches: a bound
    MaxData,       \* how many messages the user sends: a bound
    MaxMsg,        \* how many messages the server sends: a bound
    MaxActs,       \* how many of all these: a bound
    None           \* no task

ASSUME ClientAssumption ==
    /\ Fd \subseteq Nat /\ \A f \in Fd : f > 2
    /\ MaxSwitch \in Nat /\ MaxData \in Nat /\ MaxMsg \in Nat /\ MaxActs \in Nat

Kind == {"tcp", "udp"}
Sock == 1..(MaxSwitch + 1)      \* the sockets the client creates, in that order

VARIABLES
    socket_type,   \* the static of client_socket.c, as a Kind or "unset"
    fd,            \* g_cli_tcpfd and g_cli_udpfd
    init_cli_info, \* the flag under cli_flag's mutex
    fdt,           \* the descriptor table: the socket of each descriptor, 0 if free
    stdin,         \* descriptor 0 is open
    kind,          \* the kind of each socket created so far
    conn,          \* the connection of each TCP socket
    rx,            \* what has arrived at each socket and is not read
    saves,         \* the SAVE_CLI_INFO sent on each socket and not yet dealt with
    ui,            \* the interface thread (at first main)
    rt,            \* the receiving thread
    taskq, wk,     \* the pool
    proc,          \* "up", or "killed" by SIGPIPE
    switches, datas, msgs,   \* what has been used of the bounds
    acked,         \* history: the sockets an acknowledgement was read from
    flagBy,        \* history: the socket of the acknowledgement that set the flag,
                   \* and whether its link had been left by then
    lingering,     \* history: the sockets an acknowledgement of which was, or could
                   \* come to be, inside the client when the flag was last cleared
    irregular      \* history: see Regular

netVars == <<conn, rx, saves, msgs>>
flagVars == <<init_cli_info, acked, flagBy, lingering, irregular>>
budget == <<switches, datas>>
vars == <<socket_type, fd, init_cli_info, fdt, stdin, kind, conn, rx, saves, ui, rt, taskq, wk,
          proc, switches, datas, msgs, acked, flagBy, lingering, irregular>>

Acts == switches + datas + msgs       \* what user and server have done of their own

CHECK_FD(n) == n > 2

\* What the client does not guard against and the properties assume away:
\* both threads in try_destroy_client_tcp at once, a descriptor number used
\* after the variable it came from has changed, and a message that is sent when
\* the link it was for has been left.
Regular == ~irregular

Running == proc = "up" /\ stdin /\ Regular
Open == {fdt[f] : f \in Fd} \ {0}
NewSock == Len(kind)               \* the socket of the current link

\* A socket lives while a descriptor names it or a recv() waits on it.
Alive(s) == s \in Open \/ (rt.pc = "blocked" /\ rt.on = s)

\* One of the threads is between resetting the flag and having a new link.
Leaving == \E t \in {ui, rt} : t.pc \in {"load", "close", "zero", "init"}

Current(s) == s = NewSock /\ s \in Open /\ ~Leaving

\* A task: what to do, on which kind of link, and (history) for which socket.
Task(h, k, s) == [h |-> h, k |-> k, s |-> s]
Idle == [task |-> None, fd |-> -1]
Nobody == [s |-> 0, late |-> FALSE]

\* The locals of the interface thread at a point where it holds no descriptor,
\* and those of the receiving thread at the head of its loop.
UiAt(pc, i) == [pc |-> pc, k |-> "udp", fd |-> 0, i |-> i]
Top == [pc |-> "top", k |-> "udp", fd |-> 0, on |-> 0]

Init ==
    /\ socket_type = "unset"
    /\ fd = [k \in Kind |-> 0]
    /\ init_cli_info = FALSE
    /\ fdt = [f \in Fd |-> 0]
    /\ stdin = TRUE
    /\ kind = << >>
    /\ conn = [s \in Sock |-> "none"]
    /\ rx = [s \in Sock |-> << >>]
    /\ saves = [s \in Sock |-> 0]
    /\ ui = UiAt("switch", 0)
    /\ rt = Top
    /\ taskq = << >>
    /\ wk = [w \in Worker |-> Idle]
    /\ proc = "up"
    /\ switches = 0 /\ datas = 0 /\ msgs = 0
    /\ acked = {} /\ lingering = {}
    /\ flagBy = Nobody
    /\ irregular = FALSE

-----------------------------------------------------------------------------
(* The server and the network.                                             *)

\* A registration is answered; over UDP it, or its answer, may be lost.  What
\* would reach a socket that is gone is left alone.
ServerAck(s) ==
    /\ saves[s] > 0 /\ Alive(s)
    /\ saves' = [saves EXCEPT ![s] = @ - 1]
    /\ rx' = [rx EXCEPT ![s] = Append(@, "ack")]
    /\ UNCHANGED <<conn, msgs, socket_type, fd, fdt, stdin, kind, ui, rt, taskq, wk, proc,
                   budget, flagVars>>

UdpLoss(s) ==
    /\ saves[s] > 0 /\ Alive(s) /\ kind[s] = "udp"
    /\ saves' = [saves EXCEPT ![s] = @ - 1]
    /\ UNCHANGED <<conn, rx, msgs, socket_type, fd, fdt, stdin, kind, ui, rt, taskq, wk, proc,
                   budget, flagVars>>

ServerMsg(s) ==
    /\ msgs < MaxMsg /\ Acts < MaxActs
    /\ s <= NewSock /\ Alive(s)
    /\ kind[s] = "tcp" => conn[s] = "up"
    /\ msgs' = msgs + 1
    /\ rx' = [rx EXCEPT ![s] = Append(@, "msg")]
    /\ UNCHANGED <<conn, saves, socket_type, fd, fdt, stdin, kind, ui, rt, taskq, wk, proc,
                   budget, flagVars>>

\* The server goes away: end-of-file, read again by every later recv().
ServerClose(s) ==
    /\ conn[s] = "up" /\ Alive(s)
    /\ conn' = [conn EXCEPT ![s] = "ended"]
    /\ rx' = [rx EXCEPT ![s] = Append(@, "EOF")]
    /\ UNCHANGED <<saves, msgs, socket_type, fd, fdt, stdin, kind, ui, rt, taskq, wk, proc,
                   budget, flagVars>>

-----------------------------------------------------------------------------
(* try_destroy_client_tcp and try_destroy_client_udp, run by the interface *)
(* thread on a switch and by the receiving thread on end-of-file.          *)

\* The step of thread t that changes its record from old to new.
Becomes(t, new) == IF t = "ui" THEN ui' = new /\ rt' = rt ELSE rt' = new /\ ui' = ui
Th(t) == IF t = "ui" THEN ui ELSE rt
After(t) == IF t = "ui" THEN UiAt("init", 0) ELSE Top
Destroying == {"reset", "load", "close", "zero"}

DestroyCheck(t) ==
    /\ Th(t).pc = "destroy"
    /\ Becomes(t, IF CHECK_FD(fd[Th(t).k]) THEN [Th(t) EXCEPT !.pc = "reset"] ELSE After(t))
    /\ irregular' = (irregular \/ \E u \in {ui, rt} : u.pc \in Destroying)
    /\ UNCHANGED <<netVars, socket_type, fd, fdt, stdin, kind, taskq, wk, proc, budget,
                   init_cli_info, acked, flagBy, lingering>>

\* An acknowledgement of socket s is still to come out of the client: it has been
\* read, or the receiving thread is at the socket or, s being that of the link of
\* kind k that is left now, on its way there.
Underway(s, k) ==
    \/ \E task \in Range(taskq) \cup ({wk[w].task : w \in Worker} \ {None}) :
          task.h = "complete" /\ task.s = s
    \/ rt.pc = "blocked" /\ rt.on = s
    \/ rt.pc \in {"arg", "call"} /\ rt.k = k /\ s = NewSock

Leave(k) == lingering' = {s \in 1..NewSock : Underway(s, k)}

\* Mutant: the flag is not cleared.
DestroyNoReset(t) ==
    /\ Th(t).pc = "reset"
    /\ Leave(Th(t).k)
    /\ Becomes(t, [Th(t) EXCEPT !.pc = "load"])
    /\ UNCHANGED <<netVars, socket_type, fd, fdt, stdin, kind, taskq, wk, proc, budget,
                   init_cli_info, acked, flagBy, irregular>>

DestroyReset(t) ==
    /\ Th(t).pc = "reset"
    /\ init_cli_info' = FALSE
    /\ flagBy' = Nobody
    /\ Leave(Th(t).k)
    /\ Becomes(t, [Th(t) EXCEPT !.pc = "load"])
    /\ UNCHANGED <<netVars, socket_type, fd, fdt, stdin, kind, taskq, wk, proc, budget,
                   acked, irregular>>

DestroyLoad(t) ==
    /\ Th(t).pc = "load"
    /\ Becomes(t, [Th(t) EXCEPT !.pc = "close", !.fd = fd[Th(t).k]])
    /\ UNCHANGED <<netVars, socket_type, fd, fdt, stdin, kind, taskq, wk, proc, budget, flagVars>>

\* Mutant: the descriptor is forgotten without being closed.
DestroyNoClose(t) ==
    /\ Th(t).pc = "close"
    /\ Becomes(t, [Th(t) EXCEPT !.pc = "zero"])
    /\ UNCHANGED <<netVars, socket_type, fd, fdt, stdin, kind, taskq, wk, proc, budget, flagVars>>

\* What a socket holds is dropped once no descriptor names it and no recv() waits on it.
DestroyClose(t) ==
    /\ Th(t).pc = "close"
    /\ LET n == Th(t).fd
           gone == {s \in Sock : (\A f \in Fd : fdt'[f] # s) /\ ~(rt.pc = "blocked" /\ rt.on = s)}
       IN  /\ fdt' = [f \in Fd |-> IF f = n THEN 0 ELSE fdt[f]]
           /\ stdin' = (stdin /\ n # 0)
           /\ rx' = [s \in Sock |-> IF s \in gone THEN << >> ELSE rx[s]]
           /\ saves' = [s \in Sock |-> IF s \in gone THEN 0 ELSE saves[s]]
    /\ Becomes(t, [Th(t) EXCEPT !.pc = "zero"])
    /\ UNCHANGED <<conn, msgs, socket_type, fd, kind, taskq, wk, proc, budget, flagVars>>

DestroyZero(t) ==
    /\ Th(t).pc = "zero"
    /\ fd' = [fd EXCEPT ![Th(t).k] = 0]
    /\ Becomes(t, After(t))
    /\ UNCHANGED <<netVars, socket_type, fdt, stdin, kind, taskq, wk, proc, budget, flagVars>>

Destroy(t) ==
    \/ DestroyCheck(t) \/ DestroyReset(t) \/ DestroyLoad(t) \/ DestroyClose(t) \/ DestroyZero(t)

-----------------------------------------------------------------------------
(* The interface thread.                                                   *)

\* The user chooses "switch": main does it once before the interface starts.
ChooseSwitch ==
    /\ ui.pc = "menu"
    /\ switches < MaxSwitch /\ Acts < MaxActs
    /\ switches' = switches + 1
    /\ ui' = UiAt("switch", 0)
    /\ UNCHANGED <<netVars, socket_type, fd, fdt, stdin, kind, rt, taskq, wk, proc, datas, flagVars>>

SwitchSocketType ==
    /\ ui.pc = "switch"
    /\ socket_type' = IF socket_type = "udp" THEN "tcp" ELSE "udp"
    /\ ui' = [ui EXCEPT !.pc = "destroy", !.k = IF socket_type = "udp" THEN "udp" ELSE "tcp"]
    /\ UNCHANGED <<netVars, fd, fdt, stdin, kind, rt, taskq, wk, proc, budget, flagVars>>

\* init_client_tcp and init_client_udp up to socket(), which takes the lowest
\* free number, and connect().
InitSocket ==
    /\ ui.pc = "init"
    /\ IF CHECK_FD(fd[socket_type])
         THEN /\ ui' = UiAt("try", 0)
              /\ UNCHANGED <<fd, fdt, kind>>
         ELSE /\ \E n \in Fd :
                    /\ n = Min({f \in Fd : fdt[f] = 0})
                    /\ fdt' = [fdt EXCEPT ![n] = NewSock + 1]
                    /\ fd' = [fd EXCEPT ![socket_type] = n]
              /\ kind' = Append(kind, socket_type)
              /\ ui' = UiAt(IF socket_type = "tcp" THEN "connect" ELSE "try", 0)
    /\ UNCHANGED <<netVars, socket_type, stdin, rt, taskq, wk, proc, budget, flagVars>>

Connect ==
    /\ ui.pc = "connect"
    /\ \E outcome \in {"up", "refused"} : conn' = [conn EXCEPT ![NewSock] = outcome]
    /\ ui' = UiAt("try", 0)
    /\ UNCHANGED <<rx, saves, msgs, socket_type, fd, fdt, stdin, kind, rt, taskq, wk, proc,
                   budget, flagVars>>

SendMsgBySocket(item) == taskq' = Append(taskq, Task(item, socket_type, NewSock))

\* Mutant: the registration is sent again until the flag is set.
InitClientInfoForever ==
    /\ ui.pc = "try"
    /\ IF init_cli_info THEN /\ ui' = UiAt("menu", 0)
                             /\ UNCHANGED taskq
       ELSE /\ UNCHANGED ui
            /\ IF Len(taskq) < 2 THEN SendMsgBySocket("save") ELSE UNCHANGED taskq
    /\ UNCHANGED <<netVars, socket_type, fd, fdt, stdin, kind, rt, wk, proc, budget, flagVars>>

\* init_client_info: two tries, two more looks, a second apart.
InitClientInfo ==
    /\ ui.pc = "try"
    /\ ui' = IF init_cli_info \/ ui.i = 3 THEN UiAt("menu", 0) ELSE UiAt("try", ui.i + 1)
    /\ IF ~init_cli_info /\ ui.i < 2 THEN SendMsgBySocket("save") ELSE UNCHANGED taskq
    /\ UNCHANGED <<netVars, socket_type, fd, fdt, stdin, kind, rt, wk, proc, budget, flagVars>>

\* send_msg_to_server and send_msg_to_other_cli: a line the user typed.
SendMsg ==
    /\ ui.pc = "menu"
    /\ datas < MaxData /\ Acts < MaxActs
    /\ datas' = datas + 1
    /\ SendMsgBySocket("data")
    /\ UNCHANGED <<netVars, socket_type, fd, fdt, stdin, kind, ui, rt, wk, proc, switches, flagVars>>

SwitchStep == SwitchSocketType \/ Destroy("ui") \/ InitSocket \/ Connect \/ InitClientInfo
UiStep == ChooseSwitch \/ SendMsg \/ SwitchStep

-----------------------------------------------------------------------------
(* The receiving thread.                                                   *)

RecvMsgBySocket ==
    /\ rt.pc = "top"
    /\ socket_type # "unset"
    /\ rt' = [rt EXCEPT !.pc = "arg", !.k = socket_type]
    /\ UNCHANGED <<netVars, socket_type, fd, fdt, stdin, kind, ui, taskq, wk, proc, budget, flagVars>>

RecvLoad ==
    /\ rt.pc = "arg"
    /\ rt' = [rt EXCEPT !.pc = "call", !.fd = fd[rt.k]]
    /\ UNCHANGED <<netVars, socket_type, fd, fdt, stdin, kind, ui, taskq, wk, proc, budget, flagVars>>

\* recv() fails on what is not an open socket, or not a connected one;
\* otherwise it waits on the socket the number names now.
RecvCall ==
    /\ rt.pc = "call"
    /\ LET s == IF rt.fd \in Fd THEN fdt[rt.fd] ELSE 0
       IN  rt' = IF s = 0 \/ (kind[s] = "tcp" /\ conn[s] \in {"none", "refused"})
                   THEN Top
                   ELSE [rt EXCEPT !.pc = "blocked", !.fd = 0, !.on = s]
    /\ irregular' = (irregular \/ rt.fd # fd[rt.k])
    /\ UNCHANGED <<netVars, socket_type, fd, fdt, stdin, kind, ui, taskq, wk, proc, budget,
                   init_cli_info, acked, flagBy, lingering>>

\* Mutant: the end of the link is not looked at.
RecvEofIgnored ==
    /\ rt.pc = "blocked" /\ rx[rt.on] # << >> /\ Head(rx[rt.on]) = "EOF"
    /\ rt' = Top
    /\ UNCHANGED <<netVars, socket_type, fd, fdt, stdin, kind, ui, taskq, wk, proc, budget, flagVars>>

RecvEof ==
    /\ rt.pc = "blocked" /\ rx[rt.on] # << >> /\ Head(rx[rt.on]) = "EOF"
    /\ rt' = IF rt.k = "tcp" THEN [Top EXCEPT !.pc = "destroy", !.k = "tcp"] ELSE Top
    /\ UNCHANGED <<netVars, socket_type, fd, fdt, stdin, kind, ui, taskq, wk, proc, budget, flagVars>>

\* Mutant: an acknowledgement is displayed like any message.
RecvItemNoAck ==
    /\ rt.pc = "blocked" /\ rx[rt.on] # << >> /\ Head(rx[rt.on]) # "EOF"
    /\ rx' = [rx EXCEPT ![rt.on] = Tail(@)]
    /\ taskq' = Append(taskq, Task("display", kind[rt.on], rt.on))
    /\ rt' = Top
    /\ UNCHANGED <<conn, saves, msgs, socket_type, fd, fdt, stdin, kind, ui, wk, proc, budget,
                   flagVars>>

RecvItem ==
    /\ rt.pc = "blocked" /\ rx[rt.on] # << >> /\ Head(rx[rt.on]) # "EOF"
    /\ LET ack == Head(rx[rt.on]) = "ack"
       IN  /\ taskq' = Append(taskq, Task(IF ack THEN "complete" ELSE "display", kind[rt.on], rt.on))
           /\ acked' = IF ack THEN acked \cup {rt.on} ELSE acked
    /\ rx' = [rx EXCEPT ![rt.on] = Tail(@)]
    /\ rt' = Top
    /\ UNCHANGED <<conn, saves, msgs, socket_type, fd, fdt, stdin, kind, ui, wk, proc, budget,
                   init_cli_info, flagBy, lingering, irregular>>

RecvStep ==
    RecvMsgBySocket \/ RecvLoad \/ RecvCall \/ RecvEof \/ RecvItem \/ Destroy("recv")

-----------------------------------------------------------------------------
(* The pool's threads.                                                     *)

TakeTask(w) ==
    /\ wk[w].task = None
    /\ taskq # << >>
    /\ wk' = [wk EXCEPT ![w] = [task |-> Head(taskq), fd |-> -1]]
    /\ taskq' = Tail(taskq)
    /\ UNCHANGED <<netVars, socket_type, fd, fdt, stdin, kind, ui, rt, proc, budget, flagVars>>

Doing(w, h) == wk[w].task # None /\ wk[w].task.h \in h
Done(w) == wk' = [wk EXCEPT ![w] = Idle]

\* Whatever link the acknowledgement is of.
CompleteInitClientInfo(w) ==
    /\ Doing(w, {"complete"})
    /\ init_cli_info' = TRUE
    /\ flagBy' = [s |-> wk[w].task.s, late |-> ~Current(wk[w].task.s)]
    /\ Done(w)
    /\ UNCHANGED <<netVars, socket_type, fd, fdt, stdin, kind, ui, rt, taskq, proc, budget, acked,
                   lingering, irregular>>

Display(w) ==
    /\ Doing(w, {"display"})
    /\ Done(w)
    /\ UNCHANGED <<netVars, socket_type, fd, fdt, stdin, kind, ui, rt, taskq, proc, budget, flagVars>>

SendLoad(w) ==
    /\ Doing(w, {"save", "data"})
    /\ wk[w].fd = -1
    /\ wk' = [wk EXCEPT ![w].fd = fd[wk[w].task.k]]
    /\ UNCHANGED <<netVars, socket_type, fd, fdt, stdin, kind, ui, rt, taskq, proc, budget, flagVars>>

\* send_msg_by_tcp and send_msg_by_udp.  A number that is no open socket, and
\* send() on a UDP socket, which has no destination, only fail; sendto() on a
\* connected TCP socket sends.
SendCall(w) ==
    /\ Doing(w, {"save", "data"})
    /\ wk[w].fd # -1
    /\ LET t == wk[w].task
           s == IF wk[w].fd \in Fd THEN fdt[wk[w].fd] ELSE 0
           fails == s = 0 \/ (kind[s] = "udp" /\ t.k = "tcp")
           broken == ~fails /\ kind[s] = "tcp" /\ conn[s] \in {"none", "refused", "reset"}
           first == ~fails /\ conn[s] = "ended"
       IN  /\ proc' = IF broken THEN "killed" ELSE proc
           /\ conn' = IF first THEN [conn EXCEPT ![s] = "reset"] ELSE conn
           /\ saves' = IF t.h = "save" /\ ~fails /\ ~broken /\ ~first
                         THEN [saves EXCEPT ![s] = @ + 1] ELSE saves
           /\ irregular' = (irregular \/ wk[w].fd # fd[t.k] \/ ~Current(t.s))
    /\ Done(w)
    /\ UNCHANGED <<rx, msgs, socket_type, fd, fdt, stdin, kind, ui, rt, taskq, budget,
                   init_cli_info, acked, flagBy, lingering>>

WorkerStep(w) ==
    TakeTask(w) \/ CompleteInitClientInfo(w) \/ Display(w) \/ SendLoad(w) \/ SendCall(w)

-----------------------------------------------------------------------------
Network == \E s \in Sock : ServerAck(s) \/ UdpLoss(s) \/ ServerMsg(s) \/ ServerClose(s)

Next ==
    /\ Running
    /\ UiStep \/ RecvStep \/ (\E w \in Worker : WorkerStep(w)) \/ Network

Spec == Init /\ [][Next]_vars

\* A switch, once begun, goes on, and so do the receiving thread and the pool;
\* nothing is assumed of the user, the server or the network.
FairSpec ==
    /\ Spec
    /\ WF_vars(Running /\ SwitchStep)
    /\ WF_vars(Running /\ RecvStep)
    /\ \A w \in Worker : WF_vars(Running /\ WorkerStep(w))

-----------------------------------------------------------------------------
TypeOK ==
    /\ socket_type \in Kind \cup {"unset"}
    /\ fd \in [Kind -> Fd \cup {0}]
    /\ init_cli_info \in BOOLEAN /\ stdin \in BOOLEAN /\ irregular \in BOOLEAN
    /\ fdt \in [Fd -> 0..NewSock]
    /\ kind \in Seq(Kind) /\ NewSock <= MaxSwitch + 1
    /\ conn \in [Sock -> {"none", "up", "refused", "ended", "reset"}]
    /\ \A s \in Sock : Range(rx[s]) \subseteq {"ack", "msg", "EOF"} /\ saves[s] \in Nat
    /\ ui \in [pc : {"menu", "switch", "destroy", "init", "connect", "try"} \cup Destroying,
               k : Kind, fd : Fd \cup {0}, i : 0..3]
    /\ rt \in [pc : {"top", "arg", "call", "blocked", "destroy"} \cup Destroying,
               k : Kind, fd : Fd \cup {0}, on : 0..NewSock]
    /\ Range(taskq) \subseteq [h : {"save", "data", "complete", "display"}, k : Kind, s : 1..NewSock]
    /\ proc \in {"up", "killed"}
    /\ acked \subseteq 1..NewSock /\ lingering \subseteq 1..NewSock
    /\ flagBy \in [s : 0..NewSock, late : BOOLEAN]

\* A client whose server accepts it and stays is not killed by its own writes,
\* however it switches.  (client_tcp.c:39, 68)
NoSigpipe ==
    Regular /\ (\A s \in Sock : conn[s] \in {"none", "up"}) => proc = "up"

\* Whenever the user is asked, the client has one open socket, the one its
\* variables name, of the type it shows (or none, after the server ended a TCP
\* link), and its standard input: switching leaks and loses no descriptor, and
\* writes on none that would end the client.
\* (client_socket.c:72-97; client_tcp.c:47-61)
OneLink ==
    /\ TypeOK /\ NoSigpipe
    /\ Regular /\ ui.pc = "menu" /\ rt.pc \notin Destroying =>
         /\ stdin
         /\ fd = [k \in Kind |-> IF k = socket_type THEN fd[k] ELSE 0]
         /\ Open = {fdt[n] : n \in {fd[socket_type]} \ {0}}
         /\ socket_type = "udp" => Open = {NewSock}

\* When init_cli_info is set, the server's acknowledgement was read: of the present
\* link, which is open, or else of a link that was left before the flag was set for
\* it, and then one that was still inside the client, or whose socket the receiving
\* thread was at, when the flag was cleared.  So a flag set in time never outlives
\* its link, and one that is set late, which the code takes for the present link's,
\* has no other cause than the receiving thread's delay.
\* (client_tcp.c:53-55, client_udp.c:43-45, client_socket.c:168-177)
FlagTruthful ==
    Regular /\ init_cli_info =>
        /\ flagBy.s \in acked
        /\ \/ flagBy.s = NewSock /\ NewSock \in Open
           \/ flagBy.late /\ flagBy.s \in lingering

Excused == ~Running \/ ~Regular

\* A switch ends whatever the server answers: the user gets the menu back.
\* (client_socket.c:44-67)
SwitchReturns == ui.pc # "menu" ~> ui.pc = "menu" \/ Excused

\* The receiving thread waits on the socket of a link that was left: close() does
\* not wake it.
Deaf(s) == rt.pc = "blocked" /\ rt.on # s

\* The server's acknowledgement of a link is noticed while the link is in use,
\* the first one's as well as that of a link the client switched to, unless the
\* receiving thread is still deaf.  (client_udp.c:80-92, client_tcp.c:81,
\* client_socket.c:168-177)
AckHeard ==
    \A s \in Sock : Contains(rx[s], "ack") ~> init_cli_info \/ ~Current(s) \/ Deaf(s) \/ Excused

\* When the server ends a TCP link the client is listening on, the client gives
\* the descriptor back.  (client_tcp.c:85-88)
EndedLinkClosed ==
    \A s \in Sock :
        (conn[s] = "ended" /\ rt.pc = "blocked" /\ rt.on = s /\ rt.k = "tcp") ~> (s \notin Open \/ Excused)

=============================================================================
