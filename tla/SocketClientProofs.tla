------------------------- MODULE SocketClientProofs -------------------------
(***************************************************************************)
(* Whatever its user, its server and its threads do, and however often it  *)
(* switches, the client of work_srcs/socket has one link, knows it by the  *)
(* right descriptor, keeps its standard input, and lets no acknowledgement *)
(* that was noted in time outlive its link, as long as its run is Regular. *)
(***************************************************************************)
EXTENDS SocketClient, SequenceTheorems, TLAPS

-----------------------------------------------------------------------------
(* The inductive invariant                                                 *)

TaskType == [h : {"save", "data", "complete", "display"}, k : Kind, s : 1..NewSock]
UiType == [pc : {"menu", "switch", "destroy", "init", "connect", "try"} \cup Destroying,
           k : Kind, fd : Fd \cup {0}, i : 0..3]
RtType == [pc : {"top", "arg", "call", "blocked", "destroy"} \cup Destroying,
           k : Kind, fd : Fd \cup {0}, on : 0..NewSock]

FlagType == [s : 0..NewSock, late : BOOLEAN]

\* TypeOK, with what it leaves open of the sequences and of the pool's threads.
TypeInv ==
    /\ socket_type \in Kind \cup {"unset"}
    /\ fd \in [Kind -> Fd \cup {0}]
    /\ init_cli_info \in BOOLEAN /\ irregular \in BOOLEAN
    /\ fdt \in [Fd -> 0..NewSock]
    /\ kind \in Seq(Kind)
    /\ conn \in [Sock -> {"none", "up", "refused", "ended", "reset"}]
    /\ rx \in [Sock -> Seq({"ack", "msg", "EOF"})]
    /\ saves \in [Sock -> Nat]
    /\ ui \in UiType
    /\ rt \in RtType
    /\ taskq \in Seq(TaskType)
    /\ wk \in [Worker -> [task : TaskType \cup {None}, fd : Fd \cup {-1, 0}]]
    /\ proc \in {"up", "killed"}
    /\ switches \in Nat /\ datas \in Nat /\ msgs \in Nat
    /\ acked \subseteq 1..NewSock /\ lingering \subseteq 1..NewSock
    /\ flagBy \in FlagType

\* From the choice of a switch to socket().
Switching == ui.pc \in {"switch", "destroy", "init"} \cup Destroying

\* Every switch creates one socket, so the bound on switches is one on sockets.
CountInv ==
    /\ switches <= MaxSwitch
    /\ NewSock = IF Switching THEN switches ELSE switches + 1

\* Which kind of link a thread destroys; only the first switch finds no type.
KindInv ==
    /\ ui.pc \in {"destroy"} \cup Destroying => ui.k # socket_type
    /\ rt.pc \in {"destroy"} \cup Destroying => rt.k = "tcp"
    /\ ui.pc # "switch" => socket_type # "unset"
    /\ ui.pc = "connect" => socket_type = "tcp"
    /\ rt.pc = "blocked" => rt.on # 0

\* Only the variable of the present type names a descriptor, or that of the type
\* being left; it is zero from there until socket().
FdInv ==
    /\ \A k \in Kind : fd[k] # 0 =>
            \/ k = socket_type
            \/ ui.pc \in {"destroy"} \cup Destroying /\ ui.k = k
    /\ ui.pc \in {"destroy", "init"} \cup Destroying => fd[socket_type] = 0
    /\ ui.pc \in {"switch", "try", "menu"} /\ socket_type = "udp" => fd["udp"] # 0

\* One thread at most destroys a link, the one its variable names; between
\* close() and the reset of the variable the descriptor is free.
DestroyInv ==
    /\ ui.pc \in Destroying => rt.pc \notin Destroying
    /\ \A t \in {ui, rt} :
          /\ t.pc \in Destroying => fd[t.k] # 0
          /\ t.pc = "close" => t.fd = fd[t.k]

\* The descriptor table holds the newest socket, or none, under the number that
\* one of the variables has.
TableInv ==
    /\ \A f \in Fd : fdt[f] # 0 => fdt[f] = NewSock /\ \E k \in Kind : fd[k] = f
    /\ \A k \in Kind : fd[k] # 0 =>
          /\ NewSock > 0 /\ kind[NewSock] = k
          /\ fdt[fd[k]] = IF "zero" \in {ui.pc, rt.pc} THEN 0 ELSE NewSock

Sending(task) == task.h \in {"save", "data"}
TaskInv(task, pc, n, heard) ==
    /\ task.h = "complete" => task.s \in heard
    /\ pc = "connect" /\ Sending(task) => task.s < n

\* An acknowledgement handed to the pool has been read, and nothing is sent on a
\* new socket before connect() has returned.
TasksInv ==
    /\ \A j \in 1..Len(taskq) : TaskInv(taskq[j], ui.pc, NewSock, acked)
    /\ \A w \in Worker : wk[w].task # None => TaskInv(wk[w].task, ui.pc, NewSock, acked)

ConnInv ==
    NewSock > 0 /\ ui.pc # "connect" /\ kind[NewSock] = "tcp" => conn[NewSock] # "none"

\* An acknowledgement of s is in the pool's hands, or s is what recv() waits on.
Coming(s) ==
    \/ \E j \in 1..Len(taskq) : taskq[j].h = "complete" /\ taskq[j].s = s
    \/ \E w \in Worker : wk[w].task # None /\ wk[w].task.h = "complete" /\ wk[w].task.s = s
    \/ rt.pc = "blocked" /\ rt.on = s

\* What is still to come is of the present link, or was there when the flag was
\* last cleared; so is what the receiving thread can still begin to wait on.
VouchInv ==
    /\ \A s \in Sock : Coming(s) => Current(s) \/ s \in lingering
    /\ ui.pc \in {"load", "close"} /\ rt.pc \in {"arg", "call"} /\ rt.k = ui.k => NewSock \in lingering

\* The flag goes before the link it was set for, or was set late.
FlagInv ==
    init_cli_info =>
        /\ flagBy.s \in acked
        /\ Current(flagBy.s) \/ (flagBy.late /\ flagBy.s \in lingering)

LinkInv == KindInv /\ FdInv /\ DestroyInv /\ TableInv

\* Nothing is claimed of a client that has left what Regular allows, nor does it
\* go on.
IndInv ==
    /\ TypeInv /\ CountInv /\ stdin = TRUE /\ NoSigpipe
    /\ Regular => LinkInv /\ TasksInv /\ ConnInv /\ VouchInv /\ FlagInv


-----------------------------------------------------------------------------
(* What the steps need of the state they start from                        *)

Before == TypeInv /\ CountInv /\ stdin = TRUE /\ Running /\ LinkInv

\* A task for the present link is a task.
LEMMA SentTask ==
    ASSUME Before, ui.pc \in {"try", "menu"}, NEW h \in {"save", "data"}
    PROVE  Append(taskq, Task(h, socket_type, NewSock)) \in Seq(TaskType)
<1>1. NewSock \in Nat
  BY DEF Before, TypeInv, NewSock
<1>2. NewSock \in 1..NewSock
  BY <1>1 DEF Before, TypeInv, CountInv, Switching, Destroying
<1>3. socket_type \in Kind
  BY DEF Before, TypeInv, LinkInv, KindInv
<1>4. Task(h, socket_type, NewSock) \in TaskType
  BY <1>2, <1>3 DEF Task, TaskType
<1> QED
  BY <1>4 DEF Before, TypeInv

\* Counting up at any argument keeps a function to Nat.
LEMMA Incremented ==
    ASSUME NEW S, NEW f \in [S -> Nat], NEW s
    PROVE  [f EXCEPT ![s] = @ + 1] \in [S -> Nat]
<1>1. \A x \in S : (IF x = s THEN f[s] + 1 ELSE f[x]) \in Nat
  OBVIOUS
<1>2. DOMAIN f = S
  OBVIOUS
<1> QED
  BY <1>1, <1>2

\* The types do not depend on anything but the sockets created.
LEMMA SameTypes ==
    ASSUME kind' = kind
    PROVE  /\ NewSock' = NewSock /\ TaskType' = TaskType /\ UiType' = UiType /\ RtType' = RtType
           /\ FlagType' = FlagType
  BY DEF NewSock, TaskType, UiType, RtType, FlagType

\* What the network does keeps the types.
LEMMA NetworkTypes ==
    ASSUME Before, Network
    PROVE  TypeInv'
<1> USE DEF Before, TypeInv
<1> PICK s \in Sock : ServerAck(s) \/ UdpLoss(s) \/ ServerMsg(s) \/ ServerClose(s)
  BY DEF Network
<1> DEFINE Same == UNCHANGED <<socket_type, fd, init_cli_info, irregular, fdt, kind, ui, rt, taskq, wk,
                                proc, switches, datas, acked, flagBy, lingering>>
           Net == /\ conn \in [Sock -> {"none", "up", "refused", "ended", "reset"}]
                  /\ rx \in [Sock -> Seq({"ack", "msg", "EOF"})]
                  /\ saves \in [Sock -> Nat]
                  /\ msgs \in Nat
<1>1. CASE ServerAck(s)
  <2>1. Append(rx[s], "ack") \in Seq({"ack", "msg", "EOF"})
    OBVIOUS
  <2> QED
    BY <1>1, <2>1, SameTypes DEF ServerAck, flagVars, budget
<1>2. CASE UdpLoss(s)
  BY <1>2, SameTypes DEF UdpLoss, flagVars, budget
<1>3. CASE ServerMsg(s)
  <2>1. Append(rx[s], "msg") \in Seq({"ack", "msg", "EOF"})
    OBVIOUS
  <2> QED
    BY <1>3, <2>1, SameTypes DEF ServerMsg, flagVars, budget
<1>4. CASE ServerClose(s)
  <2>1. Append(rx[s], "EOF") \in Seq({"ack", "msg", "EOF"})
    OBVIOUS
  <2> QED
    BY <1>4, <2>1, SameTypes DEF ServerClose, flagVars, budget
<1> QED
  BY <1>1, <1>2, <1>3, <1>4

\* So do the threads that destroy a link.
LEMMA DestroyTypes ==
    ASSUME Before, NEW t \in {"ui", "recv"}, Destroy(t)
    PROVE  TypeInv'
<1> USE DEF Before, TypeInv, netVars, flagVars, budget, NewSock, TaskType, FlagType
<1>1. /\ UiAt("init", 0) \in UiType
      /\ Top \in RtType
      /\ \A pc \in Destroying : [ui EXCEPT !.pc = pc] \in UiType /\ [rt EXCEPT !.pc = pc] \in RtType
      /\ \A k \in Kind : /\ [ui EXCEPT !.pc = "close", !.fd = fd[k]] \in UiType
                         /\ [rt EXCEPT !.pc = "close", !.fd = fd[k]] \in RtType
      /\ ui.k \in Kind /\ rt.k \in Kind
  <2>1. UiAt("init", 0) \in UiType /\ Top \in RtType
    BY DEF UiAt, Top, UiType, RtType, Kind
  <2>2. ui.k \in Kind /\ rt.k \in Kind
    BY DEF UiType, RtType
  <2>3. ASSUME NEW pc \in Destroying
        PROVE  [ui EXCEPT !.pc = pc] \in UiType /\ [rt EXCEPT !.pc = pc] \in RtType
    BY DEF UiType, RtType
  <2>4. ASSUME NEW k \in Kind
        PROVE  /\ [ui EXCEPT !.pc = "close", !.fd = fd[k]] \in UiType
               /\ [rt EXCEPT !.pc = "close", !.fd = fd[k]] \in RtType
    BY DEF UiType, RtType, Destroying
  <2> QED
    BY <2>1, <2>2, <2>3, <2>4
<1>2. (ui' \in UiType /\ rt' \in RtType) => (ui' \in UiType' /\ rt' \in RtType')
  BY DEF Destroy, DestroyCheck, DestroyReset, DestroyLoad, DestroyClose, DestroyZero, UiType, RtType
<1> USE DEF Becomes, Th, After
<1>3. CASE DestroyCheck(t)
  <2>1. ui' \in UiType /\ rt' \in RtType
    BY <1>1, <1>3 DEF DestroyCheck, Destroying
  <2> QED
    BY <1>2, <1>3, <2>1 DEF DestroyCheck
<1>4. CASE DestroyReset(t)
  <2>1. ui' \in UiType /\ rt' \in RtType
    BY <1>1, <1>4 DEF DestroyReset, Destroying
  <2>2. lingering' \subseteq 1..NewSock /\ flagBy' \in FlagType
    BY <1>4 DEF DestroyReset, Leave, Nobody
  <2> QED
    BY <1>2, <1>4, <2>1, <2>2 DEF DestroyReset
<1>5. CASE DestroyLoad(t)
  <2>1. ui' \in UiType /\ rt' \in RtType
    BY <1>1, <1>5 DEF DestroyLoad
  <2> QED
    BY <1>2, <1>5, <2>1 DEF DestroyLoad
<1>6. CASE DestroyClose(t)
  <2>1. ui' \in UiType /\ rt' \in RtType
    BY <1>1, <1>6 DEF DestroyClose, Destroying
  <2>2. fdt' \in [Fd -> 0..NewSock]
    BY <1>6 DEF DestroyClose
  <2>3. rx' \in [Sock -> Seq({"ack", "msg", "EOF"})]
    <3>1. \A s \in Sock : << >> \in Seq({"ack", "msg", "EOF"}) /\ rx[s] \in Seq({"ack", "msg", "EOF"})
      OBVIOUS
    <3> QED
      BY <1>6, <3>1 DEF DestroyClose
  <2>4. saves' \in [Sock -> Nat]
    BY <1>6 DEF DestroyClose
  <2> QED
    BY <1>2, <1>6, <2>1, <2>2, <2>3, <2>4 DEF DestroyClose
<1>7. CASE DestroyZero(t)
  <2>1. ui' \in UiType /\ rt' \in RtType
    BY <1>1, <1>7 DEF DestroyZero
  <2> QED
    BY <1>2, <1>7, <2>1 DEF DestroyZero
<1> QED
  BY <1>3, <1>4, <1>5, <1>6, <1>7 DEF Destroy

\* So does the interface thread in its own steps.
LEMMA UiTypes ==
    ASSUME Before, ChooseSwitch \/ SendMsg \/ SwitchSocketType \/ InitSocket \/ Connect \/ InitClientInfo
    PROVE  TypeInv'
<1> USE DEF Before, TypeInv, netVars, flagVars, budget
<1>0. NewSock \in Nat
  BY DEF NewSock
<1>1. \A pc \in {"menu", "switch", "init", "connect", "try"}, i \in 0..3 : UiAt(pc, i) \in UiType
  BY DEF UiAt, UiType, Kind
<1>2. CASE ChooseSwitch
  <2>1. ui' \in UiType
    BY <1>1, <1>2 DEF ChooseSwitch
  <2> QED
    BY <1>2, <2>1, SameTypes DEF ChooseSwitch
<1>3. CASE SendMsg
  <2>1. taskq' \in Seq(TaskType)
    BY <1>3, SentTask DEF SendMsg, SendMsgBySocket
  <2> QED
    BY <1>3, <2>1, SameTypes DEF SendMsg
<1>4. CASE SwitchSocketType
  <2>1. ui' \in UiType
    BY <1>4 DEF SwitchSocketType, UiType, Kind
  <2> QED
    BY <1>4, <2>1, SameTypes DEF SwitchSocketType, Kind
<1>5. CASE InitSocket
  <2>1. socket_type \in Kind /\ fd[socket_type] = 0
    BY <1>5 DEF InitSocket, LinkInv, KindInv, FdInv
  <2>2. ~CHECK_FD(fd[socket_type])
    BY <2>1 DEF CHECK_FD
  <2>n. PICK n \in Fd : /\ fdt' = [fdt EXCEPT ![n] = NewSock + 1]
                       /\ fd' = [fd EXCEPT ![socket_type] = n]
                       /\ kind' = Append(kind, socket_type)
    BY <1>5, <2>2, Zenon DEF InitSocket
  <2>3. kind' \in Seq(Kind)
    BY <2>n, <2>1
  <2>4. NewSock' = NewSock + 1
    BY <2>n, <2>1 DEF NewSock
  <2>5. fd' \in [Kind -> Fd \cup {0}] /\ fdt' \in [Fd -> 0..NewSock']
    BY <1>0, <2>n, <2>1, <2>4
  <2>6. ui' \in UiType
    BY <1>1, <1>5, <2>2 DEF InitSocket
  <2>7. TaskType \subseteq TaskType' /\ RtType \subseteq RtType' /\ UiType' = UiType
    BY <1>0, <2>4 DEF TaskType, RtType, UiType
  <2>8. acked' \subseteq 1..NewSock' /\ lingering' \subseteq 1..NewSock' /\ flagBy' \in FlagType'
    BY <1>0, <1>5, <2>4 DEF InitSocket, FlagType
  <2>9. taskq' \in Seq(TaskType')
    BY <1>5, <2>7 DEF InitSocket
  <2>10. wk' \in [Worker -> [task : TaskType' \cup {None}, fd : Fd \cup {-1, 0}]]
    BY <1>5, <2>7 DEF InitSocket
  <2> QED
    BY <1>5, <2>3, <2>5, <2>6, <2>7, <2>8, <2>9, <2>10 DEF InitSocket
<1>6. CASE Connect
  <2>1. ui' \in UiType
    BY <1>1, <1>6 DEF Connect
  <2>2. conn' \in [Sock -> {"none", "up", "refused", "ended", "reset"}]
    BY <1>6 DEF Connect
  <2> QED
    BY <1>6, <2>1, <2>2, SameTypes DEF Connect
<1>7. CASE InitClientInfo
  <2>1. ui.i \in 0..3
    BY DEF UiType
  <2>2. ui' \in UiType
    BY <1>1, <1>7, <2>1 DEF InitClientInfo
  <2>3. taskq' \in Seq(TaskType)
    BY <1>7, SentTask DEF InitClientInfo, SendMsgBySocket
  <2> QED
    BY <1>7, <2>2, <2>3, SameTypes DEF InitClientInfo
<1> QED
  BY <1>2, <1>3, <1>4, <1>5, <1>6, <1>7

\* So does the receiving thread.
LEMMA RecvTypes ==
    ASSUME Before, RecvMsgBySocket \/ RecvLoad \/ RecvCall \/ RecvEof \/ RecvItem
    PROVE  TypeInv'
<1> USE DEF Before, TypeInv, netVars, flagVars, budget
<1>0. NewSock \in Nat /\ Top \in RtType
  BY DEF NewSock, Top, RtType, Kind
<1>1. CASE RecvMsgBySocket
  <2>1. rt' \in RtType
    BY <1>1 DEF RecvMsgBySocket, RtType
  <2> QED
    BY <1>1, <2>1, SameTypes DEF RecvMsgBySocket
<1>2. CASE RecvLoad
  <2>1. rt' \in RtType
    BY <1>2 DEF RecvLoad, RtType
  <2> QED
    BY <1>2, <2>1, SameTypes DEF RecvLoad
<1>3. CASE RecvCall
  <2> DEFINE s == IF rt.fd \in Fd THEN fdt[rt.fd] ELSE 0
  <2>1. s \in 0..NewSock
    BY <1>0
  <2>2. rt' = Top \/ rt' = [rt EXCEPT !.pc = "blocked", !.fd = 0, !.on = s]
    BY <1>3 DEF RecvCall
  <2> HIDE DEF s
  <2>3. rt' \in RtType
    BY <1>0, <2>1, <2>2 DEF RtType
  <2>4. irregular' \in BOOLEAN
    BY <1>3 DEF RecvCall
  <2> QED
    BY <1>3, <2>3, <2>4, SameTypes DEF RecvCall
<1>4. CASE RecvEof
  <2>1. rt' \in RtType
    BY <1>0, <1>4 DEF RecvEof, RtType, Top, Kind
  <2> QED
    BY <1>4, <2>1, SameTypes DEF RecvEof
<1>5. CASE RecvItem
  <2>1. rt.on \in 1..NewSock
    BY <1>0, <1>5 DEF RecvItem, LinkInv, KindInv, RtType
  <2>2. kind[rt.on] \in Kind
    BY <2>1 DEF NewSock
  <2>3. rt.on \in Sock
    BY <1>0, <2>1, ClientAssumption DEF Sock, CountInv, Switching
  <2>4. \A h \in {"complete", "display"} : Task(h, kind[rt.on], rt.on) \in TaskType
    BY <2>1, <2>2 DEF Task, TaskType
  <2>5. taskq' \in Seq(TaskType)
    BY <1>5, <2>4 DEF RecvItem
  <2>6. acked' \subseteq 1..NewSock
    BY <1>5, <2>1 DEF RecvItem
  <2>7. rx[rt.on] \in Seq({"ack", "msg", "EOF"}) /\ rx[rt.on] # << >>
    BY <1>5, <2>3 DEF RecvItem
  <2>8. Tail(rx[rt.on]) \in Seq({"ack", "msg", "EOF"})
    BY <2>7
  <2>9. rx' \in [Sock -> Seq({"ack", "msg", "EOF"})]
    BY <1>5, <2>8 DEF RecvItem
  <2> QED
    BY <1>0, <1>5, <2>5, <2>6, <2>9, SameTypes DEF RecvItem
<1> QED
  BY <1>1, <1>2, <1>3, <1>4, <1>5

\* So do the pool's threads.
LEMMA WorkerTypes ==
    ASSUME Before, NEW w \in Worker, WorkerStep(w)
    PROVE  TypeInv'
<1> USE DEF Before, TypeInv, netVars, flagVars, budget
<1>0. Idle \in [task : TaskType \cup {None}, fd : Fd \cup {-1, 0}]
  BY DEF Idle
<1>1. CASE TakeTask(w)
  <2>1. Head(taskq) \in TaskType /\ Tail(taskq) \in Seq(TaskType)
    BY <1>1 DEF TakeTask
  <2>2. wk' \in [Worker -> [task : TaskType \cup {None}, fd : Fd \cup {-1, 0}]]
    BY <1>1, <2>1 DEF TakeTask
  <2> QED
    BY <1>1, <2>1, <2>2, SameTypes DEF TakeTask
<1>2. CASE CompleteInitClientInfo(w)
  <2>1. wk' \in [Worker -> [task : TaskType \cup {None}, fd : Fd \cup {-1, 0}]]
    BY <1>0, <1>2 DEF CompleteInitClientInfo, Done
  <2>2. flagBy' \in FlagType
    <3>1. wk[w].task \in TaskType
      BY <1>2 DEF CompleteInitClientInfo, Doing
    <3>2. wk[w].task.s \in 0..NewSock
      BY <3>1 DEF TaskType, NewSock
    <3>3. \A c \in BOOLEAN : [s |-> wk[w].task.s, late |-> c] \in FlagType
      BY <3>2 DEF FlagType
    <3>4. (~Current(wk[w].task.s)) \in BOOLEAN
      OBVIOUS
    <3> QED
      BY <1>2, <3>3, <3>4, Zenon DEF CompleteInitClientInfo
  <2> QED
    BY <1>2, <2>1, <2>2, SameTypes DEF CompleteInitClientInfo
<1>3. CASE Display(w)
  <2>1. wk' \in [Worker -> [task : TaskType \cup {None}, fd : Fd \cup {-1, 0}]]
    BY <1>0, <1>3 DEF Display, Done
  <2> QED
    BY <1>3, <2>1, SameTypes DEF Display
<1>4. CASE SendLoad(w)
  <2>1. wk[w].task \in TaskType
    BY <1>4 DEF SendLoad, Doing
  <2>2. fd[wk[w].task.k] \in Fd \cup {0}
    BY <2>1 DEF TaskType
  <2>3. wk' \in [Worker -> [task : TaskType \cup {None}, fd : Fd \cup {-1, 0}]]
    BY <1>4, <2>2 DEF SendLoad
  <2> QED
    BY <1>4, <2>3, SameTypes DEF SendLoad
<1>5. CASE SendCall(w)
  <2>1. wk' \in [Worker -> [task : TaskType \cup {None}, fd : Fd \cup {-1, 0}]]
    BY <1>0, <1>5 DEF SendCall, Done
  <2>2. irregular' \in BOOLEAN
    BY <1>5 DEF SendCall
  <2>3. proc' \in {"up", "killed"}
    BY <1>5 DEF SendCall
  <2>4. conn' \in [Sock -> {"none", "up", "refused", "ended", "reset"}]
    BY <1>5 DEF SendCall
  <2>5. saves' \in [Sock -> Nat]
    <3>1. PICK s : saves' \in {saves, [saves EXCEPT ![s] = @ + 1]}
      BY <1>5 DEF SendCall
    <3>2. [saves EXCEPT ![s] = @ + 1] \in [Sock -> Nat]
      BY Incremented
    <3> QED
      BY <3>1, <3>2
  <2> QED
    BY <1>5, <2>1, <2>2, <2>3, <2>4, <2>5, SameTypes DEF SendCall
<1> QED
  BY <1>1, <1>2, <1>3, <1>4, <1>5 DEF WorkerStep

\* Every step keeps the types.
LEMMA TypeStep ==
    ASSUME Before, Next
    PROVE  TypeInv'
  BY NetworkTypes, DestroyTypes, UiTypes, RecvTypes, WorkerTypes
     DEF Next, UiStep, SwitchStep, RecvStep

-----------------------------------------------------------------------------
(* The link: descriptors, variables and table                              *)

\* What these properties are about, and who leaves it alone.
linkVars == <<socket_type, fd, fdt, stdin, kind, ui, rt, switches>>

LEMMA LinkFrame ==
    ASSUME Network \/ SendMsg \/ \E w \in Worker : WorkerStep(w)
    PROVE  UNCHANGED linkVars
<1> USE DEF linkVars, budget
<1>1. CASE Network
  BY <1>1 DEF Network, ServerAck, UdpLoss, ServerMsg, ServerClose
<1>2. CASE SendMsg
  BY <1>2 DEF SendMsg
<1>3. ASSUME NEW w \in Worker, WorkerStep(w) PROVE UNCHANGED linkVars
  BY <1>3 DEF WorkerStep, TakeTask, CompleteInitClientInfo, Display, SendLoad, SendCall
<1> QED
  BY <1>1, <1>2, <1>3

\* The descriptors above the standard ones are what CHECK_FD tells from none,
\* two variables never name one each, and a socket in the table has one.
LEMMA OneFd ==
    ASSUME Before
    PROVE  /\ \A k \in Kind : (CHECK_FD(fd[k]) <=> fd[k] # 0) /\ (fd[k] # 0 => fd[k] \in Fd)
           /\ fd["tcp"] = 0 \/ fd["udp"] = 0
           /\ \A f \in Fd : f # 0
<1>1. \A f \in Fd : f > 2 /\ f \in Nat
  BY ClientAssumption
<1> QED
  BY <1>1 DEF Before, TypeInv, LinkInv, FdInv, CHECK_FD, Kind

\* One socket for each switch; and what is closed is never standard input.
LEMMA CountStep ==
    ASSUME Before, Next
    PROVE  CountInv' /\ stdin' = TRUE
<1> USE DEF Before, CountInv, Switching, Destroying
<1>0. switches \in Nat /\ NewSock \in Nat
  BY DEF TypeInv, NewSock
<1>1. CASE UNCHANGED linkVars
  BY <1>1 DEF linkVars, NewSock
<1>2. CASE ChooseSwitch
  BY <1>0, <1>2, ClientAssumption DEF ChooseSwitch, UiAt, NewSock
<1>3. CASE SwitchSocketType
  BY <1>3 DEF SwitchSocketType, budget, NewSock, TypeInv, UiType
<1>4. CASE InitSocket
  <2>1. ~CHECK_FD(fd[socket_type]) /\ socket_type \in Kind
    BY <1>4, OneFd DEF InitSocket, LinkInv, FdInv, KindInv, TypeInv
  <2>2. kind' = Append(kind, socket_type) /\ stdin' = stdin /\ switches' = switches
        /\ ui'.pc \in {"connect", "try"} /\ ui.pc = "init"
    BY <1>4, <2>1 DEF InitSocket, budget, UiAt
  <2>3. NewSock' = NewSock + 1
    BY <2>1, <2>2 DEF NewSock, TypeInv
  <2> QED
    BY <1>0, <2>2, <2>3
<1>5. CASE Connect
  BY <1>5 DEF Connect, budget, UiAt, NewSock
<1>6. CASE InitClientInfo
  BY <1>6 DEF InitClientInfo, budget, UiAt, NewSock
<1>7. CASE RecvMsgBySocket \/ RecvLoad \/ RecvCall \/ RecvEof \/ RecvItem
  BY <1>7 DEF RecvMsgBySocket, RecvLoad, RecvCall, RecvEof, RecvItem, budget, NewSock
<1>8. ASSUME NEW t \in {"ui", "recv"}, Destroy(t)
      PROVE  CountInv' /\ stdin' = TRUE
  <2> USE DEF Becomes, Th, After, UiAt
  <2>1. UNCHANGED <<kind, switches>>
    BY <1>8 DEF Destroy, DestroyCheck, DestroyReset, DestroyLoad, DestroyClose, DestroyZero, budget
  <2>2. \/ ui.pc \in {"destroy"} \cup Destroying /\ ui'.pc \in {"init"} \cup Destroying
        \/ ui' = ui
    <3>1. CASE t = "recv"
      BY <1>8, <3>1 DEF Destroy, DestroyCheck, DestroyReset, DestroyLoad, DestroyClose, DestroyZero
    <3>2. CASE t = "ui"
      <4> USE <3>2 DEF TypeInv, UiType
      <4>1. CASE DestroyCheck(t)
        BY <4>1 DEF DestroyCheck
      <4>2. CASE DestroyReset(t)
        BY <4>2 DEF DestroyReset
      <4>3. CASE DestroyLoad(t)
        BY <4>3 DEF DestroyLoad
      <4>4. CASE DestroyClose(t)
        BY <4>4 DEF DestroyClose
      <4>5. CASE DestroyZero(t)
        BY <4>5 DEF DestroyZero
      <4> QED
        BY <1>8, <4>1, <4>2, <4>3, <4>4, <4>5 DEF Destroy
    <3> QED
      BY <3>1, <3>2
  <2>3. CountInv'
    BY <2>1, <2>2 DEF NewSock
  <2>4. stdin' = TRUE
    <3>1. CASE DestroyClose(t)
      <4>1. Th(t).fd = fd[Th(t).k] /\ Th(t).fd # 0
        BY <1>8, <3>1 DEF DestroyClose, LinkInv, DestroyInv
      <4> QED
        BY <3>1, <4>1 DEF DestroyClose
    <3> QED
      BY <1>8, <3>1 DEF Destroy, DestroyCheck, DestroyReset, DestroyLoad, DestroyZero
  <2> QED
    BY <2>3, <2>4
<1> QED
  BY <1>1, <1>2, <1>3, <1>4, <1>5, <1>6, <1>7, <1>8, LinkFrame
     DEF Next, UiStep, SwitchStep, RecvStep

\* The steps of the receiving thread outside try_destroy_client_tcp.
LEMMA RecvLink ==
    ASSUME Before, RecvMsgBySocket \/ RecvLoad \/ RecvCall \/ RecvEof \/ RecvItem
    PROVE  LinkInv'
<1> USE DEF Before, LinkInv, Destroying
<1>1. /\ UNCHANGED <<socket_type, fd, fdt, kind, ui>>
      /\ rt.pc \notin {"destroy"} \cup Destroying /\ rt'.pc \notin Destroying
      /\ rt'.pc = "destroy" => rt'.k = "tcp"
      /\ rt'.pc = "blocked" => rt'.on # 0
  <2> USE DEF Top, TypeInv, RtType
  <2>1. CASE RecvMsgBySocket
    BY <2>1 DEF RecvMsgBySocket
  <2>2. CASE RecvLoad
    BY <2>2 DEF RecvLoad
  <2>3. CASE RecvCall
    BY <2>3 DEF RecvCall
  <2>4. CASE RecvEof
    BY <2>4 DEF RecvEof
  <2>5. CASE RecvItem
    BY <2>5 DEF RecvItem
  <2> QED
    BY <2>1, <2>2, <2>3, <2>4, <2>5
<1>2. NewSock' = NewSock
  BY <1>1 DEF NewSock
<1>3. KindInv'
  BY <1>1 DEF KindInv
<1>4. FdInv'
  BY <1>1 DEF FdInv
<1>5. DestroyInv'
  BY <1>1 DEF DestroyInv
<1>6. TableInv'
  BY <1>1, <1>2 DEF TableInv
<1> QED
  BY <1>3, <1>4, <1>5, <1>6

\* The steps of the interface thread outside try_destroy_client_tcp and _udp.
LEMMA UiLink ==
    ASSUME Before, ChooseSwitch \/ SwitchSocketType \/ InitSocket \/ Connect \/ InitClientInfo
    PROVE  LinkInv'
<1> USE DEF Before, LinkInv, Destroying
<1>1. CASE ChooseSwitch \/ Connect \/ InitClientInfo
  <2>1. /\ UNCHANGED <<socket_type, fd, fdt, kind, rt>>
        /\ ui.pc \in {"menu", "connect", "try"}
        /\ ui'.pc \in {"switch", "menu", "try"}
        /\ ui'.pc = "switch" => ui.pc = "menu"
        /\ ui.pc = "connect" => ui'.pc = "try"
    <3> USE DEF UiAt
    <3>1. CASE ChooseSwitch
      BY <3>1 DEF ChooseSwitch
    <3>2. CASE Connect
      BY <3>2 DEF Connect
    <3>3. CASE InitClientInfo
      BY <3>3 DEF InitClientInfo
    <3> QED
      BY <1>1, <3>1, <3>2, <3>3
  <2>2. NewSock' = NewSock
    BY <2>1 DEF NewSock
  <2>3. KindInv'
    BY <2>1 DEF KindInv
  <2>4. socket_type = "udp" => ui.pc # "connect"
    BY DEF KindInv
  <2>5. FdInv'
    BY <2>1, <2>4 DEF FdInv
  <2>6. DestroyInv'
    BY <2>1 DEF DestroyInv
  <2>7. TableInv'
    BY <2>1, <2>2 DEF TableInv
  <2> QED
    BY <2>3, <2>5, <2>6, <2>7
<1>2. CASE SwitchSocketType
  <2>1. /\ UNCHANGED <<fd, fdt, kind, rt>>
        /\ ui.pc = "switch" /\ ui'.pc = "destroy"
        /\ socket_type = "udp" => socket_type' = "tcp" /\ ui'.k = "udp"
        /\ socket_type # "udp" => socket_type' = "udp" /\ ui'.k = "tcp"
    BY <1>2 DEF SwitchSocketType, TypeInv, UiType
  <2>2. NewSock' = NewSock
    BY <2>1 DEF NewSock
  <2>3. KindInv'
    BY <2>1 DEF KindInv
  <2>4. \A k \in Kind : fd[k] # 0 => k = socket_type
    BY <2>1 DEF FdInv
  <2>5. FdInv'
    BY <2>1, <2>4 DEF FdInv, Kind
  <2>6. DestroyInv'
    BY <2>1 DEF DestroyInv
  <2>7. TableInv'
    BY <2>1, <2>2 DEF TableInv
  <2> QED
    BY <2>3, <2>5, <2>6, <2>7
<1>3. CASE InitSocket
  <2>1. ui.pc = "init" /\ socket_type \in Kind /\ fd[socket_type] = 0
    BY <1>3 DEF InitSocket, TypeInv, KindInv, FdInv
  <2>2. \A k \in Kind : fd[k] = 0
    BY <2>1 DEF FdInv
  <2>3. rt.pc \notin Destroying
    BY <2>2 DEF DestroyInv, TypeInv, RtType
  <2>4. \A f \in Fd : fdt[f] = 0
    BY <2>2, OneFd DEF TableInv
  <2>5. PICK n \in Fd : /\ fdt' = [fdt EXCEPT ![n] = NewSock + 1]
                       /\ fd' = [fd EXCEPT ![socket_type] = n]
                       /\ kind' = Append(kind, socket_type)
    BY <1>3, <2>1, OneFd DEF InitSocket
  <2>6. /\ NewSock' = NewSock + 1 /\ NewSock \in Nat
        /\ kind'[NewSock'] = socket_type
    BY <2>1, <2>5 DEF NewSock, TypeInv
  <2>7. /\ UNCHANGED <<socket_type, rt>> /\ ui'.pc \in {"connect", "try"}
        /\ ui'.pc = "connect" => socket_type = "tcp"
    BY <1>3, <2>1, OneFd DEF InitSocket, UiAt
  <2>8. /\ fd'[socket_type] = n /\ n # 0
        /\ \A k \in Kind : k # socket_type => fd'[k] = 0
    BY <2>1, <2>2, <2>5, OneFd DEF TypeInv
  <2>9. \A f \in Fd : fdt'[f] = IF f = n THEN NewSock' ELSE 0
    BY <2>4, <2>5, <2>6 DEF TypeInv
  <2>10. KindInv'
    BY <2>1, <2>7 DEF KindInv
  <2>11. FdInv'
    BY <2>7, <2>8 DEF FdInv
  <2>12. DestroyInv'
    BY <2>3, <2>7 DEF DestroyInv
  <2>13. TableInv'
    BY <2>1, <2>3, <2>6, <2>7, <2>8, <2>9 DEF TableInv
  <2> QED
    BY <2>10, <2>11, <2>12, <2>13
<1> QED
  BY <1>1, <1>2, <1>3

\* The steps of try_destroy_client_tcp and _udp, as far as the link goes: it finds
\* nothing to destroy, goes on to close(), closes, or is done.
Skips(t) ==
    /\ Th(t).pc = "destroy" /\ fd[Th(t).k] = 0
    /\ Becomes(t, After(t)) /\ UNCHANGED <<fd, fdt>>
GoesOn(t) ==
    /\ Th(t).pc \in {"destroy", "reset", "load"} /\ fd[Th(t).k] # 0
    /\ \/ \E pc \in {"reset", "load"} : Becomes(t, [Th(t) EXCEPT !.pc = pc])
       \/ Becomes(t, [Th(t) EXCEPT !.pc = "close", !.fd = fd[Th(t).k]])
    /\ UNCHANGED <<fd, fdt>>
Closes(t) ==
    /\ Th(t).pc = "close"
    /\ Becomes(t, [Th(t) EXCEPT !.pc = "zero"])
    /\ fdt' = [f \in Fd |-> IF f = fd[Th(t).k] THEN 0 ELSE fdt[f]]
    /\ UNCHANGED fd
Zeroes(t) ==
    /\ Th(t).pc = "zero"
    /\ Becomes(t, After(t))
    /\ fd' = [fd EXCEPT ![Th(t).k] = 0]
    /\ UNCHANGED fdt

LEMMA DestroyMoves ==
    ASSUME Before, NEW t \in {"ui", "recv"}, Destroy(t)
    PROVE  /\ Skips(t) \/ GoesOn(t) \/ Closes(t) \/ Zeroes(t)
           /\ UNCHANGED <<socket_type, kind>>
<1>0. Th(t).k \in Kind
  BY DEF Before, TypeInv, UiType, RtType, Th
<1>1. CASE DestroyCheck(t)
  <2>1. CHECK_FD(fd[Th(t).k]) <=> fd[Th(t).k] # 0
    BY <1>0, OneFd
  <2> QED
    BY <1>1, <2>1 DEF DestroyCheck, Skips, GoesOn
<1>2. CASE DestroyReset(t)
  <2>1. fd[Th(t).k] # 0
    BY <1>2 DEF DestroyReset, Before, LinkInv, DestroyInv, Destroying, Th
  <2> QED
    BY <1>2, <2>1 DEF DestroyReset, GoesOn
<1>3. CASE DestroyLoad(t)
  <2>1. fd[Th(t).k] # 0
    BY <1>3 DEF DestroyLoad, Before, LinkInv, DestroyInv, Destroying, Th
  <2> QED
    BY <1>3, <2>1 DEF DestroyLoad, GoesOn
<1>4. CASE DestroyClose(t)
  <2>1. Th(t).fd = fd[Th(t).k]
    BY <1>4 DEF DestroyClose, Before, LinkInv, DestroyInv, Destroying, Th
  <2> QED
    BY <1>4, <2>1 DEF DestroyClose, Closes
<1>5. CASE DestroyZero(t)
  BY <1>5 DEF DestroyZero, Zeroes
<1> QED
  BY <1>1, <1>2, <1>3, <1>4, <1>5 DEF Destroy

\* The other thread is not destroying a link, or the run is not Regular.
LEMMA Alone ==
    ASSUME Before, NEW t \in {"ui", "recv"}, Destroy(t), Regular'
    PROVE  (IF t = "ui" THEN rt ELSE ui).pc \notin Destroying
<1>1. CASE DestroyCheck(t)
  BY <1>1 DEF DestroyCheck, Regular
<1>2. CASE DestroyReset(t) \/ DestroyLoad(t) \/ DestroyClose(t) \/ DestroyZero(t)
  <2>1. Th(t).pc \in Destroying
    BY <1>2 DEF DestroyReset, DestroyLoad, DestroyClose, DestroyZero, Destroying
  <2> QED
    BY <2>1 DEF Th, Before, LinkInv, DestroyInv
<1> QED
  BY <1>1, <1>2 DEF Destroy

\* try_destroy_client_tcp and _udp in the interface thread.
LEMMA UiDestroyLink ==
    ASSUME Before, Destroy("ui"), Regular'
    PROVE  LinkInv'
<1> USE DEF Before, LinkInv, Destroying, Becomes, Th, After, UiAt
<1>1. UNCHANGED <<socket_type, kind>> /\ NewSock' = NewSock
  BY DestroyMoves DEF NewSock
<1>2. rt' = rt /\ rt.pc \notin Destroying
  BY Alone, DestroyMoves DEF Skips, GoesOn, Closes, Zeroes
<1>3. /\ ui.pc \in {"destroy"} \cup Destroying /\ ui.k \in Kind /\ ui.k # socket_type
      /\ socket_type \in Kind /\ fd[socket_type] = 0
      /\ \A k \in Kind : k = ui.k \/ fd[k] = 0
  <2>1. ui.pc \in {"destroy"} \cup Destroying
    BY DestroyMoves DEF Skips, GoesOn, Closes, Zeroes
  <2> QED
    BY <2>1 DEF TypeInv, UiType, KindInv, FdInv
<1>4. CASE Skips("ui")
  <2>1. ui'.pc = "init" /\ UNCHANGED <<fd, fdt>> /\ fd[ui.k] = 0
    BY <1>4 DEF Skips
  <2>2. KindInv'
    BY <1>1, <1>2, <1>3, <2>1 DEF KindInv
  <2>3. FdInv'
    BY <1>1, <1>3, <2>1 DEF FdInv
  <2>4. DestroyInv'
    BY <1>2, <2>1 DEF DestroyInv
  <2>5. TableInv'
    BY <1>1, <1>2, <1>3, <2>1 DEF TableInv
  <2> QED
    BY <2>2, <2>3, <2>4, <2>5
<1>5. CASE GoesOn("ui")
  <2>1. /\ ui'.pc \in {"reset", "load", "close"} /\ ui'.k = ui.k /\ UNCHANGED <<fd, fdt>>
        /\ ui.pc # "zero" /\ fd[ui.k] # 0
        /\ ui'.pc = "close" => ui'.fd = fd[ui.k]
    BY <1>5 DEF GoesOn, TypeInv, UiType
  <2>2. KindInv'
    BY <1>1, <1>2, <1>3, <2>1 DEF KindInv
  <2>3. FdInv'
    BY <1>1, <1>3, <2>1 DEF FdInv
  <2>4. DestroyInv'
    BY <1>2, <2>1 DEF DestroyInv
  <2>5. TableInv'
    BY <1>1, <1>2, <1>3, <2>1 DEF TableInv
  <2> QED
    BY <2>2, <2>3, <2>4, <2>5
<1>6. CASE Closes("ui")
  <2>1. /\ ui'.pc = "zero" /\ ui'.k = ui.k /\ UNCHANGED fd /\ fd[ui.k] # 0
        /\ fdt' = [f \in Fd |-> IF f = fd[ui.k] THEN 0 ELSE fdt[f]]
    BY <1>6 DEF Closes, TypeInv, UiType, DestroyInv
  <2>2. KindInv'
    BY <1>1, <1>2, <1>3, <2>1 DEF KindInv
  <2>3. FdInv'
    BY <1>1, <1>3, <2>1 DEF FdInv
  <2>4. DestroyInv'
    BY <1>2, <2>1 DEF DestroyInv
  <2>5. TableInv'
    BY <1>1, <1>2, <1>3, <2>1, OneFd DEF TableInv
  <2> QED
    BY <2>2, <2>3, <2>4, <2>5
<1>7. CASE Zeroes("ui")
  <2>1. /\ ui.pc = "zero" /\ ui'.pc = "init" /\ UNCHANGED fdt
        /\ \A k \in Kind : fd'[k] = 0
    BY <1>3, <1>7 DEF Zeroes, TypeInv
  <2>2. \A f \in Fd : fdt[f] = 0
    BY <1>3, <2>1, OneFd DEF TableInv
  <2>3. KindInv'
    BY <1>1, <1>2, <1>3, <2>1 DEF KindInv
  <2>4. FdInv'
    BY <1>1, <1>3, <2>1 DEF FdInv
  <2>5. DestroyInv'
    BY <1>2, <2>1 DEF DestroyInv
  <2>6. TableInv'
    BY <1>1, <2>1, <2>2 DEF TableInv
  <2> QED
    BY <2>3, <2>4, <2>5, <2>6
<1> QED
  BY <1>4, <1>5, <1>6, <1>7, DestroyMoves

\* try_destroy_client_tcp in the receiving thread.
LEMMA RecvDestroyLink ==
    ASSUME Before, Destroy("recv"), Regular'
    PROVE  LinkInv'
<1> USE DEF Before, LinkInv, Destroying, Becomes, Th, After, Top
<1>1. UNCHANGED <<socket_type, kind>> /\ NewSock' = NewSock
  BY DestroyMoves DEF NewSock
<1>2. ui' = ui /\ ui.pc \notin Destroying
  BY Alone, DestroyMoves DEF Skips, GoesOn, Closes, Zeroes
<1>3. /\ rt.pc \in {"destroy"} \cup Destroying
      /\ rt.k = "tcp" /\ rt.k \in Kind
  BY DestroyMoves DEF Skips, GoesOn, Closes, Zeroes, KindInv, Kind
<1>4. CASE Skips("recv")
  <2>1. rt'.pc = "top" /\ UNCHANGED <<fd, fdt>>
    BY <1>4 DEF Skips
  <2>2. KindInv'
    BY <1>1, <1>2, <2>1 DEF KindInv
  <2>3. FdInv'
    BY <1>1, <1>2, <2>1 DEF FdInv
  <2>4. DestroyInv'
    BY <1>2, <2>1 DEF DestroyInv
  <2>5. rt.pc = "destroy"
    BY <1>4 DEF Skips
  <2>6. TableInv'
    BY <1>1, <1>2, <2>1, <2>5 DEF TableInv
  <2> QED
    BY <2>2, <2>3, <2>4, <2>6
<1>5. CASE GoesOn("recv")
  <2>1. /\ rt'.pc \in {"reset", "load", "close"} /\ rt'.k = rt.k /\ UNCHANGED <<fd, fdt>>
        /\ rt.pc # "zero" /\ fd[rt.k] # 0
        /\ rt'.pc = "close" => rt'.fd = fd[rt.k]
    BY <1>5 DEF GoesOn, TypeInv, RtType
  <2>2. KindInv'
    BY <1>1, <1>2, <1>3, <2>1 DEF KindInv
  <2>3. FdInv'
    BY <1>1, <1>2, <2>1 DEF FdInv
  <2>4. DestroyInv'
    BY <1>2, <2>1 DEF DestroyInv
  <2>5. TableInv'
    BY <1>1, <1>2, <2>1 DEF TableInv
  <2> QED
    BY <2>2, <2>3, <2>4, <2>5
<1>6. CASE Closes("recv")
  <2>1. /\ rt'.pc = "zero" /\ rt'.k = rt.k /\ UNCHANGED fd /\ fd[rt.k] # 0
        /\ fdt' = [f \in Fd |-> IF f = fd[rt.k] THEN 0 ELSE fdt[f]]
    BY <1>6 DEF Closes, TypeInv, RtType, DestroyInv
  <2>2. KindInv'
    BY <1>1, <1>2, <1>3, <2>1 DEF KindInv
  <2>3. FdInv'
    BY <1>1, <1>2, <2>1 DEF FdInv
  <2>4. DestroyInv'
    BY <1>2, <2>1 DEF DestroyInv
  <2>5. \A k \in Kind : fd[k] # 0 => k = rt.k
    BY <1>3, <2>1, OneFd DEF Kind
  <2>6. TableInv'
    BY <1>1, <1>2, <1>3, <2>1, <2>5, OneFd DEF TableInv
  <2> QED
    BY <2>2, <2>3, <2>4, <2>6
<1>7. CASE Zeroes("recv")
  <2>1. /\ rt.pc = "zero" /\ rt'.pc = "top" /\ UNCHANGED fdt /\ fd[rt.k] # 0
        /\ fd' = [fd EXCEPT ![rt.k] = 0]
    BY <1>7 DEF Zeroes, DestroyInv
  <2>2. fd["udp"] = 0
    BY <1>3, <2>1, OneFd
  <2>3. \A k \in Kind : fd'[k] = 0
    BY <1>3, <2>1, <2>2 DEF TypeInv, Kind
  <2>4. \A f \in Fd : fdt[f] = 0
    BY <1>3, <2>1, <2>2, OneFd DEF TableInv, Kind
  <2>5. KindInv'
    BY <1>1, <1>2, <2>1 DEF KindInv
  <2>6. FdInv'
    BY <1>1, <1>2, <2>2, <2>3 DEF FdInv, KindInv, TypeInv
  <2>7. DestroyInv'
    BY <1>2, <2>1 DEF DestroyInv
  <2>8. TableInv'
    BY <2>1, <2>3, <2>4 DEF TableInv
  <2> QED
    BY <2>5, <2>6, <2>7, <2>8
<1> QED
  BY <1>4, <1>5, <1>6, <1>7, DestroyMoves

\* Every step keeps the link, as long as the run is Regular.
LEMMA LinkStep ==
    ASSUME Before, Next, Regular'
    PROVE  LinkInv'
<1>1. CASE UNCHANGED linkVars
  BY <1>1 DEF Before, linkVars, LinkInv, KindInv, FdInv, DestroyInv, TableInv, NewSock
<1> QED
  BY <1>1, LinkFrame, RecvLink, UiLink, UiDestroyLink, RecvDestroyLink
     DEF Next, UiStep, SwitchStep, RecvStep

-----------------------------------------------------------------------------
(* The tasks                                                               *)

\* Tasks that stay, or are done, keep their invariant while sockets, connect()
\* and acknowledgements stay as they are, or the acknowledgements grow.
LEMMA TasksFrame ==
    ASSUME TypeInv, TasksInv,
           taskq' = taskq,
           \A w \in Worker : wk'[w].task \in {wk[w].task, None},
           acked \subseteq acked',
           ui'.pc = "connect" => ui.pc = "connect" /\ NewSock' = NewSock
    PROVE  TasksInv'
<1>1. ASSUME NEW task, TaskInv(task, ui.pc, NewSock, acked)
      PROVE  TaskInv(task, ui'.pc, NewSock', acked')
  BY <1>1 DEF TaskInv
<1> QED
  BY <1>1 DEF TasksInv

\* Every step keeps what holds of the tasks.
LEMMA TasksStep ==
    ASSUME Before, TasksInv, Next
    PROVE  TasksInv'
<1> USE DEF Before, TypeInv, netVars, flagVars, budget
<1>0. NewSock \in Nat
  BY DEF NewSock
<1>1. CASE Network
  BY <1>1, TasksFrame
     DEF Network, ServerAck, UdpLoss, ServerMsg, ServerClose, NewSock
<1>2. CASE ChooseSwitch \/ SwitchSocketType \/ Connect
  <2>1. UNCHANGED <<taskq, wk, acked>>
    BY <1>2 DEF ChooseSwitch, SwitchSocketType, Connect
  <2>2. ui'.pc \in {"switch", "destroy", "try"}
    <3>1. CASE ChooseSwitch
      BY <3>1 DEF ChooseSwitch, UiAt
    <3>2. CASE SwitchSocketType
      BY <3>2 DEF SwitchSocketType, UiType
    <3>3. CASE Connect
      BY <3>3 DEF Connect, UiAt
    <3> QED
      BY <1>2, <3>1, <3>2, <3>3
  <2> QED
    BY <2>1, <2>2, TasksFrame
<1>3. ASSUME NEW t \in {"ui", "recv"}, Destroy(t)
      PROVE  TasksInv'
  <2>1. UNCHANGED <<taskq, wk, acked>>
    BY <1>3 DEF Destroy, DestroyCheck, DestroyReset, DestroyLoad, DestroyClose, DestroyZero
  <2>2. ui'.pc # "connect" \/ ui' = ui
    <3> USE DEF Becomes, Th, After, UiAt, UiType
    <3>1. CASE Skips(t)
      BY <3>1 DEF Skips
    <3>2. CASE GoesOn(t)
      BY <3>2 DEF GoesOn
    <3>3. CASE Closes(t)
      BY <3>3 DEF Closes
    <3>4. CASE Zeroes(t)
      BY <3>4 DEF Zeroes
    <3> QED
      BY <1>3, <3>1, <3>2, <3>3, <3>4, DestroyMoves
  <2>3. NewSock' = NewSock
    BY <1>3, DestroyMoves DEF NewSock
  <2> QED
    BY <2>1, <2>2, <2>3, TasksFrame
<1>4. CASE RecvMsgBySocket \/ RecvLoad \/ RecvCall \/ RecvEof
  BY <1>4, TasksFrame DEF RecvMsgBySocket, RecvLoad, RecvCall, RecvEof, NewSock
<1>5. CASE SendMsg \/ InitClientInfo
  <2>1. /\ UNCHANGED <<wk, acked>> /\ ui.pc \in {"try", "menu"} /\ ui'.pc \in {"try", "menu"}
        /\ taskq' = taskq \/ \E h \in {"save", "data"} : taskq' = Append(taskq, Task(h, socket_type, NewSock))
    <3>1. CASE SendMsg
      BY <3>1 DEF SendMsg, SendMsgBySocket
    <3>2. CASE InitClientInfo
      BY <3>2 DEF InitClientInfo, SendMsgBySocket, UiAt
    <3> QED
      BY <1>5, <3>1, <3>2
  <2>2. CASE taskq' = taskq
    BY <2>1, <2>2, TasksFrame
  <2>3. ASSUME NEW h \in {"save", "data"}, taskq' = Append(taskq, Task(h, socket_type, NewSock))
        PROVE  TasksInv'
    <3>1. \A j \in 1..Len(taskq') : taskq'[j] = Task(h, socket_type, NewSock)
                                    \/ (j \in 1..Len(taskq) /\ taskq'[j] = taskq[j])
      BY <2>3
    <3>2. ASSUME NEW j \in 1..Len(taskq')
          PROVE  TaskInv(taskq'[j], ui'.pc, NewSock', acked')
      <4>1. CASE taskq'[j] = Task(h, socket_type, NewSock)
        BY <2>1, <4>1 DEF TaskInv, Task
      <4>2. CASE j \in 1..Len(taskq) /\ taskq'[j] = taskq[j]
        BY <2>1, <4>2 DEF TasksInv, TaskInv
      <4> QED
        BY <3>1, <4>1, <4>2
    <3>3. \A w \in Worker : wk[w].task # None => TaskInv(wk[w].task, ui'.pc, NewSock', acked')
      BY <2>1 DEF TasksInv, TaskInv
    <3> QED
      BY <2>1, <3>2, <3>3 DEF TasksInv
  <2> QED
    BY <2>1, <2>2, <2>3
<1>6. CASE InitSocket
  <2>1. UNCHANGED <<taskq, wk, acked>>
    BY <1>6 DEF InitSocket
  <2>2. NewSock' = NewSock + 1
    BY <1>6, OneFd DEF InitSocket, NewSock, LinkInv, FdInv, KindInv
  <2>3. ASSUME NEW task \in TaskType, TaskInv(task, ui.pc, NewSock, acked)
        PROVE  TaskInv(task, ui'.pc, NewSock', acked')
    BY <1>0, <2>1, <2>2, <2>3 DEF TaskInv, TaskType
  <2>4. ASSUME NEW j \in 1..Len(taskq) PROVE TaskInv(taskq[j], ui'.pc, NewSock', acked')
    <3>1. taskq[j] \in TaskType
      BY <2>4
    <3>2. TaskInv(taskq[j], ui.pc, NewSock, acked)
      BY <2>4 DEF TasksInv
    <3> QED
      BY <2>3, <3>1, <3>2
  <2>5. \A w \in Worker : wk[w].task # None => TaskInv(wk[w].task, ui'.pc, NewSock', acked')
    BY <2>3 DEF TasksInv
  <2> QED
    BY <2>1, <2>4, <2>5 DEF TasksInv
<1>7. CASE RecvItem
  <2>1. PICK h \in {"complete", "display"} :
             /\ taskq' = Append(taskq, Task(h, kind[rt.on], rt.on))
             /\ h = "complete" => rt.on \in acked'
    BY <1>7 DEF RecvItem
  <2>2. UNCHANGED <<wk, ui, kind>> /\ acked \subseteq acked'
    BY <1>7 DEF RecvItem
  <2>3. NewSock' = NewSock
    BY <2>2 DEF NewSock
  <2>4. \A j \in 1..Len(taskq') : taskq'[j] = Task(h, kind[rt.on], rt.on)
                                  \/ (j \in 1..Len(taskq) /\ taskq'[j] = taskq[j])
    <3>1. rt.on \in 1..NewSock /\ kind[rt.on] \in Kind
      BY <1>0, <1>7 DEF RecvItem, LinkInv, KindInv, RtType, NewSock
    <3>2. Task(h, kind[rt.on], rt.on) \in TaskType
      BY <3>1 DEF Task, TaskType
    <3> QED
      BY <2>1, <3>2
  <2>5. ASSUME NEW j \in 1..Len(taskq')
        PROVE  TaskInv(taskq'[j], ui'.pc, NewSock', acked')
    <3>1. CASE taskq'[j] = Task(h, kind[rt.on], rt.on)
      BY <2>1, <3>1 DEF TaskInv, Task, Sending
    <3>2. CASE j \in 1..Len(taskq) /\ taskq'[j] = taskq[j]
      BY <2>2, <2>3, <3>2 DEF TasksInv, TaskInv
    <3> QED
      BY <2>4, <3>1, <3>2
  <2>6. \A w \in Worker : wk[w].task # None => TaskInv(wk[w].task, ui'.pc, NewSock', acked')
    BY <2>2, <2>3 DEF TasksInv, TaskInv, Sending
  <2> QED
    BY <2>2, <2>5, <2>6 DEF TasksInv
<1>8. ASSUME NEW w \in Worker, TakeTask(w)
      PROVE  TasksInv'
  <2>1. /\ taskq # << >> /\ taskq' = Tail(taskq) /\ UNCHANGED <<ui, acked, kind>>
        /\ \A x \in Worker : wk'[x] = IF x = w THEN [task |-> taskq[1], fd |-> -1] ELSE wk[x]
    BY <1>8 DEF TakeTask
  <2>2. ASSUME NEW task, TaskInv(task, ui.pc, NewSock, acked)
        PROVE  TaskInv(task, ui'.pc, NewSock', acked')
    BY <2>1, <2>2 DEF TaskInv, Sending, NewSock
  <2>3. \A j \in 1..Len(taskq') : j + 1 \in 1..Len(taskq) /\ taskq'[j] = taskq[j + 1]
    BY <2>1
  <2>4. 1 \in 1..Len(taskq)
    BY <2>1
  <2>5. \A j \in 1..Len(taskq') : TaskInv(taskq'[j], ui'.pc, NewSock', acked')
    BY <2>2, <2>3 DEF TasksInv
  <2>6. \A x \in Worker : wk'[x].task # None => TaskInv(wk'[x].task, ui'.pc, NewSock', acked')
    <3>1. ASSUME NEW x \in Worker, x # w, wk'[x].task # None
          PROVE  TaskInv(wk'[x].task, ui'.pc, NewSock', acked')
      BY <2>1, <2>2, <3>1 DEF TasksInv
    <3>2. wk'[w].task = taskq[1]
      BY <2>1
    <3>3. TaskInv(taskq[1], ui'.pc, NewSock', acked')
      BY <2>2, <2>4 DEF TasksInv
    <3> QED
      BY <3>1, <3>2, <3>3
  <2> QED
    BY <2>5, <2>6 DEF TasksInv
<1>9. ASSUME NEW w \in Worker,
             CompleteInitClientInfo(w) \/ Display(w) \/ SendLoad(w) \/ SendCall(w)
      PROVE  TasksInv'
  <2>1. UNCHANGED <<taskq, ui, kind, acked>>
    BY <1>9 DEF CompleteInitClientInfo, Display, SendLoad, SendCall
  <2>2. \A x \in Worker : wk'[x].task \in {wk[x].task, None}
    <3>1. CASE SendLoad(w)
      BY <3>1 DEF SendLoad
    <3>2. CASE wk' = [wk EXCEPT ![w] = Idle]
      BY <3>2 DEF Idle
    <3> QED
      BY <1>9, <3>1, <3>2 DEF CompleteInitClientInfo, Display, SendCall, Done
  <2> QED
    BY <2>1, <2>2, TasksFrame DEF NewSock
<1> QED
  BY <1>1, <1>2, <1>3, <1>4, <1>5, <1>6, <1>7, <1>8, <1>9
     DEF Next, UiStep, SwitchStep, RecvStep, WorkerStep

-----------------------------------------------------------------------------
(* The connection and the flag                                             *)

\* Whoever is between socket() and connect() is the interface thread.
LEMMA ConnStep ==
    ASSUME Before, ConnInv, Next
    PROVE  ConnInv'
<1> USE DEF Before, TypeInv, netVars, flagVars, budget
<1>0. NewSock \in Nat /\ NewSock <= MaxSwitch + 1
  BY ClientAssumption DEF NewSock, CountInv, Switching
<1>1. CASE Connect
  <2>1. /\ kind' = kind /\ ui.pc = "connect"
        /\ \E outcome \in {"up", "refused"} : conn' = [conn EXCEPT ![NewSock] = outcome]
    BY <1>1 DEF Connect
  <2>2. NewSock' = NewSock
    BY <2>1 DEF NewSock
  <2>3. NewSock > 0 => NewSock \in Sock
    BY <1>0, ClientAssumption DEF Sock
  <2> QED
    BY <2>1, <2>2, <2>3 DEF ConnInv
<1>2. CASE InitSocket
  <2>1. /\ kind' = Append(kind, socket_type) /\ socket_type \in Kind
        /\ ui'.pc # "connect" => socket_type # "tcp"
    BY <1>2, OneFd DEF InitSocket, LinkInv, FdInv, KindInv, UiAt
  <2>2. kind'[NewSock'] = socket_type
    BY <2>1 DEF NewSock
  <2> QED
    BY <2>1, <2>2 DEF ConnInv
<1>3. ASSUME UNCHANGED kind, ui.pc = "connect" => ui'.pc = "connect",
             \A s \in Sock : conn'[s] = "none" => conn[s] = "none"
      PROVE  ConnInv'
  <2>1. NewSock' = NewSock
    BY <1>3 DEF NewSock
  <2>2. NewSock > 0 => NewSock \in Sock
    BY <1>0, ClientAssumption DEF Sock
  <2> QED
    BY <1>3, <2>1, <2>2 DEF ConnInv
<1>4. CASE Network
  BY <1>3, <1>4 DEF Network, ServerAck, UdpLoss, ServerMsg, ServerClose
<1>5. CASE ChooseSwitch \/ SwitchSocketType \/ InitClientInfo \/ SendMsg
  BY <1>3, <1>5 DEF ChooseSwitch, SwitchSocketType, InitClientInfo, SendMsg
<1>6. CASE RecvMsgBySocket \/ RecvLoad \/ RecvCall \/ RecvEof \/ RecvItem
  BY <1>3, <1>6 DEF RecvMsgBySocket, RecvLoad, RecvCall, RecvEof, RecvItem
<1>7. ASSUME NEW t \in {"ui", "recv"}, Destroy(t)
      PROVE  ConnInv'
  <2>1. UNCHANGED <<kind, conn>>
    BY <1>7 DEF Destroy, DestroyCheck, DestroyReset, DestroyLoad, DestroyClose, DestroyZero
  <2>2. ui.pc # "connect" \/ ui' = ui
    BY <1>7, DestroyMoves DEF Skips, GoesOn, Closes, Zeroes, Becomes, Th
  <2> QED
    BY <1>3, <2>1, <2>2
<1>8. ASSUME NEW w \in Worker, WorkerStep(w)
      PROVE  ConnInv'
  <2>1. UNCHANGED <<kind, ui>>
    BY <1>8, LinkFrame DEF linkVars
  <2>2. conn' = conn \/ \E s : conn' = [conn EXCEPT ![s] = "reset"]
    BY <1>8 DEF WorkerStep, TakeTask, CompleteInitClientInfo, Display, SendLoad, SendCall
  <2> QED
    BY <1>3, <2>1, <2>2
<1> QED
  BY <1>1, <1>2, <1>4, <1>5, <1>6, <1>7, <1>8 DEF Next, UiStep, SwitchStep, RecvStep

\* A write to a TCP socket that connect() has not been called for kills the
\* client; in a Regular run what is sent is for the link there is, and that has
\* been through connect().
LEMMA SigpipeStep ==
    ASSUME Before, TasksInv, ConnInv, Next
    PROVE  NoSigpipe'
<1> USE DEF Before, TypeInv
<1>1. CASE proc' = proc
  BY <1>1 DEF NoSigpipe, Running
<1>2. ASSUME NEW w \in Worker, SendCall(w), Regular', \A s \in Sock : conn'[s] \in {"none", "up"},
             proc' # "up"
      PROVE  FALSE
  <2> DEFINE t == wk[w].task
             n == IF wk[w].fd \in Fd THEN fdt[wk[w].fd] ELSE 0
  <2>1. /\ n # 0 /\ kind[n] = "tcp" /\ conn[n] \in {"none", "refused", "reset"}
        /\ conn' = conn /\ Current(t.s) /\ t # None /\ Sending(t)
    BY <1>2 DEF SendCall, Doing, Sending, Regular, Running
  <2>2. n = NewSock /\ NewSock \in Nat
    BY <2>1 DEF LinkInv, TableInv, NewSock
  <2>3. NewSock \in Sock
    BY <2>1, <2>2, ClientAssumption DEF Sock, CountInv, Switching
  <2>4. conn[NewSock] = "none" /\ NewSock > 0
    BY <1>2, <2>1, <2>2, <2>3
  <2>5. ui.pc = "connect"
    BY <2>1, <2>2, <2>4 DEF ConnInv
  <2>6. t.s < NewSock
    BY <2>1, <2>5 DEF TasksInv, TaskInv
  <2>7. t.s = NewSock
    BY <2>1 DEF Current
  <2> QED
    BY <2>2, <2>6, <2>7
<1>3. ASSUME NEW w \in Worker, SendCall(w)
      PROVE  NoSigpipe'
  BY <1>2, <1>3 DEF NoSigpipe
<1>4. CASE Network \/ UiStep \/ RecvStep
  BY <1>1, <1>4
     DEF Network, ServerAck, UdpLoss, ServerMsg, ServerClose, UiStep, SwitchStep, RecvStep, ChooseSwitch,
         SendMsg, SwitchSocketType, InitSocket, Connect, InitClientInfo, RecvMsgBySocket, RecvLoad,
         RecvCall, RecvEof, RecvItem, Destroy, DestroyCheck, DestroyReset, DestroyLoad, DestroyClose,
         DestroyZero
<1>5. ASSUME NEW w \in Worker, WorkerStep(w)
      PROVE  NoSigpipe'
  BY <1>1, <1>3, <1>5 DEF WorkerStep, TakeTask, CompleteInitClientInfo, Display, SendLoad
<1> QED
  BY <1>4, <1>5 DEF Next

\* A link stays the present one until the flag is cleared.
LEMMA CurrentKept ==
    ASSUME Before, Next, Regular', \A t \in {"ui", "recv"} : ~DestroyReset(t)
    PROVE  lingering' = lingering /\ \A s : Current(s) => Current(s)'
<1> USE DEF Before, TypeInv, budget
<1> DEFINE Goal == lingering' = lingering /\ \A s : Current(s) => Current(s)'
<1>1. ASSUME UNCHANGED <<ui, rt, kind, fdt, lingering>> PROVE Goal
  BY <1>1 DEF Current, Leaving, Open, NewSock
<1>2. ASSUME UNCHANGED <<kind, fdt, lingering>>, Leaving' => Leaving PROVE Goal
  BY <1>2 DEF Current, Open, NewSock
<1>3. ASSUME \A s : ~Current(s), lingering' = lingering PROVE Goal
  BY <1>3
<1>4. CASE Network \/ SendMsg
  BY <1>1, <1>4 DEF Network, ServerAck, UdpLoss, ServerMsg, ServerClose, SendMsg, flagVars
<1>5. ASSUME NEW w \in Worker, WorkerStep(w) PROVE Goal
  BY <1>1, <1>5 DEF WorkerStep, TakeTask, CompleteInitClientInfo, Display, SendLoad, SendCall, flagVars
<1>6. CASE RecvMsgBySocket \/ RecvLoad \/ RecvCall \/ RecvEof \/ RecvItem
  <2>1. /\ UNCHANGED <<kind, fdt, ui, lingering>>
        /\ rt'.pc \notin {"load", "close", "zero", "init"}
    <3> USE DEF RtType, Top, flagVars
    <3>1. CASE RecvMsgBySocket
      BY <3>1 DEF RecvMsgBySocket
    <3>2. CASE RecvLoad
      BY <3>2 DEF RecvLoad
    <3>3. CASE RecvCall
      BY <3>3 DEF RecvCall
    <3>4. CASE RecvEof
      BY <3>4 DEF RecvEof
    <3>5. CASE RecvItem
      BY <3>5 DEF RecvItem
    <3> QED
      BY <1>6, <3>1, <3>2, <3>3, <3>4, <3>5
  <2> QED
    BY <1>2, <2>1 DEF Leaving
<1>7. CASE ChooseSwitch \/ SwitchSocketType \/ Connect \/ InitClientInfo
  <2>1. UNCHANGED <<kind, fdt, rt, lingering>>
    BY <1>7 DEF ChooseSwitch, SwitchSocketType, Connect, InitClientInfo, flagVars
  <2>2. ui'.pc \notin {"load", "close", "zero", "init"}
    <3>1. CASE ChooseSwitch
      BY <3>1 DEF ChooseSwitch, UiAt
    <3>2. CASE SwitchSocketType
      BY <3>2 DEF SwitchSocketType, UiType
    <3>3. CASE Connect
      BY <3>3 DEF Connect, UiAt
    <3>4. CASE InitClientInfo
      BY <3>4 DEF InitClientInfo, UiAt
    <3> QED
      BY <1>7, <3>1, <3>2, <3>3, <3>4
  <2> QED
    BY <1>2, <2>1, <2>2 DEF Leaving
<1>8. CASE InitSocket
  BY <1>3, <1>8 DEF InitSocket, Current, Leaving, flagVars
<1>9. ASSUME NEW t \in {"ui", "recv"}, Destroy(t) PROVE Goal
  <2>1. CASE DestroyCheck(t)
    <3>1. UNCHANGED <<kind, fdt, lingering>>
      BY <2>1 DEF DestroyCheck
    <3>2. CASE CHECK_FD(fd[Th(t).k]) \/ t = "recv"
      <4>1. ui'.pc = ui.pc \/ ui'.pc = "reset"
        BY <2>1, <3>2 DEF DestroyCheck, Becomes, Th, UiType
      <4>2. rt'.pc \in {rt.pc, "reset", "top"}
        BY <2>1, <3>2 DEF DestroyCheck, Becomes, Th, After, Top, RtType
      <4> QED
        BY <1>2, <3>1, <4>1, <4>2 DEF Leaving
    <3>3. CASE ~CHECK_FD(fd[ui.k]) /\ t = "ui"
      <4>1. \A k \in Kind : fd[k] = 0
        BY <2>1, <3>3, OneFd DEF DestroyCheck, Th, UiType, LinkInv, FdInv, Destroying
      <4>2. NewSock \notin Open
        BY <4>1, OneFd DEF LinkInv, TableInv, Open
      <4> QED
        BY <1>3, <3>1, <4>2 DEF Current
    <3> QED
      BY <3>2, <3>3 DEF Th
  <2>2. CASE DestroyLoad(t) \/ DestroyClose(t) \/ DestroyZero(t)
    <3>1. Leaving
      BY <2>2 DEF DestroyLoad, DestroyClose, DestroyZero, Leaving, Th
    <3> QED
      BY <1>3, <2>2, <3>1 DEF DestroyLoad, DestroyClose, DestroyZero, flagVars, Current
  <2> QED
    BY <1>9, <2>1, <2>2 DEF Destroy
<1> QED
  BY <1>4, <1>5, <1>6, <1>7, <1>8, <1>9 DEF Next, UiStep, SwitchStep, RecvStep

\* What comes has been coming, unless recv() has just begun to wait.
LEMMA ComingStep ==
    ASSUME Before, Next, NEW s, Coming(s)'
    PROVE  Coming(s) \/ (RecvCall /\ rt'.pc = "blocked" /\ rt'.on = s)
<1> USE DEF Before, TypeInv, budget
<1> DEFINE Waits == rt'.pc = "blocked" /\ rt'.on = s => rt.pc = "blocked" /\ rt.on = s
           Tasks == \A j \in 1..Len(taskq') : taskq'[j].h = "complete" /\ taskq'[j].s = s => Coming(s)
           Hands == \A w \in Worker : wk'[w].task # None /\ wk'[w].task.h = "complete" /\ wk'[w].task.s = s
                                        => Coming(s)
<1>1. ASSUME Waits, Tasks, Hands PROVE Coming(s)
  BY <1>1 DEF Coming
<1>2. ASSUME taskq' = taskq PROVE Tasks
  BY <1>2 DEF Coming
<1>3. ASSUME wk' = wk PROVE Hands
  BY <1>3 DEF Coming
<1>4. CASE Network \/ ChooseSwitch \/ SwitchSocketType \/ InitSocket \/ Connect
  <2>1. UNCHANGED <<taskq, wk, rt>>
    BY <1>4 DEF Network, ServerAck, UdpLoss, ServerMsg, ServerClose, ChooseSwitch, SwitchSocketType,
                InitSocket, Connect
  <2> QED
    BY <2>1 DEF Coming
<1>5. CASE SendMsg \/ InitClientInfo
  <2>1. /\ UNCHANGED <<wk, rt>> /\ ui.pc \in {"try", "menu"}
        /\ taskq' = taskq \/ \E h \in {"save", "data"} : taskq' = Append(taskq, Task(h, socket_type, NewSock))
    BY <1>5 DEF SendMsg, InitClientInfo, SendMsgBySocket
  <2>2. ASSUME NEW h \in {"save", "data"}, taskq' = Append(taskq, Task(h, socket_type, NewSock))
        PROVE  Tasks
    <3>1. \A j \in 1..Len(taskq') : taskq'[j] = Task(h, socket_type, NewSock)
                                    \/ (j \in 1..Len(taskq) /\ taskq'[j] = taskq[j])
      BY <2>2
    <3>2. Task(h, socket_type, NewSock).h # "complete"
      BY <2>2 DEF Task
    <3> QED
      BY <3>1, <3>2 DEF Coming
  <2> QED
    BY <1>1, <1>2, <1>3, <2>1, <2>2
<1>6. ASSUME NEW t \in {"ui", "recv"}, Destroy(t) PROVE Coming(s)
  <2>1. UNCHANGED <<taskq, wk>>
    BY <1>6 DEF Destroy, DestroyCheck, DestroyReset, DestroyLoad, DestroyClose, DestroyZero
  <2>2. rt' = rt \/ rt'.pc # "blocked"
    <3> USE DEF Becomes, Th, After, Top, RtType
    <3>1. CASE Skips(t)
      BY <3>1 DEF Skips
    <3>2. CASE GoesOn(t)
      BY <3>2 DEF GoesOn
    <3>3. CASE Closes(t)
      BY <3>3 DEF Closes
    <3>4. CASE Zeroes(t)
      BY <3>4 DEF Zeroes
    <3> QED
      BY <1>6, <3>1, <3>2, <3>3, <3>4, DestroyMoves
  <2> QED
    BY <1>1, <1>2, <1>3, <2>1, <2>2
<1>7. CASE RecvMsgBySocket \/ RecvLoad \/ RecvEof
  <2>1. UNCHANGED <<taskq, wk>> /\ rt'.pc # "blocked"
    <3>1. CASE RecvMsgBySocket
      BY <3>1 DEF RecvMsgBySocket, RtType
    <3>2. CASE RecvLoad
      BY <3>2 DEF RecvLoad, RtType
    <3>3. CASE RecvEof
      BY <3>3 DEF RecvEof, Top
    <3> QED
      BY <1>7, <3>1, <3>2, <3>3
  <2> QED
    BY <1>1, <1>2, <1>3, <2>1
<1>8. CASE RecvCall
  <2>1. UNCHANGED <<taskq, wk>>
    BY <1>8 DEF RecvCall
  <2> QED
    BY <1>1, <1>2, <1>3, <1>8, <2>1
<1>9. CASE RecvItem
  <2>1. rt.pc = "blocked" /\ rt'.pc # "blocked" /\ wk' = wk
    BY <1>9 DEF RecvItem, Top
  <2>2. PICK h \in {"complete", "display"} : taskq' = Append(taskq, Task(h, kind[rt.on], rt.on))
    BY <1>9 DEF RecvItem
  <2>3. \A j \in 1..Len(taskq') : taskq'[j] = Task(h, kind[rt.on], rt.on)
                                  \/ (j \in 1..Len(taskq) /\ taskq'[j] = taskq[j])
    BY <2>2
  <2>4. Tasks
    BY <2>1, <2>3 DEF Coming, Task
  <2> QED
    BY <1>1, <1>3, <2>1, <2>4
<1>10. ASSUME NEW w \in Worker, TakeTask(w) PROVE Coming(s)
  <2>1. /\ taskq # << >> /\ taskq' = Tail(taskq) /\ rt' = rt
        /\ \A x \in Worker : wk'[x] = IF x = w THEN [task |-> taskq[1], fd |-> -1] ELSE wk[x]
    BY <1>10 DEF TakeTask
  <2>2. \A j \in 1..Len(taskq') : j + 1 \in 1..Len(taskq) /\ taskq'[j] = taskq[j + 1]
    BY <2>1
  <2>3. 1 \in 1..Len(taskq)
    BY <2>1
  <2>4. Tasks
    BY <2>2 DEF Coming
  <2>5. ASSUME NEW x \in Worker, wk'[x].task # None, wk'[x].task.h = "complete", wk'[x].task.s = s
        PROVE  Coming(s)
    <3>1. CASE x = w
      <4>1. wk'[x].task = taskq[1]
        BY <2>1, <3>1
      <4> QED
        BY <2>3, <2>5, <4>1 DEF Coming
    <3>2. CASE x # w
      <4>1. wk'[x] = wk[x]
        BY <2>1, <3>2
      <4> QED
        BY <2>5, <4>1 DEF Coming
    <3> QED
      BY <3>1, <3>2
  <2> QED
    BY <1>1, <2>1, <2>4, <2>5
<1>11. ASSUME NEW w \in Worker, CompleteInitClientInfo(w) \/ Display(w) \/ SendLoad(w) \/ SendCall(w)
       PROVE  Coming(s)
  <2>1. UNCHANGED <<taskq, rt>>
    BY <1>11 DEF CompleteInitClientInfo, Display, SendLoad, SendCall
  <2>2. \A x \in Worker : wk'[x].task \in {wk[x].task, None}
    <3>1. CASE SendLoad(w)
      BY <3>1 DEF SendLoad
    <3>2. CASE wk' = [wk EXCEPT ![w] = Idle]
      BY <3>2 DEF Idle
    <3> QED
      BY <1>11, <3>1, <3>2 DEF CompleteInitClientInfo, Display, SendCall, Done
  <2>3. Hands
    BY <2>2 DEF Coming
  <2> QED
    BY <1>1, <1>2, <2>1, <2>3
<1> QED
  BY <1>4, <1>5, <1>6, <1>7, <1>8, <1>9, <1>10, <1>11
     DEF Next, UiStep, SwitchStep, RecvStep, WorkerStep

\* The socket recv() begins to wait on is the present one, or the flag was cleared
\* when the thread was on its way to it.
LEMMA WaitsOnPresent ==
    ASSUME Before, VouchInv, RecvCall, Regular', rt'.pc = "blocked"
    PROVE  Current(rt'.on) \/ rt'.on \in lingering
<1> USE DEF Before, TypeInv
<1>1. rt.pc = "call" /\ rt.fd = fd[rt.k] /\ rt.k \in Kind
  BY DEF RecvCall, Regular, RtType
<1>2. rt.fd \in Fd /\ rt'.on = fdt[rt.fd] /\ fdt[rt.fd] # 0
  BY DEF RecvCall, Top, RtType
<1>3. fd[rt.k] # 0
  BY <1>1, <1>2, OneFd
<1>4. "zero" \notin {ui.pc, rt.pc} /\ rt'.on = NewSock
  BY <1>1, <1>2, <1>3 DEF LinkInv, TableInv
<1>5. NewSock \in Open
  BY <1>2, <1>4 DEF Open
<1>6. CASE Leaving
  <2>1. ui.pc \in {"load", "close", "init"}
    BY <1>1, <1>4, <1>6 DEF Leaving
  <2>2. fd[socket_type] = 0
    BY <2>1 DEF LinkInv, FdInv, Destroying
  <2>3. ui.pc \in {"load", "close"} /\ ui.k = rt.k
    BY <1>1, <1>3, <2>1, <2>2 DEF LinkInv, FdInv, Destroying
  <2> QED
    BY <1>1, <1>4, <2>3 DEF VouchInv
<1> QED
  BY <1>4, <1>5, <1>6 DEF Current

\* The interface thread is past the reset only when it was, or comes from it.
LEMMA UiAtLoad ==
    ASSUME Before, Next, \A t \in {"ui", "recv"} : ~DestroyReset(t), ui'.pc \in {"load", "close"}
    PROVE  ui.pc \in {"load", "close"} /\ ui'.k = ui.k /\ kind' = kind
<1> USE DEF Before, TypeInv
<1>1. CASE UNCHANGED linkVars
  BY <1>1 DEF linkVars
<1>2. CASE RecvMsgBySocket \/ RecvLoad \/ RecvCall \/ RecvEof \/ RecvItem
  BY <1>2 DEF RecvMsgBySocket, RecvLoad, RecvCall, RecvEof, RecvItem
<1>3. CASE ChooseSwitch \/ SwitchSocketType \/ InitSocket \/ Connect \/ InitClientInfo
  <2>1. ui'.pc \notin {"load", "close"}
    <3>1. CASE ChooseSwitch
      BY <3>1 DEF ChooseSwitch, UiAt
    <3>2. CASE SwitchSocketType
      BY <3>2 DEF SwitchSocketType, UiType
    <3>3. CASE InitSocket
      BY <3>3 DEF InitSocket, UiAt
    <3>4. CASE Connect
      BY <3>4 DEF Connect, UiAt
    <3>5. CASE InitClientInfo
      BY <3>5 DEF InitClientInfo, UiAt
    <3> QED
      BY <1>3, <3>1, <3>2, <3>3, <3>4, <3>5
  <2> QED
    BY <2>1
<1>4. CASE Destroy("recv")
  BY <1>4 DEF Destroy, DestroyCheck, DestroyReset, DestroyLoad, DestroyClose, DestroyZero, Becomes
<1>5. CASE Destroy("ui")
  <2>1. DestroyLoad("ui")
    <3>0. UiAt("init", 0).pc = "init" /\ \A pc : [ui EXCEPT !.pc = pc].pc = pc
      BY DEF UiAt, UiType
    <3>1. ~DestroyCheck("ui")
      <4>1. ASSUME DestroyCheck("ui") PROVE ui'.pc \in {"reset", "init"}
        BY <3>0, <4>1 DEF DestroyCheck, Becomes, Th, After
      <4> QED
        BY <4>1
    <3>2. ~DestroyClose("ui")
      BY <3>0 DEF DestroyClose, Becomes, Th
    <3>3. ~DestroyZero("ui")
      <4>1. ASSUME DestroyZero("ui") PROVE ui'.pc = "init"
        BY <3>0, <4>1 DEF DestroyZero, Becomes, After
      <4> QED
        BY <4>1
    <3> QED
      BY <1>5, <3>1, <3>2, <3>3 DEF Destroy
  <2> QED
    BY <2>1 DEF DestroyLoad, Becomes, Th, UiType
<1> QED
  BY <1>1, <1>2, <1>3, <1>4, <1>5, LinkFrame DEF Next, UiStep, SwitchStep, RecvStep

\* And while it is there the receiving thread does not set out for the old link.
LEMMA RtAtCall ==
    ASSUME Before, Next, ui.pc \in {"load", "close"}, ui'.k = ui.k,
           rt'.pc \in {"arg", "call"}, rt'.k = ui'.k
    PROVE  rt.pc \in {"arg", "call"} /\ rt.k = rt'.k
<1> USE DEF Before, TypeInv
<1>1. CASE UNCHANGED linkVars
  BY <1>1 DEF linkVars
<1>2. CASE ChooseSwitch \/ SwitchSocketType \/ InitSocket \/ Connect \/ InitClientInfo \/ Destroy("ui")
  BY <1>2 DEF ChooseSwitch, SwitchSocketType, InitSocket, Connect, InitClientInfo, Destroy, DestroyCheck,
              DestroyReset, DestroyLoad, DestroyClose, DestroyZero, Becomes
<1>3. CASE RecvMsgBySocket
  BY <1>3 DEF RecvMsgBySocket, LinkInv, KindInv, Destroying, RtType
<1>4. CASE RecvLoad
  BY <1>4 DEF RecvLoad, RtType
<1>5. CASE RecvCall \/ RecvEof \/ RecvItem
  <2>1. rt'.pc \notin {"arg", "call"}
    <3>1. CASE RecvCall
      BY <3>1 DEF RecvCall, Top, RtType
    <3>2. CASE RecvEof
      BY <3>2 DEF RecvEof, Top
    <3>3. CASE RecvItem
      BY <3>3 DEF RecvItem, Top
    <3> QED
      BY <1>5, <3>1, <3>2, <3>3
  <2> QED
    BY <2>1
<1>6. CASE Destroy("recv")
  <2>1. rt'.pc \notin {"arg", "call"}
    <3> USE DEF Becomes, Th, After, Top, RtType
    <3>1. CASE Skips("recv")
      BY <3>1 DEF Skips
    <3>2. CASE GoesOn("recv")
      BY <3>2 DEF GoesOn
    <3>3. CASE Closes("recv")
      BY <3>3 DEF Closes
    <3>4. CASE Zeroes("recv")
      BY <3>4 DEF Zeroes
    <3> QED
      BY <1>6, <3>1, <3>2, <3>3, <3>4, DestroyMoves
  <2> QED
    BY <2>1
<1> QED
  BY <1>1, <1>2, <1>3, <1>4, <1>5, <1>6, LinkFrame DEF Next, UiStep, SwitchStep, RecvStep

\* What is coming when the flag is cleared is noted, and nothing else comes to be
\* without being of the present link.
LEMMA VouchStep ==
    ASSUME Before, VouchInv, Next, Regular'
    PROVE  VouchInv'
<1> USE DEF Before, TypeInv
<1>0. NewSock \in Nat
  BY DEF NewSock
<1>1. ASSUME NEW t \in {"ui", "recv"}, DestroyReset(t) PROVE VouchInv'
  <2>1. /\ UNCHANGED <<taskq, wk, kind, fd, fdt>> /\ Th(t).pc = "reset"
        /\ lingering' = {s \in 1..NewSock : Underway(s, Th(t).k)}
        /\ Becomes(t, [Th(t) EXCEPT !.pc = "load"])
    BY <1>1 DEF DestroyReset, Leave
  <2>2. /\ t = "ui" => rt' = rt /\ ui'.k = ui.k /\ ui.pc = "reset"
        /\ t = "recv" => ui' = ui /\ rt'.pc = "load" /\ rt.pc = "reset"
    BY <2>1 DEF Becomes, Th, UiType, RtType
  <2>3. ASSUME NEW s, Coming(s)' PROVE s \in lingering'
    <3>1. Coming(s)
      BY <2>1, <2>2, <2>3 DEF Coming
    <3>2. CASE \E j \in 1..Len(taskq) : taskq[j].h = "complete" /\ taskq[j].s = s
      <4>1. PICK j \in 1..Len(taskq) : taskq[j].h = "complete" /\ taskq[j].s = s
        BY <3>2
      <4>2. taskq[j] \in TaskType /\ taskq[j] \in Range(taskq)
        BY <4>1 DEF Range
      <4>3. s \in 1..NewSock
        BY <4>1, <4>2 DEF TaskType
      <4>4. Underway(s, Th(t).k)
        BY <4>1, <4>2 DEF Underway
      <4> QED
        BY <2>1, <4>3, <4>4
    <3>3. CASE \E w \in Worker : wk[w].task # None /\ wk[w].task.h = "complete" /\ wk[w].task.s = s
      <4>1. PICK w \in Worker : wk[w].task # None /\ wk[w].task.h = "complete" /\ wk[w].task.s = s
        BY <3>3
      <4>2. s \in 1..NewSock
        BY <4>1 DEF TaskType
      <4>3. Underway(s, Th(t).k)
        BY <4>1 DEF Underway
      <4> QED
        BY <2>1, <4>2, <4>3
    <3>4. CASE rt.pc = "blocked" /\ rt.on = s
      <4>1. s \in 1..NewSock
        BY <1>0, <3>4 DEF RtType, LinkInv, KindInv
      <4>2. Underway(s, Th(t).k)
        BY <3>4 DEF Underway
      <4> QED
        BY <2>1, <4>1, <4>2
    <3> QED
      BY <3>1, <3>2, <3>3, <3>4 DEF Coming
  <2>4. ASSUME ui'.pc \in {"load", "close"}, rt'.pc \in {"arg", "call"}, rt'.k = ui'.k
        PROVE  NewSock' \in lingering'
    <3>1. t = "ui"
      BY <2>2, <2>4
    <3>2. fd[ui.k] # 0 /\ ui.k \in Kind
      BY <2>2, <3>1 DEF LinkInv, DestroyInv, Destroying, UiType
    <3>3. NewSock \in 1..NewSock
      BY <1>0, <3>2 DEF LinkInv, TableInv
    <3>4. Underway(NewSock, Th(t).k)
      BY <2>2, <2>4, <3>1 DEF Underway, Th
    <3>5. NewSock' = NewSock
      BY <2>1 DEF NewSock
    <3> QED
      BY <2>1, <3>3, <3>4, <3>5
  <2> QED
    BY <2>3, <2>4 DEF VouchInv
<1>2. ASSUME \A t \in {"ui", "recv"} : ~DestroyReset(t) PROVE VouchInv'
  <2>1. lingering' = lingering /\ \A s : Current(s) => Current(s)'
    BY <1>2, CurrentKept
  <2>2. ASSUME NEW s \in Sock, Coming(s)' PROVE Current(s)' \/ s \in lingering'
    BY <2>1, <2>2, ComingStep, WaitsOnPresent DEF VouchInv
  <2>3. ASSUME ui'.pc \in {"load", "close"}, rt'.pc \in {"arg", "call"}, rt'.k = ui'.k
        PROVE  NewSock' \in lingering'
    <3>1. ui.pc \in {"load", "close"} /\ ui'.k = ui.k /\ kind' = kind
      BY <1>2, <2>3, UiAtLoad
    <3>2. rt.pc \in {"arg", "call"} /\ rt.k = rt'.k
      BY <2>3, <3>1, RtAtCall
    <3> QED
      BY <2>1, <2>3, <3>1, <3>2 DEF VouchInv, NewSock
  <2> QED
    BY <2>2, <2>3 DEF VouchInv
<1> QED
  BY <1>1, <1>2

\* The flag that is set in time is cleared before its link goes.
LEMMA FlagStep ==
    ASSUME Before, VouchInv, FlagInv, TasksInv, Next, Regular'
    PROVE  FlagInv'
<1> USE DEF Before, TypeInv
<1>1. ASSUME NEW t \in {"ui", "recv"}, DestroyReset(t) PROVE FlagInv'
  BY <1>1 DEF DestroyReset, FlagInv
<1>2. ASSUME \A t \in {"ui", "recv"} : ~DestroyReset(t) PROVE FlagInv'
  <2>1. lingering' = lingering /\ \A s : Current(s) => Current(s)'
    BY <1>2, CurrentKept
  <2>2. ASSUME NEW w \in Worker, CompleteInitClientInfo(w) PROVE FlagInv'
    <3> DEFINE s == wk[w].task.s
    <3>1. /\ wk[w].task # None /\ wk[w].task.h = "complete" /\ acked' = acked
          /\ flagBy' = [s |-> s, late |-> ~Current(s)]
      BY <2>2 DEF CompleteInitClientInfo, Doing
    <3>2. s \in acked
      BY <3>1 DEF TasksInv, TaskInv
    <3>3. s \in Sock
      <4>1. NewSock \in Nat
        BY DEF NewSock
      <4>2. acked \subseteq 1..NewSock
        OBVIOUS
      <4>3. NewSock <= MaxSwitch + 1
        BY <4>1, ClientAssumption DEF CountInv
      <4>4. 1..NewSock \subseteq Sock
        BY <4>1, <4>3, ClientAssumption DEF Sock
      <4> QED
        BY <3>2, <4>2, <4>4
    <3>4. Current(s) \/ s \in lingering
      BY <3>1, <3>3 DEF VouchInv, Coming
    <3>5. flagBy'.s = s /\ (flagBy'.late <=> ~Current(s))
      BY <3>1
    <3> QED
      BY <2>1, <3>1, <3>2, <3>4, <3>5 DEF FlagInv
  <2>3. ASSUME UNCHANGED <<init_cli_info, flagBy>>, acked \subseteq acked' PROVE FlagInv'
    BY <2>1, <2>3 DEF FlagInv
  <2>4. CASE \A w \in Worker : ~CompleteInitClientInfo(w)
    <3>1. UNCHANGED <<init_cli_info, flagBy>> /\ acked \subseteq acked'
      BY <1>2, <2>4 DEF Next, UiStep, SwitchStep, RecvStep, WorkerStep, Network, flagVars,
         ServerAck, UdpLoss, ServerMsg, ServerClose, ChooseSwitch, SwitchSocketType, InitSocket, Connect,
         InitClientInfo, SendMsg, RecvMsgBySocket, RecvLoad, RecvCall, RecvEof, RecvItem, TakeTask, Display,
         SendLoad, SendCall, Destroy, DestroyCheck, DestroyLoad, DestroyClose, DestroyZero
    <3> QED
      BY <2>3, <3>1
  <2> QED
    BY <2>2, <2>4
<1> QED
  BY <1>1, <1>2

-----------------------------------------------------------------------------
(* The theorems                                                            *)

\* The invariant holds at first, and every step keeps it.
LEMMA InitInv == Init => IndInv
<1> SUFFICES ASSUME Init PROVE IndInv
  OBVIOUS
<1> USE DEF Init
<1>1. NewSock = 0
  BY DEF NewSock
<1>2. ui \in UiType /\ rt \in RtType /\ ui.pc = "switch" /\ rt.pc = "top"
  BY <1>1 DEF UiType, RtType, UiAt, Top, Kind
<1>3. TypeInv
  <2>1. taskq \in Seq(TaskType) /\ kind \in Seq(Kind)
    OBVIOUS
  <2>2. rx \in [Sock -> Seq({"ack", "msg", "EOF"})]
    OBVIOUS
  <2>3. wk \in [Worker -> [task : TaskType \cup {None}, fd : Fd \cup {-1, 0}]]
    BY DEF Idle
  <2>4. fd \in [Kind -> Fd \cup {0}] /\ fdt \in [Fd -> 0..NewSock]
    BY <1>1
  <2>5. flagBy \in FlagType
    BY <1>1 DEF FlagType, Nobody
  <2> QED
    BY <1>1, <1>2, <2>1, <2>2, <2>3, <2>4, <2>5, ClientAssumption DEF TypeInv, Kind
<1>4. CountInv
  BY <1>1, <1>2, ClientAssumption DEF CountInv, Switching
<1>5. LinkInv
  BY <1>2 DEF LinkInv, KindInv, FdInv, DestroyInv, TableInv, Destroying
<1>6. TasksInv
  BY DEF TasksInv, Idle
<1>7. ConnInv /\ FlagInv /\ NoSigpipe
  BY <1>1 DEF ConnInv, FlagInv, NoSigpipe
<1>8. VouchInv
  BY <1>2 DEF VouchInv, Coming, Idle
<1> QED
  BY <1>3, <1>4, <1>5, <1>6, <1>7, <1>8 DEF IndInv

LEMMA NextInv == IndInv /\ [Next]_vars => IndInv'
<1> SUFFICES ASSUME IndInv, [Next]_vars PROVE IndInv'
  OBVIOUS
<1>1. CASE Next
  <2>1. Before /\ TasksInv /\ ConnInv /\ VouchInv /\ FlagInv
    BY <1>1 DEF Next, IndInv, Before, Running
  <2> QED
    BY <1>1, <2>1, TypeStep, CountStep, LinkStep, TasksStep, ConnStep, SigpipeStep,
       VouchStep, FlagStep DEF IndInv
<1>2. CASE UNCHANGED vars
  <2> USE <1>2 DEF vars, IndInv, NewSock
  <2>1. TypeInv'
    BY DEF TypeInv, TaskType, UiType, RtType, FlagType
  <2>2. CountInv' /\ stdin' = TRUE /\ NoSigpipe'
    BY DEF CountInv, Switching, NoSigpipe, Regular
  <2>3. LinkInv => LinkInv'
    BY DEF LinkInv, KindInv, FdInv, DestroyInv, TableInv
  <2>4. TasksInv => TasksInv'
    BY DEF TasksInv
  <2>5. ConnInv /\ FlagInv => ConnInv' /\ FlagInv'
    BY DEF ConnInv, FlagInv, Current, Leaving, Open
  <2>6. VouchInv => VouchInv'
    BY DEF VouchInv, Coming, Current, Leaving, Open
  <2> QED
    BY <2>1, <2>2, <2>3, <2>4, <2>5, <2>6 DEF Regular
<1> QED
  BY <1>1, <1>2

\* The inductive invariant holds throughout.
THEOREM Invariance == Spec => []IndInv
  BY InitInv, NextInv, PTL DEF Spec

\* The types as the model states them.
LEMMA Types == IndInv => TypeOK
<1> SUFFICES ASSUME IndInv PROVE TypeOK
  OBVIOUS
<1> USE DEF IndInv, TypeInv
<1>1. \A s \in Sock : Range(rx[s]) \subseteq {"ack", "msg", "EOF"}
  BY DEF Range
<1>2. Range(taskq) \subseteq TaskType
  BY DEF Range
<1>3. NewSock <= MaxSwitch + 1
  BY ClientAssumption DEF CountInv, NewSock
<1> QED
  BY <1>1, <1>2, <1>3 DEF TypeOK, TaskType, UiType, RtType, FlagType

\* Whenever the user is asked, the client has one open socket, the one its
\* variables name, of the type it shows, and its standard input; and a client
\* whose server accepts it and stays is not killed by its own writes.
\* (client_socket.c:72-97; client_tcp.c:39-68)
THEOREM OneLinkOpen == Spec => []OneLink
<1>1. IndInv => OneLink
  <2> SUFFICES ASSUME IndInv PROVE OneLink
    OBVIOUS
  <2>1. TypeOK /\ NoSigpipe /\ stdin
    BY Types DEF IndInv
  <2>2. ASSUME Regular, ui.pc = "menu", rt.pc \notin Destroying
        PROVE  /\ fd = [k \in Kind |-> IF k = socket_type THEN fd[k] ELSE 0]
               /\ Open = {fdt[n] : n \in {fd[socket_type]} \ {0}}
               /\ socket_type = "udp" => Open = {NewSock}
    <3> USE DEF IndInv, TypeInv, LinkInv
    <3>1. socket_type \in Kind /\ \A k \in Kind : k # socket_type => fd[k] = 0
      BY <2>2 DEF KindInv, FdInv, Destroying
    <3>2. "zero" \notin {ui.pc, rt.pc}
      BY <2>2 DEF Destroying
    <3> TableInv
      BY <2>2
    <3>3. CASE fd[socket_type] = 0
      <4>1. Open = {}
        <5>1. \A f \in Fd : f # 0
          BY ClientAssumption
        <5>2. \A k \in Kind : fd[k] = 0
          BY <3>1, <3>3
        <5>3. \A f \in Fd : fdt[f] = 0
          BY <5>1, <5>2 DEF TableInv
        <5> QED
          BY <5>3 DEF Open
      <4>2. socket_type # "udp"
        BY <2>2, <3>3 DEF FdInv
      <4> QED
        BY <3>1, <3>3, <4>1, <4>2
    <3>4. CASE fd[socket_type] # 0
      <4>1. /\ fd[socket_type] \in Fd /\ fdt[fd[socket_type]] = NewSock /\ NewSock # 0
        <5>1. fd[socket_type] \in Fd
          BY <3>1, <3>4
        <5>2. NewSock > 0 /\ fdt[fd[socket_type]] = NewSock
          BY <3>1, <3>2, <3>4 DEF TableInv
        <5> QED
          BY <5>1, <5>2 DEF NewSock
      <4>2. \A f \in Fd : fdt[f] \in {0, NewSock}
        BY DEF TableInv
      <4>3. Open = {NewSock}
        <5>1. Open \subseteq {NewSock}
          BY <4>2 DEF Open
        <5>2. NewSock \in Open
          BY <4>1 DEF Open
        <5> QED
          BY <5>1, <5>2
      <4> QED
        BY <3>1, <3>4, <4>1, <4>3
    <3> QED
      BY <3>3, <3>4
  <2> QED
    BY <2>1, <2>2 DEF OneLink
<1> QED
  BY <1>1, Invariance, PTL

\* When init_cli_info is set, the server's acknowledgement was read: of the present
\* link, which is open, or of one that was left before the flag was set for it and
\* whose acknowledgement was inside the client, or the receiving thread at its
\* socket, when the flag was cleared.
\* (client_tcp.c:53-55, client_udp.c:43-45, client_socket.c:168-177)
THEOREM FlagIsTrue == Spec => []FlagTruthful
<1>1. IndInv => FlagTruthful
  BY DEF IndInv, FlagInv, FlagTruthful, Current
<1> QED
  BY <1>1, Invariance, PTL

=============================================================================
