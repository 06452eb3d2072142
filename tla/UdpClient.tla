----------------------------- MODULE UdpClient -----------------------------
(***************************************************************************)
(* The UDP client of work_srcs/socket_udp/client: the interface thread,    *)
(* which registers and then sends what the user types, the thread that     *)
(* receives, and the handlers the pool runs for both.                      *)
(*                                                                         *)
(* The server and the network are external: the server acknowledges every  *)
(* registration it gets, and datagrams are lost and overtake each other.   *)
(* The pool is used through TaskPool's promise.                            *)
(*                                                                         *)
(* Buffers are modelled as the code uses them: who allocates one, copies   *)
(* it, hands it over and frees it.  A message is its type, an identity and *)
(* a destination; malloc does not fail.  RxData and RxBuf, which no other  *)
(* thread sees, are left out.                                              *)
(***************************************************************************)
EXTENDS Integers, Sequences, FiniteSets, SequencesExt

CONSTANTS
    Worker,        \* the pool's threads
    Tries,         \* how often the interface thread looks at the flag (5)
    Line,          \* the lines the user types, each once: a bound
    Note,          \* the messages from other clients, again only after one was lost: a bound
    End,           \* the end ids a user may choose, the server's included
    None           \* no task

ASSUME NamesAssumption ==
    /\ Tries \in Nat \ {0}
    /\ None \notin End /\ Note \cap (1..Tries) = {}
    /\ IsFiniteSet(Worker)

VARIABLES
    pc,            \* the interface thread
    Index,         \* its counter
    dest,          \* remoteEndID while the user types
    boolInitCliInfo,
    mem,           \* the allocated buffers, and what each holds
    taskq,         \* the pool's queue
    wk,            \* the task each pool thread is at
    up, down,      \* the datagrams on their way to and from the server
    rx,            \* what has arrived at udpFd and is not read
    registered,    \* the server has this client's address
    typed,         \* history: the messages the user typed
    sent,          \* history: what sendto() was given, in order
    shown          \* history: the messages displayed

vars == <<pc, Index, dest, boolInitCliInfo, mem, taskq, wk, up, down, rx, registered, typed, sent,
          shown>>

Msg(type, id, to) == [type |-> type, id |-> id, to |-> to]
Buf(of, id) == <<of, id>>
TxBuf == Buf("TxBuf", 0)

malloc(b, c) == mem' = [x \in DOMAIN mem \cup {b} |-> IF x = b THEN c ELSE mem[x]]
free(b) == mem' = [x \in DOMAIN mem \ {b} |-> mem[x]]

\* AddTaskToPool of the client's pool
AddTask(Handler, arg) == taskq' = Append(taskq, [Handler |-> Handler, arg |-> arg])

Init ==
    /\ pc = "look" /\ Index = 0 /\ dest = None
    /\ boolInitCliInfo = FALSE
    /\ mem = [b \in {} |-> None]
    /\ taskq = << >>
    /\ wk = [w \in Worker |-> None]
    /\ up = {} /\ down = {} /\ rx = << >>
    /\ registered = FALSE
    /\ typed = {} /\ sent = << >> /\ shown = << >>

-----------------------------------------------------------------------------
(* ClientInterface                                                         *)

Look ==
    /\ pc = "look" /\ Index < Tries
    /\ Index' = Index + 1
    /\ pc' = IF boolInitCliInfo THEN "look" ELSE "init"
    /\ UNCHANGED <<dest, boolInitCliInfo, mem, taskq, wk, up, down, rx, registered, typed, sent, shown>>

\* The task gets the buffer itself, and frees it.
InitClientInfoToServer ==
    /\ pc = "init"
    /\ malloc(Buf("reg", Index), Msg("SaveCliInfo", Index, None))
    /\ AddTask("SendMsgBufToServer", Buf("reg", Index))
    /\ pc' = "look"
    /\ UNCHANGED <<Index, dest, boolInitCliInfo, wk, up, down, rx, registered, typed, sent, shown>>

\* Mutant: the test is inverted.
LastLookInverted ==
    /\ pc = "look" /\ Index = Tries
    /\ pc' = IF boolInitCliInfo THEN "error" ELSE "menu"
    /\ UNCHANGED <<Index, dest, boolInitCliInfo, mem, taskq, wk, up, down, rx, registered, typed, sent,
                   shown>>

\* Mutant: the flag is not read again.
LastLookNever ==
    /\ pc = "look" /\ Index = Tries
    /\ pc' = "error"
    /\ UNCHANGED <<Index, dest, boolInitCliInfo, mem, taskq, wk, up, down, rx, registered, typed, sent,
                   shown>>

\* The flag is read for the last time: from "error" there is no way out.
LastLook ==
    /\ pc = "look" /\ Index = Tries
    /\ pc' = IF boolInitCliInfo THEN "menu" ELSE "error"
    /\ UNCHANGED <<Index, dest, boolInitCliInfo, mem, taskq, wk, up, down, rx, registered, typed, sent,
                   shown>>

\* SendMsgToServer, or SendMsgToOtherClient
Menu(e) ==
    /\ pc = "menu"
    /\ pc' = "talk"
    /\ dest' = e
    /\ malloc(TxBuf, None)
    /\ UNCHANGED <<Index, boolInitCliInfo, taskq, wk, up, down, rx, registered, typed, sent, shown>>

\* Mutant: the task gets TxBuf, not a copy.
SendLineShared(l) ==
    /\ pc = "talk"
    /\ \A m \in typed : m.id # l
    /\ malloc(TxBuf, Msg("DataMsg", l, dest))
    /\ AddTask("SendMsgBufToServer", TxBuf)
    /\ typed' = typed \cup {Msg("DataMsg", l, dest)}
    /\ UNCHANGED <<pc, Index, dest, boolInitCliInfo, wk, up, down, rx, registered, sent, shown>>

\* InitTxBuf fills TxBuf, and AddTaskToClientPoolReleaseArgMem copies it.
SendLine(l) ==
    /\ pc = "talk"
    /\ \A m \in typed : m.id # l
    /\ LET m == Msg("DataMsg", l, dest)
       IN  /\ mem' = [b \in DOMAIN mem \cup {Buf("copy", l)} |->
                        IF b \in {TxBuf, Buf("copy", l)} THEN m ELSE mem[b]]
           /\ typed' = typed \cup {m}
    /\ AddTask("SendMsgBufToServer", Buf("copy", l))
    /\ UNCHANGED <<pc, Index, dest, boolInitCliInfo, wk, up, down, rx, registered, sent, shown>>

\* "zkquit"
Quit ==
    /\ pc = "talk"
    /\ pc' = "menu"
    /\ dest' = None
    /\ free(TxBuf)
    /\ UNCHANGED <<Index, boolInitCliInfo, taskq, wk, up, down, rx, registered, typed, sent, shown>>

-----------------------------------------------------------------------------
(* RecvServerMsgThread: the buffer is copied for the task                  *)

RecvServerMsg ==
    /\ rx # << >>
    /\ malloc(Buf("rx", Head(rx).id), Head(rx))
    /\ AddTask("ProcessServerMsg", Buf("rx", Head(rx).id))
    /\ rx' = Tail(rx)
    /\ UNCHANGED <<pc, Index, dest, boolInitCliInfo, wk, up, down, registered, typed, sent, shown>>

-----------------------------------------------------------------------------
(* The pool's threads                                                      *)

TakeTask(w) ==
    /\ wk[w] = None
    /\ taskq # << >>
    /\ wk' = [wk EXCEPT ![w] = Head(taskq)]
    /\ taskq' = Tail(taskq)
    /\ UNCHANGED <<pc, Index, dest, boolInitCliInfo, mem, up, down, rx, registered, typed, sent, shown>>

\* Mutant: the message is sent twice.
SendMsgBufToServerTwice(w) ==
    /\ wk[w] # None /\ wk[w].Handler = "SendMsgBufToServer"
    /\ sent' = sent \o <<mem[wk[w].arg], mem[wk[w].arg]>>
    /\ up' = up \cup {mem[wk[w].arg]}
    /\ free(wk[w].arg)
    /\ wk' = [wk EXCEPT ![w] = None]
    /\ UNCHANGED <<pc, Index, dest, boolInitCliInfo, taskq, down, rx, registered, typed, shown>>

SendMsgBufToServer(w) ==
    /\ wk[w] # None /\ wk[w].Handler = "SendMsgBufToServer"
    /\ sent' = Append(sent, mem[wk[w].arg])
    /\ up' = up \cup {mem[wk[w].arg]}
    /\ free(wk[w].arg)
    /\ wk' = [wk EXCEPT ![w] = None]
    /\ UNCHANGED <<pc, Index, dest, boolInitCliInfo, taskq, down, rx, registered, typed, shown>>

ProcessServerMsg(w) ==
    /\ wk[w] # None /\ wk[w].Handler = "ProcessServerMsg"
    /\ LET m == mem[wk[w].arg]
       IN  \/ m.type = "SaveCliInfo" /\ boolInitCliInfo' = TRUE /\ UNCHANGED shown
           \/ m.type = "DataMsg" /\ shown' = Append(shown, m) /\ UNCHANGED boolInitCliInfo
    /\ free(wk[w].arg)
    /\ wk' = [wk EXCEPT ![w] = None]
    /\ UNCHANGED <<pc, Index, dest, taskq, up, down, rx, registered, typed, sent>>

-----------------------------------------------------------------------------
(* The server and the network                                              *)

ServerTake(m) ==
    /\ m \in up
    /\ up' = up \ {m}
    /\ IF m.type = "SaveCliInfo" THEN registered' = TRUE /\ down' = down \cup {m}
       ELSE UNCHANGED <<registered, down>>
    /\ UNCHANGED <<pc, Index, dest, boolInitCliInfo, mem, taskq, wk, rx, typed, sent, shown>>

\* Another client's message, forwarded
OtherSends(n) ==
    /\ registered
    /\ LET m == Msg("DataMsg", n, None)
       IN  /\ m \notin down \cup Range(rx) \cup Range(shown)
           /\ \A b \in DOMAIN mem : mem[b] # m
           /\ down' = down \cup {m}
    /\ UNCHANGED <<pc, Index, dest, boolInitCliInfo, mem, taskq, wk, up, rx, registered, typed, sent,
                   shown>>

Lose(m) ==
    /\ m \in up \cup down
    /\ up' = up \ {m} /\ down' = down \ {m}
    /\ UNCHANGED <<pc, Index, dest, boolInitCliInfo, mem, taskq, wk, rx, registered, typed, sent, shown>>

Arrive(m) ==
    /\ m \in down
    /\ down' = down \ {m}
    /\ rx' = Append(rx, m)
    /\ UNCHANGED <<pc, Index, dest, boolInitCliInfo, mem, taskq, wk, up, registered, typed, sent, shown>>

-----------------------------------------------------------------------------
Interface == Look \/ InitClientInfoToServer \/ LastLook
User == (\E e \in End : Menu(e)) \/ (\E l \in Line : SendLine(l)) \/ Quit
WorkerStep(w) == TakeTask(w) \/ SendMsgBufToServer(w) \/ ProcessServerMsg(w)

Next ==
    \/ Interface
    \/ User
    \/ RecvServerMsg
    \/ \E w \in Worker : WorkerStep(w)
    \/ \E m \in up \cup down : ServerTake(m) \/ Lose(m) \/ Arrive(m)
    \/ \E n \in Note : OtherSends(n)

Spec == Init /\ [][Next]_vars

\* The client's threads go on; nothing is assumed of the user, the server and
\* the network.
FairSpec ==
    /\ Spec
    /\ WF_vars(Interface)
    /\ WF_vars(RecvServerMsg)
    /\ \A w \in Worker : WF_vars(WorkerStep(w))

-----------------------------------------------------------------------------
\* The registrations, what the user types, and what the client can receive.
Regs == {Msg("SaveCliInfo", n, None) : n \in 1..Tries}
Typing == {Msg("DataMsg", l, e) : l \in Line, e \in End}
Incoming == Regs \cup {Msg("DataMsg", n, None) : n \in Note}

\* The tasks there can be, and those there are.
Task ==
    [Handler : {"SendMsgBufToServer"},
     arg : {Buf("reg", n) : n \in 1..Tries} \cup {Buf("copy", l) : l \in Line}]
    \cup [Handler : {"ProcessServerMsg"}, arg : {Buf("rx", m.id) : m \in Incoming}]

ASSUME NoneAssumption == None \notin Task

Tasks == Range(taskq) \cup ({wk[w] : w \in Worker} \ {None})

TypeOK ==
    /\ pc \in {"look", "init", "menu", "talk", "error"} /\ Index \in 0..Tries
    /\ dest \in End \cup {None} /\ (pc = "talk" <=> dest # None)
    /\ boolInitCliInfo \in BOOLEAN /\ registered \in BOOLEAN
    /\ mem \in [DOMAIN mem -> Incoming \cup Typing \cup {None}]
    /\ taskq \in Seq(Task) /\ wk \in [Worker -> Task \cup {None}]
    /\ up \subseteq Regs \cup Typing /\ down \subseteq Incoming /\ rx \in Seq(Incoming)
    /\ typed \subseteq Typing /\ sent \in Seq(Regs \cup Typing) /\ shown \in Seq(Incoming)

\* A buffer is allocated for as long as a task refers to it, belongs to one task
\* at most, and none is left over: what is allocated is what the tasks refer to,
\* and TxBuf while the user types.  (client_udp.c:78, 102, 133, 161, 165, 216)
BuffersOwned ==
    /\ TypeOK
    /\ DOMAIN mem = {t.arg : t \in Tasks} \cup (IF pc = "talk" THEN {TxBuf} ELSE {})
    /\ Cardinality({t.arg : t \in Tasks})
         = Len(taskq) + Cardinality({w \in Worker : wk[w] # None})

\* What is sent is what the user typed, to the end chosen then, and each line
\* once at most, although TxBuf is filled again for the next line while pool
\* threads have not sent the last.  (client_udp.c:159-161, 196-198)
LinesAsTyped ==
    \A n \in DOMAIN sent : sent[n].type = "DataMsg" =>
        /\ sent[n] \in typed
        /\ \A k \in DOMAIN sent : sent[k] = sent[n] => k = n

\* The menu opens only to a client whose address the server has: no answer can
\* find it unknown.  (client_interface.c:37-47, client_udp.c:70-73)
MenuMeansRegistered == pc \in {"menu", "talk"} => registered

\* An acknowledgement heard while the interface thread is still at its tries
\* opens the menu.  (client_interface.c:26-39)
AckInTimeOpens == boolInitCliInfo /\ pc \in {"look", "init"} ~> pc = "menu"

=============================================================================
