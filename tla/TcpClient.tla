----------------------------- MODULE TcpClient ------------------------------
(***************************************************************************)
(* The client of work_srcs/socket_tcp/client: CliRecv receives and puts    *)
(* into the message queue, CliProMsg takes out and displays, CliUI sends   *)
(* what the user types.  The queue is LinkQueue, step by step.  CliRecv    *)
(* and CliUI share two buffers without a lock: RX_BUF, in which CliUI also *)
(* reads the user's line, and TX_BUF.                                      *)
(*                                                                         *)
(* A step ends where another thread may change what the next access to a   *)
(* shared buffer finds.  Messages from the server are numbered as they are *)
(* sent, 0 is the acknowledgement.  Of a body the model keeps what wrote   *)
(* it last, and whether the end of something else follows; an access torn  *)
(* by another is to the properties what the later of the two is.  recv()   *)
(* and send() move whole MsgBufs; the buffers exist.                       *)
(***************************************************************************)
EXTENDS LinkQueue, SequencesExt, FiniteSetsExt

CONSTANTS
    Other,         \* the clients the user writes to
    Server,        \* SERVER_ENDID
    MaxNote,       \* how many messages the server forwards to the client: a bound
    MaxLine,       \* how many lines the user types: a bound
    MaxQuit        \* how often the user leaves a dialogue by "!!quit": a bound

ASSUME ClientAssumption ==
    /\ Server \notin Other
    /\ MaxNote \in Nat /\ MaxLine \in Nat /\ MaxQuit \in Nat

\* A message in the queue: which one, and whether its body is still its own.
Message == [hdr : 0..MaxNote, own : BOOLEAN]

\* The queue's elements are MsgBufs.
ASSUME ElementsAssumption == Value = Message

Zeros == [by |-> "memset", clean |-> TRUE]

VARIABLES
    conn,          \* "up", "refused" by connect(), or "ended" by the server
    inbox,         \* what has arrived at clientFd and is not read
    rxbuf,         \* RX_BUF: the header received last, and the body
    txbuf,         \* TX_BUF: msgType, destEndID, and whether its body is the line read last
    initCliInfo,   \* the flag of GetFlagManager
    rv,            \* CliRecv
    ui,            \* CliUI: where it is, the destination, what it has read
    quits,         \* how often the user has typed "!!quit"
    arrived,       \* history: how many messages recv() has returned
    shown,         \* history: what CliProMsg has displayed
    saves, lines,  \* history: the registrations and the lines sent, or lost in a send()
    typed,         \* history: how many lines have been read
    asTyped,       \* history: every line was sent as it was typed, to the chosen end
    met            \* history: the buffers both threads were busy with at once

netVars == <<conn, inbox>>
recvVars == <<rv, initCliInfo, arrived>>
uiVars == <<ui, quits, typed>>
sentVars == <<saves, lines, asTyped>>
vars == <<linkVars, netVars, rxbuf, txbuf, recvVars, uiVars, sentVars, shown, met>>

\* InitClientSock, whose result main ignores, and the creation of the threads.
Init ==
    /\ LinkInit /\ buf = [hdr |-> 0, own |-> FALSE]
    /\ conn \in {"up", "refused"}
    /\ inbox = << >>
    /\ rxbuf = [hdr |-> 0, body |-> Zeros]
    /\ txbuf = [type |-> "PROCESS_MSG", dest |-> Server, line |-> FALSE]
    /\ initCliInfo = FALSE
    /\ rv = "register"
    /\ ui = [pc |-> "menu", dest |-> Server, read |-> "line"]
    /\ quits = 0 /\ arrived = 0 /\ saves = 0 /\ lines = 0 /\ typed = 0
    /\ shown = << >>
    /\ asTyped = TRUE
    /\ met = {}

\* A buffer holds what CliRecv, or CliUI, has yet to use.
RxHeldByRecv == rv = "put" /\ en.pc \in {"idle", "load", "copy"}
RxHeldByUi == ui.pc \in {"quit", "fill"}
TxHeldByRecv == rv = "send"
TxHeldByUi == ui.pc = "send"

Meet(b, held) == met' = IF held THEN met \cup {b} ELSE met

-----------------------------------------------------------------------------
(* The server acknowledges the registration, forwards messages, closes.    *)

ServerAck ==
    /\ conn = "up" /\ saves > 0
    /\ ~initCliInfo /\ ~Contains(inbox, 0)
    /\ inbox' = Append(inbox, 0)
    /\ UNCHANGED <<linkVars, conn, rxbuf, txbuf, recvVars, uiVars, sentVars, shown, met>>

Forwarded == arrived + Cardinality(Range(inbox) \ {0})

ServerMsg ==
    /\ conn = "up"
    /\ Forwarded < MaxNote
    /\ inbox' = Append(inbox, Forwarded + 1)
    /\ UNCHANGED <<linkVars, conn, rxbuf, txbuf, recvVars, uiVars, sentVars, shown, met>>

ServerClose ==
    /\ conn = "up"
    /\ conn' = "ended"
    /\ UNCHANGED <<linkVars, inbox, rxbuf, txbuf, recvVars, uiVars, sentVars, shown, met>>

\* What TX_BUF holds goes out, or is lost if there is no connection: SIGPIPE is caught.
Send ==
    IF txbuf.type = "SAVE_CLI_INFO"
      THEN saves' = saves + 1 /\ UNCHANGED <<lines, asTyped>>
      ELSE /\ lines' = lines + 1
           /\ asTyped' = (asTyped /\ txbuf.line /\ txbuf.dest = ui.dest)
           /\ UNCHANGED saves

-----------------------------------------------------------------------------
(* CliRecv: RecvServerMsg                                                  *)

\* InitCliInfoToServer: the header, whatever body TX_BUF holds, and the send.
InitCliInfoHeader ==
    /\ rv = "register"
    /\ txbuf' = [txbuf EXCEPT !.type = "SAVE_CLI_INFO", !.dest = Server]
    /\ rv' = "send"
    /\ Meet("tx", TxHeldByUi)
    /\ UNCHANGED <<linkVars, netVars, rxbuf, initCliInfo, arrived, uiVars, sentVars, shown>>

InitCliInfoSend ==
    /\ rv = "send"
    /\ Send
    /\ rv' = "clear"
    /\ UNCHANGED <<linkVars, netVars, rxbuf, txbuf, initCliInfo, arrived, uiVars, shown, met>>

\* Mutant: the buffer is not cleared before recv().
RxNoClear ==
    /\ rv = "clear"
    /\ rv' = "recv"
    /\ UNCHANGED <<linkVars, netVars, rxbuf, txbuf, initCliInfo, arrived, uiVars, sentVars, shown, met>>

\* RxFromServer, which is called for ever.
RxClear ==
    /\ rv = "clear"
    /\ rxbuf' = [rxbuf EXCEPT !.body = Zeros]
    /\ rv' = "recv"
    /\ Meet("rx", RxHeldByUi)
    /\ UNCHANGED <<linkVars, netVars, txbuf, initCliInfo, arrived, uiVars, sentVars, shown>>

\* The header is CliRecv's own: msgType is what recv() wrote.
RxRecv ==
    /\ rv = "recv" /\ inbox # << >>
    /\ rxbuf' = [hdr |-> Head(inbox), body |-> [by |-> "recv", clean |-> TRUE]]
    /\ inbox' = Tail(inbox)
    /\ IF Head(inbox) = 0
         THEN initCliInfo' = TRUE /\ rv' = "clear" /\ UNCHANGED arrived
         ELSE arrived' = arrived + 1 /\ rv' = "put" /\ UNCHANGED initCliInfo
    /\ Meet("rx", RxHeldByUi)
    /\ UNCHANGED <<linkVars, conn, txbuf, uiVars, sentVars, shown>>

\* The server has closed, or there never was a connection: the next call.
RxNothing ==
    /\ rv = "recv" /\ inbox = << >> /\ conn # "up"
    /\ rv' = "clear"
    /\ UNCHANGED <<linkVars, netVars, rxbuf, txbuf, initCliInfo, arrived, uiVars, sentVars, shown, met>>

\* EnMsgLinkQueue is given the address of RX_BUF: its contents are read late.
RxPut ==
    /\ rv = "put"
    /\ \/ EnAlloc \/ EnLoadFront \/ EnLink
       \/ EnCopy([hdr |-> rxbuf.hdr, own |-> rxbuf.body.by = "recv"])
    /\ UNCHANGED <<netVars, rxbuf, txbuf, recvVars, uiVars, sentVars, shown, met>>

RxPutEnd ==
    /\ rv = "put"
    /\ EnPublish
    /\ rv' = "clear"
    /\ UNCHANGED <<netVars, rxbuf, txbuf, initCliInfo, arrived, uiVars, sentVars, shown, met>>

Recv ==
    \/ InitCliInfoHeader \/ InitCliInfoSend \/ RxClear \/ RxRecv \/ RxNothing
    \/ RxPut \/ RxPutEnd

-----------------------------------------------------------------------------
(* CliProMsg: ProcessQueueMsg                                              *)

ProMsg ==
    /\ DeTest \/ DeCopy \/ DeNull \/ DeFree
    /\ UNCHANGED <<netVars, rxbuf, txbuf, recvVars, uiVars, sentVars, shown, met>>

\* DeMsgLinkQueue returns and the message is displayed.
ProMsgDisplay ==
    /\ DeAdvance
    /\ shown' = Append(shown, buf)
    /\ UNCHANGED <<netVars, rxbuf, txbuf, recvVars, uiVars, sentVars, met>>

-----------------------------------------------------------------------------
(* CliUI: CliInterface, TxToServer and TxToOtherCli                        *)

\* RX_BUF is cleared for the line.
UiPrompt ==
    /\ rxbuf' = [rxbuf EXCEPT !.body = Zeros]
    /\ Meet("rx", RxHeldByRecv)

\* A choice that is not on the menu, a negative one too, brings the menu again.
UiMenu(d) ==
    /\ ui.pc = "menu"
    /\ ui' = [ui EXCEPT !.dest = d, !.pc = "read"]
    /\ UiPrompt
    /\ UNCHANGED <<linkVars, netVars, txbuf, recvVars, quits, typed, sentVars, shown>>

\* Mutant: the line is read to the start of RX_BUF, over the header.
UiReadOverHeader(l) ==
    /\ ui.pc = "read"
    /\ \/ l = "line" /\ typed < MaxLine /\ typed' = typed + 1 /\ UNCHANGED quits
       \/ l = "!!quit" /\ quits < MaxQuit /\ quits' = quits + 1 /\ UNCHANGED typed
    /\ rxbuf' = [hdr |-> 0, body |-> [by |-> l, clean |-> rxbuf.body.by = "memset"]]
    /\ ui' = [ui EXCEPT !.pc = "quit", !.read = l]
    /\ Meet("rx", RxHeldByRecv \/ rv \in {"put", "clear"})
    /\ UNCHANGED <<linkVars, netVars, txbuf, recvVars, sentVars, shown>>

\* read() writes the line over the start of whatever the buffer holds.
UiRead(l) ==
    /\ ui.pc = "read"
    /\ \/ l = "line" /\ typed < MaxLine /\ typed' = typed + 1 /\ UNCHANGED quits
       \/ l = "!!quit" /\ quits < MaxQuit /\ quits' = quits + 1 /\ UNCHANGED typed
    /\ rxbuf' = [rxbuf EXCEPT !.body = [by |-> l, clean |-> rxbuf.body.by = "memset"]]
    /\ ui' = [ui EXCEPT !.pc = "quit", !.read = l]
    /\ Meet("rx", RxHeldByRecv \/ rv \in {"put", "clear"})
    /\ UNCHANGED <<linkVars, netVars, txbuf, recvVars, sentVars, shown>>

\* "!!quit" is looked for in the buffer, not in what read() returned.
UiQuit ==
    /\ ui.pc = "quit"
    /\ ui' = [ui EXCEPT !.pc = IF rxbuf.body.by = "!!quit" THEN "menu" ELSE "fill"]
    /\ UNCHANGED <<linkVars, netVars, rxbuf, txbuf, recvVars, quits, typed, sentVars, shown, met>>

UiFill ==
    /\ ui.pc = "fill"
    /\ txbuf' = [type |-> "PROCESS_MSG", dest |-> ui.dest,
                 line |-> rxbuf.body = [by |-> "line", clean |-> TRUE]]
    /\ ui' = [ui EXCEPT !.pc = "send"]
    /\ Meet("tx", TxHeldByRecv)
    /\ UNCHANGED <<linkVars, netVars, rxbuf, recvVars, quits, typed, sentVars, shown>>

\* The send, and the prompt for the next line.
UiSend ==
    /\ ui.pc = "send"
    /\ Send
    /\ ui' = [ui EXCEPT !.pc = "read"]
    /\ UiPrompt
    /\ UNCHANGED <<linkVars, netVars, txbuf, recvVars, quits, typed, shown>>

UiRun == UiQuit \/ UiFill \/ UiSend
UiUser == (\E d \in Other \cup {Server} : UiMenu(d)) \/ (\E l \in {"line", "!!quit"} : UiRead(l))

-----------------------------------------------------------------------------
Network == ServerAck \/ ServerMsg \/ ServerClose

Next == Network \/ Recv \/ ProMsg \/ ProMsgDisplay \/ UiRun \/ UiUser

Spec == Init /\ [][Next]_vars

\* The three threads run; nothing is assumed of the server and the user.
FairSpec == Spec /\ WF_vars(Recv) /\ WF_vars(ProMsg \/ ProMsgDisplay) /\ WF_vars(UiRun)

-----------------------------------------------------------------------------
TypeOK ==
    /\ LinkTypeOK
    /\ conn \in {"up", "refused", "ended"}
    /\ inbox \in Seq(0..MaxNote)
    /\ rxbuf \in [hdr : 0..MaxNote, body : [by : {"memset", "recv", "line", "!!quit"}, clean : BOOLEAN]]
    /\ txbuf \in [type : {"PROCESS_MSG", "SAVE_CLI_INFO"}, dest : Other \cup {Server}, line : BOOLEAN]
    /\ rv \in {"register", "send", "clear", "recv", "put"}
    /\ ui \in [pc : {"menu", "read", "quit", "fill", "send"}, dest : Other \cup {Server},
               read : {"line", "!!quit"}]
    /\ initCliInfo \in BOOLEAN /\ asTyped \in BOOLEAN
    /\ quits \in 0..MaxQuit /\ typed \in 0..MaxLine /\ arrived \in 0..MaxNote
    /\ saves \in Nat /\ lines \in Nat
    /\ shown \in Seq(Message \cup {Junk})
    /\ met \subseteq {"rx", "tx"}

\* The i-th message displayed is the i-th one received, whatever CliUI does to
\* the buffer it lay in; so is its body unless CliUI used the buffer between
\* recv() and the copy into the queue.  What the queue lost is Junk.
\* (client_socket.c:130-151, 215-224)
ShownAsReceived ==
    /\ TypeOK
    /\ Len(shown) <= arrived
    /\ \A i \in DOMAIN shown : shown[i] # Junk =>
         shown[i].hdr = i /\ ("rx" \notin met => shown[i].own)

\* Unless the two threads meet in TX_BUF the client registers, once; unless they
\* meet in either buffer it sends every line, once, as it was typed and to the
\* chosen end, although the line lay in the receiver's buffer.
\* (client_socket.c:67-81, 102-116, 130, 270-273)
LinesAsTyped ==
    /\ "tx" \notin met => saves = IF rv \in {"register", "send"} THEN 0 ELSE 1
    /\ met = {} =>
         /\ asTyped
         /\ typed - lines =
              IF ui.pc \in {"quit", "fill", "send"} /\ ui.read = "line" THEN 1 ELSE 0

\* What has arrived for the client is displayed, in the end, also when the
\* server has closed.  (client_socket.c:166-168, 219-224, 231-233)
MessagesShown == \A n \in 1..MaxNote : Forwarded >= n ~> Len(shown) >= n

=============================================================================
