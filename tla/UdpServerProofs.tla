-------------------------- MODULE UdpServerProofs ---------------------------
(***************************************************************************)
(* The UDP server serves the clients it has acknowledged, blocks no pool   *)
(* thread and loses track of no copy, for any pool, clients, addresses and *)
(* messages, with datagrams lost, reordered and registrations repeated.    *)
(***************************************************************************)
EXTENDS UdpServer, FiniteSetTheorems, SequenceTheorems, TLAPS

Number(b) == IF b THEN 1 ELSE 0

\* The places of x in a sequence, and the threads that work on x.
Where(s, x) == {p \in DOMAIN s : s[p] = x}
Holding(m) == {w \in Worker : wk[w].on = m}
Receiving == {w \in Worker : wk[w].pc = "recv"}
Told(m) == {a \in Addr : m \in inbox[a]}

\* What a pool thread holds at each point.
LocalInv ==
    \A w \in Worker :
        /\ wk[w].pc \in {"enq", "msg", "send"} <=> wk[w].on # None
        /\ wk[w].pc \in {"save", "ack", "send"} <=> wk[w].addr # None

\* Every event, task and handler stands for a datagram of its own.
EventInv ==
    Cardinality(Receiving) + Cardinality(Where(taskq, "udp")) + events + Number(edge) <= Len(rx)

OnceInv == \A m \in Data : Places(m) <= Number(m \in sent)

\* An address is in the list before it is acknowledged; the addresses known of a
\* message's addressee are acknowledged ones of it.
KnownInv ==
    /\ \A w \in Worker : wk[w].pc = "ack" => Contains(infoList, wk[w].addr)
    /\ \A a \in Addr : "ack" \in inbox[a] => Contains(infoList, a)
    /\ \A m \in Data : \A a \in known[m] : "ack" \in inbox[a] /\ Owner[a] = Dest[m]

\* First(x, p): the first node of x in the list is at p.
First(x, p) ==
    /\ p \in DOMAIN infoList /\ Owner[infoList[p]] = x
    /\ \A q \in DOMAIN infoList : Owner[infoList[q]] = x => p <= q

\* The first node of a message's addressee has the address it registered last.
OrderInv ==
    \A m \in Data : \A p \in DOMAIN infoList : First(Dest[m], p) => infoList[p] \in newest[m]

\* Addressed(m, a): a is an address m may go to.
Addressed(m, a) == m \in sent /\ Owner[a] = Dest[m] /\ a \in newest[m]

DeliveryInv ==
    /\ \A w \in Worker : wk[w].pc = "send" => Addressed(wk[w].on, wk[w].addr)
    /\ \A m \in Data, a \in Addr : m \in inbox[a] => Addressed(m, a)

CrashInv == srv = "crashed" => \E m \in Data \cap sent : Dest[m] # Server /\ known[m] = {}

IndInv ==
    /\ TypeOK /\ LocalInv /\ EventInv /\ OnceInv
    /\ KnownInv /\ OrderInv /\ DeliveryInv /\ CrashInv /\ CopiesExact

-----------------------------------------------------------------------------
(* Counting                                                                *)

LEMMA WhereFinite ==
    ASSUME NEW S, NEW s \in Seq(S), NEW x
    PROVE  /\ IsFiniteSet(Where(s, x)) /\ Cardinality(Where(s, x)) \in Nat
           /\ Contains(s, x) <=> Cardinality(Where(s, x)) # 0
           /\ Cardinality(Where(s, x)) <= Len(s)
<1>0. 1 \in Int /\ Len(s) \in Int /\ Len(s) >= 0
  OBVIOUS
<1>1. IsFiniteSet(1..Len(s)) /\ Cardinality(1..Len(s)) = Len(s)
  BY <1>0, FS_Interval
<1>2. Where(s, x) \in SUBSET (1..Len(s))
  BY DEF Where
<1>3. IsFiniteSet(Where(s, x)) /\ Cardinality(Where(s, x)) <= Len(s)
  BY <1>1, <1>2, FS_Subset
<1>4. Cardinality(Where(s, x)) \in Nat
  BY <1>3, FS_CardinalityType
<1>5. Contains(s, x) <=> Where(s, x) # {}
  BY DEF Contains, Where
<1> QED
  BY <1>3, <1>4, <1>5, FS_EmptySet

LEMMA WhereAppend ==
    ASSUME NEW S, NEW s \in Seq(S), NEW y \in S, NEW x
    PROVE  Cardinality(Where(Append(s, y), x)) = Cardinality(Where(s, x)) + Number(x = y)
<1>1. IsFiniteSet(Where(s, x)) /\ Cardinality(Where(s, x)) \in Nat
  BY WhereFinite
<1>2. Len(s) + 1 \notin Where(s, x)
  BY DEF Where
<1>3. CASE x = y
  <2>1. Where(Append(s, y), x) = Where(s, x) \cup {Len(s) + 1}
    BY <1>3 DEF Where
  <2> QED
    BY <1>1, <1>2, <1>3, <2>1, FS_AddElement DEF Number
<1>4. CASE x # y
  <2>1. Where(Append(s, y), x) = Where(s, x)
    BY <1>4 DEF Where
  <2> QED
    BY <1>1, <1>4, <2>1 DEF Number
<1> QED
  BY <1>3, <1>4

LEMMA WhereTail ==
    ASSUME NEW S, NEW s \in Seq(S), s # << >>, NEW x
    PROVE  Cardinality(Where(Tail(s), x)) = Cardinality(Where(s, x)) - Number(x = Head(s))
<1> DEFINE rest == Where(s, x) \ {1}
           shift == [p \in rest |-> p - 1]
<1>1. IsFiniteSet(Where(s, x)) /\ Cardinality(Where(s, x)) \in Nat
  BY WhereFinite
<1>2. IsFiniteSet(rest) /\ Cardinality(rest) = Cardinality(Where(s, x)) - Number(x = Head(s))
  <2>1. 1 \in Where(s, x) <=> x = Head(s)
    BY DEF Where
  <2> QED
    BY <1>1, <2>1, FS_RemoveElement DEF Number
<1>3. /\ Tail(s) \in Seq(S) /\ Len(Tail(s)) = Len(s) - 1
      /\ \A p \in 1..(Len(s) - 1) : Tail(s)[p] = s[p + 1]
  OBVIOUS
<1>4. rest \subseteq Nat /\ \A p \in rest : p - 1 \in Where(Tail(s), x)
  BY <1>3 DEF Where
<1>5. \A q \in Where(Tail(s), x) : q + 1 \in rest /\ q \in Nat
  BY <1>3 DEF Where
<1> HIDE DEF rest
<1>6. shift \in [rest -> Where(Tail(s), x)]
  BY <1>4
<1>7. \A p, q \in rest : shift[p] = shift[q] => p = q
  BY <1>4
<1>8. \A q \in Where(Tail(s), x) : \E p \in rest : shift[p] = q
  <2> SUFFICES ASSUME NEW q \in Where(Tail(s), x) PROVE \E p \in rest : shift[p] = q
    OBVIOUS
  <2>1. q + 1 \in rest /\ shift[q + 1] = q
    BY <1>5
  <2> QED
    BY <2>1
<1>9. ExistsBijection(rest, Where(Tail(s), x))
  BY <1>6, <1>7, <1>8 DEF ExistsBijection, Bijection, Injection, Surjection, IsInjective
<1> QED
  BY <1>2, <1>9, FS_Bijection

\* Two finite sets that differ in one element at most.
LEMMA Swap ==
    ASSUME NEW P, IsFiniteSet(P), NEW Q, NEW w, Q \ {w} = P \ {w}
    PROVE  /\ IsFiniteSet(Q) /\ Cardinality(Q) \in Nat /\ Cardinality(P) \in Nat
           /\ Cardinality(Q) = Cardinality(P) - Number(w \in P) + Number(w \in Q)
<1> DEFINE R == P \ {w}
<1>1. /\ IsFiniteSet(R) /\ Cardinality(R) \in Nat /\ Cardinality(P) \in Nat
      /\ Cardinality(R) = Cardinality(P) - Number(w \in P)
  BY FS_RemoveElement, FS_CardinalityType DEF Number
<1>2. w \notin R /\ (w \in Q => Q = R \cup {w}) /\ (w \notin Q => Q = R)
  OBVIOUS
<1> HIDE DEF R
<1>3. CASE w \in Q
  <2>1. Q = R \cup {w} /\ w \notin R
    BY <1>2, <1>3
  <2>2. IsFiniteSet(Q) /\ Cardinality(Q) = Cardinality(R) + 1
    BY <1>1, <2>1, FS_AddElement
  <2> QED
    BY <1>1, <1>3, <2>2 DEF Number
<1>4. CASE w \notin Q
  BY <1>1, <1>2, <1>4 DEF Number
<1> QED
  BY <1>3, <1>4

\* The sets that are counted are finite.
LEMMA SetsFinite ==
    ASSUME TypeOK, NEW x
    PROVE  /\ IsFiniteSet(Holding(x)) /\ Cardinality(Holding(x)) \in Nat
           /\ IsFiniteSet(Receiving) /\ Cardinality(Receiving) \in Nat
           /\ IsFiniteSet(Told(x)) /\ Cardinality(Told(x)) \in Nat
           /\ Cardinality(Where(rx, x)) \in Nat /\ Cardinality(Where(msgq, x)) \in Nat
           /\ Cardinality(Where(taskq, x)) \in Nat
<1>1. /\ Holding(x) \in SUBSET Worker
      /\ Receiving \in SUBSET Worker /\ Told(x) \in SUBSET Addr
  BY DEF Holding, Receiving, Told
<1>2. /\ IsFiniteSet(Holding(x))
      /\ IsFiniteSet(Receiving) /\ IsFiniteSet(Told(x))
  BY <1>1, NamesAssumption, FS_Subset
<1>3. rx \in Seq(Reg \cup Data) /\ msgq \in Seq(Data) /\ taskq \in Seq(Data \cup {"udp"})
  BY DEF TypeOK
<1> QED
  BY <1>2, <1>3, FS_CardinalityType, WhereFinite

\* What a step of pool thread w does to the counts.
LEMMA GotoCounts ==
    ASSUME TypeOK, NEW w \in Worker, NEW l, Goto(w, l), NEW x
    PROVE  /\ Cardinality(Holding(x)') = Cardinality(Holding(x)) - Number(wk[w].on = x) + Number(l.on = x)
           /\ Cardinality(Receiving') = Cardinality(Receiving)
                - Number(wk[w].pc = "recv") + Number(l.pc = "recv")
<1>0. wk'[w] = l /\ \A v \in Worker \ {w} : wk'[v] = wk[v]
  BY DEF Goto, TypeOK
<1>1. /\ Holding(x)' \ {w} = Holding(x) \ {w}
      /\ w \in Holding(x) <=> wk[w].on = x
      /\ w \in Holding(x)' <=> l.on = x
  BY <1>0 DEF Holding
<1>3. /\ Receiving' \ {w} = Receiving \ {w}
      /\ w \in Receiving <=> wk[w].pc = "recv"
      /\ w \in Receiving' <=> l.pc = "recv"
  BY <1>0 DEF Receiving
<1>4. IsFiniteSet(Holding(x)) /\ IsFiniteSet(Receiving)
  BY SetsFinite
<1>5. Cardinality(Holding(x)') = Cardinality(Holding(x)) - Number(w \in Holding(x)) + Number(w \in Holding(x)')
  BY <1>1, <1>4, Swap
<1>7. Cardinality(Receiving') = Cardinality(Receiving) - Number(w \in Receiving) + Number(w \in Receiving')
  BY <1>3, <1>4, Swap
<1> QED
  BY <1>1, <1>3, <1>5, <1>7 DEF Number

\* Places as a sum of the counts above.
PlacesSum(m) ==
    Cardinality(Holding(m)) + Cardinality(Where(msgq, m)) + Cardinality(Where(taskq, m))
    + Cardinality(Where(rx, m)) + Cardinality(Told(m))
    + Number(mt = m) + Number(m \in net) + Number(m \in displayed)

LEMMA PlacesIsSum ==
    ASSUME NEW m
    PROVE  Places(m) = PlacesSum(m) /\ Places(m)' = PlacesSum(m)'
<1>1. Places(m) = PlacesSum(m)
  BY DEF Places, PlacesSum, Holding, Where, Told, Number
<1>2. Places(m)' = PlacesSum(m)'
  BY DEF Places, PlacesSum, Holding, Where, Told, Number
<1> QED
  BY <1>1, <1>2

\* A message that is in one place is in no other.
LEMMA Exclusive ==
    ASSUME TypeOK, OnceInv, NEW m \in Data, NEW w \in Worker, wk[w].on = m
    PROVE  /\ m \in sent /\ m \notin net /\ m # mt /\ m \notin displayed
           /\ ~Contains(rx, m) /\ ~Contains(msgq, m) /\ ~Contains(taskq, m)
           /\ \A v \in Worker : wk[v].on = m => v = w
           /\ \A a \in Addr : m \notin inbox[a]
<1>1. PlacesSum(m) <= Number(m \in sent)
  BY PlacesIsSum DEF OnceInv
<1>2. w \in Holding(m) /\ IsFiniteSet(Holding(m)) /\ Cardinality(Holding(m)) \in Nat
      /\ Holding(m) # {}
  BY SetsFinite DEF Holding
<1>3. Cardinality(Holding(m)) # 0
  BY <1>2, FS_EmptySet
<1>4. /\ Cardinality(Holding(m)) = 1 /\ Cardinality(Where(msgq, m)) = 0
      /\ Cardinality(Where(taskq, m)) = 0 /\ Cardinality(Where(rx, m)) = 0
      /\ Cardinality(Told(m)) = 0
      /\ m \in sent /\ m \notin net /\ m # mt /\ m \notin displayed
  BY <1>1, <1>2, <1>3, SetsFinite DEF PlacesSum, Number
<1>5. PICK x : Holding(m) = {x}
  BY <1>2, <1>4, FS_Singleton
<1>6. \A v \in Worker : wk[v].on = m => v = w
  BY <1>2, <1>5 DEF Holding
<1>7. Told(m) = {}
  BY <1>4, SetsFinite, FS_EmptySet
<1>8. ~Contains(rx, m) /\ ~Contains(msgq, m) /\ ~Contains(taskq, m)
  BY <1>4, WhereFinite DEF TypeOK
<1> QED
  BY <1>4, <1>6, <1>7, <1>8 DEF Told

-----------------------------------------------------------------------------
(* The steps, one part of the invariant after the other                    *)

\* The places of a pool thread's step, as the provers need them.
LEMMA Locals ==
    ASSUME TypeOK, LocalInv, NEW w \in Worker
    PROVE  /\ wk[w].pc \in {"idle", "recv", "save", "ack", "enq", "msg", "send"}
           /\ wk[w].on \in Data \cup {None} /\ wk[w].addr \in Addr \cup {None}
           /\ wk[w] = [pc |-> wk[w].pc, on |-> wk[w].on, addr |-> wk[w].addr]
           /\ wk[w].pc \in {"enq", "msg", "send"} => wk[w].on \in Data
           /\ wk[w].pc \in {"save", "ack", "send"} => wk[w].addr \in Addr
           /\ wk[w].pc \notin {"enq", "msg", "send"} => wk[w].on = None
           /\ wk[w].pc \notin {"save", "ack", "send"} => wk[w].addr = None
BY DEF TypeOK, LocalInv

LEMMA Heads ==
    ASSUME NEW S, NEW s \in Seq(S), s # << >>
    PROVE  Head(s) \in S /\ Tail(s) \in Seq(S) /\ Len(Tail(s)) = Len(s) - 1 /\ Len(s) \in Nat \ {0}
OBVIOUS

LEMMA TypeStep == TypeOK /\ LocalInv /\ Next => TypeOK' /\ LocalInv'
<1> SUFFICES ASSUME TypeOK, LocalInv, Next PROVE TypeOK' /\ LocalInv'
  OBVIOUS
<1> USE NamesAssumption
<1>1. ASSUME NEW d \in Reg \cup Data, ClientSend(d) PROVE TypeOK' /\ LocalInv'
  <2>1. \A m \in Data : Acked(Dest[m]) \subseteq Addr
    BY DEF Acked
  <2> QED
    BY <1>1, <2>1 DEF ClientSend, TypeOK, LocalInv
<1>2. ASSUME NEW d \in Reg \cup Data, Lose(d) \/ Arrive(d) PROVE TypeOK' /\ LocalInv'
  <2>1. edge' \in BOOLEAN /\ merged' \in BOOLEAN
    BY <1>2, Zenon DEF Lose, Arrive, TypeOK
  <2>2. CASE Lose(d)
    BY <2>1, <2>2 DEF Lose, TypeOK, LocalInv
  <2>3. CASE Arrive(d)
    BY <2>1, <2>3 DEF Arrive, TypeOK, LocalInv
  <2> QED
    BY <1>2, <2>2, <2>3
<1>3. CASE EpollWait
  <2>1. edge' \in BOOLEAN /\ merged' \in BOOLEAN
    BY <1>3, Zenon DEF EpollWait, TypeOK
  <2> QED
    BY <1>3, <2>1 DEF EpollWait, TypeOK, LocalInv
<1>4. CASE EpollDispatch
  BY <1>4 DEF EpollDispatch, TypeOK, LocalInv
<1>5. ASSUME NEW w \in Worker, TakeTask(w) PROVE TypeOK' /\ LocalInv'
  <2>1. Head(taskq) \in Data \cup {"udp"} /\ Tail(taskq) \in Seq(Data \cup {"udp"})
    BY <1>5, Heads DEF TakeTask, TypeOK
  <2> QED
    BY <1>5, <2>1 DEF TakeTask, TypeOK, LocalInv, Goto, At
<1>6. ASSUME NEW w \in Worker, RecvFrom(w) PROVE TypeOK' /\ LocalInv'
  <2>1. Head(rx) \in Reg \cup Data /\ Tail(rx) \in Seq(Reg \cup Data)
    BY <1>6, Heads DEF RecvFrom, TypeOK
  <2>2. Head(rx) \in Reg => Head(rx)[1] \in Addr
    BY DEF Reg
  <2>3. Head(rx) \notin Reg => Head(rx) \in Data
    BY <2>1
  <2> QED
    BY <1>6, <2>1, <2>2, <2>3 DEF RecvFrom, TypeOK, LocalInv, Goto, At
<1>7. ASSUME NEW w \in Worker, AddNode(w) PROVE TypeOK' /\ LocalInv'
  <2>1. wk[w].addr \in Addr /\ wk[w].addr # None /\ wk[w].on = None
    BY <1>7, Locals DEF AddNode
  <2>2. infoList' \in Seq(Addr)
    BY <1>7, <2>1 DEF AddNode, TypeOK
  <2>3. newest' \in [Data -> SUBSET Addr]
    BY <1>7, <2>1 DEF AddNode, Registered, TypeOK
  <2> QED
    BY <1>7, <2>1, <2>2, <2>3, SMTT(30) DEF AddNode, TypeOK, LocalInv, Goto
<1>8. ASSUME NEW w \in Worker, SendAck(w) PROVE TypeOK' /\ LocalInv'
  BY <1>8, Locals DEF SendAck, TypeOK, LocalInv, Goto, Idle, At
<1>9. ASSUME NEW w \in Worker, EnSrvMsgQueue(w) PROVE TypeOK' /\ LocalInv'
  BY <1>9, Locals DEF EnSrvMsgQueue, TypeOK, LocalInv, Goto, Idle, At
<1>10. ASSUME NEW w \in Worker, Display(w) PROVE TypeOK' /\ LocalInv'
  BY <1>10, Locals DEF Display, TypeOK, LocalInv, Goto, Idle, At
<1>11. ASSUME NEW w \in Worker, GetCliInfoNode(w) PROVE TypeOK' /\ LocalInv'
  <2>1. wk[w].on \in Data /\ wk[w].on # None
    BY <1>11, Locals DEF GetCliInfoNode
  <2>2. \A p \in DOMAIN infoList : infoList[p] \in Addr
    BY DEF TypeOK
  <2>3. CASE UNCHANGED wk
    BY <1>11, <2>3 DEF GetCliInfoNode, TypeOK, LocalInv
  <2>4. ASSUME NEW p \in DOMAIN infoList, srv' = srv,
               Goto(w, At("send", wk[w].on, infoList[p]))
        PROVE  TypeOK' /\ LocalInv'
    BY <1>11, <2>1, <2>2, <2>4 DEF GetCliInfoNode, TypeOK, LocalInv, Goto, At
  <2> QED
    BY <1>11, <2>3, <2>4 DEF GetCliInfoNode
<1>12. ASSUME NEW w \in Worker, SendTo(w) PROVE TypeOK' /\ LocalInv'
  BY <1>12, Locals DEF SendTo, TypeOK, LocalInv, Goto, Idle, At
<1>13. CASE DeSrvMsgQueue
  <2>1. Head(msgq) \in Data /\ Tail(msgq) \in Seq(Data)
    BY <1>13, Heads DEF DeSrvMsgQueue, TypeOK
  <2> QED
    BY <1>13, <2>1 DEF DeSrvMsgQueue, TypeOK, LocalInv
<1>14. CASE AddMsgTask
  BY <1>14 DEF AddMsgTask, TypeOK, LocalInv
<1> QED
  BY <1>1, <1>2, <1>3, <1>4, <1>5, <1>6, <1>7, <1>8, <1>9, <1>10, <1>11, <1>12, <1>13, <1>14
  DEF Next, Epoll, MsgThread, WorkerStep

\* No step makes a task or a handler without an event, or an event without an arrival.
LEMMA EventStep == TypeOK /\ LocalInv /\ EventInv /\ Next => EventInv'
<1> SUFFICES ASSUME TypeOK, LocalInv, EventInv, Next PROVE EventInv'
  OBVIOUS
<1> USE NamesAssumption DEF EventInv
<1>f. /\ Cardinality(Receiving) \in Nat /\ Cardinality(Where(taskq, "udp")) \in Nat
      /\ events \in 0..1 /\ Len(rx) \in Nat
  BY SetsFinite DEF TypeOK
<1>1. ASSUME NEW d \in Reg \cup Data, ClientSend(d) \/ Lose(d) PROVE EventInv'
  BY <1>1 DEF ClientSend, Lose, Receiving
<1>2. ASSUME NEW d \in Reg \cup Data, Arrive(d) PROVE EventInv'
  <2>1. Len(rx') = Len(rx) + 1 /\ edge' = TRUE /\ events' = events
    BY <1>2 DEF Arrive, TypeOK
  <2>2. Receiving' = Receiving /\ taskq' = taskq
    BY <1>2 DEF Arrive, Receiving
  <2> QED
    BY <1>f, <2>1, <2>2 DEF Number
<1>3. CASE EpollWait
  BY <1>3, <1>f DEF EpollWait, Receiving, Number
<1>4. CASE EpollDispatch
  <2>1. Cardinality(Where(taskq', "udp")) = Cardinality(Where(taskq, "udp")) + 1
    <3>1. /\ taskq \in Seq(Data \cup {"udp"}) /\ "udp" \in Data \cup {"udp"}
          /\ taskq' = Append(taskq, "udp")
      BY <1>4 DEF EpollDispatch, TypeOK
    <3> QED
      BY <3>1, WhereAppend DEF Number
  <2> QED
    BY <1>4, <1>f, <2>1 DEF EpollDispatch, Receiving
<1>5. ASSUME NEW w \in Worker, TakeTask(w) PROVE EventInv'
  <2> DEFINE l == IF Head(taskq) = "udp" THEN At("recv", None, None) ELSE At("msg", Head(taskq), None)
  <2>1. Cardinality(Where(taskq', "udp"))
          = Cardinality(Where(taskq, "udp")) - Number("udp" = Head(taskq))
    BY <1>5, WhereTail DEF TakeTask, TypeOK
  <2>2. Goto(w, l) /\ wk[w].pc = "idle"
    BY <1>5 DEF TakeTask
  <2>3. l.pc = "recv" <=> Head(taskq) = "udp"
    BY DEF At
  <2> HIDE DEF l
  <2>4. Cardinality(Receiving') = Cardinality(Receiving) - Number(wk[w].pc = "recv") + Number(l.pc = "recv")
    BY <2>2, GotoCounts
  <2>5. edge' = edge /\ events' = events /\ rx' = rx
    BY <1>5 DEF TakeTask
  <2> QED
    BY <1>f, <2>1, <2>2, <2>3, <2>4, <2>5 DEF Number
<1>6. ASSUME NEW w \in Worker, RecvFrom(w) PROVE EventInv'
  <2> DEFINE l == IF Head(rx) \in Reg THEN At("save", None, Head(rx)[1]) ELSE At("enq", Head(rx), None)
  <2>1. Len(rx') = Len(rx) - 1
    BY <1>6, Heads DEF RecvFrom, TypeOK
  <2>2. Goto(w, l) /\ wk[w].pc = "recv"
    BY <1>6 DEF RecvFrom
  <2>3. l.pc # "recv"
    BY DEF At
  <2> HIDE DEF l
  <2>4. Cardinality(Receiving') = Cardinality(Receiving) - Number(wk[w].pc = "recv") + Number(l.pc = "recv")
    BY <2>2, GotoCounts
  <2> QED
    BY <1>6, <1>f, <2>1, <2>2, <2>3, <2>4 DEF RecvFrom, Number
<1>7. ASSUME NEW w \in Worker,
             AddNode(w) \/ SendAck(w) \/ EnSrvMsgQueue(w) \/ Display(w) \/ GetCliInfoNode(w) \/ SendTo(w)
      PROVE  EventInv'
  <2>1. Receiving' = Receiving
    <3>1. wk[w].pc # "recv" /\ UNCHANGED wk => Receiving' = Receiving
      BY DEF Receiving
    <3>2. ASSUME NEW l, Goto(w, l), wk[w].pc # "recv", l.pc # "recv" PROVE Receiving' = Receiving
      BY <3>2 DEF Receiving, Goto, TypeOK
    <3>3. CASE AddNode(w)
      <4>1. [wk[w] EXCEPT !.pc = "ack"].pc = "ack"
        BY Locals
      <4> QED
        BY <3>2, <3>3, <4>1 DEF AddNode
    <3>4. CASE SendAck(w) \/ EnSrvMsgQueue(w) \/ Display(w) \/ SendTo(w)
      BY <3>2, <3>4 DEF SendAck, EnSrvMsgQueue, Display, SendTo, Idle, At
    <3>5. CASE GetCliInfoNode(w)
      BY <3>1, <3>2, <3>5 DEF GetCliInfoNode, At
    <3> QED
      BY <1>7, <3>3, <3>4, <3>5
  <2> QED
    BY <1>7, <2>1 DEF AddNode, SendAck, EnSrvMsgQueue, Display, GetCliInfoNode, SendTo
<1>8. CASE DeSrvMsgQueue
  BY <1>8 DEF DeSrvMsgQueue, Receiving
<1>9. CASE AddMsgTask
  <2>1. Cardinality(Where(taskq', "udp")) = Cardinality(Where(taskq, "udp"))
    <3>1. /\ taskq \in Seq(Data \cup {"udp"}) /\ mt \in Data \cup {"udp"} /\ mt # "udp"
          /\ taskq' = Append(taskq, mt)
      BY <1>9 DEF AddMsgTask, TypeOK
    <3>2. Cardinality(Where(taskq', "udp")) = Cardinality(Where(taskq, "udp")) + Number("udp" = mt)
      BY <3>1, WhereAppend
    <3> QED
      BY <1>f, <3>1, <3>2 DEF Number
  <2> QED
    BY <1>9, <2>1 DEF AddMsgTask, Receiving
<1> QED
  BY <1>1, <1>2, <1>3, <1>4, <1>5, <1>6, <1>7, <1>8, <1>9 DEF Next, Epoll, MsgThread, WorkerStep


\* A message goes from one place to the next and is in one at most.
LEMMA OnceStep == TypeOK /\ LocalInv /\ OnceInv /\ Next => OnceInv'
<1> SUFFICES ASSUME TypeOK, LocalInv, OnceInv, Next, NEW m \in Data
             PROVE  Places(m)' <= Number(m \in sent')
  BY DEF OnceInv
<1> USE NamesAssumption
<1> DEFINE Goal == PlacesSum(m)' <= Number(m \in sent')
<1>0. SUFFICES Goal
  BY PlacesIsSum
<1>f. /\ Cardinality(Holding(m)) \in Nat /\ Cardinality(Where(msgq, m)) \in Nat
      /\ Cardinality(Where(taskq, m)) \in Nat /\ Cardinality(Where(rx, m)) \in Nat
      /\ Cardinality(Told(m)) \in Nat
  BY SetsFinite
<1>g. PlacesSum(m) <= Number(m \in sent)
  BY PlacesIsSum DEF OnceInv
<1>s. /\ rx \in Seq(Reg \cup Data) /\ msgq \in Seq(Data) /\ taskq \in Seq(Data \cup {"udp"})
      /\ mt \in Data \cup {None} /\ m # None /\ m # "udp" /\ m # "ack" /\ m \notin Reg
  BY DEF TypeOK
<1>i. Idle.on # m
  BY <1>s DEF Idle, At
<1>1. ASSUME NEW d \in Reg \cup Data, ClientSend(d) PROVE Goal
  <2>1. UNCHANGED <<Holding(m), Told(m), msgq, taskq, rx, mt, displayed>>
    BY <1>1 DEF ClientSend, Holding, Told
  <2>2. /\ d \notin sent /\ (m \in sent' <=> m \in sent \/ m = d)
        /\ (m \in net' <=> m \in net \/ m = d)
    BY <1>1 DEF ClientSend
  <2> QED
    BY <1>f, <1>g, <2>1, <2>2 DEF PlacesSum, Number
<1>2. ASSUME NEW d \in Reg \cup Data, Lose(d) PROVE Goal
  <2>1. UNCHANGED <<Holding(m), Told(m), msgq, taskq, rx, mt, displayed, sent>>
    BY <1>2 DEF Lose, Holding, Told
  <2>2. m \in net' => m \in net
    BY <1>2 DEF Lose
  <2> QED
    BY <1>f, <1>g, <2>1, <2>2 DEF PlacesSum, Number
<1>3. ASSUME NEW d \in Reg \cup Data, Arrive(d) PROVE Goal
  <2>1. UNCHANGED <<Holding(m), Told(m), msgq, taskq, mt, displayed, sent>>
    BY <1>3 DEF Arrive, Holding, Told
  <2>2. d \in net /\ (m \in net' <=> m \in net /\ m # d)
    BY <1>3 DEF Arrive
  <2>3. Cardinality(Where(rx', m)) = Cardinality(Where(rx, m)) + Number(m = d)
    BY <1>3, <1>s, WhereAppend, SMTT(30) DEF Arrive
  <2> QED
    BY <1>f, <1>g, <2>1, <2>2, <2>3 DEF PlacesSum, Number
<1>4. CASE EpollWait
  BY <1>4, <1>g DEF EpollWait, PlacesSum, Holding, Told
<1>5. CASE EpollDispatch
  <2>1. UNCHANGED <<Holding(m), Told(m), msgq, rx, mt, displayed, net, sent>>
    BY <1>5 DEF EpollDispatch, Holding, Told
  <2>2. Cardinality(Where(taskq', m)) = Cardinality(Where(taskq, m))
    <3>1. "udp" \in Data \cup {"udp"} /\ taskq' = Append(taskq, "udp")
      BY <1>5 DEF EpollDispatch
    <3> QED
      BY <1>f, <1>s, <3>1, WhereAppend, SMTT(30) DEF Number
  <2> QED
    BY <1>g, <2>1, <2>2 DEF PlacesSum
<1>6. ASSUME NEW w \in Worker, TakeTask(w) PROVE Goal
  <2> DEFINE l == IF Head(taskq) = "udp" THEN At("recv", None, None) ELSE At("msg", Head(taskq), None)
  <2>1. UNCHANGED <<Told(m), msgq, rx, mt, displayed, net, sent>>
    BY <1>6 DEF TakeTask, Told
  <2>2. Cardinality(Where(taskq', m)) = Cardinality(Where(taskq, m)) - Number(m = Head(taskq))
    BY <1>6, <1>s, WhereTail DEF TakeTask
  <2>3. Goto(w, l) /\ wk[w].on = None
    BY <1>6, Locals DEF TakeTask
  <2>4. l.on = m <=> Head(taskq) = m
    BY <1>s DEF At
  <2> HIDE DEF l
  <2>5. Cardinality(Holding(m)') = Cardinality(Holding(m)) - Number(wk[w].on = m) + Number(l.on = m)
    BY <2>3, GotoCounts
  <2>6. Cardinality(Holding(m)') = Cardinality(Holding(m)) + Number(m = Head(taskq))
    BY <1>f, <1>s, <2>3, <2>4, <2>5 DEF Number
  <2> QED
    BY <1>f, <1>g, <2>1, <2>2, <2>6 DEF PlacesSum, Number
<1>7. ASSUME NEW w \in Worker, RecvFrom(w) PROVE Goal
  <2> DEFINE l == IF Head(rx) \in Reg THEN At("save", None, Head(rx)[1]) ELSE At("enq", Head(rx), None)
  <2>1. UNCHANGED <<Told(m), msgq, taskq, mt, displayed, net, sent>>
    BY <1>7 DEF RecvFrom, Told
  <2>2. Cardinality(Where(rx', m)) = Cardinality(Where(rx, m)) - Number(m = Head(rx))
    BY <1>7, <1>s, WhereTail DEF RecvFrom
  <2>3. Goto(w, l) /\ wk[w].on = None
    BY <1>7, Locals DEF RecvFrom
  <2>4. l.on = m <=> Head(rx) = m
    BY <1>s DEF At
  <2> HIDE DEF l
  <2>5. Cardinality(Holding(m)') = Cardinality(Holding(m)) - Number(wk[w].on = m) + Number(l.on = m)
    BY <2>3, GotoCounts
  <2>6. Cardinality(Holding(m)') = Cardinality(Holding(m)) + Number(m = Head(rx))
    BY <1>f, <1>s, <2>3, <2>4, <2>5 DEF Number
  <2> QED
    BY <1>f, <1>g, <2>1, <2>2, <2>6 DEF PlacesSum, Number
<1>8. ASSUME NEW w \in Worker, AddNode(w) \/ SendAck(w) \/ GetCliInfoNode(w) PROVE Goal
  <2>1. UNCHANGED <<msgq, taskq, rx, mt, displayed, net, sent>>
    BY <1>8 DEF AddNode, SendAck, GetCliInfoNode
  <2>2. Holding(m)' = Holding(m)
    <3>1. \A v \in Worker : wk'[v].on = m <=> wk[v].on = m
      <4>1. CASE AddNode(w)
        BY <4>1 DEF AddNode, Goto, TypeOK
      <4>2. CASE SendAck(w)
        BY <4>2, <1>s, Locals DEF SendAck, Goto, Idle, At, TypeOK
      <4>3. CASE GetCliInfoNode(w)
        BY <4>3, SMTT(30) DEF GetCliInfoNode, Goto, At, TypeOK
      <4> QED
        BY <1>8, <4>1, <4>2, <4>3
    <3> QED
      BY <3>1 DEF Holding
  <2>3. Told(m)' = Told(m)
    BY <1>8, <1>s, Locals, SMTT(30) DEF AddNode, SendAck, GetCliInfoNode, Told, TypeOK
  <2> QED
    BY <1>g, <2>1, <2>2, <2>3 DEF PlacesSum
<1>9. ASSUME NEW w \in Worker, EnSrvMsgQueue(w) PROVE Goal
  <2>1. UNCHANGED <<Told(m), taskq, rx, mt, displayed, net, sent>>
    BY <1>9 DEF EnSrvMsgQueue, Told
  <2>2. Cardinality(Where(msgq', m)) = Cardinality(Where(msgq, m)) + Number(m = wk[w].on)
    <3>1. wk[w].on \in Data /\ msgq' = Append(msgq, wk[w].on)
      BY <1>9, Locals DEF EnSrvMsgQueue
    <3> QED
      BY <1>s, <3>1, WhereAppend
  <2>3. Cardinality(Holding(m)') = Cardinality(Holding(m)) - Number(wk[w].on = m) + Number(Idle.on = m)
    BY <1>9, GotoCounts DEF EnSrvMsgQueue
  <2> QED
    BY <1>f, <1>g, <1>i, <2>1, <2>2, <2>3 DEF PlacesSum, Number
<1>10. ASSUME NEW w \in Worker, Display(w) PROVE Goal
  <2>1. UNCHANGED <<Told(m), taskq, msgq, rx, mt, net, sent>>
    BY <1>10 DEF Display, Told
  <2>2. m \in displayed' <=> m \in displayed \/ m = wk[w].on
    BY <1>10 DEF Display
  <2>3. Cardinality(Holding(m)') = Cardinality(Holding(m)) - Number(wk[w].on = m) + Number(Idle.on = m)
    BY <1>10, GotoCounts DEF Display
  <2> QED
    BY <1>f, <1>g, <1>i, <2>1, <2>2, <2>3 DEF PlacesSum, Number
<1>11. ASSUME NEW w \in Worker, SendTo(w) PROVE Goal
  <2>1. UNCHANGED <<taskq, msgq, rx, mt, net, sent, displayed>>
    BY <1>11 DEF SendTo
  <2>2. Cardinality(Holding(m)') = Cardinality(Holding(m)) - Number(wk[w].on = m) + Number(Idle.on = m)
    BY <1>11, GotoCounts DEF SendTo
  <2>3. Cardinality(Told(m)') <= Cardinality(Told(m)) + Number(wk[w].on = m)
        /\ Cardinality(Told(m)') \in Nat
    <3>1. /\ Told(m)' \ {wk[w].addr} = Told(m) \ {wk[w].addr}
          /\ (wk[w].on # m => Told(m)' = Told(m))
      BY <1>11, Locals DEF SendTo, Told, TypeOK
    <3>2. /\ Cardinality(Told(m)') \in Nat
          /\ Cardinality(Told(m)') = Cardinality(Told(m)) - Number(wk[w].addr \in Told(m))
                                       + Number(wk[w].addr \in Told(m)')
      BY <3>1, SetsFinite, Swap
    <3> QED
      BY <1>f, <3>1, <3>2 DEF Number
  <2> QED
    BY <1>f, <1>g, <1>i, <2>1, <2>2, <2>3 DEF PlacesSum, Number
<1>12. CASE DeSrvMsgQueue
  <2>1. UNCHANGED <<Told(m), Holding(m), taskq, rx, net, sent, displayed>>
    BY <1>12 DEF DeSrvMsgQueue, Told, Holding
  <2>2. Cardinality(Where(msgq', m)) = Cardinality(Where(msgq, m)) - Number(m = Head(msgq))
    BY <1>12, <1>s, WhereTail DEF DeSrvMsgQueue
  <2>3. mt = None /\ mt' = Head(msgq)
    BY <1>12 DEF DeSrvMsgQueue
  <2> QED
    BY <1>f, <1>g, <1>s, <2>1, <2>2, <2>3, SMTT(30) DEF PlacesSum, Number
<1>13. CASE AddMsgTask
  <2>1. UNCHANGED <<Told(m), Holding(m), msgq, rx, net, sent, displayed>>
    BY <1>13 DEF AddMsgTask, Told, Holding
  <2>2. Cardinality(Where(taskq', m)) = Cardinality(Where(taskq, m)) + Number(m = mt)
    <3>1. mt \in Data \cup {"udp"} /\ taskq' = Append(taskq, mt)
      BY <1>13, <1>s DEF AddMsgTask
    <3> QED
      BY <1>s, <3>1, WhereAppend
  <2>3. mt' = None
    BY <1>13 DEF AddMsgTask
  <2> QED
    BY <1>f, <1>g, <1>s, <2>1, <2>2, <2>3, SMTT(30) DEF PlacesSum, Number
<1> QED
  BY <1>1, <1>2, <1>3, <1>4, <1>5, <1>6, <1>7, <1>8, <1>9, <1>10, <1>11, <1>12, <1>13
  DEF Next, Epoll, MsgThread, WorkerStep


-----------------------------------------------------------------------------
(* The list of addresses                                                   *)

\* What list_add does to the places of the addresses.
LEMMA Pushed ==
    ASSUME TypeOK, NEW a \in Addr, infoList' = <<a>> \o infoList
    PROVE  /\ Contains(infoList', a)
           /\ \A x : Contains(infoList, x) => Contains(infoList', x)
           /\ \A p \in DOMAIN infoList' :
                \/ p = 1 /\ infoList'[p] = a
                \/ p - 1 \in DOMAIN infoList /\ p > 1 /\ infoList'[p] = infoList[p - 1]
<1>1. infoList \in Seq(Addr) /\ <<a>> \in Seq(Addr)
  BY DEF TypeOK
<1>2. /\ Len(infoList') = Len(infoList) + 1 /\ infoList'[1] = a
      /\ \A p \in 1..Len(infoList) : infoList'[p + 1] = infoList[p]
      /\ DOMAIN infoList' = 1..Len(infoList') /\ DOMAIN infoList = 1..Len(infoList)
      /\ Len(infoList) \in Nat
  BY <1>1
<1>3. \A p \in DOMAIN infoList' : p > 1 => p - 1 \in DOMAIN infoList /\ infoList'[p] = infoList[p - 1]
  <2> SUFFICES ASSUME NEW p \in DOMAIN infoList', p > 1
               PROVE  p - 1 \in DOMAIN infoList /\ infoList'[p] = infoList[p - 1]
    OBVIOUS
  <2>1. p - 1 \in 1..Len(infoList) /\ (p - 1) + 1 = p
    BY <1>2
  <2> QED
    BY <1>2, <2>1
<1>4. \A x : Contains(infoList, x) => Contains(infoList', x)
  BY <1>2 DEF Contains
<1>5. Contains(infoList', a)
  BY <1>2 DEF Contains
<1>6. \A p \in DOMAIN infoList' : p \in Nat /\ (p = 1 \/ p > 1)
  BY <1>2
<1> QED
  BY <1>2, <1>3, <1>4, <1>5, <1>6


LEMMA KnownStep == TypeOK /\ LocalInv /\ KnownInv /\ Next => KnownInv'
<1> SUFFICES ASSUME TypeOK, LocalInv, KnownInv, Next PROVE KnownInv'
  OBVIOUS
<1> USE NamesAssumption
<1>1. ASSUME NEW d \in Reg \cup Data, ClientSend(d) PROVE KnownInv'
  <2>1. UNCHANGED <<wk, infoList, inbox>>
    BY <1>1 DEF ClientSend
  <2>2. \A m \in Data : known'[m] = known[m] \/ known'[m] = Acked(Dest[m])
    BY <1>1 DEF ClientSend
  <2>3. \A m \in Data : \A a \in Acked(Dest[m]) : "ack" \in inbox[a] /\ Owner[a] = Dest[m]
    BY DEF Acked
  <2> QED
    BY <2>1, <2>2, <2>3 DEF KnownInv
<1>2. ASSUME NEW w \in Worker, AddNode(w) PROVE KnownInv'
  <2> DEFINE a == wk[w].addr
  <2>1. a \in Addr
    BY <1>2, Locals DEF AddNode
  <2>2. /\ Contains(infoList', a)
        /\ \A x : Contains(infoList, x) => Contains(infoList', x)
        /\ \A p \in DOMAIN infoList' :
             \/ p = 1 /\ infoList'[p] = a
             \/ p - 1 \in DOMAIN infoList /\ p > 1 /\ infoList'[p] = infoList[p - 1]
    BY <1>2, <2>1, Pushed DEF AddNode
  <2>3. UNCHANGED <<inbox, known>>
    BY <1>2 DEF AddNode
  <2>4. wk'[w].addr = a /\ \A v \in Worker : v # w => wk'[v] = wk[v]
    BY <1>2 DEF AddNode, Goto, TypeOK
  <2> QED
    BY <2>1, <2>2, <2>3, <2>4 DEF KnownInv
<1>3. ASSUME NEW w \in Worker, SendAck(w) PROVE KnownInv'
  <2>1. /\ \A v \in Worker : wk'[v].pc = "ack" => wk'[v] = wk[v]
        /\ UNCHANGED <<infoList, known>> /\ wk[w].pc = "ack" /\ wk[w].addr \in Addr
    BY <1>3, Locals DEF SendAck, Goto, Idle, At, TypeOK
  <2>2. \A a \in Addr : /\ "ack" \in inbox[a] => "ack" \in inbox'[a]
                        /\ "ack" \in inbox'[a] => "ack" \in inbox[a] \/ a = wk[w].addr
    BY <1>3, <2>1 DEF SendAck, TypeOK
  <2>3. \A m \in Data : known[m] \subseteq Addr
    BY DEF TypeOK
  <2> QED
    BY <2>1, <2>2, <2>3 DEF KnownInv
<1>4. ASSUME UNCHANGED <<infoList, known>>,
             \A v \in Worker : wk'[v].pc = "ack" => wk'[v] = wk[v],
             \A a \in Addr : "ack" \in inbox'[a] <=> "ack" \in inbox[a]
      PROVE  KnownInv'
  <2>1. \A m \in Data : known[m] \subseteq Addr
    BY DEF TypeOK
  <2> QED
    BY <1>4, <2>1 DEF KnownInv
<1>5. ASSUME NEW d \in Reg \cup Data, Lose(d) \/ Arrive(d) PROVE KnownInv'
  BY <1>4, <1>5 DEF Lose, Arrive
<1>6. CASE Epoll \/ MsgThread
  BY <1>4, <1>6 DEF Epoll, MsgThread, EpollWait, EpollDispatch, DeSrvMsgQueue, AddMsgTask
<1>7. ASSUME NEW w \in Worker, TakeTask(w) \/ RecvFrom(w) PROVE KnownInv'
  <2>1. \A v \in Worker : wk'[v].pc = "ack" => wk'[v] = wk[v]
    BY <1>7 DEF TakeTask, RecvFrom, Goto, At, TypeOK
  <2> QED
    BY <1>4, <1>7, <2>1 DEF TakeTask, RecvFrom
<1>8. ASSUME NEW w \in Worker, EnSrvMsgQueue(w) \/ Display(w) PROVE KnownInv'
  <2>1. Goto(w, Idle)
    BY <1>8 DEF EnSrvMsgQueue, Display
  <2>2. \A v \in Worker : wk'[v].pc = "ack" => wk'[v] = wk[v]
    BY <2>1 DEF Goto, Idle, At, TypeOK
  <2> QED
    BY <1>4, <1>8, <2>2 DEF EnSrvMsgQueue, Display
<1>9. ASSUME NEW w \in Worker, GetCliInfoNode(w) PROVE KnownInv'
  <2>1. \A v \in Worker : wk'[v].pc = "ack" => wk'[v] = wk[v]
    BY <1>9 DEF GetCliInfoNode, Goto, At, TypeOK
  <2> QED
    BY <1>4, <1>9, <2>1 DEF GetCliInfoNode
<1>10. ASSUME NEW w \in Worker, SendTo(w) PROVE KnownInv'
  <2>1. \A v \in Worker : wk'[v].pc = "ack" => wk'[v] = wk[v]
    BY <1>10 DEF SendTo, Goto, Idle, At, TypeOK
  <2>2. wk[w].on # "ack"
    BY <1>10, Locals DEF SendTo
  <2>3. \A a \in Addr : "ack" \in inbox'[a] <=> "ack" \in inbox[a]
    BY <1>10, <2>2 DEF SendTo, TypeOK
  <2> QED
    BY <1>4, <1>10, <2>1, <2>3 DEF SendTo
<1> QED
  BY <1>1, <1>2, <1>3, <1>5, <1>6, <1>7, <1>8, <1>9, <1>10 DEF Next, WorkerStep

\* list_add puts the address that is registered first of its client's, and leaves
\* the order of the others.
LEMMA OrderStep == TypeOK /\ LocalInv /\ OrderInv /\ Next => OrderInv'
<1> SUFFICES ASSUME TypeOK, LocalInv, OrderInv, Next PROVE OrderInv'
  OBVIOUS
<1> USE NamesAssumption
<1>1. ASSUME NEW w \in Worker, AddNode(w) PROVE OrderInv'
  <2> DEFINE a == wk[w].addr
  <2>1. a \in Addr /\ Registered(a)
    BY <1>1, Locals DEF AddNode
  <2>2. /\ Len(infoList) \in Nat
        /\ DOMAIN infoList = 1..Len(infoList) /\ DOMAIN infoList' = 1..(Len(infoList) + 1)
        /\ infoList'[1] = a
        /\ \A p \in 1..Len(infoList) : infoList'[p + 1] = infoList[p]
    BY <1>1, <2>1 DEF AddNode, TypeOK
  <2> SUFFICES ASSUME NEW m \in Data, NEW p \in DOMAIN infoList', First(Dest[m], p)'
               PROVE  infoList'[p] \in newest'[m]
    BY DEF OrderInv
  <2>3. CASE Owner[a] = Dest[m]
    <3>1. p = 1 /\ infoList'[p] = a
      BY <2>2, <2>3 DEF First
    <3> QED
      BY <2>1, <2>3, <3>1 DEF Registered
  <2>4. CASE Owner[a] # Dest[m]
    <3>1. p # 1 /\ p - 1 \in 1..Len(infoList) /\ (p - 1) + 1 = p
      BY <2>2, <2>4 DEF First
    <3>2. infoList'[p] = infoList[p - 1]
      BY <2>2, <3>1
    <3>3. ASSUME NEW q \in DOMAIN infoList, Owner[infoList[q]] = Dest[m] PROVE p - 1 <= q
      <4>1. q + 1 \in DOMAIN infoList' /\ infoList'[q + 1] = infoList[q]
        BY <2>2
      <4>2. p <= q + 1
        BY <3>3, <4>1 DEF First
      <4> QED
        BY <2>2, <4>2
    <3>4. First(Dest[m], p - 1)
      BY <2>2, <3>1, <3>2, <3>3 DEF First
    <3>5. newest'[m] = newest[m]
      BY <2>1, <2>4 DEF Registered
    <3> QED
      BY <2>2, <3>1, <3>2, <3>4, <3>5 DEF OrderInv
  <2> QED
    BY <2>3, <2>4
<1>2. CASE UNCHANGED <<infoList, newest>>
  BY <1>2 DEF OrderInv, First
<1> QED
  BY <1>1, <1>2 DEF Next, ClientSend, Lose, Arrive, Epoll, MsgThread, EpollWait, EpollDispatch,
     DeSrvMsgQueue, AddMsgTask, WorkerStep, TakeTask, RecvFrom, SendAck, EnSrvMsgQueue, Display,
     GetCliInfoNode, SendTo

-----------------------------------------------------------------------------
(* Where messages go                                                       *)

\* The addresses that were known when m was sent are nodes of the list with
\* the id m is for.
LEMMA KnownListed ==
    ASSUME TypeOK, KnownInv, NEW m \in Data, NEW new \in known[m]
    PROVE  /\ new \in Addr /\ "ack" \in inbox[new]
           /\ \E r \in DOMAIN infoList : infoList[r] = new /\ Owner[infoList[r]] = Dest[m]
<1>1. new \in Addr
  BY DEF TypeOK
<1>2. "ack" \in inbox[new] /\ Owner[new] = Dest[m] /\ Contains(infoList, new)
  BY <1>1 DEF KnownInv
<1>3. PICK r \in 1..Len(infoList) : infoList[r] = new
  BY <1>2 DEF Contains
<1>4. r \in DOMAIN infoList
  BY <1>3 DEF TypeOK
<1> QED
  BY <1>1, <1>2, <1>3, <1>4

LEMMA DeliveryStep ==
    TypeOK /\ LocalInv /\ OnceInv /\ KnownInv /\ OrderInv /\ DeliveryInv /\ Next => DeliveryInv'
<1> SUFFICES ASSUME TypeOK, LocalInv, OnceInv, KnownInv, OrderInv, DeliveryInv, Next
             PROVE  DeliveryInv'
  OBVIOUS
<1> USE NamesAssumption
<1>1. ASSUME NEW d \in Reg \cup Data, ClientSend(d) PROVE DeliveryInv'
  <2>1. UNCHANGED <<wk, inbox, newest>> /\ sent \subseteq sent'
    BY <1>1 DEF ClientSend
  <2> QED
    BY <2>1 DEF DeliveryInv, Addressed
<1>2. ASSUME NEW w \in Worker, GetCliInfoNode(w) PROVE DeliveryInv'
  <2>1. UNCHANGED <<inbox, newest, sent>> /\ wk[w].on \in Data /\ wk[w].on \in sent
    BY <1>2, Locals, Exclusive DEF GetCliInfoNode
  <2>2. CASE UNCHANGED wk
    BY <2>1, <2>2 DEF DeliveryInv, Addressed
  <2>3. ASSUME NEW p \in DOMAIN infoList, Owner[infoList[p]] = Dest[wk[w].on],
               \A q \in DOMAIN infoList : Owner[infoList[q]] = Dest[wk[w].on] => p <= q,
               Goto(w, At("send", wk[w].on, infoList[p]))
        PROVE  DeliveryInv'
    <3>1. Addressed(wk[w].on, infoList[p])
      BY <2>1, <2>3 DEF OrderInv, First, Addressed
    <3>2. /\ wk'[w].on = wk[w].on /\ wk'[w].addr = infoList[p]
          /\ \A v \in Worker : v # w => wk'[v] = wk[v]
      BY <2>3 DEF Goto, At, TypeOK
    <3> QED
      BY <2>1, <3>1, <3>2 DEF DeliveryInv, Addressed
  <2> QED
    BY <1>2, <2>2, <2>3 DEF GetCliInfoNode
<1>3. ASSUME NEW w \in Worker, SendTo(w) PROVE DeliveryInv'
  <2>1. /\ UNCHANGED <<newest, sent>> /\ wk[w].pc = "send" /\ wk[w].addr \in Addr
        /\ \A v \in Worker : wk'[v].pc = "send" => wk'[v] = wk[v]
    BY <1>3, Locals DEF SendTo, Goto, Idle, At, TypeOK
  <2>2. \A m \in Data, a \in Addr : m \in inbox'[a] => m \in inbox[a] \/ (m = wk[w].on /\ a = wk[w].addr)
    BY <1>3, <2>1 DEF SendTo, TypeOK
  <2> QED
    BY <2>1, <2>2 DEF DeliveryInv, Addressed
<1>4. ASSUME UNCHANGED <<newest, sent>>,
             \A v \in Worker : wk'[v].pc = "send" => wk'[v] = wk[v],
             \A m \in Data, a \in Addr : m \in inbox'[a] => m \in inbox[a]
      PROVE  DeliveryInv'
  BY <1>4 DEF DeliveryInv, Addressed
<1>5. ASSUME NEW d \in Reg \cup Data, Lose(d) \/ Arrive(d) PROVE DeliveryInv'
  BY <1>4, <1>5 DEF Lose, Arrive
<1>6. CASE Epoll \/ MsgThread
  BY <1>4, <1>6 DEF Epoll, MsgThread, EpollWait, EpollDispatch, DeSrvMsgQueue, AddMsgTask
<1>7. ASSUME NEW w \in Worker, TakeTask(w) \/ RecvFrom(w) PROVE DeliveryInv'
  <2>1. \A v \in Worker : wk'[v].pc = "send" => wk'[v] = wk[v]
    BY <1>7 DEF TakeTask, RecvFrom, Goto, At, TypeOK
  <2> QED
    BY <1>4, <1>7, <2>1 DEF TakeTask, RecvFrom
<1>8. ASSUME NEW w \in Worker, AddNode(w) PROVE DeliveryInv'
  <2>1. \A v \in Worker : wk'[v].pc = "send" => wk'[v] = wk[v]
    BY <1>8 DEF AddNode, Goto, TypeOK
  <2>2. UNCHANGED <<inbox, sent>> /\ \A m \in Data : m \in sent => newest[m] \subseteq newest'[m]
    BY <1>8 DEF AddNode, Registered
  <2>3. \A v \in Worker : wk[v].pc = "send" => wk[v].on \in Data
    BY Locals
  <2> QED
    BY <2>1, <2>2, <2>3 DEF DeliveryInv, Addressed
<1>9. ASSUME NEW w \in Worker, SendAck(w) PROVE DeliveryInv'
  <2>1. \A v \in Worker : wk'[v].pc = "send" => wk'[v] = wk[v]
    BY <1>9 DEF SendAck, Goto, Idle, At, TypeOK
  <2>2. \A m \in Data, a \in Addr : m \in inbox'[a] => m \in inbox[a]
    BY <1>9, Locals DEF SendAck, TypeOK
  <2> QED
    BY <1>4, <1>9, <2>1, <2>2 DEF SendAck
<1>10. ASSUME NEW w \in Worker, EnSrvMsgQueue(w) \/ Display(w) PROVE DeliveryInv'
  <2>1. Goto(w, Idle)
    BY <1>10 DEF EnSrvMsgQueue, Display
  <2>2. \A v \in Worker : wk'[v].pc = "send" => wk'[v] = wk[v]
    BY <2>1 DEF Goto, Idle, At, TypeOK
  <2> QED
    BY <1>4, <1>10, <2>2 DEF EnSrvMsgQueue, Display
<1> QED
  BY <1>1, <1>2, <1>3, <1>5, <1>6, <1>7, <1>8, <1>9, <1>10 DEF Next, WorkerStep

\* The server is ended only by a message for a client that was not acknowledged.
LEMMA CrashStep == TypeOK /\ LocalInv /\ OnceInv /\ KnownInv /\ CrashInv /\ Next => CrashInv'
<1> SUFFICES ASSUME TypeOK, LocalInv, OnceInv, KnownInv, Next, srv' = "crashed"
             PROVE  \E m \in Data \cap sent' : Dest[m] # Server /\ known'[m] = {}
  BY DEF CrashInv
<1> USE NamesAssumption
<1>1. srv = "up"
  BY DEF Next
<1>2. PICK w \in Worker : GetCliInfoNode(w)
  BY <1>1 DEF Next, ClientSend, Lose, Arrive, Epoll, MsgThread, EpollWait, EpollDispatch, DeSrvMsgQueue,
     AddMsgTask, WorkerStep, TakeTask, RecvFrom, AddNode, SendAck, EnSrvMsgQueue, Display, SendTo
<1>3. wk[w].on \in Data /\ wk[w].on \in sent /\ Dest[wk[w].on] # Server
  BY <1>2, Locals, Exclusive DEF GetCliInfoNode
<1>4. \A p \in DOMAIN infoList : Owner[infoList[p]] # Dest[wk[w].on]
  BY <1>1, <1>2 DEF GetCliInfoNode
<1>5. known[wk[w].on] = {}
  BY <1>3, <1>4, KnownListed
<1> QED
  BY <1>2, <1>3, <1>5 DEF GetCliInfoNode


-----------------------------------------------------------------------------
(* The copies                                                              *)

LEMMA Members ==
    ASSUME NEW S, NEW s \in Seq(S), NEW x
    PROVE  /\ \A y \in S : Contains(Append(s, y), x) <=> Contains(s, x) \/ x = y
           /\ s # << >> => (Contains(s, x) <=> x = Head(s) \/ Contains(Tail(s), x))
<1>1. \A y \in S : Contains(Append(s, y), x) <=> Contains(s, x) \/ x = y
  BY DEF Contains
<1>2. ASSUME s # << >> PROVE Contains(s, x) <=> x = Head(s) \/ Contains(Tail(s), x)
  <2>1. /\ Len(s) \in Nat \ {0} /\ Len(Tail(s)) = Len(s) - 1 /\ Head(s) = s[1]
        /\ \A p \in 1..(Len(s) - 1) : Tail(s)[p] = s[p + 1]
    BY <1>2
  <2>2. ASSUME NEW p \in 1..Len(s), p # 1 PROVE p - 1 \in 1..Len(Tail(s)) /\ Tail(s)[p - 1] = s[p]
    <3>1. p - 1 \in 1..(Len(s) - 1) /\ (p - 1) + 1 = p
      BY <2>1, <2>2
    <3> QED
      BY <2>1, <3>1
  <2>3. \A p \in 1..Len(Tail(s)) : p + 1 \in 1..Len(s) /\ s[p + 1] = Tail(s)[p]
    BY <2>1
  <2>4. Contains(s, x) => x = Head(s) \/ Contains(Tail(s), x)
    BY <2>1, <2>2 DEF Contains
  <2>5. x = Head(s) \/ Contains(Tail(s), x) => Contains(s, x)
    BY <2>1, <2>3 DEF Contains
  <2> QED
    BY <2>4, <2>5
<1> QED
  BY <1>1, <1>2

\* Message m is on its way through the pool.
InPool(m) ==
    Contains(taskq, m) \/ \E w \in Worker : wk[w].on = m /\ wk[w].pc \in {"msg", "send"}

LEMMA CopiesStep == TypeOK /\ LocalInv /\ OnceInv /\ CopiesExact /\ Next => CopiesExact'
<1> SUFFICES ASSUME TypeOK, LocalInv, OnceInv, CopiesExact, Next PROVE CopiesExact'
  OBVIOUS
<1> USE NamesAssumption
<1>0. \A m \in Data : m \in heap <=> m \in displayed \/ InPool(m)
  BY DEF CopiesExact, InPool
<1>1. SUFFICES ASSUME NEW m \in Data PROVE m \in heap' <=> m \in displayed' \/ InPool(m)'
  <2>1. heap' \subseteq Data /\ displayed' \subseteq Data
    BY TypeStep DEF TypeOK
  <2> QED
    BY <1>1, <2>1 DEF CopiesExact, InPool
<1> DEFINE Goal == m \in heap' <=> m \in displayed' \/ InPool(m)'
<1>s. taskq \in Seq(Data \cup {"udp"}) /\ mt \in Data \cup {None} /\ m # None /\ m # "udp"
  BY DEF TypeOK
<1>2. ASSUME UNCHANGED <<heap, displayed, taskq, wk>> PROVE Goal
  BY <1>0, <1>2 DEF InPool
<1>3. ASSUME NEW d \in Reg \cup Data, ClientSend(d) \/ Lose(d) \/ Arrive(d) PROVE Goal
  BY <1>2, <1>3 DEF ClientSend, Lose, Arrive
<1>4. CASE EpollWait \/ DeSrvMsgQueue
  BY <1>2, <1>4 DEF EpollWait, DeSrvMsgQueue
<1>5. CASE EpollDispatch
  <2>1. taskq' = Append(taskq, "udp") /\ "udp" \in Data \cup {"udp"} /\ UNCHANGED <<heap, displayed, wk>>
    BY <1>5 DEF EpollDispatch
  <2>2. Contains(taskq', m) <=> Contains(taskq, m)
    BY <1>s, <2>1, Members
  <2> QED
    BY <1>0, <2>1, <2>2 DEF InPool
<1>6. CASE AddMsgTask
  <2>1. /\ taskq' = Append(taskq, mt) /\ mt \in Data \cup {"udp"} /\ UNCHANGED <<displayed, wk>>
        /\ heap' = heap \cup {mt}
    BY <1>6, <1>s DEF AddMsgTask
  <2>2. Contains(taskq', m) <=> Contains(taskq, m) \/ m = mt
    <3>1. \A y \in Data \cup {"udp"} : Contains(Append(taskq, y), m) <=> Contains(taskq, m) \/ m = y
      BY <1>s, Members, ZenonT(60)
    <3> QED
      BY <2>1, <3>1, Zenon
  <2> QED
    BY <1>0, <2>1, <2>2 DEF InPool
<1>7. ASSUME NEW w \in Worker, TakeTask(w) PROVE Goal
  <2>1. Contains(taskq, m) <=> m = Head(taskq) \/ Contains(taskq', m)
    BY <1>s, <1>7, Members DEF TakeTask
  <2>2. /\ wk[w].pc = "idle" /\ UNCHANGED <<heap, displayed>>
        /\ \A v \in Worker : v # w => wk'[v] = wk[v]
        /\ wk'[w].on = m /\ wk'[w].pc \in {"msg", "send"} <=> m = Head(taskq)
    BY <1>s, <1>7 DEF TakeTask, Goto, At, TypeOK
  <2> QED
    BY <1>0, <2>1, <2>2 DEF InPool
<1>8. ASSUME UNCHANGED <<heap, displayed, taskq>>,
             \A v \in Worker : wk'[v].on = m /\ wk'[v].pc \in {"msg", "send"}
                                 <=> wk[v].on = m /\ wk[v].pc \in {"msg", "send"}
      PROVE  Goal
  BY <1>0, <1>8 DEF InPool
<1>9. ASSUME NEW w \in Worker, RecvFrom(w) PROVE Goal
  BY <1>8, <1>9 DEF RecvFrom, Goto, At, TypeOK
<1>10. ASSUME NEW w \in Worker, AddNode(w) PROVE Goal
  BY <1>8, <1>10 DEF AddNode, Goto, TypeOK
<1>11. ASSUME NEW w \in Worker, SendAck(w) PROVE Goal
  BY <1>8, <1>11 DEF SendAck, Goto, Idle, At, TypeOK
<1>12. ASSUME NEW w \in Worker, EnSrvMsgQueue(w) PROVE Goal
  BY <1>8, <1>12 DEF EnSrvMsgQueue, Goto, Idle, At, TypeOK
<1>13. ASSUME NEW w \in Worker, GetCliInfoNode(w) PROVE Goal
  <2>1. UNCHANGED <<heap, displayed, taskq>> /\ wk[w].pc = "msg"
    BY <1>13 DEF GetCliInfoNode
  <2>2. CASE UNCHANGED wk
    BY <1>2, <2>1, <2>2
  <2>3. ASSUME NEW p \in DOMAIN infoList, Goto(w, At("send", wk[w].on, infoList[p])) PROVE Goal
    <3>1. /\ wk'[w].on = wk[w].on /\ wk'[w].pc = "send"
          /\ \A v \in Worker : v # w => wk'[v] = wk[v]
      BY <2>3 DEF Goto, At, TypeOK
    <3> QED
      BY <1>8, <2>1, <3>1
  <2> QED
    BY <1>13, <2>2, <2>3 DEF GetCliInfoNode
<1>14. ASSUME NEW w \in Worker, Display(w) PROVE Goal
  <2>1. /\ UNCHANGED <<heap, taskq>> /\ displayed' = displayed \cup {wk[w].on}
        /\ wk[w].pc = "msg" /\ \A v \in Worker : v # w => wk'[v] = wk[v]
        /\ wk'[w].pc = "idle"
    BY <1>14 DEF Display, Goto, Idle, At, TypeOK
  <2> QED
    BY <1>0, <2>1 DEF InPool
<1>15. ASSUME NEW w \in Worker, SendTo(w) PROVE Goal
  <2>1. /\ UNCHANGED <<displayed, taskq>> /\ heap' = heap \ {wk[w].on}
        /\ wk[w].pc = "send" /\ \A v \in Worker : v # w => wk'[v] = wk[v]
        /\ wk'[w].pc = "idle" /\ wk[w].on \in Data
    BY <1>15, Locals DEF SendTo, Goto, Idle, At, TypeOK
  <2>2. /\ wk[w].on \notin displayed /\ ~Contains(taskq, wk[w].on)
        /\ \A v \in Worker : wk[v].on = wk[w].on => v = w
    BY <2>1, Exclusive
  <2> QED
    BY <1>0, <2>1, <2>2 DEF InPool
<1> QED
  BY <1>3, <1>4, <1>5, <1>6, <1>7, <1>9, <1>10, <1>11, <1>12, <1>13, <1>14, <1>15
  DEF Next, Epoll, MsgThread, WorkerStep

-----------------------------------------------------------------------------
(* The theorems                                                            *)

LEMMA InitInd == Init => IndInv
<1> SUFFICES ASSUME Init PROVE IndInv
  OBVIOUS
<1> USE NamesAssumption
<1>1. TypeOK /\ LocalInv
  <2>1. edge \in BOOLEAN /\ merged \in BOOLEAN
    BY Zenon DEF Init
  <2>2. wk \in [Worker -> [pc : {"idle", "recv", "save", "ack", "enq", "msg", "send"},
                          on : Data \cup {None}, addr : Addr \cup {None}]]
    BY DEF Init, Idle, At
  <2>3. LocalInv
    BY DEF Init, LocalInv, Idle, At
  <2> QED
    BY <2>1, <2>2, <2>3 DEF Init, TypeOK
<1>2. /\ \A x \in Reg \cup Data \cup {"udp"} : Where(rx, x) = {} /\ Where(taskq, x) = {} /\ Where(msgq, x) = {}
      /\ Receiving = {}
      /\ \A m \in Data : Holding(m) = {} /\ Told(m) = {}
  BY DEF Init, Where, Receiving, Holding, Told, Idle, At
<1>3. EventInv
  <2>1. Cardinality(Receiving) = 0 /\ Cardinality(Where(taskq, "udp")) = 0
    BY <1>2, FS_EmptySet
  <2>2. events = 0 /\ ~edge /\ Len(rx) = 0
    BY DEF Init
  <2> QED
    BY <2>1, <2>2 DEF EventInv, Number
<1>4. OnceInv
  <2> SUFFICES ASSUME NEW m \in Data PROVE PlacesSum(m) <= Number(m \in sent)
    BY PlacesIsSum DEF OnceInv
  <2>1. m # mt /\ m \notin net /\ m \notin displayed
    BY DEF Init
  <2> QED
    BY <1>2, <2>1, FS_EmptySet DEF PlacesSum, Number
<1>6. KnownInv /\ OrderInv /\ DeliveryInv /\ CrashInv
  BY DEF Init, KnownInv, OrderInv, DeliveryInv, CrashInv, Idle, At
<1>7. CopiesExact
  BY DEF Init, CopiesExact, Contains, Idle, At
<1> QED
  BY <1>1, <1>3, <1>4, <1>6, <1>7 DEF IndInv

LEMMA Stutter == IndInv /\ UNCHANGED vars => IndInv'
<1> SUFFICES ASSUME IndInv, UNCHANGED vars PROVE IndInv'
  OBVIOUS
<1> USE DEF vars
<1>1. TypeOK' /\ LocalInv' /\ EventInv' /\ OnceInv'
  BY DEF IndInv, TypeOK, LocalInv, EventInv, OnceInv, Places, Where, Receiving
<1>2. KnownInv' /\ OrderInv' /\ DeliveryInv' /\ CrashInv' /\ CopiesExact'
  BY DEF IndInv, KnownInv, OrderInv, First, DeliveryInv, Addressed, CrashInv, CopiesExact
<1> QED
  BY <1>1, <1>2 DEF IndInv

\* The parts of the invariant are kept together by every step of the server, its
\* clients and the network.  (server_epoll.c:62-97, server_udp.c:84-174)
THEOREM Invariance == Spec => []IndInv
<1>1. IndInv /\ [Next]_vars => IndInv'
  BY Stutter, TypeStep, EventStep, OnceStep, KnownStep, OrderStep, DeliveryStep, CrashStep, CopiesStep
  DEF IndInv
<1> QED
  BY <1>1, InitInd, PTL DEF Spec

\* No pool thread waits in recvfrom() for a datagram that was read by another.
\* (server_epoll.c:76-86, server_udp.c:98)
THEOREM HandlersHaveDatagrams == Spec => []NoBlockedWorker
<1>1. IndInv => NoBlockedWorker
  <2> SUFFICES ASSUME IndInv PROVE Cardinality(Receiving) <= Len(rx)
    BY DEF NoBlockedWorker, Receiving
  <2>0. TypeOK /\ EventInv
    BY DEF IndInv
  <2>1. /\ Cardinality(Receiving) \in Nat /\ Cardinality(Where(taskq, "udp")) \in Nat
        /\ events \in 0..1 /\ Len(rx) \in Nat
    <3>1. events \in 0..1 /\ Len(rx) \in Nat
      BY <2>0 DEF TypeOK
    <3> QED
      BY <2>0, <3>1, SetsFinite
  <2> QED
    BY <2>0, <2>1 DEF EventInv, Number
<1> QED
  BY <1>1, Invariance, PTL

\* Acknowledged clients are served: nothing that is sent to them ends the server,
\* and each message goes at most once, to the address the client registered last
\* when it was sent or to one registered since.
\* (clientinfo_list.c:60, 74-81, server_udp.c:109-174)
THEOREM ServesKnownClients == Spec => []KnownClientsServed
<1>1. IndInv => KnownClientsServed
  <2> SUFFICES ASSUME IndInv PROVE KnownClientsServed
    OBVIOUS
  <2>1. NoCrash
    BY DEF IndInv, CrashInv, NoCrash, TypeOK
  <2>2. DeliveredToNewest
    BY DEF IndInv, DeliveryInv, Addressed, DeliveredToNewest
  <2>3. MessageOnce
    <3> SUFFICES ASSUME NEW m \in Data PROVE Places(m) <= 1
      BY DEF MessageOnce, IndInv
    <3>1. PlacesSum(m) <= Number(m \in sent)
      BY PlacesIsSum DEF IndInv, OnceInv
    <3>2. /\ Cardinality(Holding(m)) \in Nat /\ Cardinality(Where(msgq, m)) \in Nat
          /\ Cardinality(Where(taskq, m)) \in Nat /\ Cardinality(Where(rx, m)) \in Nat
          /\ Cardinality(Told(m)) \in Nat
      BY SetsFinite DEF IndInv
    <3>3. PlacesSum(m) <= 1
      BY <3>1, <3>2 DEF PlacesSum, Number
    <3> QED
      BY <3>3, PlacesIsSum
  <2> QED
    BY <2>1, <2>2, <2>3 DEF KnownClientsServed
<1> QED
  BY <1>1, Invariance, PTL

\* The copies are those of the messages in the pool, and of those that were shown,
\* which are never freed.  (server_udp.c:137, 148, 160-174)
THEOREM CopiesAccounted == Spec => []CopiesExact
<1>1. IndInv => CopiesExact
  BY DEF IndInv
<1> QED
  BY <1>1, Invariance, PTL

=============================================================================
