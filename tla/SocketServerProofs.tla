------------------------- MODULE SocketServerProofs -------------------------
(***************************************************************************)
(* The server of work_srcs/socket blocks no pool thread, takes no          *)
(* connection down for another, keeps the registrations it has             *)
(* acknowledged and delivers each message once and to its addressee, for   *)
(* any pool, clients, connections, descriptors and messages, up to the two *)
(* windows that Regular names.  The last section is about its message      *)
(* queue and the unlocked first use of it (MsgQueue).                      *)
(***************************************************************************)
EXTENDS SocketServer, MsgQueue, FiniteSetTheorems, SequenceTheorems, TLAPS

\* The places of x in a sequence.
Where(s, x) == {p \in DOMAIN s : s[p] = x}

TearPC == {"epoll_del", "delete", "close"}

\* The link whose registration a pool thread handles.
LinkOf(l) == IF l.fd \in Fd THEN l.on ELSE l.fd

\* What a pool thread holds at each point.
LocalOK(l) ==
    /\ l.pc = "idle" => l = Idle
    /\ l.pc = "accept" => l.fd = Listener
    /\ l.pc = "stdin" => l.fd = Stdin
    /\ l.pc = "recv" => l.fd \in Fd \cup {UdpSock}
    /\ l.pc \in TearPC \cup {"epoll_add"} => l.fd \in Fd /\ l.on \in Conn
    /\ l.pc \in {"save", "ack"} =>
         /\ (l.fd \in Fd /\ l.on \in Conn) \/ l.fd \in UdpAddr
         /\ l.msg = Owner[LinkOf(l)] /\ LinkOf(l) \in sent
    /\ l.pc \in {"en_queue", "display", "forward", "send"} => l.msg \in Data
    /\ l.pc \in {"forward", "send"} => Dest[l.msg] \in Client
    /\ l.pc = "send" => l.fd \in Fd \cup UdpAddr
    /\ l.pc = "broadcast" => l.msg \subseteq {x \in Client : row[x] # None}

LocalInv ==
    /\ \A w \in Worker : LocalOK(wk[w])
    /\ \A v, w \in Worker : wk[v].pc = "broadcast" /\ wk[w].pc = "broadcast" => v = w

\* Connections, descriptors and the epoll set.
TableInv ==
    /\ {Listener, UdpSock, Stdin} \subseteq interest
    /\ \A c \in interest \cap Conn : \E f \in Fd : fdt[f] = c
    /\ \A f, g \in Fd : fdt[f] = fdt[g] /\ fdt[f] # None => f = g
    /\ \A i, j \in DOMAIN rx[Listener] : rx[Listener][i] = rx[Listener][j] => i = j
    /\ \A i \in DOMAIN rx[Listener] : \A f \in Fd : fdt[f] # rx[Listener][i]
    /\ \A c \in Conn : peer[c] = "new" =>
         /\ rx[c] = << >> /\ c \notin sent
         /\ (\A i \in DOMAIN rx[Listener] : rx[Listener][i] # c) /\ \A f \in Fd : fdt[f] # c

\* The end of a connection is the last thing that arrives; a registration is in
\* a socket only after it was sent.
ItemsInv ==
    /\ \A c \in Conn : \A p \in DOMAIN rx[c] :
         rx[c][p] = "EOF" => p = Len(rx[c]) /\ peer[c] \notin {"new", "open"}
    /\ \A c \in Conn : \A p \in DOMAIN rx[c] : rx[c][p] = c => c \in sent
    /\ \A p \in DOMAIN rx[UdpSock] : rx[UdpSock][p] \in UdpAddr => rx[UdpSock][p] \in sent

OnceInv == \A m \in Data : Places(m) <= Number(m \in sent)

\* Everything that will read from descriptor f, or is closing it.
Using(f) == {w \in Worker : wk[w].pc \in ReadPC \cup TearPC /\ wk[w].fd = f}
Pending(f) == {i \in DOMAIN taskq : taskq[i].h \in ReadPC /\ taskq[i].arg = f}
Load(f) == Cardinality(Using(f)) + Cardinality(Pending(f)) + Number(f \in events)
           + Number(SockAt(f) \in ready)

Adding(f) == \E w \in Worker : wk[w].pc = "epoll_add" /\ wk[w].fd = f
Bound(f) == IF SockAt(f) = None \/ Adding(f) THEN 0 ELSE Len(rx[SockAt(f)])

\* Each of them stands for an item of its own, and there is none before the
\* descriptor is in the epoll set.
BackedInv == \A f \in SockFd : Load(f) <= Bound(f)

\* A new connection is put into the epoll set once.
AddInv ==
    /\ \A w \in Worker : wk[w].pc = "epoll_add" => fdt[wk[w].fd] = wk[w].on /\ wk[w].on \notin interest
    /\ \A v, w \in Worker : wk[v].pc = "epoll_add" /\ wk[w].pc = "epoll_add" /\ wk[v].fd = wk[w].fd => v = w

\* Who tears a connection down has read its end, and holds its descriptor still.
TearInv ==
    \A w \in Worker : wk[w].pc \in TearPC =>
        /\ fdt[wk[w].fd] = wk[w].on /\ rx[wk[w].on] = <<"EOF">>
        /\ wk[w].pc = "close" => \A x \in Client : row[x] # wk[w].fd

\* A connection whose client is there has its descriptor and is, or will be, watched.
ServedInv ==
    \A c \in Conn : peer[c] = "open" /\ (\A i \in DOMAIN rx[Listener] : rx[Listener][i] # c) =>
        \E f \in Fd : fdt[f] = c /\ (c \in interest \/ Adding(f))

\* A row names a link its client has registered on.
RowInv ==
    \A x \in Client :
        /\ row[x] \in Fd => /\ fdt[row[x]] \in Conn /\ Owner[fdt[row[x]]] = x
                            /\ fdt[row[x]] \in sent
        /\ row[x] \in UdpAddr => Owner[row[x]] = x /\ row[x] \in sent

\* The registration on l has been handled.
Acknowledged(l) ==
    \/ Package(Owner[l], "ack") \in inbox[l]
    \/ \E w \in Worker : wk[w].pc = "ack" /\ LinkOf(wk[w]) = l

OnlyLink(l) ==
    /\ l \in Conn => peer[l] = "open"
    /\ \A k \in Link : Owner[k] = Owner[l] /\ k \in sent => k = l

PointsAt(x, l) ==
    IF l \in Conn THEN row[x] \in Fd /\ fdt[row[x]] = l ELSE row[x] = l

AckInv ==
    \A l \in Link : Acknowledged(l) => l \in sent /\ (OnlyLink(l) => PointsAt(Owner[l], l))

RouteInv ==
    /\ \A l \in Link : \A p \in inbox[l] : p.to = Owner[l]
    /\ \A w \in Worker : wk[w].pc = "send" =>
         IF wk[w].fd \in Fd THEN wk[w].on \in Conn /\ Owner[wk[w].on] = Dest[wk[w].msg]
                            ELSE Owner[wk[w].fd] = Dest[wk[w].msg]

RegularInv ==
    /\ BackedInv /\ AddInv /\ TearInv /\ ServedInv
    /\ RowInv /\ AckInv /\ RouteInv

IndInv ==
    /\ TypeOK /\ LocalInv /\ TableInv /\ ItemsInv /\ OnceInv
    /\ Regular => RegularInv

-----------------------------------------------------------------------------
(* Sequences and counting                                                  *)

LEMMA Heads ==
    ASSUME NEW S, NEW s \in Seq(S), s # << >>
    PROVE  /\ Head(s) \in S /\ Tail(s) \in Seq(S) /\ Len(Tail(s)) = Len(s) - 1 /\ Len(s) \in Nat \ {0}
           /\ Head(s) = s[1] /\ 1 \in DOMAIN s
           /\ \A p \in DOMAIN Tail(s) : p + 1 \in DOMAIN s /\ Tail(s)[p] = s[p + 1] /\ p \in Nat \ {0}
           /\ \A p \in DOMAIN s : p # 1 => p - 1 \in DOMAIN Tail(s) /\ Tail(s)[p - 1] = s[p]
<1>1. /\ Head(s) \in S /\ Tail(s) \in Seq(S) /\ Len(Tail(s)) = Len(s) - 1 /\ Len(s) \in Nat \ {0}
      /\ Head(s) = s[1] /\ DOMAIN s = 1..Len(s) /\ DOMAIN Tail(s) = 1..(Len(s) - 1)
      /\ \A p \in 1..(Len(s) - 1) : Tail(s)[p] = s[p + 1]
  OBVIOUS
<1>2. ASSUME NEW p \in DOMAIN s, p # 1 PROVE p - 1 \in DOMAIN Tail(s) /\ Tail(s)[p - 1] = s[p]
  <2>1. p - 1 \in 1..(Len(s) - 1) /\ (p - 1) + 1 = p
    BY <1>1, <1>2
  <2> QED
    BY <1>1, <2>1
<1> QED
  BY <1>1, <1>2

LEMMA Appended ==
    ASSUME NEW S, NEW s \in Seq(S), NEW x \in S
    PROVE  /\ Append(s, x) \in Seq(S) /\ Len(Append(s, x)) = Len(s) + 1 /\ Len(s) \in Nat
           /\ Append(s, x) # << >>
           /\ \A p \in DOMAIN s : p \in DOMAIN Append(s, x) /\ Append(s, x)[p] = s[p] /\ p \in 1..Len(s)
           /\ Len(s) + 1 \in DOMAIN Append(s, x) /\ Append(s, x)[Len(s) + 1] = x
           /\ \A p \in DOMAIN Append(s, x) : p \in DOMAIN s \/ p = Len(s) + 1
OBVIOUS

LEMMA Pushed ==
    ASSUME NEW S, NEW s \in Seq(S), NEW x \in S
    PROVE  /\ <<x>> \o s \in Seq(S) /\ Len(<<x>> \o s) = Len(s) + 1 /\ Len(s) \in Nat
           /\ 1 \in DOMAIN (<<x>> \o s) /\ (<<x>> \o s)[1] = x
           /\ \A p \in DOMAIN s : p + 1 \in DOMAIN (<<x>> \o s) /\ (<<x>> \o s)[p + 1] = s[p] /\ p \in Nat \ {0}
           /\ \A p \in DOMAIN (<<x>> \o s) :
                p = 1 \/ (p - 1 \in DOMAIN s /\ (<<x>> \o s)[p] = s[p - 1] /\ p \in Nat \ {0})
<1> DEFINE t == <<x>> \o s
<1>1. <<x>> \in Seq(S) /\ Len(<<x>>) = 1 /\ <<x>>[1] = x
  OBVIOUS
<1>2. /\ t \in Seq(S) /\ Len(t) = Len(s) + 1 /\ Len(s) \in Nat /\ t[1] = x
      /\ \A p \in 1..Len(s) : t[p + 1] = s[p]
      /\ DOMAIN t = 1..(Len(s) + 1) /\ DOMAIN s = 1..Len(s)
  BY <1>1
<1> HIDE DEF t
<1>3. ASSUME NEW p \in DOMAIN t, p # 1 PROVE p - 1 \in DOMAIN s /\ t[p] = s[p - 1] /\ p \in Nat \ {0}
  <2>1. p - 1 \in 1..Len(s) /\ (p - 1) + 1 = p /\ p \in Nat \ {0}
    BY <1>2, <1>3
  <2> QED
    BY <1>2, <2>1
<1> QED
  BY <1>2, <1>3 DEF t

LEMMA WhereFinite ==
    ASSUME NEW S, NEW s \in Seq(S), NEW x
    PROVE  /\ IsFiniteSet(Where(s, x)) /\ Cardinality(Where(s, x)) \in Nat
           /\ Contains(s, x) <=> Cardinality(Where(s, x)) # 0
           /\ Cardinality(Where(s, x)) <= Len(s)
<1>0. 1 \in Int /\ Len(s) \in Int /\ Len(s) >= 0
  OBVIOUS
<1>1. IsFiniteSet(1..Len(s)) /\ Cardinality(1..Len(s)) = Len(s)
  BY <1>0, FS_Interval, SMTT(30)
<1>2. Where(s, x) \in SUBSET (1..Len(s))
  BY DEF Where
<1>3. IsFiniteSet(Where(s, x)) /\ Cardinality(Where(s, x)) <= Len(s)
  BY <1>1, <1>2, FS_Subset
<1>4. Cardinality(Where(s, x)) \in Nat
  BY <1>3, FS_CardinalityType
<1>5. Contains(s, x) <=> Where(s, x) # {}
  BY DEF Contains, Where
<1> QED
  BY <1>3, <1>4, <1>5, FS_EmptySet

LEMMA WhereAppend ==
    ASSUME NEW S, NEW s \in Seq(S), NEW y \in S, NEW x
    PROVE  Cardinality(Where(Append(s, y), x)) = Cardinality(Where(s, x)) + Number(x = y)
<1>1. IsFiniteSet(Where(s, x)) /\ Cardinality(Where(s, x)) \in Nat
  BY WhereFinite
<1>2. Len(s) + 1 \notin Where(s, x)
  BY DEF Where
<1>3. CASE x = y
  <2>1. Where(Append(s, y), x) = Where(s, x) \cup {Len(s) + 1}
    BY <1>3 DEF Where
  <2> QED
    BY <1>1, <1>2, <1>3, <2>1, FS_AddElement DEF Number
<1>4. CASE x # y
  <2>1. Where(Append(s, y), x) = Where(s, x)
    BY <1>4 DEF Where
  <2> QED
    BY <1>1, <1>4, <2>1 DEF Number
<1> QED
  BY <1>3, <1>4

LEMMA WhereTail ==
    ASSUME NEW S, NEW s \in Seq(S), s # << >>, NEW x
    PROVE  Cardinality(Where(Tail(s), x)) = Cardinality(Where(s, x)) - Number(x = Head(s))
<1> DEFINE rest == Where(s, x) \ {1}
           shift == [p \in rest |-> p - 1]
<1>1. IsFiniteSet(Where(s, x)) /\ Cardinality(Where(s, x)) \in Nat
  BY WhereFinite
<1>2. IsFiniteSet(rest) /\ Cardinality(rest) = Cardinality(Where(s, x)) - Number(x = Head(s))
  <2>1. 1 \in Where(s, x) <=> x = Head(s)
    BY DEF Where
  <2> QED
    BY <1>1, <2>1, FS_RemoveElement DEF Number
<1>3. /\ Tail(s) \in Seq(S) /\ Len(Tail(s)) = Len(s) - 1
      /\ \A p \in 1..(Len(s) - 1) : Tail(s)[p] = s[p + 1]
  OBVIOUS
<1>4. rest \subseteq Nat /\ \A p \in rest : p - 1 \in Where(Tail(s), x)
  BY <1>3 DEF Where
<1>5. \A q \in Where(Tail(s), x) : q + 1 \in rest /\ q \in Nat
  BY <1>3 DEF Where
<1> HIDE DEF rest
<1>6. shift \in [rest -> Where(Tail(s), x)]
  BY <1>4
<1>7. \A p, q \in rest : shift[p] = shift[q] => p = q
  BY <1>4
<1>8. \A q \in Where(Tail(s), x) : \E p \in rest : shift[p] = q
  <2> SUFFICES ASSUME NEW q \in Where(Tail(s), x) PROVE \E p \in rest : shift[p] = q
    OBVIOUS
  <2>1. q + 1 \in rest /\ shift[q + 1] = q
    BY <1>5
  <2> QED
    BY <2>1
<1>9. ExistsBijection(rest, Where(Tail(s), x))
  BY <1>6, <1>7, <1>8 DEF ExistsBijection, Bijection, Injection, Surjection, IsInjective
<1> QED
  BY <1>2, <1>9, FS_Bijection

LEMMA WherePush ==
    ASSUME NEW S, NEW s \in Seq(S), NEW y \in S, NEW x
    PROVE  Cardinality(Where(<<y>> \o s, x)) = Cardinality(Where(s, x)) + Number(x = y)
<1> DEFINE t == <<y>> \o s
<1>1. t \in Seq(S) /\ t # << >> /\ Head(t) = y /\ Len(Tail(t)) = Len(s)
  BY Pushed, Heads
<1>2. Tail(t) = s
  <2>1. t \in Seq(S) /\ t # << >> /\ s \in Seq(S)
    BY <1>1
  <2>2. \A p \in 1..Len(s) : Tail(t)[p] = t[p + 1] /\ t[p + 1] = s[p]
    BY <1>1, Pushed, Heads
  <2> QED
    BY <1>1, <2>1, <2>2, SeqEqual
<1> HIDE DEF t
<1>3. Cardinality(Where(s, x)) = Cardinality(Where(t, x)) - Number(x = y)
  BY <1>1, <1>2, WhereTail
<1>4. Cardinality(Where(s, x)) \in Nat /\ Cardinality(Where(t, x)) \in Nat
  BY <1>1, WhereFinite
<1> QED
  BY <1>3, <1>4 DEF t, Number

\* Two finite sets that differ in one element at most.
LEMMA Swap ==
    ASSUME NEW P, IsFiniteSet(P), NEW Q, NEW w, Q \ {w} = P \ {w}
    PROVE  /\ IsFiniteSet(Q) /\ Cardinality(Q) \in Nat /\ Cardinality(P) \in Nat
           /\ Cardinality(Q) = Cardinality(P) - Number(w \in P) + Number(w \in Q)
<1> DEFINE R == P \ {w}
<1>1. /\ IsFiniteSet(R) /\ Cardinality(R) \in Nat /\ Cardinality(P) \in Nat
      /\ Cardinality(R) = Cardinality(P) - Number(w \in P)
  BY FS_RemoveElement, FS_CardinalityType DEF Number
<1>2. w \notin R /\ (w \in Q => Q = R \cup {w}) /\ (w \notin Q => Q = R)
  OBVIOUS
<1> HIDE DEF R
<1>3. CASE w \in Q
  <2>1. Q = R \cup {w} /\ w \notin R
    BY <1>2, <1>3
  <2>2. IsFiniteSet(Q) /\ Cardinality(Q) = Cardinality(R) + 1
    BY <1>1, <2>1, FS_AddElement
  <2> QED
    BY <1>1, <1>3, <2>2 DEF Number
<1>4. CASE w \notin Q
  BY <1>1, <1>2, <1>4 DEF Number
<1> QED
  BY <1>3, <1>4

-----------------------------------------------------------------------------
(* What a step does to the counts                                          *)

Note(m) == Task(IF Dest[m] = Server THEN "display" ELSE "forward", m)
Uses(l, f) == l.pc \in ReadPC \cup TearPC /\ l.fd = f
Has(l, m) == l.pc \in {"en_queue", "display", "forward", "send"} /\ l.msg = m

\* Tasks are told apart by their argument.
LEMMA Tasks ==
    /\ \A t \in Work : \A m \in Data : (t.h \in {"display", "forward"} /\ t.arg = m) <=> t = Note(m)
    /\ \A t \in Work : \A f \in SockFd : (t.h \in ReadPC /\ t.arg = f) <=> t = Task(Handler(f), f)
    /\ \A m \in Data : Note(m) \in Work
    /\ \A f \in SockFd : Task(Handler(f), f) \in Work /\ Handler(f) \in ReadPC
<1> USE NamesAssumption DEF Task
<1>1. ASSUME NEW t \in Work, NEW m \in Data
      PROVE  (t.h \in {"display", "forward"} /\ t.arg = m) <=> t = Note(m)
  BY DEF Work, Note
<1>2. ASSUME NEW t \in Work, NEW f \in SockFd
      PROVE  (t.h \in ReadPC /\ t.arg = f) <=> t = Task(Handler(f), f)
  BY DEF Work, SockFd, ReadPC, Handler
<1>3. \A m \in Data : Note(m) \in Work
  BY DEF Work, Note
<1>4. \A f \in SockFd : Task(Handler(f), f) \in Work /\ Handler(f) \in ReadPC
  BY DEF Work, SockFd, ReadPC, Handler
<1> QED
  BY <1>1, <1>2, <1>3, <1>4

LEMMA TaskPlaces ==
    ASSUME TypeOK
    PROVE  /\ \A m \in Data : TasksFor(m) = Where(taskq, Note(m))
           /\ \A f \in SockFd : Pending(f) = Where(taskq, Task(Handler(f), f))
<1>1. \A i \in DOMAIN taskq : taskq[i] \in Work
  BY DEF TypeOK
<1>2. ASSUME NEW m \in Data PROVE TasksFor(m) = Where(taskq, Note(m))
  BY <1>1, Tasks DEF TasksFor, Where
<1>3. ASSUME NEW f \in SockFd PROVE Pending(f) = Where(taskq, Task(Handler(f), f))
  BY <1>1, Tasks DEF Pending, Where
<1> QED
  BY <1>2, <1>3

LEMMA TaskPlacesNext ==
    ASSUME taskq' \in Seq(Work)
    PROVE  /\ \A m \in Data : TasksFor(m)' = Where(taskq', Note(m))
           /\ \A f \in SockFd : Pending(f)' = Where(taskq', Task(Handler(f), f))
<1>1. \A i \in DOMAIN taskq' : taskq'[i] \in Work
  OBVIOUS
<1>2. ASSUME NEW m \in Data PROVE TasksFor(m)' = Where(taskq', Note(m))
  BY <1>1, Tasks DEF TasksFor, Where
<1>3. ASSUME NEW f \in SockFd PROVE Pending(f)' = Where(taskq', Task(Handler(f), f))
  BY <1>1, Tasks DEF Pending, Where
<1> QED
  BY <1>2, <1>3

\* The sets that are counted are finite.
LEMMA SetsFinite ==
    ASSUME TypeOK
    PROVE  /\ \A m \in Data : /\ IsFiniteSet(Holding(m)) /\ Cardinality(Holding(m)) \in Nat
                              /\ IsFiniteSet(Told(m)) /\ Cardinality(Told(m)) \in Nat
                              /\ Cardinality(TasksFor(m)) \in Nat /\ Cardinality(Queued(m)) \in Nat
                              /\ Cardinality(Unread(m)) \in Nat
           /\ \A f \in SockFd : /\ IsFiniteSet(Using(f)) /\ Cardinality(Using(f)) \in Nat
                                /\ Cardinality(Pending(f)) \in Nat
<1>1. ASSUME NEW m \in Data
      PROVE  /\ IsFiniteSet(Holding(m)) /\ Cardinality(Holding(m)) \in Nat
             /\ IsFiniteSet(Told(m)) /\ Cardinality(Told(m)) \in Nat
             /\ Cardinality(TasksFor(m)) \in Nat /\ Cardinality(Queued(m)) \in Nat
             /\ Cardinality(Unread(m)) \in Nat
  <2>1. Holding(m) \in SUBSET Worker /\ Told(m) \in SUBSET Link
    BY DEF Holding, Told
  <2>2. IsFiniteSet(Link)
    BY BoundsAssumption, FS_Union DEF Link
  <2>3. IsFiniteSet(Holding(m)) /\ IsFiniteSet(Told(m))
    BY <2>1, <2>2, BoundsAssumption, FS_Subset
  <2>4. Wire(Via[m]) \in Sock
    BY LinksAssumption DEF Wire, Link, Sock
  <2>5. /\ TasksFor(m) = Where(taskq, Note(m)) /\ Queued(m) = Where(msgq, m)
        /\ Unread(m) = Where(rx[Wire(Via[m])], m)
    BY TaskPlaces DEF Queued, Unread, Where
  <2>6. taskq \in Seq(Work) /\ msgq \in Seq(Data) /\ rx[Wire(Via[m])] \in Seq(Items(Wire(Via[m])))
    BY <2>4 DEF TypeOK
  <2>7. /\ Cardinality(Where(taskq, Note(m))) \in Nat /\ Cardinality(Where(msgq, m)) \in Nat
        /\ Cardinality(Where(rx[Wire(Via[m])], m)) \in Nat
    BY <2>6, WhereFinite
  <2> QED
    BY <2>3, <2>5, <2>7, FS_CardinalityType
<1>2. ASSUME NEW f \in SockFd
      PROVE  /\ IsFiniteSet(Using(f)) /\ Cardinality(Using(f)) \in Nat
             /\ Cardinality(Pending(f)) \in Nat
  <2>1. Using(f) \in SUBSET Worker
    BY DEF Using
  <2>2. Pending(f) = Where(taskq, Task(Handler(f), f)) /\ taskq \in Seq(Work)
    BY TaskPlaces DEF TypeOK
  <2> QED
    BY <2>1, <2>2, BoundsAssumption, FS_Subset, FS_CardinalityType, WhereFinite
<1> QED
  BY <1>1, <1>2

LEMMA GotoCounts ==
    ASSUME TypeOK, NEW w \in Worker, NEW l, Goto(w, l)
    PROVE  /\ \A m \in Data : Cardinality(Holding(m)')
                = Cardinality(Holding(m)) - Number(Has(wk[w], m)) + Number(Has(l, m))
           /\ \A f \in SockFd : Cardinality(Using(f)')
                = Cardinality(Using(f)) - Number(Uses(wk[w], f)) + Number(Uses(l, f))
<1>0. wk'[w] = l /\ \A v \in Worker \ {w} : wk'[v] = wk[v]
  BY DEF Goto, TypeOK
<1>1. ASSUME NEW m \in Data
      PROVE  Cardinality(Holding(m)') = Cardinality(Holding(m)) - Number(Has(wk[w], m)) + Number(Has(l, m))
  <2>1. /\ Holding(m)' \ {w} = Holding(m) \ {w}
        /\ w \in Holding(m) <=> Has(wk[w], m)
        /\ w \in Holding(m)' <=> Has(l, m)
    BY <1>0 DEF Holding, Has
  <2>2. Cardinality(Holding(m)') = Cardinality(Holding(m)) - Number(w \in Holding(m)) + Number(w \in Holding(m)')
    BY <2>1, SetsFinite, Swap
  <2> QED
    BY <2>1, <2>2 DEF Number
<1>2. ASSUME NEW f \in SockFd
      PROVE  Cardinality(Using(f)') = Cardinality(Using(f)) - Number(Uses(wk[w], f)) + Number(Uses(l, f))
  <2>1. /\ Using(f)' \ {w} = Using(f) \ {w}
        /\ w \in Using(f) <=> Uses(wk[w], f)
        /\ w \in Using(f)' <=> Uses(l, f)
    BY <1>0 DEF Using, Uses
  <2>2. Cardinality(Using(f)') = Cardinality(Using(f)) - Number(w \in Using(f)) + Number(w \in Using(f)')
    BY <2>1, SetsFinite, Swap
  <2> QED
    BY <2>1, <2>2 DEF Number
<1> QED
  BY <1>1, <1>2

LEMMA TaskAdded ==
    ASSUME TypeOK, NEW t \in Work, taskq' = Append(taskq, t)
    PROVE  /\ taskq' \in Seq(Work)
           /\ \A m \in Data : Cardinality(TasksFor(m)') = Cardinality(TasksFor(m)) + Number(Note(m) = t)
           /\ \A f \in SockFd : Cardinality(Pending(f)')
                = Cardinality(Pending(f)) + Number(Task(Handler(f), f) = t)
<1>1. taskq \in Seq(Work) /\ taskq' \in Seq(Work)
  BY DEF TypeOK
<1>2. \A x : Cardinality(Where(taskq', x)) = Cardinality(Where(taskq, x)) + Number(x = t)
  BY <1>1, WhereAppend
<1> QED
  BY <1>1, <1>2, TaskPlaces, TaskPlacesNext

LEMMA TaskTaken ==
    ASSUME TypeOK, taskq # << >>, taskq' = Tail(taskq)
    PROVE  /\ taskq' \in Seq(Work) /\ Head(taskq) \in Work
           /\ \A m \in Data : Cardinality(TasksFor(m)')
                = Cardinality(TasksFor(m)) - Number(Note(m) = Head(taskq))
           /\ \A f \in SockFd : Cardinality(Pending(f)')
                = Cardinality(Pending(f)) - Number(Task(Handler(f), f) = Head(taskq))
<1>1. taskq \in Seq(Work) /\ taskq' \in Seq(Work) /\ Head(taskq) \in Work
  BY Heads DEF TypeOK
<1>2. \A x : Cardinality(Where(taskq', x)) = Cardinality(Where(taskq, x)) - Number(x = Head(taskq))
  BY <1>1, WhereTail
<1> QED
  BY <1>1, <1>2, TaskPlaces, TaskPlacesNext


-----------------------------------------------------------------------------
(* The kernel's part in a step, and a pool thread's                        *)

LEMMA Sockets ==
    /\ Listener \in Sock /\ UdpSock \in Sock /\ Stdin \in Sock
    /\ Items(Listener) = Conn /\ Items(Stdin) = {"line", "EOF"}
    /\ Items(UdpSock) = UdpAddr \cup {m \in Data : Via[m] \in UdpAddr}
    /\ \A c \in Conn : /\ c \in Sock /\ c \notin {Listener, UdpSock, Stdin, None}
                       /\ Items(c) = {c, "EOF"} \cup {m \in Data : Via[m] = c}
    /\ None \notin Sock
BY NamesAssumption DEF Sock, Items, Link

LEMMA Arrives ==
    ASSUME TypeOK, NEW s \in Sock, NEW item \in Items(s), Arrive(s, item)
    PROVE  /\ rx' \in [Sock -> Seq(UNION {Items(t) : t \in Sock})] /\ \A t \in Sock : rx'[t] \in Seq(Items(t))
           /\ rx'[s] = Append(rx[s], item) /\ \A t \in Sock : t # s => rx'[t] = rx[t]
           /\ ready \subseteq ready' /\ ready' \subseteq interest
           /\ \A t \in ready' : t \in ready \/ t = s
<1> DEFINE All == UNION {Items(t) : t \in Sock}
<1>1. /\ rx \in [Sock -> Seq(All)] /\ \A t \in Sock : rx[t] \in Seq(Items(t))
      /\ rx' = [rx EXCEPT ![s] = Append(rx[s], item)]
  BY DEF TypeOK, Arrive
<1>2. item \in All
  OBVIOUS
<1> HIDE DEF All
<1>3. Append(rx[s], item) \in Seq(All) /\ Append(rx[s], item) \in Seq(Items(s))
  BY <1>1, <1>2
<1>4. rx' \in [Sock -> Seq(All)] /\ \A t \in Sock : rx'[t] = IF t = s THEN Append(rx[s], item) ELSE rx[t]
  BY <1>1, <1>3
<1>5. \A t \in Sock : rx'[t] \in Seq(Items(t))
  BY <1>1, <1>3, <1>4
<1>6. /\ ready \subseteq ready' /\ ready' \subseteq interest
      /\ \A t \in ready' : t \in ready \/ t = s
  BY DEF Arrive, Edge, TypeOK
<1> QED
  BY <1>4, <1>5, <1>6 DEF All

LEMMA Takes ==
    ASSUME TypeOK, NEW s \in Sock, rx[s] # << >>, rx' = [rx EXCEPT ![s] = Tail(@)]
    PROVE  /\ rx' \in [Sock -> Seq(UNION {Items(t) : t \in Sock})] /\ \A t \in Sock : rx'[t] \in Seq(Items(t))
           /\ rx'[s] = Tail(rx[s]) /\ \A t \in Sock : t # s => rx'[t] = rx[t]
           /\ Head(rx[s]) \in Items(s) /\ Head(rx[s]) = rx[s][1] /\ 1 \in DOMAIN rx[s]
           /\ Len(rx'[s]) = Len(rx[s]) - 1 /\ Len(rx[s]) \in Nat \ {0}
<1> DEFINE All == UNION {Items(t) : t \in Sock}
<1>1. /\ rx \in [Sock -> Seq(All)] /\ \A t \in Sock : rx[t] \in Seq(Items(t))
  BY DEF TypeOK
<1> HIDE DEF All
<1>2. Tail(rx[s]) \in Seq(All) /\ rx[s] \in Seq(Items(s))
  BY <1>1
<1>3. /\ Head(rx[s]) \in Items(s) /\ Head(rx[s]) = rx[s][1] /\ 1 \in DOMAIN rx[s]
      /\ Tail(rx[s]) \in Seq(Items(s)) /\ Len(Tail(rx[s])) = Len(rx[s]) - 1 /\ Len(rx[s]) \in Nat \ {0}
  BY <1>2, Heads
<1>4. rx' \in [Sock -> Seq(All)] /\ \A t \in Sock : rx'[t] = IF t = s THEN Tail(rx[s]) ELSE rx[t]
  BY <1>1, <1>2
<1>5. \A t \in Sock : rx'[t] \in Seq(Items(t))
  BY <1>1, <1>3, <1>4
<1> QED
  BY <1>3, <1>4, <1>5 DEF All

\* A package as the server sends it, and where it goes.
Packages == [to : Client, body : Data \cup {"ack", "line"}]
To(fd) == IF fd \in Fd THEN fdt[fd] ELSE fd
Deliver(fd, on, pkt) == IF fd \in Fd THEN TcpSend(fd, on, pkt) ELSE UdpSend(fd, pkt)

LEMMA Delivers ==
    ASSUME TypeOK, NEW fd \in Fd \cup UdpAddr, NEW on, NEW pkt \in Packages, Deliver(fd, on, pkt)
    PROVE  /\ peer' \in [Conn -> {"new", "open", "fin", "rst", "gone", "reset"}]
           /\ \A c \in Conn : /\ peer[c] \in {"new", "open", "reset"} => peer'[c] = peer[c]
                              /\ peer'[c] \in {"new", "open"} => peer[c] = peer'[c]
           /\ inbox' \in [Link -> SUBSET Packages]
           /\ \/ inbox' = inbox
              \/ To(fd) \in Link /\ inbox' = [inbox EXCEPT ![To(fd)] = @ \cup {pkt}]
           /\ ready \subseteq ready' /\ ready' \subseteq interest
           /\ srv' \in {"up", "killed"} /\ stale' \in BOOLEAN /\ (stale => stale')
           /\ Regular' => Regular /\ ready' = ready /\ (fd \in Fd => fdt[fd] = on)
<1> USE NamesAssumption
<1>1. /\ peer \in [Conn -> {"new", "open", "fin", "rst", "gone", "reset"}]
      /\ inbox \in [Link -> SUBSET Packages] /\ ready \subseteq interest /\ fdt \in [Fd -> Conn \cup {None}]
      /\ srv \in {"up", "killed"}
  BY DEF TypeOK, Packages
<1>2. stale \in BOOLEAN
  BY DEF TypeOK
<1>3. CASE fd \in Fd
  <2>1. TcpSend(fd, on, pkt)
    BY <1>3 DEF Deliver
  <2> DEFINE c == fdt[fd]
  <2>2. c \in Conn \cup {None} /\ To(fd) = c /\ None \notin Conn /\ (c \in Conn => c \in Link)
    BY <1>1, <1>3 DEF To, Link
  <2>3. stale' \in BOOLEAN /\ (stale => stale') /\ (~stale' => ~stale /\ c = on)
    BY <2>1, Zenon DEF TcpSend
  <2>4. CASE UNCHANGED peer
    <3>1. ready' = ready /\ srv' \in {"up", "killed"}
      BY <1>1, <2>1, <2>2, <2>4 DEF TcpSend
    <3>2. inbox' = inbox \/ (c \in Link /\ inbox' = [inbox EXCEPT ![c] = @ \cup {pkt}])
      BY <1>1, <2>1, <2>2, <2>4 DEF TcpSend
    <3>3. inbox' \in [Link -> SUBSET Packages]
      BY <1>1, <3>2
    <3> HIDE DEF c
    <3> QED
      BY <1>1, <2>2, <2>3, <2>4, <3>1, <3>2, <3>3 DEF Regular, c
  <2>5. CASE /\ c # None /\ peer[c] = "fin"
             /\ peer' = [peer EXCEPT ![c] = "reset"]
             /\ ready' = Edge(c)
             /\ UNCHANGED <<inbox, srv>>
    <3>1. \E d \in Conn : peer'[d] = "reset"
      BY <1>1, <2>2, <2>5
    <3>2. ready \subseteq ready' /\ ready' \subseteq interest
      BY <1>1, <2>5 DEF Edge
    <3> HIDE DEF c
    <3> QED
      BY <1>1, <2>2, <2>3, <2>5, <3>1, <3>2 DEF Regular, c
  <2>6. CASE /\ c # None /\ peer[c] = "rst"
             /\ peer' = [peer EXCEPT ![c] = "gone"]
             /\ UNCHANGED <<ready, inbox, srv>>
    <3> HIDE DEF c
    <3> QED
      BY <1>1, <2>2, <2>3, <2>6 DEF Regular, c
  <2> QED
    BY <2>1, <2>4, <2>5, <2>6 DEF TcpSend
<1>4. CASE fd \in UdpAddr
  <2>1. UdpSend(fd, pkt) /\ fd \notin Fd /\ To(fd) = fd /\ fd \in Link
    BY <1>4 DEF Deliver, To, Link
  <2>2. /\ inbox' = inbox \/ inbox' = [inbox EXCEPT ![fd] = @ \cup {pkt}]
        /\ UNCHANGED <<peer, ready, srv, stale>>
    BY <2>1 DEF UdpSend
  <2>3. inbox' \in [Link -> SUBSET Packages]
    BY <1>1, <2>1, <2>2
  <2> QED
    BY <1>1, <1>2, <2>1, <2>2, <2>3 DEF Regular
<1> QED
  BY <1>3, <1>4

\* One pool thread goes on, to a place where it holds what it should.
LEMMA LocalGoto ==
    ASSUME TypeOK, LocalInv, NEW w \in Worker, NEW l \in Local, Goto(w, l), LocalOK(l),
           UNCHANGED sent, row' = row \/ (SqlFree /\ l.pc # "broadcast"),
           l.pc = "broadcast" => SqlFree \/ wk[w].pc = "broadcast"
    PROVE  wk' \in [Worker -> Local] /\ LocalInv'
<1>1. /\ wk \in [Worker -> Local] /\ wk' = [wk EXCEPT ![w] = l]
  BY DEF TypeOK, Goto
<1>2. wk' \in [Worker -> Local] /\ wk'[w] = l /\ \A v \in Worker \ {w} : wk'[v] = wk[v]
  BY <1>1
<1>3. \A v, u \in Worker : wk'[v].pc = "broadcast" /\ wk'[u].pc = "broadcast" => v = u
  BY <1>2 DEF LocalInv, SqlFree
<1>4. ASSUME NEW v \in Worker PROVE LocalOK(wk[v])'
  <2> DEFINE k == wk'[v]
  <2>1. LocalOK(k)
    BY <1>2 DEF LocalInv
  <2>2. k.pc = "broadcast" => row' = row
    BY <1>2 DEF SqlFree
  <2> QED
    BY <2>1, <2>2 DEF LocalOK, LinkOf
<1> QED
  BY <1>2, <1>3, <1>4 DEF LocalInv


-----------------------------------------------------------------------------
(* Types                                                                   *)

\* What a thread that has gone on to the next place of its handler holds.
LEMMA Locals ==
    ASSUME TypeOK, NEW w \in Worker
    PROVE  /\ wk[w] \in Local
           /\ wk[w] = At(wk[w].pc, wk[w].fd, wk[w].msg, wk[w].on)
           /\ Idle \in Local /\ LocalOK(Idle) /\ Idle.pc = "idle" /\ Idle.fd = None
           /\ \A p : [wk[w] EXCEPT !.pc = p] = At(p, wk[w].fd, wk[w].msg, wk[w].on)
           /\ \A m : [wk[w] EXCEPT !.msg = m] = At(wk[w].pc, wk[w].fd, m, wk[w].on)
<1>1. wk[w] \in Local
  BY DEF TypeOK
<1>2. /\ wk[w] = At(wk[w].pc, wk[w].fd, wk[w].msg, wk[w].on)
      /\ \A p : [wk[w] EXCEPT !.pc = p] = At(p, wk[w].fd, wk[w].msg, wk[w].on)
      /\ \A m : [wk[w] EXCEPT !.msg = m] = At(wk[w].pc, wk[w].fd, m, wk[w].on)
  BY <1>1 DEF Local, At
<1>3. Idle \in Local /\ LocalOK(Idle) /\ Idle.pc = "idle" /\ Idle.fd = None
  BY DEF Local, Idle, At, LocalOK, TearPC
<1> QED
  BY <1>1, <1>2, <1>3

\* What is sent and received outside the pool.
LEMMA TypeEnvironment ==
    ASSUME TypeOK, LocalInv, Environment
    PROVE  TypeOK' /\ LocalInv'
<1> USE NamesAssumption, LinksAssumption, BoundsAssumption
<1>0. ASSUME NEW s \in Sock, NEW item \in Items(s), Arrive(s, item), UNCHANGED <<inbox, serverVars>>,
             sent \subseteq sent', sent' \subseteq Link \cup Data, typed' \in 0..Len(Lines),
             peer' \in [Conn -> {"new", "open", "fin", "rst", "gone", "reset"}]
      PROVE  TypeOK' /\ LocalInv'
  <2>1. /\ rx' \in [Sock -> Seq(UNION {Items(t) : t \in Sock})] /\ \A t \in Sock : rx'[t] \in Seq(Items(t))
        /\ ready' \subseteq interest
    BY <1>0, Arrives
  <2>2. TypeOK'
    BY <1>0, <2>1 DEF TypeOK, serverVars
  <2>3. wk' = wk /\ row' = row /\ \A w \in Worker : LocalOK(wk[w]) => LocalOK(wk[w])'
    BY <1>0 DEF LocalOK, LinkOf, serverVars
  <2> QED
    BY <2>2, <2>3 DEF LocalInv
<1>1. ASSUME NEW c \in Conn, Connect(c) PROVE TypeOK' /\ LocalInv'
  <2>1. Listener \in Sock /\ c \in Items(Listener)
    BY Sockets
  <2>2. /\ Arrive(Listener, c) /\ UNCHANGED <<inbox, serverVars>> /\ sent' = sent /\ typed' = typed
        /\ peer' = [peer EXCEPT ![c] = "open"]
    BY <1>1 DEF Connect
  <2>3. /\ sent' \subseteq Link \cup Data /\ typed' \in 0..Len(Lines)
        /\ peer' \in [Conn -> {"new", "open", "fin", "rst", "gone", "reset"}]
    BY <2>2 DEF TypeOK
  <2> QED
    BY <1>0, <2>1, <2>2, <2>3
<1>2. ASSUME NEW c \in Conn, NEW how \in {"fin", "rst"}, ClientClose(c, how) PROVE TypeOK' /\ LocalInv'
  <2>1. c \in Sock /\ "EOF" \in Items(c)
    BY Sockets
  <2>2. /\ Arrive(c, "EOF") /\ UNCHANGED <<inbox, serverVars>> /\ sent' = sent /\ typed' = typed
        /\ peer' = [peer EXCEPT ![c] = how]
    BY <1>2 DEF ClientClose
  <2>3. /\ sent' \subseteq Link \cup Data /\ typed' \in 0..Len(Lines)
        /\ peer' \in [Conn -> {"new", "open", "fin", "rst", "gone", "reset"}]
    BY <2>2 DEF TypeOK
  <2> QED
    BY <1>0, <2>1, <2>2, <2>3
<1>3. ASSUME NEW l \in Link, NEW item \in Link \cup Data, ClientSend(l, item) PROVE TypeOK' /\ LocalInv'
  <2>1. Wire(l) \in Sock /\ item \in Items(Wire(l))
    BY <1>3, Sockets DEF Wire, ClientSend, Link
  <2>2. /\ Arrive(Wire(l), item) /\ UNCHANGED <<inbox, serverVars>> /\ sent' = sent \cup {item}
        /\ typed' = typed /\ peer' = peer
    BY <1>3 DEF ClientSend
  <2>3. /\ sent' \subseteq Link \cup Data /\ typed' \in 0..Len(Lines) /\ sent \subseteq sent'
        /\ peer' \in [Conn -> {"new", "open", "fin", "rst", "gone", "reset"}]
    BY <2>2 DEF TypeOK
  <2> QED
    BY <1>0, <2>1, <2>2, <2>3
<1>4. ASSUME StdinInput PROVE TypeOK' /\ LocalInv'
  <2>1. Len(Lines) \in Nat /\ typed \in 0..Len(Lines) /\ typed < Len(Lines) /\ typed' = typed + 1
    BY <1>4 DEF StdinInput, TypeOK
  <2>2. Stdin \in Sock /\ Lines[typed + 1] \in Items(Stdin) /\ typed' \in 0..Len(Lines)
    BY <2>1, Sockets
  <2>3. /\ Arrive(Stdin, Lines[typed + 1]) /\ UNCHANGED <<inbox, serverVars>> /\ sent' = sent /\ peer' = peer
    BY <1>4 DEF StdinInput
  <2>4. /\ sent' \subseteq Link \cup Data
        /\ peer' \in [Conn -> {"new", "open", "fin", "rst", "gone", "reset"}]
    BY <2>3 DEF TypeOK
  <2> QED
    BY <1>0, <2>2, <2>3, <2>4
<1> QED
  BY <1>1, <1>2, <1>3, <1>4 DEF Environment

\* The epoll thread and the message thread.
LEMMA TypeThreads ==
    ASSUME TypeOK, LocalInv, TableInv, EpollWait \/ EpollDispatch \/ DeSrvMsgQueue \/ MsgDispatch
    PROVE  TypeOK' /\ LocalInv'
<1> USE NamesAssumption DEF netVars, epollVars
<1>0. ASSUME UNCHANGED <<wk, row, sent>> PROVE LocalInv'
  BY <1>0 DEF LocalInv, LocalOK, LinkOf
<1>1. CASE EpollWait
  <2>1. \A s \in ready : FdOf(s) \in SockFd
    BY DEF TypeOK, TableInv, FdOf, SockFd, Sock
  <2>2. events' \subseteq SockFd
    BY <1>1, <2>1 DEF EpollWait
  <2> QED
    BY <1>0, <1>1, <2>2 DEF EpollWait, TypeOK
<1>2. CASE EpollDispatch
  <2>1. PICK fd \in events : taskq' = Append(taskq, Task(Handler(fd), fd)) /\ events' = events \ {fd}
    BY <1>2 DEF EpollDispatch
  <2>2. Task(Handler(fd), fd) \in Work
    BY Tasks DEF TypeOK
  <2>3. taskq' \in Seq(Work) /\ events' \subseteq SockFd
    BY <2>1, <2>2, TaskAdded DEF TypeOK
  <2> QED
    BY <1>0, <1>2, <2>3 DEF EpollDispatch, TypeOK
<1>3. CASE DeSrvMsgQueue
  <2>1. Head(msgq) \in Data /\ Tail(msgq) \in Seq(Data)
    BY <1>3, Heads DEF DeSrvMsgQueue, TypeOK
  <2> QED
    BY <1>0, <1>3, <2>1 DEF DeSrvMsgQueue, TypeOK
<1>4. CASE MsgDispatch
  <2>1. Note(mt) \in Work /\ taskq' = Append(taskq, Note(mt))
    BY <1>4, Tasks DEF MsgDispatch, TypeOK, Note
  <2>2. taskq' \in Seq(Work)
    BY <2>1, TaskAdded
  <2> QED
    BY <1>0, <1>4, <2>2 DEF MsgDispatch, TypeOK
<1> QED
  BY <1>1, <1>2, <1>3, <1>4


\* The three places where a pool thread sends a package.
Sending(w) == SendAck(w) \/ ForwardSend(w) \/ \E x \in Client : BroadcastRow(w, x)

Sends(l, fd, on, pkt) ==
    \/ l.pc = "ack" /\ fd = l.fd /\ on = l.on /\ pkt = Package(l.msg, "ack")
    \/ l.pc = "send" /\ fd = l.fd /\ on = l.on /\ pkt = Package(Dest[l.msg], l.msg)
    \/ l.pc = "broadcast" /\ \E x \in Client : fd = row[x] /\ on = fdt[row[x]] /\ pkt = Package(x, "line")

LEMMA Senders ==
    ASSUME TypeOK, LocalInv, NEW w \in Worker, Sending(w)
    PROVE  /\ \E fd \in Fd \cup UdpAddr : \E pkt \in Packages : \E on :
                Sends(wk[w], fd, on, pkt) /\ Deliver(fd, on, pkt)
           /\ UNCHANGED <<rx, sent, typed, fdt, interest, events, taskq, row, msgq, mt>>
           /\ wk[w].pc \in {"ack", "send", "broadcast"}
           /\ \E l \in Local : /\ Goto(w, l) /\ LocalOK(l)
                                 /\ IF wk[w].pc = "broadcast" THEN l.pc = "broadcast" ELSE l = Idle
<1> USE NamesAssumption, LinksAssumption
<1>0. LocalOK(wk[w]) /\ wk[w] \in Local
  BY DEF LocalInv, TypeOK
<1>i. Idle \in Local /\ LocalOK(Idle) /\ Idle.pc = "idle"
  BY Locals
<1>1. CASE SendAck(w)
  <2> DEFINE pkt == Package(wk[w].msg, "ack")
  <2>1. /\ Goto(w, Idle) /\ wk[w].pc = "ack" /\ Deliver(wk[w].fd, wk[w].on, pkt)
        /\ UNCHANGED <<rx, sent, typed, fdt, interest, events, taskq, row, msgq, mt>>
    BY <1>1 DEF SendAck, Deliver
  <2>2. wk[w].fd \in Fd \cup UdpAddr /\ wk[w].msg \in Client
    BY <1>0, <2>1 DEF LocalOK, LinkOf, Link
  <2>3. pkt \in Packages /\ Sends(wk[w], wk[w].fd, wk[w].on, pkt)
    BY <2>1, <2>2 DEF Package, Packages, Sends
  <2> HIDE DEF pkt
  <2> QED
    BY <1>i, <2>1, <2>2, <2>3
<1>2. CASE ForwardSend(w)
  <2> DEFINE pkt == Package(Dest[wk[w].msg], wk[w].msg)
  <2>1. /\ Goto(w, Idle) /\ wk[w].pc = "send" /\ Deliver(wk[w].fd, wk[w].on, pkt)
        /\ UNCHANGED <<rx, sent, typed, fdt, interest, events, taskq, row, msgq, mt>>
    BY <1>2 DEF ForwardSend, Deliver
  <2>2. wk[w].fd \in Fd \cup UdpAddr /\ wk[w].msg \in Data /\ Dest[wk[w].msg] \in Client
    BY <1>0, <2>1 DEF LocalOK
  <2>3. pkt \in Packages /\ Sends(wk[w], wk[w].fd, wk[w].on, pkt)
    BY <2>1, <2>2 DEF Package, Packages, Sends
  <2> HIDE DEF pkt
  <2> QED
    BY <1>i, <2>1, <2>2, <2>3
<1>3. ASSUME NEW x \in Client, BroadcastRow(w, x)
      PROVE  /\ \E fd \in Fd \cup UdpAddr : \E pkt \in Packages : \E on :
                Sends(wk[w], fd, on, pkt) /\ Deliver(fd, on, pkt)
             /\ UNCHANGED <<rx, sent, typed, fdt, interest, events, taskq, row, msgq, mt>>
             /\ wk[w].pc = "broadcast"
             /\ \E l \in Local : Goto(w, l) /\ LocalOK(l) /\ l.pc = "broadcast"
  <2> DEFINE pkt == Package(x, "line")
             l == At(wk[w].pc, wk[w].fd, wk[w].msg \ {x}, wk[w].on)
  <2>1. /\ Goto(w, l) /\ wk[w].pc = "broadcast" /\ x \in wk[w].msg
        /\ UNCHANGED <<rx, sent, typed, fdt, interest, events, taskq, row, msgq, mt>>
    <3>1. [wk[w] EXCEPT !.msg = @ \ {x}] = l
      <4>1. \A m : [wk[w] EXCEPT !.msg = m] = At(wk[w].pc, wk[w].fd, m, wk[w].on)
        BY Locals
      <4>2. [wk[w] EXCEPT !.msg = wk[w].msg \ {x}] = l
        BY <4>1
      <4> QED
        BY <4>2
    <3> HIDE DEF l
    <3> QED
      BY <1>3, <3>1 DEF BroadcastRow
  <2>2. wk[w].msg \subseteq {y \in Client : row[y] # None}
    BY <1>0, <2>1 DEF LocalOK
  <2>3. row[x] \in Fd \cup UdpAddr /\ pkt \in Packages
    BY <2>1, <2>2 DEF Package, Packages, TypeOK
  <2>4. Deliver(row[x], fdt[row[x]], pkt) /\ Sends(wk[w], row[x], fdt[row[x]], pkt)
    BY <1>3, <2>1 DEF BroadcastRow, Deliver, Sends
  <2> HIDE DEF pkt
  <2>5. l \in Local /\ LocalOK(l) /\ l.pc = "broadcast"
    BY <1>0, <2>1, <2>2 DEF At, Local, LocalOK, LinkOf, TearPC, SockFd
  <2> HIDE DEF l
  <2> QED
    BY <2>1, <2>3, <2>4, <2>5
<1> QED
  BY <1>1, <1>2, <1>3 DEF Sending

\* The handlers.
LEMMA TypeWorker ==
    ASSUME TypeOK, LocalInv, ItemsInv, NEW w \in Worker, WorkerStep(w)
    PROVE  TypeOK' /\ LocalInv'
<1> USE NamesAssumption, LinksAssumption DEF netVars, epollVars
<1>0. LocalOK(wk[w]) /\ wk[w] \in Local
  BY DEF LocalInv, TypeOK
<1>i. Idle \in Local /\ LocalOK(Idle) /\ Idle.pc = "idle"
  BY Locals
<1>p. \A p : [wk[w] EXCEPT !.pc = p] = At(p, wk[w].fd, wk[w].msg, wk[w].on)
  BY Locals
<1>1. CASE TakeTask(w)
  <2> DEFINE t == Head(taskq)
             l == IF t.h \in {"display", "forward"} THEN At(t.h, None, t.arg, None)
                                                    ELSE At(t.h, t.arg, None, None)
  <2>1. taskq # << >> /\ taskq' = Tail(taskq) /\ Goto(w, l)
    BY <1>1 DEF TakeTask
  <2>2. t \in Work /\ taskq' \in Seq(Work)
    BY <2>1, TaskTaken
  <2> HIDE DEF t
  <2>3. l \in Local /\ LocalOK(l) /\ l.pc # "broadcast"
    BY <2>2 DEF Work, Task, At, Local, LocalOK, SockFd, TearPC, Link
  <2> HIDE DEF l
  <2>4. wk' \in [Worker -> Local] /\ LocalInv'
    BY <1>1, <2>1, <2>3, LocalGoto DEF TakeTask
  <2> QED
    BY <1>1, <2>2, <2>4 DEF TakeTask, TypeOK
<1>2. CASE Accept(w)
  <2>1. PICK f \in FreeFds : /\ fdt' = [fdt EXCEPT ![f] = Head(rx[Listener])]
                             /\ Goto(w, At("epoll_add", f, None, Head(rx[Listener])))
    BY <1>2 DEF Accept
  <2>2. /\ rx' \in [Sock -> Seq(UNION {Items(t) : t \in Sock})] /\ \A t \in Sock : rx'[t] \in Seq(Items(t))
        /\ Head(rx[Listener]) \in Conn
    BY <1>2, Takes, Sockets DEF Accept
  <2> DEFINE l == At("epoll_add", f, None, Head(rx[Listener]))
  <2>3. f \in Fd /\ l \in Local /\ LocalOK(l) /\ l.pc # "broadcast"
    BY <2>2 DEF At, Local, LocalOK, SockFd, TearPC, FreeFds
  <2> HIDE DEF l
  <2>4. wk' \in [Worker -> Local] /\ LocalInv'
    BY <1>2, <2>1, <2>3, LocalGoto DEF Accept, l
  <2>5. fdt' \in [Fd -> Conn \cup {None}]
    BY <2>1, <2>2 DEF TypeOK
  <2> QED
    BY <1>2, <2>2, <2>4, <2>5 DEF Accept, TypeOK
<1>3. CASE AcceptError(w) \/ Display(w) \/ BroadcastDone(w)
  <2>1. Goto(w, Idle) /\ UNCHANGED <<netVars, fdt, epollVars, taskq, row, msgq, mt, srv, stale>>
    BY <1>3 DEF AcceptError, Display, BroadcastDone
  <2>2. wk' \in [Worker -> Local] /\ LocalInv'
    BY <1>i, <2>1, LocalGoto
  <2> QED
    BY <2>1, <2>2 DEF TypeOK
<1>4. CASE EpollAdd(w)
  <2>1. Goto(w, Idle) /\ UNCHANGED <<netVars, fdt, events, taskq, row, msgq, mt, srv, stale>>
    BY <1>4 DEF EpollAdd
  <2>2. wk' \in [Worker -> Local] /\ LocalInv'
    BY <1>i, <2>1, LocalGoto
  <2>3. interest' \subseteq Sock /\ ready' \subseteq interest'
    BY <1>4 DEF EpollAdd, TypeOK, Sock
  <2> QED
    BY <2>1, <2>2, <2>3 DEF TypeOK
<1>5. CASE RecvTcpError(w)
  <2>1. Goto(w, Idle) /\ UNCHANGED <<rx, sent, typed, inbox, fdt, epollVars, taskq, row, msgq, mt, srv, stale>>
    BY <1>5 DEF RecvTcpError
  <2>2. wk' \in [Worker -> Local] /\ LocalInv'
    BY <1>i, <2>1, LocalGoto
  <2>3. peer' \in [Conn -> {"new", "open", "fin", "rst", "gone", "reset"}]
    BY <1>5 DEF RecvTcpError, TypeOK
  <2> QED
    BY <2>1, <2>2, <2>3 DEF TypeOK
<1>6. CASE RecvTcpEof(w)
  <2> DEFINE c == fdt[wk[w].fd]
             l == At("epoll_del", wk[w].fd, None, c)
  <2>1. /\ Goto(w, l) /\ UNCHANGED <<netVars, fdt, epollVars, taskq, row, msgq, mt, srv, stale>>
        /\ wk[w].fd \in Fd /\ c # None
    BY <1>6 DEF RecvTcpEof
  <2>2. c \in Conn
    BY <2>1 DEF TypeOK
  <2>3. l \in Local /\ LocalOK(l) /\ l.pc # "broadcast"
    BY <2>1, <2>2 DEF At, Local, LocalOK, SockFd, TearPC
  <2> HIDE DEF l
  <2>4. wk' \in [Worker -> Local] /\ LocalInv'
    BY <2>1, <2>3, LocalGoto
  <2> QED
    BY <2>1, <2>4 DEF TypeOK
<1>7. CASE RecvTcpMsg(w)
  <2> DEFINE c == fdt[wk[w].fd]
             l == IF Head(rx[c]) = c THEN At("save", wk[w].fd, Owner[c], c)
                                     ELSE At("en_queue", None, Head(rx[c]), None)
  <2>1. /\ Goto(w, l) /\ wk[w].fd \in Fd /\ c # None
        /\ UNCHANGED <<peer, sent, typed, inbox, fdt, epollVars, taskq, row, msgq, mt, srv, stale>>
        /\ rx' = [rx EXCEPT ![c] = Tail(@)] /\ rx[c] # << >> /\ Head(rx[c]) # "EOF"
    BY <1>7 DEF RecvTcpMsg
  <2>2. c \in Conn /\ c \in Sock
    BY <2>1, Sockets DEF TypeOK
  <2> HIDE DEF c
  <2>3. /\ rx' \in [Sock -> Seq(UNION {Items(t) : t \in Sock})] /\ \A t \in Sock : rx'[t] \in Seq(Items(t))
        /\ Head(rx[c]) \in Items(c) /\ Head(rx[c]) = rx[c][1] /\ 1 \in DOMAIN rx[c]
    BY <2>1, <2>2, Takes
  <2>4. Head(rx[c]) = c => c \in sent
    BY <2>2, <2>3 DEF ItemsInv
  <2>5. Head(rx[c]) = c \/ Head(rx[c]) \in Data
    BY <2>1, <2>2, <2>3, Sockets
  <2>6. l \in Local /\ LocalOK(l) /\ l.pc # "broadcast"
    BY <2>1, <2>2, <2>4, <2>5 DEF At, Local, LocalOK, LinkOf, SockFd, TearPC, Link
  <2> HIDE DEF l
  <2>7. wk' \in [Worker -> Local] /\ LocalInv'
    BY <2>1, <2>6, LocalGoto
  <2> QED
    BY <2>1, <2>3, <2>7 DEF TypeOK
<1>8. CASE RecvUdp(w)
  <2> DEFINE item == Head(rx[UdpSock])
             l == IF item \in Data THEN At("en_queue", None, item, None)
                                   ELSE At("save", item, Owner[item], None)
  <2>1. /\ Goto(w, l)
        /\ UNCHANGED <<peer, sent, typed, inbox, fdt, epollVars, taskq, row, msgq, mt, srv, stale>>
        /\ rx' = [rx EXCEPT ![UdpSock] = Tail(@)] /\ rx[UdpSock] # << >>
    BY <1>8 DEF RecvUdp
  <2>3. /\ rx' \in [Sock -> Seq(UNION {Items(t) : t \in Sock})] /\ \A t \in Sock : rx'[t] \in Seq(Items(t))
        /\ item \in Items(UdpSock) /\ item = rx[UdpSock][1] /\ 1 \in DOMAIN rx[UdpSock]
    BY <2>1, Sockets, Takes
  <2>4. item \in Data \/ (item \in UdpAddr /\ item \in sent)
    BY <2>3, Sockets DEF ItemsInv
  <2> HIDE DEF item
  <2>6. l \in Local /\ LocalOK(l) /\ l.pc # "broadcast"
    BY <2>1, <2>4 DEF At, Local, LocalOK, LinkOf, SockFd, TearPC, Link
  <2> HIDE DEF l
  <2>7. wk' \in [Worker -> Local] /\ LocalInv'
    BY <2>1, <2>6, LocalGoto
  <2> QED
    BY <2>1, <2>3, <2>7 DEF TypeOK
<1>9. CASE AddTcpCli(w) \/ AddUdpCli(w)
  <2> DEFINE l == At("ack", wk[w].fd, wk[w].msg, wk[w].on)
  <2>1. /\ Goto(w, l) /\ SqlFree /\ wk[w].pc = "save"
        /\ UNCHANGED <<netVars, fdt, epollVars, taskq, msgq, mt, srv>>
    BY <1>9, <1>p DEF AddTcpCli, AddUdpCli
  <2>2. l \in Local /\ LocalOK(l) /\ l.pc # "broadcast"
    BY <1>0, <2>1 DEF At, Local, LocalOK, LinkOf, TearPC
  <2>3. wk[w].msg \in Client
    BY <1>0, <2>1 DEF LocalOK, LinkOf, Link
  <2> HIDE DEF l
  <2>4. wk' \in [Worker -> Local] /\ LocalInv'
    BY <2>1, <2>2, LocalGoto
  <2>5. stale' \in BOOLEAN
    BY <1>9, Zenon DEF AddTcpCli, AddUdpCli, TypeOK
  <2>6. row' \in [Client -> Fd \cup UdpAddr \cup {None}]
    BY <1>9, <2>3 DEF AddTcpCli, AddUdpCli, TypeOK
  <2> QED
    BY <2>1, <2>4, <2>5, <2>6 DEF TypeOK
<1>10. CASE Sending(w)
  <2>1. PICK fd \in Fd \cup UdpAddr, pkt \in Packages : \E on : Deliver(fd, on, pkt)
    BY <1>10, Senders
  <2>2. /\ peer' \in [Conn -> {"new", "open", "fin", "rst", "gone", "reset"}]
        /\ inbox' \in [Link -> SUBSET Packages] /\ ready' \subseteq interest
        /\ srv' \in {"up", "killed"} /\ stale' \in BOOLEAN
    BY <2>1, Delivers
  <2>3. UNCHANGED <<rx, sent, typed, fdt, interest, events, taskq, row, msgq, mt>>
    BY <1>10, Senders
  <2>s. PICK l \in Local : /\ Goto(w, l) /\ LocalOK(l)
                           /\ l.pc = "broadcast" => wk[w].pc = "broadcast"
    BY <1>i, <1>10, Senders
  <2>4. wk' \in [Worker -> Local] /\ LocalInv'
    BY <2>3, <2>s, LocalGoto
  <2> QED
    BY <2>2, <2>3, <2>4 DEF TypeOK, Packages
<1>11. CASE EnSrvMsgQueue(w)
  <2>1. /\ Goto(w, Idle) /\ wk[w].pc = "en_queue" /\ msgq' = <<wk[w].msg>> \o msgq
        /\ UNCHANGED <<netVars, fdt, epollVars, taskq, row, mt, srv, stale>>
    BY <1>11 DEF EnSrvMsgQueue
  <2>2. msgq' \in Seq(Data)
    BY <1>0, <2>1, Pushed DEF LocalOK, TypeOK
  <2>3. wk' \in [Worker -> Local] /\ LocalInv'
    BY <1>i, <2>1, LocalGoto
  <2> QED
    BY <2>1, <2>2, <2>3 DEF TypeOK
<1>12. CASE EpollDel(w)
  <2> DEFINE l == At("delete", wk[w].fd, wk[w].msg, wk[w].on)
  <2>1. /\ Goto(w, l) /\ wk[w].pc = "epoll_del" /\ interest' \subseteq interest /\ ready' \subseteq interest'
        /\ UNCHANGED <<netVars, fdt, events, taskq, row, msgq, mt, srv, stale>>
    BY <1>12, <1>p DEF EpollDel, TypeOK
  <2>2. l \in Local /\ LocalOK(l) /\ l.pc # "broadcast"
    BY <1>0, <2>1 DEF At, Local, LocalOK, LinkOf, TearPC
  <2> HIDE DEF l
  <2>3. wk' \in [Worker -> Local] /\ LocalInv'
    BY <2>1, <2>2, LocalGoto
  <2> QED
    BY <2>1, <2>3 DEF TypeOK
<1>13. CASE DelTcpCliByFd(w)
  <2> DEFINE l == At("close", wk[w].fd, wk[w].msg, wk[w].on)
  <2>1. /\ Goto(w, l) /\ wk[w].pc = "delete" /\ SqlFree
        /\ row' \in [Client -> Fd \cup UdpAddr \cup {None}]
        /\ UNCHANGED <<netVars, fdt, epollVars, taskq, msgq, mt, srv, stale>>
    BY <1>13, <1>p DEF DelTcpCliByFd, TypeOK
  <2>2. l \in Local /\ LocalOK(l) /\ l.pc # "broadcast"
    BY <1>0, <2>1 DEF At, Local, LocalOK, LinkOf, TearPC
  <2> HIDE DEF l
  <2>3. wk' \in [Worker -> Local] /\ LocalInv'
    BY <2>1, <2>2, LocalGoto
  <2> QED
    BY <2>1, <2>3 DEF TypeOK
<1>14. CASE CloseFd(w)
  <2>1. /\ Goto(w, Idle) /\ interest' \subseteq interest /\ ready' \subseteq interest'
        /\ fdt' = [fdt EXCEPT ![wk[w].fd] = None]
        /\ UNCHANGED <<netVars, events, taskq, row, msgq, mt, srv, stale>>
    BY <1>14 DEF CloseFd, TypeOK
  <2>2. fdt' \in [Fd -> Conn \cup {None}]
    BY <2>1 DEF TypeOK
  <2>3. wk' \in [Worker -> Local] /\ LocalInv'
    BY <1>i, <2>1, LocalGoto
  <2> QED
    BY <2>1, <2>2, <2>3 DEF TypeOK
<1>15. CASE ForwardLookup(w)
  <2> DEFINE to == row[Dest[wk[w].msg]]
             l == CASE to = None -> Idle
                    [] to \in Fd -> At("send", to, wk[w].msg, fdt[to])
                    [] to \in UdpAddr -> At("send", to, wk[w].msg, None)
  <2>1. /\ Goto(w, l) /\ wk[w].pc = "forward"
        /\ UNCHANGED <<netVars, fdt, epollVars, taskq, row, msgq, mt, srv, stale>>
    BY <1>15 DEF ForwardLookup
  <2>2. wk[w].msg \in Data /\ Dest[wk[w].msg] \in Client /\ to \in Fd \cup UdpAddr \cup {None}
    BY <1>0, <2>1 DEF LocalOK, TypeOK
  <2>3. to \in Fd => fdt[to] \in Conn \cup {None}
    BY DEF TypeOK
  <2> HIDE DEF to
  <2>4. l \in Local /\ LocalOK(l) /\ l.pc # "broadcast"
    BY <1>i, <2>2, <2>3 DEF At, Local, LocalOK, LinkOf, TearPC, SockFd
  <2> HIDE DEF l
  <2>5. wk' \in [Worker -> Local] /\ LocalInv'
    BY <2>1, <2>4, LocalGoto
  <2> QED
    BY <2>1, <2>5 DEF TypeOK
<1>17. CASE ReadStdin(w)
  <2> DEFINE l == IF Head(rx[Stdin]) = "EOF" THEN Idle
                  ELSE At("broadcast", None, {x \in Client : row[x] # None}, None)
  <2>1. /\ Goto(w, l) /\ rx[Stdin] # << >> /\ rx' = [rx EXCEPT ![Stdin] = Tail(@)]
        /\ Head(rx[Stdin]) = "line" => SqlFree
        /\ UNCHANGED <<peer, sent, typed, inbox, fdt, epollVars, taskq, row, msgq, mt, srv, stale>>
    BY <1>17 DEF ReadStdin
  <2>2. /\ rx' \in [Sock -> Seq(UNION {Items(t) : t \in Sock})] /\ \A t \in Sock : rx'[t] \in Seq(Items(t))
        /\ Head(rx[Stdin]) \in {"line", "EOF"}
    BY <2>1, Takes, Sockets
  <2>3. l \in Local /\ LocalOK(l) /\ (l.pc = "broadcast" => Head(rx[Stdin]) # "EOF")
    BY <1>i DEF At, Local, LocalOK, LinkOf, TearPC, SockFd
  <2> HIDE DEF l
  <2>4. wk' \in [Worker -> Local] /\ LocalInv'
    BY <2>1, <2>2, <2>3, LocalGoto
  <2> QED
    BY <2>1, <2>2, <2>4 DEF TypeOK
<1> QED
  BY <1>1, <1>2, <1>3, <1>4, <1>5, <1>6, <1>7, <1>8, <1>9, <1>10, <1>11, <1>12, <1>13, <1>14,
     <1>15, <1>17 DEF WorkerStep, Sending


-----------------------------------------------------------------------------
(* Descriptors, the epoll set and the receive queues                       *)

LEMMA TableKept ==
    ASSUME TableInv, UNCHANGED <<fdt, interest>>, rx'[Listener] = rx[Listener],
           \A c \in Conn : peer'[c] = "new" => peer[c] = "new" /\ rx'[c] = rx[c] /\ (c \in sent' => c \in sent)
    PROVE  TableInv'
BY DEF TableInv

LEMMA ItemsKept ==
    ASSUME TypeOK, ItemsInv, sent \subseteq sent',
           \A s \in Conn \cup {UdpSock} : rx'[s] = rx[s] \/ (rx[s] # << >> /\ rx'[s] = Tail(rx[s])),
           \A c \in Conn : peer'[c] \in {"new", "open"} => peer[c] = peer'[c]
    PROVE  ItemsInv'
<1>1. ASSUME NEW s \in Conn \cup {UdpSock}, NEW p \in DOMAIN rx'[s]
      PROVE  \E q \in DOMAIN rx[s] : rx'[s][p] = rx[s][q] /\ (q = Len(rx[s]) => p = Len(rx'[s]))
  <2>1. s \in Sock /\ rx[s] \in Seq(Items(s))
    BY Sockets DEF TypeOK
  <2>2. CASE rx'[s] = rx[s]
    BY <1>1, <2>2
  <2>3. CASE rx[s] # << >> /\ rx'[s] = Tail(rx[s])
    <3>1. p + 1 \in DOMAIN rx[s] /\ rx'[s][p] = rx[s][p + 1] /\ Len(rx'[s]) = Len(rx[s]) - 1
          /\ Len(rx[s]) \in Nat /\ p \in Nat
      BY <1>1, <2>1, <2>3, Heads
    <3> QED
      BY <3>1
  <2> QED
    BY <2>2, <2>3
<1>2. ASSUME NEW c \in Conn, NEW p \in DOMAIN rx'[c], rx'[c][p] = "EOF"
      PROVE  p = Len(rx'[c]) /\ peer'[c] \notin {"new", "open"}
  BY <1>1, <1>2 DEF ItemsInv
<1>3. ASSUME NEW c \in Conn, NEW p \in DOMAIN rx'[c], rx'[c][p] = c PROVE c \in sent'
  BY <1>1, <1>3 DEF ItemsInv
<1>4. ASSUME NEW p \in DOMAIN rx'[UdpSock], rx'[UdpSock][p] \in UdpAddr PROVE rx'[UdpSock][p] \in sent'
  BY <1>1, <1>4 DEF ItemsInv
<1> QED
  BY <1>2, <1>3, <1>4 DEF ItemsInv

LEMMA TableEnvironment ==
    ASSUME TypeOK, TableInv, ItemsInv, Environment
    PROVE  TableInv' /\ ItemsInv'
<1> USE NamesAssumption
<1>1. ASSUME NEW c \in Conn, Connect(c) PROVE TableInv' /\ ItemsInv'
  <2>1. /\ rx'[Listener] = Append(rx[Listener], c) /\ \A t \in Sock : t # Listener => rx'[t] = rx[t]
    BY <1>1, Arrives, Sockets DEF Connect
  <2>2. /\ peer[c] = "new" /\ peer' = [peer EXCEPT ![c] = "open"] /\ UNCHANGED <<sent, fdt, interest>>
    BY <1>1 DEF Connect, serverVars
  <2>3. /\ peer'[c] = "open" /\ \A d \in Conn : d # c => peer'[d] = peer[d]
    BY <2>2 DEF TypeOK
  <2>4. ItemsInv'
    <3>1. \A s \in Conn \cup {UdpSock} : rx'[s] = rx[s]
      BY <2>1, Sockets
    <3>2. rx[c] = << >>
      BY <2>2 DEF TableInv
    <3> QED
      BY <2>2, <2>3, <3>1, <3>2 DEF ItemsInv
  <2>5. rx[Listener] \in Seq(Conn)
    BY Sockets DEF TypeOK
  <2>6. /\ \A p \in DOMAIN rx[Listener] : p \in DOMAIN rx'[Listener] /\ rx'[Listener][p] = rx[Listener][p]
        /\ Len(rx[Listener]) + 1 \in DOMAIN rx'[Listener] /\ rx'[Listener][Len(rx[Listener]) + 1] = c
        /\ \A p \in DOMAIN rx'[Listener] : p \in DOMAIN rx[Listener] \/ p = Len(rx[Listener]) + 1
    BY <2>1, <2>5, Appended
  <2>7. TableInv'
    <3>1. \A i \in DOMAIN rx[Listener] : rx[Listener][i] # c
      BY <2>2 DEF TableInv
    <3>2. \A i, j \in DOMAIN rx'[Listener] : rx'[Listener][i] = rx'[Listener][j] => i = j
      BY <2>6, <3>1 DEF TableInv
    <3>3. \A i \in DOMAIN rx'[Listener] : \A f \in Fd : fdt'[f] # rx'[Listener][i]
      BY <2>2, <2>6 DEF TableInv
    <3>4. ASSUME NEW d \in Conn, peer'[d] = "new"
          PROVE  /\ rx'[d] = << >> /\ d \notin sent'
                 /\ (\A i \in DOMAIN rx'[Listener] : rx'[Listener][i] # d) /\ \A f \in Fd : fdt'[f] # d
      <4>1. d # c /\ peer[d] = "new"
        BY <2>3, <3>4
      <4> QED
        BY <2>1, <2>2, <2>6, <4>1, Sockets DEF TableInv
    <3> QED
      BY <2>2, <3>2, <3>3, <3>4 DEF TableInv
  <2> QED
    BY <2>4, <2>7
<1>2. ASSUME NEW s \in Conn \cup {UdpSock, Stdin}, NEW item \in Items(s), Arrive(s, item),
             s \in Conn => peer[s] = "open", UNCHANGED <<fdt, interest>>,
             \A c \in Conn : peer'[c] = peer[c] \/ (s = c /\ item = "EOF" /\ peer'[c] \notin {"new", "open"}),
             s \in Conn /\ item = "EOF" => peer'[s] \notin {"new", "open"},
             sent' = sent \cup (IF item \in Link \cup Data THEN {item} ELSE {}),
             item \in Conn => item = s
      PROVE  TableInv' /\ ItemsInv'
  <2>1. s \in Sock /\ s # Listener
    BY Sockets
  <2>2. /\ rx'[s] = Append(rx[s], item) /\ \A t \in Sock : t # s => rx'[t] = rx[t]
    BY <1>2, <2>1, Arrives
  <2>3. TableInv'
    <3>1. \A c \in Conn : peer'[c] = "new" => peer[c] = "new" /\ rx'[c] = rx[c] /\ (c \in sent' => c \in sent)
      BY <1>2, <2>2, Sockets DEF Link
    <3> QED
      BY <1>2, <2>1, <2>2, <3>1, TableKept, Sockets
  <2>4. rx[s] \in Seq(Items(s))
    BY <2>1 DEF TypeOK
  <2>5. /\ Len(rx'[s]) = Len(rx[s]) + 1 /\ Len(rx[s]) \in Nat
        /\ \A p \in DOMAIN rx[s] : p \in DOMAIN rx'[s] /\ rx'[s][p] = rx[s][p]
        /\ rx'[s][Len(rx[s]) + 1] = item
        /\ \A p \in DOMAIN rx'[s] : p \in DOMAIN rx[s] \/ p = Len(rx[s]) + 1
    BY <2>2, <2>4, Appended
  <2>6. ASSUME NEW c \in Conn, NEW p \in DOMAIN rx'[c], rx'[c][p] = "EOF"
        PROVE  p = Len(rx'[c]) /\ peer'[c] \notin {"new", "open"}
    <3>1. CASE s = c
      BY <1>2, <2>5, <2>6, <3>1 DEF ItemsInv
    <3>2. CASE s # c
      BY <1>2, <2>2, <2>6, <3>2, Sockets DEF ItemsInv
    <3> QED
      BY <3>1, <3>2
  <2>7. ASSUME NEW c \in Conn, NEW p \in DOMAIN rx'[c], rx'[c][p] = c PROVE c \in sent'
    <3>1. CASE s = c
      BY <1>2, <2>5, <2>7, <3>1 DEF ItemsInv, Link
    <3>2. CASE s # c
      BY <1>2, <2>2, <2>7, <3>2, Sockets DEF ItemsInv
    <3> QED
      BY <3>1, <3>2
  <2>8. ASSUME NEW p \in DOMAIN rx'[UdpSock], rx'[UdpSock][p] \in UdpAddr PROVE rx'[UdpSock][p] \in sent'
    <3>1. CASE s = UdpSock
      BY <1>2, <2>5, <2>8, <3>1 DEF ItemsInv, Link
    <3>2. CASE s # UdpSock
      BY <1>2, <2>2, <2>8, <3>2, Sockets DEF ItemsInv
    <3> QED
      BY <3>1, <3>2
  <2> QED
    BY <2>3, <2>6, <2>7, <2>8 DEF ItemsInv
<1>3. ASSUME NEW c \in Conn, NEW how \in {"fin", "rst"}, ClientClose(c, how) PROVE TableInv' /\ ItemsInv'
  <2>1. "EOF" \in Items(c) /\ "EOF" \notin Link \cup Data
    BY Sockets
  <2>2. /\ Arrive(c, "EOF") /\ UNCHANGED <<fdt, interest, sent>> /\ peer[c] = "open"
        /\ \A d \in Conn : peer'[d] = IF d = c THEN how ELSE peer[d]
    BY <1>3 DEF ClientClose, serverVars, TypeOK
  <2> QED
    BY <1>2, <2>1, <2>2 DEF Link
<1>4. ASSUME NEW l \in Link, NEW item \in Link \cup Data, ClientSend(l, item) PROVE TableInv' /\ ItemsInv'
  <2>1. Wire(l) \in Conn \cup {UdpSock} /\ (Wire(l) \in Conn => Wire(l) = l)
    BY Sockets DEF Wire
  <2>2. item \in Items(Wire(l)) /\ item # "EOF" /\ (item \in Conn => item = Wire(l))
    BY <1>4, Sockets DEF Wire, ClientSend, Link
  <2>3. /\ Arrive(Wire(l), item) /\ UNCHANGED <<fdt, interest, peer>> /\ (l \in Conn => peer[l] = "open")
        /\ sent' = sent \cup {item}
    BY <1>4 DEF ClientSend, serverVars
  <2> QED
    BY <1>2, <2>1, <2>2, <2>3
<1>5. ASSUME StdinInput PROVE TableInv' /\ ItemsInv'
  <2>1. Lines[typed + 1] \in {"line", "EOF"}
    BY <1>5, BoundsAssumption DEF StdinInput, TypeOK
  <2>2. Lines[typed + 1] \in Items(Stdin) /\ Lines[typed + 1] \notin Link \cup Data /\ Stdin \notin Conn
    BY <2>1, Sockets DEF Link
  <2>3. /\ Arrive(Stdin, Lines[typed + 1]) /\ UNCHANGED <<fdt, interest, peer, sent>>
    BY <1>5 DEF StdinInput, serverVars
  <2> QED
    BY <1>2, <2>2, <2>3 DEF Link
<1> QED
  BY <1>1, <1>3, <1>4, <1>5 DEF Environment


LEMMA TableWorker ==
    ASSUME TypeOK, LocalInv, TableInv, ItemsInv, NEW w \in Worker, WorkerStep(w)
    PROVE  TableInv' /\ ItemsInv'
<1> USE NamesAssumption DEF netVars, epollVars
<1>0. LocalOK(wk[w]) /\ wk[w] \in Local
  BY DEF LocalInv, TypeOK
<1>1. CASE Accept(w)
  <2>1. PICK f \in FreeFds : fdt' = [fdt EXCEPT ![f] = Head(rx[Listener])]
    BY <1>1 DEF Accept
  <2> DEFINE c == Head(rx[Listener])
             q == rx[Listener]
  <2>2. /\ rx'[Listener] = Tail(q) /\ \A t \in Sock : t # Listener => rx'[t] = rx[t]
        /\ c \in Conn /\ c = q[1] /\ 1 \in DOMAIN q /\ UNCHANGED <<peer, sent, interest>>
    BY <1>1, Takes, Sockets DEF Accept
  <2>3. f \in Fd /\ fdt[f] = None /\ \A g \in Fd : fdt'[g] = IF g = f THEN c ELSE fdt[g]
    BY <2>1 DEF FreeFds, TypeOK
  <2>4. q \in Seq(Conn) /\ q # << >>
    BY <1>1, Sockets DEF Accept, TypeOK
  <2>5. \A p \in DOMAIN rx'[Listener] : p + 1 \in DOMAIN q /\ rx'[Listener][p] = q[p + 1] /\ p \in Nat \ {0}
    BY <2>2, <2>4, Heads
  <2> HIDE DEF c, q
  <2>6. /\ \A i, j \in DOMAIN q : q[i] = q[j] => i = j
        /\ \A i \in DOMAIN q : \A g \in Fd : fdt[g] # q[i]
        /\ peer[c] # "new"
    BY <2>2 DEF TableInv, q
  <2>7. \A i, j \in DOMAIN rx'[Listener] : rx'[Listener][i] = rx'[Listener][j] => i = j
    BY <2>5, <2>6
  <2>8. \A i \in DOMAIN rx'[Listener] : \A g \in Fd : fdt'[g] # rx'[Listener][i]
    <3> SUFFICES ASSUME NEW i \in DOMAIN rx'[Listener], NEW g \in Fd PROVE fdt'[g] # rx'[Listener][i]
      OBVIOUS
    <3>1. i + 1 \in DOMAIN q /\ i + 1 # 1 /\ rx'[Listener][i] = q[i + 1]
      BY <2>5
    <3>2. q[i + 1] # c
      BY <2>2, <2>6, <3>1
    <3> QED
      BY <2>3, <2>6, <3>1, <3>2
  <2>9. \A d \in interest \cap Conn : \E g \in Fd : fdt'[g] = d
    BY <2>3, Sockets DEF TableInv
  <2>10. \A g, h \in Fd : fdt'[g] = fdt'[h] /\ fdt'[g] # None => g = h
    BY <2>2, <2>3, <2>6 DEF TableInv
  <2>11. ASSUME NEW d \in Conn, peer[d] = "new"
         PROVE  /\ rx'[d] = << >> /\ d \notin sent
                /\ (\A i \in DOMAIN rx'[Listener] : rx'[Listener][i] # d) /\ \A g \in Fd : fdt'[g] # d
    <3>1. d # c /\ rx'[d] = rx[d] /\ \A i \in DOMAIN q : q[i] # d
      BY <2>2, <2>6, <2>11, Sockets DEF TableInv, q
    <3> QED
      BY <2>3, <2>5, <2>11, <3>1 DEF TableInv
  <2>12. TableInv'
    BY <2>2, <2>7, <2>8, <2>9, <2>10, <2>11 DEF TableInv
  <2>13. ItemsInv'
    BY <2>2, ItemsKept, Sockets
  <2> QED
    BY <2>12, <2>13
<1>2. CASE EpollAdd(w)
  <2>1. /\ UNCHANGED <<rx, peer, sent, fdt>> /\ wk[w].fd \in Fd /\ interest \subseteq interest'
        /\ \A c \in interest' : c \in interest \/ c = fdt[wk[w].fd]
    BY <1>0, <1>2 DEF EpollAdd, LocalOK
  <2>2. TableInv'
    BY <2>1 DEF TableInv
  <2> QED
    BY <2>1, <2>2, ItemsKept
<1>3. CASE EpollDel(w) \/ CloseFd(w)
  <2> DEFINE f == wk[w].fd
  <2>1. /\ UNCHANGED <<rx, peer, sent>> /\ f \in Fd /\ interest' = interest \ {fdt[f]}
        /\ fdt' = fdt \/ fdt' = [fdt EXCEPT ![f] = None]
    BY <1>0, <1>3 DEF EpollDel, CloseFd, LocalOK, TearPC
  <2>2. fdt[f] \in Conn \cup {None} /\ \A g \in Fd : fdt'[g] = fdt[g] \/ (g = f /\ fdt'[g] = None)
    BY <2>1 DEF TypeOK
  <2> HIDE DEF f
  <2>3. TableInv'
    <3>1. {Listener, UdpSock, Stdin} \subseteq interest'
      BY <2>1, <2>2 DEF TableInv
    <3>2. ASSUME NEW c \in interest' \cap Conn PROVE \E g \in Fd : fdt'[g] = c
      <4>1. PICK g \in Fd : fdt[g] = c
        BY <2>1 DEF TableInv
      <4> QED
        BY <2>1, <2>2, <4>1
    <3>3. \A g, h \in Fd : fdt'[g] = fdt'[h] /\ fdt'[g] # None => g = h
      BY <2>2 DEF TableInv
    <3>4. \A i \in DOMAIN rx[Listener] : \A g \in Fd : fdt'[g] # rx[Listener][i]
      <4>1. \A i \in DOMAIN rx[Listener] : rx[Listener][i] \in Conn
        BY Sockets DEF TypeOK
      <4> QED
        BY <2>2, <4>1, Sockets DEF TableInv
    <3>5. \A c \in Conn : peer[c] = "new" => \A g \in Fd : fdt'[g] # c
      BY <2>2, Sockets DEF TableInv
    <3> QED
      BY <2>1, <3>1, <3>2, <3>3, <3>4, <3>5 DEF TableInv
  <2> QED
    BY <2>1, <2>3, ItemsKept
<1>4. CASE RecvTcpMsg(w) \/ RecvUdp(w) \/ ReadStdin(w)
  <2>1. PICK s \in Sock \ {Listener} : rx[s] # << >> /\ rx' = [rx EXCEPT ![s] = Tail(@)]
    <3>1. CASE RecvTcpMsg(w)
      <4>1. fdt[wk[w].fd] \in Conn
        BY <3>1 DEF RecvTcpMsg, TypeOK
      <4> QED
        BY <3>1, <4>1, Sockets DEF RecvTcpMsg
    <3>2. CASE RecvUdp(w)
      BY <3>2, Sockets DEF RecvUdp
    <3>3. CASE ReadStdin(w)
      BY <3>3, Sockets DEF ReadStdin
    <3> QED
      BY <1>4, <3>1, <3>2, <3>3
  <2>2. UNCHANGED <<fdt, interest, peer, sent>>
    BY <1>4 DEF RecvTcpMsg, RecvUdp, ReadStdin
  <2>3. rx'[s] = Tail(rx[s]) /\ \A t \in Sock : t # s => rx'[t] = rx[t]
    BY <2>1, Takes
  <2>4. \A c \in Conn : peer[c] = "new" => rx[c] = << >>
    BY DEF TableInv
  <2>5. TableInv'
    BY <2>1, <2>2, <2>3, <2>4, TableKept, Sockets
  <2>6. ItemsInv'
    BY <2>1, <2>2, <2>3, ItemsKept, Sockets
  <2> QED
    BY <2>5, <2>6
<1>5. ASSUME UNCHANGED <<rx, sent, fdt, interest>>,
             \A c \in Conn : peer'[c] \in {"new", "open"} => peer[c] = peer'[c]
      PROVE  TableInv' /\ ItemsInv'
  <2>1. TableInv'
    BY <1>5, TableKept
  <2>2. ItemsInv'
    BY <1>5, ItemsKept
  <2> QED
    BY <2>1, <2>2
<1>6. CASE RecvTcpError(w)
  <2>1. \A c \in Conn : peer'[c] \in {"new", "open"} => peer[c] = peer'[c]
    BY <1>6 DEF RecvTcpError, TypeOK
  <2> QED
    BY <1>5, <1>6, <2>1 DEF RecvTcpError
<1>7. CASE Sending(w)
  <2>1. PICK fd \in Fd \cup UdpAddr, pkt \in Packages : \E on : Deliver(fd, on, pkt)
    BY <1>7, Senders
  <2>2. \A c \in Conn : peer'[c] \in {"new", "open"} => peer[c] = peer'[c]
    BY <2>1, Delivers
  <2> QED
    BY <1>5, <1>7, <2>2, Senders
<1>8. CASE \/ TakeTask(w) \/ AcceptError(w) \/ RecvTcpEof(w) \/ AddTcpCli(w) \/ AddUdpCli(w)
           \/ EnSrvMsgQueue(w) \/ DelTcpCliByFd(w) \/ Display(w) \/ ForwardLookup(w) \/ BroadcastDone(w)
  <2>1. UNCHANGED <<rx, sent, fdt, interest, peer>>
    BY <1>8 DEF TakeTask, AcceptError, RecvTcpEof, AddTcpCli, AddUdpCli, EnSrvMsgQueue,
                DelTcpCliByFd, Display, ForwardLookup, BroadcastDone
  <2> QED
    BY <1>5, <2>1
<1> QED
  BY <1>1, <1>2, <1>3, <1>4, <1>6, <1>7, <1>8 DEF WorkerStep, Sending

LEMMA TableThreads ==
    ASSUME TypeOK, TableInv, ItemsInv, EpollWait \/ EpollDispatch \/ DeSrvMsgQueue \/ MsgDispatch
    PROVE  TableInv' /\ ItemsInv'
<1>1. UNCHANGED <<rx, sent, fdt, interest, peer>>
  BY DEF EpollWait, EpollDispatch, DeSrvMsgQueue, MsgDispatch, netVars, epollVars
<1> QED
  BY <1>1, TableKept, ItemsKept


-----------------------------------------------------------------------------
(* A message is in one place                                               *)

\* A message arrives at the socket of its link and nowhere else.
LEMMA Wires ==
    ASSUME NEW s \in Sock, NEW m \in Data, m \in Items(s)
    PROVE  s = Wire(Via[m])
BY NamesAssumption, LinksAssumption, Sockets DEF Sock, Wire, Link

LEMMA UnreadAdded ==
    ASSUME TypeOK, NEW s \in Sock, NEW item \in Items(s), rx'[s] = Append(rx[s], item),
           \A t \in Sock : t # s => rx'[t] = rx[t], NEW m \in Data
    PROVE  Cardinality(Unread(m)') = Cardinality(Unread(m)) + Number(m = item)
<1>1. Wire(Via[m]) \in Sock /\ (m = item => s = Wire(Via[m]))
  BY Wires, LinksAssumption DEF Wire, Link, Sock
<1>2. Unread(m) = Where(rx[Wire(Via[m])], m) /\ Unread(m)' = Where(rx'[Wire(Via[m])], m)
  BY DEF Unread, Where
<1>3. CASE s = Wire(Via[m])
  <2>1. rx[s] \in Seq(Items(s))
    BY DEF TypeOK
  <2>2. Cardinality(Where(Append(rx[s], item), m)) = Cardinality(Where(rx[s], m)) + Number(m = item)
    BY <2>1, WhereAppend
  <2> QED
    BY <1>2, <1>3, <2>2
<1>4. CASE s # Wire(Via[m])
  BY <1>1, <1>2, <1>4, SetsFinite DEF Number
<1> QED
  BY <1>3, <1>4

LEMMA UnreadTaken ==
    ASSUME TypeOK, NEW s \in Sock, rx[s] # << >>, rx' = [rx EXCEPT ![s] = Tail(@)], NEW m \in Data
    PROVE  Cardinality(Unread(m)') = Cardinality(Unread(m)) - Number(m = Head(rx[s]))
<1>0. rx'[s] = Tail(rx[s]) /\ (\A t \in Sock : t # s => rx'[t] = rx[t]) /\ Head(rx[s]) \in Items(s)
  BY Takes
<1>1. Wire(Via[m]) \in Sock /\ (m = Head(rx[s]) => s = Wire(Via[m]))
  BY <1>0, Wires, LinksAssumption DEF Wire, Link, Sock
<1>2. Unread(m) = Where(rx[Wire(Via[m])], m) /\ Unread(m)' = Where(rx'[Wire(Via[m])], m)
  BY DEF Unread, Where
<1>3. CASE s = Wire(Via[m])
  <2>1. rx[s] \in Seq(Items(s))
    BY DEF TypeOK
  <2> QED
    BY <1>0, <1>2, <1>3, <2>1, WhereTail
<1>4. CASE s # Wire(Via[m])
  BY <1>0, <1>1, <1>2, <1>4, SetsFinite DEF Number
<1> QED
  BY <1>3, <1>4

LEMMA ToldMore ==
    ASSUME TypeOK, NEW l \in Link, NEW pkt \in Packages, NEW m \in Data,
           inbox' = inbox \/ inbox' = [inbox EXCEPT ![l] = @ \cup {pkt}]
    PROVE  Cardinality(Told(m)') <= Cardinality(Told(m)) + Number(m = pkt.body)
           /\ Cardinality(Told(m)') \in Nat
<1>0. IsFiniteSet(Told(m)) /\ Cardinality(Told(m)) \in Nat /\ inbox \in [Link -> SUBSET Packages]
  BY SetsFinite DEF TypeOK, Packages
<1>1. CASE inbox' = inbox
  BY <1>0, <1>1 DEF Told, Number
<1>2. CASE inbox' = [inbox EXCEPT ![l] = @ \cup {pkt}]
  <2>1. inbox'[l] = inbox[l] \cup {pkt} /\ \A k \in Link : k # l => inbox'[k] = inbox[k]
    BY <1>0, <1>2
  <2>2. CASE m = pkt.body
    <3>1. Told(m)' \ {l} = Told(m) \ {l}
      BY <2>1 DEF Told
    <3> QED
      BY <1>0, <2>2, <3>1, Swap DEF Number
  <2>3. CASE m # pkt.body
    <3>1. Told(m)' = Told(m)
      BY <2>1, <2>3 DEF Told
    <3> QED
      BY <1>0, <2>3, <3>1 DEF Number
  <2> QED
    BY <2>2, <2>3
<1> QED
  BY <1>1, <1>2

\* The environment, the epoll thread and the message thread.
LEMMA OnceOutside ==
    ASSUME TypeOK, OnceInv, TableInv,
           Environment \/ EpollWait \/ EpollDispatch \/ DeSrvMsgQueue \/ MsgDispatch
    PROVE  OnceInv'
<1> SUFFICES ASSUME NEW m \in Data PROVE Places(m)' <= Number(m \in sent')
  BY DEF OnceInv
<1> USE NamesAssumption
<1>f. /\ Cardinality(Holding(m)) \in Nat /\ Cardinality(Told(m)) \in Nat /\ Cardinality(TasksFor(m)) \in Nat
      /\ Cardinality(Queued(m)) \in Nat /\ Cardinality(Unread(m)) \in Nat
  BY SetsFinite
<1>o. Places(m) <= Number(m \in sent)
  BY DEF OnceInv
<1>1. ASSUME NEW s \in Sock, NEW item \in Items(s), Arrive(s, item), UNCHANGED <<inbox, serverVars>>,
             m = item => m \notin sent /\ m \in sent', sent \subseteq sent'
      PROVE  Places(m)' <= Number(m \in sent')
  <2>1. Cardinality(Unread(m)') = Cardinality(Unread(m)) + Number(m = item)
    BY <1>1, Arrives, UnreadAdded
  <2>2. Inside(m)' = Inside(m) /\ Told(m)' = Told(m)
    BY <1>1 DEF Inside, Holding, TasksFor, Queued, Told, serverVars
  <2>3. Inside(m) \in Nat
    BY <1>f DEF Inside, Number
  <2> QED
    BY <1>1, <1>f, <1>o, <2>1, <2>2, <2>3 DEF Places, Number
<1>2. CASE Environment
  <2>1. ASSUME NEW c \in Conn, Connect(c) PROVE Places(m)' <= Number(m \in sent')
    BY <1>1, <2>1, Sockets DEF Connect
  <2>2. ASSUME NEW c \in Conn, NEW how, ClientClose(c, how) PROVE Places(m)' <= Number(m \in sent')
    BY <1>1, <2>2, Sockets DEF ClientClose
  <2>3. ASSUME NEW l \in Link, NEW item \in Link \cup Data, ClientSend(l, item)
        PROVE  Places(m)' <= Number(m \in sent')
    <3>1. Wire(l) \in Sock /\ item \in Items(Wire(l))
      BY <2>3, Sockets DEF Wire, ClientSend, Link
    <3> QED
      BY <1>1, <2>3, <3>1 DEF ClientSend
  <2>4. ASSUME StdinInput PROVE Places(m)' <= Number(m \in sent')
    <3>1. Lines[typed + 1] \in {"line", "EOF"}
      BY <2>4, BoundsAssumption DEF StdinInput, TypeOK
    <3> QED
      BY <1>1, <2>4, <3>1, Sockets DEF StdinInput
  <2> QED
    BY <1>2, <2>1, <2>2, <2>3, <2>4 DEF Environment
<1>3. CASE EpollWait
  <2>1. Places(m)' = Places(m) /\ sent' = sent
    BY <1>3 DEF EpollWait, Places, Inside, Holding, TasksFor, Queued, Unread, Told, netVars
  <2> QED
    BY <1>o, <2>1
<1>4. CASE EpollDispatch
  <2>1. PICK fd \in events : taskq' = Append(taskq, Task(Handler(fd), fd))
    BY <1>4 DEF EpollDispatch
  <2>2. Task(Handler(fd), fd) \in Work /\ Note(m) # Task(Handler(fd), fd)
    <3>1. fd \in SockFd
      BY DEF TypeOK
    <3> QED
      BY <3>1, Tasks DEF Task, Note, ReadPC
  <2>3. Cardinality(TasksFor(m)') = Cardinality(TasksFor(m))
    BY <1>f, <2>1, <2>2, TaskAdded DEF Number
  <2>4. Holding(m)' = Holding(m) /\ Queued(m)' = Queued(m) /\ Unread(m)' = Unread(m) /\ Told(m)' = Told(m)
        /\ mt' = mt /\ sent' = sent
    BY <1>4 DEF EpollDispatch, Holding, Queued, Unread, Told, netVars
  <2> QED
    BY <1>o, <2>3, <2>4 DEF Places, Inside
<1>5. CASE DeSrvMsgQueue
  <2>1. /\ mt = None /\ msgq # << >> /\ mt' = Head(msgq) /\ msgq' = Tail(msgq) /\ msgq \in Seq(Data)
        /\ m # None
    BY <1>5 DEF DeSrvMsgQueue, TypeOK
  <2>2. Queued(m) = Where(msgq, m) /\ Queued(m)' = Where(msgq', m)
    BY DEF Queued, Where
  <2>3. Cardinality(Queued(m)') = Cardinality(Queued(m)) - Number(m = Head(msgq))
    BY <2>1, <2>2, WhereTail
  <2>4. Holding(m)' = Holding(m) /\ TasksFor(m)' = TasksFor(m) /\ Unread(m)' = Unread(m) /\ Told(m)' = Told(m)
        /\ sent' = sent
    BY <1>5 DEF DeSrvMsgQueue, Holding, TasksFor, Unread, Told, netVars
  <2> QED
    BY <1>f, <1>o, <2>1, <2>3, <2>4, SMTT(30) DEF Places, Inside, Number
<1>6. CASE MsgDispatch
  <2>1. mt \in Data /\ mt' = None /\ m # None /\ taskq' = Append(taskq, Note(mt))
    BY <1>6 DEF MsgDispatch, TypeOK, Note
  <2>2. Note(mt) \in Work /\ (Note(m) = Note(mt) => m = mt)
    BY <2>1, Tasks DEF Note, Task
  <2>3. Cardinality(TasksFor(m)') = Cardinality(TasksFor(m)) + Number(Note(m) = Note(mt))
    BY <2>1, <2>2, TaskAdded
  <2>4. Holding(m)' = Holding(m) /\ Queued(m)' = Queued(m) /\ Unread(m)' = Unread(m) /\ Told(m)' = Told(m)
        /\ sent' = sent
    BY <1>6 DEF MsgDispatch, Holding, Queued, Unread, Told, netVars
  <2> QED
    BY <1>f, <1>o, <2>1, <2>2, <2>3, <2>4 DEF Places, Inside, Number
<1> QED
  BY <1>2, <1>3, <1>4, <1>5, <1>6


LEMMA OnceWorker ==
    ASSUME TypeOK, LocalInv, OnceInv, NEW w \in Worker, WorkerStep(w)
    PROVE  OnceInv'
<1> SUFFICES ASSUME NEW m \in Data PROVE Places(m)' <= Number(m \in sent')
  BY DEF OnceInv
<1> USE NamesAssumption DEF netVars, epollVars
<1>f. /\ Cardinality(Holding(m)) \in Nat /\ Cardinality(Told(m)) \in Nat /\ Cardinality(TasksFor(m)) \in Nat
      /\ Cardinality(Queued(m)) \in Nat /\ Cardinality(Unread(m)) \in Nat
  BY SetsFinite
<1>o. Places(m) <= Number(m \in sent)
  BY DEF OnceInv
<1>0. LocalOK(wk[w]) /\ wk[w] \in Local
  BY DEF LocalInv, TypeOK
<1>g. ASSUME NEW l, Goto(w, l)
      PROVE  Cardinality(Holding(m)') = Cardinality(Holding(m)) - Number(Has(wk[w], m)) + Number(Has(l, m))
  BY <1>g, GotoCounts
<1>i. ~Has(Idle, m) /\ "idle" \notin {"en_queue", "display", "forward", "send"}
  BY DEF Has, Idle, At
<1>1. CASE TakeTask(w)
  <2> DEFINE t == Head(taskq)
             l == IF t.h \in {"display", "forward"} THEN At(t.h, None, t.arg, None)
                                                    ELSE At(t.h, t.arg, None, None)
  <2>1. taskq # << >> /\ taskq' = Tail(taskq) /\ Goto(w, l) /\ wk[w] = Idle
    BY <1>1 DEF TakeTask
  <2>2. t \in Work /\ Cardinality(TasksFor(m)') = Cardinality(TasksFor(m)) - Number(Note(m) = t)
    BY <2>1, TaskTaken
  <2> HIDE DEF t
  <2>3. Has(l, m) => Note(m) = t
    <3>1. (t.h \in {"display", "forward"} /\ t.arg = m) <=> t = Note(m)
      BY <2>2, Tasks
    <3>2. t.h \notin {"display", "forward"} => t.h \in ReadPC
      BY <2>2 DEF Work, Task, ReadPC
    <3> QED
      BY <3>1, <3>2 DEF Has, At, ReadPC
  <2> HIDE DEF l
  <2>4. Cardinality(Holding(m)') = Cardinality(Holding(m)) + Number(Has(l, m))
    BY <1>f, <1>g, <1>i, <2>1 DEF Number
  <2>5. Queued(m)' = Queued(m) /\ Unread(m)' = Unread(m) /\ Told(m)' = Told(m) /\ mt' = mt /\ sent' = sent
    BY <1>1 DEF TakeTask, Queued, Unread, Told
  <2> QED
    BY <1>f, <1>o, <2>2, <2>3, <2>4, <2>5 DEF Places, Inside, Number
<1>2. ASSUME NEW l, Goto(w, l), Has(l, m) => Has(wk[w], m),
             UNCHANGED <<sent, inbox, taskq, msgq, mt>>, Cardinality(Unread(m)') <= Cardinality(Unread(m)),
             Cardinality(Unread(m)') \in Int
      PROVE  Places(m)' <= Number(m \in sent')
  <2>1. TasksFor(m)' = TasksFor(m) /\ Queued(m)' = Queued(m) /\ Told(m)' = Told(m)
    BY <1>2 DEF TasksFor, Queued, Told
  <2>2. Cardinality(Holding(m)') <= Cardinality(Holding(m)) /\ Cardinality(Holding(m)') \in Int
    BY <1>2, <1>f, <1>g DEF Number
  <2> QED
    BY <1>2, <1>f, <1>o, <2>1, <2>2 DEF Places, Inside, Number
<1>3. CASE Accept(w)
  <2>1. PICK f \in FreeFds : Goto(w, At("epoll_add", f, None, Head(rx[Listener])))
    BY <1>3 DEF Accept
  <2>2. Cardinality(Unread(m)') = Cardinality(Unread(m)) - Number(m = Head(rx[Listener]))
    BY <1>3, UnreadTaken, Sockets DEF Accept
  <2>3. ~Has(At("epoll_add", f, None, Head(rx[Listener])), m)
    BY DEF Has, At
  <2> QED
    BY <1>2, <1>3, <1>f, <2>1, <2>2, <2>3 DEF Accept, Number
<1>4. CASE ReadStdin(w)
  <2> DEFINE l == IF Head(rx[Stdin]) = "EOF" THEN Idle
                  ELSE At("broadcast", None, {x \in Client : row[x] # None}, None)
  <2>1. Goto(w, l)
    BY <1>4 DEF ReadStdin
  <2>2. Cardinality(Unread(m)') = Cardinality(Unread(m)) - Number(m = Head(rx[Stdin]))
    BY <1>4, UnreadTaken, Sockets DEF ReadStdin
  <2>3. ~Has(l, m)
    BY <1>i DEF Has, At
  <2> HIDE DEF l
  <2> QED
    BY <1>2, <1>4, <1>f, <2>1, <2>2, <2>3 DEF ReadStdin, Number
<1>5. CASE AcceptError(w) \/ EpollAdd(w) \/ RecvTcpError(w) \/ CloseFd(w) \/ Display(w) \/ BroadcastDone(w)
  <2>1. Goto(w, Idle) /\ UNCHANGED <<rx, sent, inbox, taskq, msgq, mt>>
    BY <1>5 DEF AcceptError, EpollAdd, RecvTcpError, CloseFd, Display, BroadcastDone
  <2>2. Unread(m)' = Unread(m)
    BY <2>1 DEF Unread
  <2> QED
    BY <1>2, <1>f, <1>i, <2>1, <2>2
<1>6. CASE RecvTcpEof(w) \/ AddTcpCli(w) \/ AddUdpCli(w) \/ EpollDel(w) \/ DelTcpCliByFd(w)
  <2>1. /\ \E p \in {"epoll_del", "ack", "delete", "close"} : \E fd, msg, on : Goto(w, At(p, fd, msg, on))
        /\ UNCHANGED <<rx, sent, inbox, taskq, msgq, mt>>
    <3>p. \A p : [wk[w] EXCEPT !.pc = p] = At(p, wk[w].fd, wk[w].msg, wk[w].on)
      BY Locals
    <3>1. CASE RecvTcpEof(w)
      BY <3>1 DEF RecvTcpEof
    <3>2. CASE AddTcpCli(w) \/ AddUdpCli(w)
      BY <3>2, <3>p DEF AddTcpCli, AddUdpCli
    <3>3. CASE EpollDel(w) \/ DelTcpCliByFd(w)
      BY <3>3, <3>p DEF EpollDel, DelTcpCliByFd
    <3> QED
      BY <1>6, <3>1, <3>2, <3>3
  <2>2. \A p \in {"epoll_del", "ack", "delete", "close"} : \A fd, msg, on : ~Has(At(p, fd, msg, on), m)
    BY DEF Has, At
  <2>3. Unread(m)' = Unread(m)
    BY <2>1 DEF Unread
  <2> QED
    BY <1>2, <1>f, <2>1, <2>2, <2>3
<1>7. ASSUME NEW s \in Sock, NEW l, Goto(w, l), wk[w].pc = "recv", rx[s] # << >>,
             rx' = [rx EXCEPT ![s] = Tail(@)], Has(l, m) => m = Head(rx[s]),
             UNCHANGED <<sent, inbox, taskq, msgq, mt>>
      PROVE  Places(m)' <= Number(m \in sent')
  <2>1. Cardinality(Unread(m)') = Cardinality(Unread(m)) - Number(m = Head(rx[s]))
    BY <1>7, UnreadTaken
  <2>2. TasksFor(m)' = TasksFor(m) /\ Queued(m)' = Queued(m) /\ Told(m)' = Told(m)
    BY <1>7 DEF TasksFor, Queued, Told
  <2>3. Cardinality(Holding(m)') = Cardinality(Holding(m)) + Number(Has(l, m))
    <3>1. ~Has(wk[w], m)
      BY <1>7 DEF Has
    <3> QED
      BY <1>7, <1>f, <1>g, <3>1 DEF Number
  <2>4. Number(Has(l, m)) <= Number(m = Head(rx[s]))
        /\ Number(Has(l, m)) \in Nat /\ Number(m = Head(rx[s])) \in Nat /\ Number(mt = m) \in Nat
        /\ Number(m \in sent) \in Nat
    BY <1>7 DEF Number
  <2>5. sent' = sent /\ mt' = mt
    BY <1>7
  <2> QED
    BY <1>f, <1>o, <2>1, <2>2, <2>3, <2>4, <2>5 DEF Places, Inside
<1>8. CASE RecvTcpMsg(w)
  <2> DEFINE c == fdt[wk[w].fd]
             l == IF Head(rx[c]) = c THEN At("save", wk[w].fd, Owner[c], c)
                                     ELSE At("en_queue", None, Head(rx[c]), None)
  <2>1. /\ Goto(w, l) /\ wk[w].fd \in Fd /\ c # None /\ wk[w].pc = "recv"
        /\ UNCHANGED <<sent, inbox, taskq, msgq, mt>>
        /\ rx' = [rx EXCEPT ![c] = Tail(@)] /\ rx[c] # << >>
    BY <1>8 DEF RecvTcpMsg
  <2>2. c \in Sock
    BY <2>1, Sockets DEF TypeOK
  <2>3. Has(l, m) => m = Head(rx[c])
    BY DEF Has, At
  <2> HIDE DEF l
  <2> QED
    BY <1>7, <2>1, <2>2, <2>3
<1>9. CASE RecvUdp(w)
  <2> DEFINE item == Head(rx[UdpSock])
             l == IF item \in Data THEN At("en_queue", None, item, None)
                                   ELSE At("save", item, Owner[item], None)
  <2>1. /\ Goto(w, l) /\ wk[w].pc = "recv" /\ UNCHANGED <<sent, inbox, taskq, msgq, mt>>
        /\ rx' = [rx EXCEPT ![UdpSock] = Tail(@)] /\ rx[UdpSock] # << >>
    BY <1>9 DEF RecvUdp
  <2>3. Has(l, m) => m = item
    BY DEF Has, At
  <2> HIDE DEF l
  <2> QED
    BY <1>7, <2>1, <2>3, Sockets
<1>10. CASE EnSrvMsgQueue(w)
  <2>1. /\ Goto(w, Idle) /\ wk[w].pc = "en_queue" /\ msgq' = <<wk[w].msg>> \o msgq
        /\ UNCHANGED <<rx, sent, inbox, taskq, mt>>
    BY <1>10 DEF EnSrvMsgQueue
  <2>2. wk[w].msg \in Data /\ msgq \in Seq(Data)
    BY <1>0, <2>1 DEF LocalOK, TypeOK
  <2>3. Queued(m) = Where(msgq, m) /\ Queued(m)' = Where(msgq', m)
    BY DEF Queued, Where
  <2>4. Cardinality(Queued(m)') = Cardinality(Queued(m)) + Number(m = wk[w].msg)
    BY <2>1, <2>2, <2>3, WherePush
  <2>5. Cardinality(Holding(m)') = Cardinality(Holding(m)) - Number(m = wk[w].msg)
    <3>1. Has(wk[w], m) <=> m = wk[w].msg
      BY <2>1 DEF Has
    <3> QED
      BY <1>f, <1>g, <1>i, <2>1, <3>1 DEF Number
  <2>6. TasksFor(m)' = TasksFor(m) /\ Unread(m)' = Unread(m) /\ Told(m)' = Told(m)
    BY <2>1 DEF TasksFor, Unread, Told
  <2> QED
    BY <1>f, <1>o, <2>1, <2>4, <2>5, <2>6 DEF Places, Inside, Number
<1>11. CASE ForwardLookup(w)
  <2> DEFINE to == row[Dest[wk[w].msg]]
             l == CASE to = None -> Idle
                    [] to \in Fd -> At("send", to, wk[w].msg, fdt[to])
                    [] to \in UdpAddr -> At("send", to, wk[w].msg, None)
  <2>1. /\ Goto(w, l) /\ wk[w].pc = "forward" /\ UNCHANGED <<rx, sent, inbox, taskq, msgq, mt>>
    BY <1>11 DEF ForwardLookup
  <2>2. wk[w].msg \in Data /\ to \in Fd \cup UdpAddr \cup {None}
    BY <1>0, <2>1 DEF LocalOK, TypeOK
  <2> HIDE DEF to
  <2>3. Has(l, m) => Has(wk[w], m)
    BY <1>i, <2>1, <2>2 DEF Has, At
  <2> HIDE DEF l
  <2>4. Unread(m)' = Unread(m)
    BY <2>1 DEF Unread
  <2> QED
    BY <1>2, <1>f, <2>1, <2>3, <2>4
<1>12. CASE Sending(w)
  <2>1. PICK fd \in Fd \cup UdpAddr, pkt \in Packages :
               \E on : Sends(wk[w], fd, on, pkt) /\ Deliver(fd, on, pkt)
    BY <1>12, Senders
  <2>2. \E k \in Link : inbox' = inbox \/ inbox' = [inbox EXCEPT ![k] = @ \cup {pkt}]
    <3>1. inbox' = inbox \/ (To(fd) \in Link /\ inbox' = [inbox EXCEPT ![To(fd)] = @ \cup {pkt}])
      BY <2>1, Delivers
    <3>2. Via[m] \in Link
      BY LinksAssumption
    <3> QED
      BY <3>1, <3>2
  <2>3. /\ Cardinality(Told(m)') <= Cardinality(Told(m)) + Number(m = pkt.body)
        /\ Cardinality(Told(m)') \in Nat
    BY <2>2, ToldMore
  <2>4. m = pkt.body => Has(wk[w], m)
    BY <2>1 DEF Sends, Has, Package
  <2>5. UNCHANGED <<rx, sent, taskq, msgq, mt>>
    BY <1>12, Senders
  <2>6. PICK l : Goto(w, l) /\ ~Has(l, m)
    BY <1>12, <1>i, Senders DEF Has
  <2>7. Cardinality(Holding(m)') = Cardinality(Holding(m)) - Number(Has(wk[w], m))
    BY <1>f, <1>g, <2>6 DEF Number
  <2>8. TasksFor(m)' = TasksFor(m) /\ Unread(m)' = Unread(m) /\ Queued(m)' = Queued(m)
    BY <2>5 DEF TasksFor, Unread, Queued
  <2> QED
    BY <1>f, <1>o, <2>3, <2>4, <2>5, <2>7, <2>8 DEF Places, Inside, Number
<1> QED
  BY <1>1, <1>3, <1>4, <1>5, <1>6, <1>8, <1>9, <1>10, <1>11, <1>12 DEF WorkerStep, Sending


-----------------------------------------------------------------------------
(* Up to the two windows                                                   *)

LEMMA RegularKept ==
    ASSUME TypeOK, LocalInv, Next, Regular'
    PROVE  Regular
<1> USE DEF Regular, netVars, epollVars
<1>1. CASE UNCHANGED <<peer, stale>>
  BY <1>1
<1>2. ASSUME UNCHANGED stale, NEW c \in Conn, NEW p, peer[c] # "reset", peer' = [peer EXCEPT ![c] = p]
      PROVE  Regular
  BY <1>2 DEF TypeOK
<1>3. CASE Environment
  <2>1. ASSUME NEW c \in Conn, Connect(c) \/ \E how \in {"fin", "rst"} : ClientClose(c, how) PROVE Regular
    BY <1>2, <2>1 DEF Connect, ClientClose, serverVars
  <2>2. ASSUME NEW l, NEW item, ClientSend(l, item) PROVE Regular
    BY <1>1, <2>2 DEF ClientSend, serverVars
  <2>3. ASSUME StdinInput PROVE Regular
    BY <1>1, <2>3 DEF StdinInput, serverVars
  <2> QED
    BY <1>3, <2>1, <2>2, <2>3 DEF Environment
<1>4. CASE EpollWait \/ EpollDispatch \/ DeSrvMsgQueue \/ MsgDispatch
  BY <1>1, <1>4 DEF EpollWait, EpollDispatch, DeSrvMsgQueue, MsgDispatch
<1>5. ASSUME NEW w \in Worker, WorkerStep(w) PROVE Regular
  <2>1. CASE Sending(w)
    <3>1. PICK fd \in Fd \cup UdpAddr, pkt \in Packages : \E on : Deliver(fd, on, pkt)
      BY <2>1, Senders
    <3> QED
      BY <3>1, Delivers
  <2>2. CASE RecvTcpError(w)
    <3>1. fdt[wk[w].fd] \in Conn \cup {None}
      BY <2>2 DEF RecvTcpError, TypeOK
    <3> QED
      BY <1>1, <1>2, <2>2, <3>1 DEF RecvTcpError
  <2>3. CASE AddTcpCli(w)
    <3>1. peer' = peer /\ (~stale' => ~stale)
      BY <2>3, Zenon DEF AddTcpCli
    <3> QED
      BY <3>1
  <2>4. CASE \/ TakeTask(w) \/ Accept(w) \/ AcceptError(w) \/ EpollAdd(w) \/ RecvTcpEof(w) \/ RecvTcpMsg(w)
             \/ RecvUdp(w) \/ AddUdpCli(w) \/ EnSrvMsgQueue(w) \/ EpollDel(w) \/ DelTcpCliByFd(w)
             \/ CloseFd(w) \/ Display(w) \/ ForwardLookup(w) \/ ReadStdin(w) \/ BroadcastDone(w)
    BY <1>1, <2>4 DEF TakeTask, Accept, AcceptError, EpollAdd, RecvTcpEof, RecvTcpMsg, RecvUdp, AddUdpCli,
       EnSrvMsgQueue, EpollDel, DelTcpCliByFd, CloseFd, Display, ForwardLookup, ReadStdin, BroadcastDone
  <2> QED
    BY <1>5, <2>1, <2>2, <2>3, <2>4 DEF WorkerStep, Sending
<1> QED
  BY <1>3, <1>4, <1>5 DEF Next

-----------------------------------------------------------------------------
(* Events, tasks and handlers are backed by items                          *)

LEMMA Loads ==
    ASSUME TypeOK, NEW f \in SockFd
    PROVE  /\ Load(f) \in Nat /\ Bound(f) \in Nat
           /\ Cardinality(Using(f)) \in Nat /\ Cardinality(Pending(f)) \in Nat
           /\ SockAt(f) \in Sock \cup {None} /\ (f \notin Fd => SockAt(f) \in Sock)
           /\ SockAt(f) # None => SockAt(f) \in Sock /\ Len(rx[SockAt(f)]) \in Nat
           /\ Number(f \in events) \in 0..1 /\ Number(SockAt(f) \in ready) \in 0..1
<1>1. Cardinality(Using(f)) \in Nat /\ Cardinality(Pending(f)) \in Nat
  BY SetsFinite
<1>2. /\ SockAt(f) \in Sock \cup {None} /\ (f \notin Fd => SockAt(f) \in Sock)
      /\ SockAt(f) # None => SockAt(f) \in Sock
  BY Sockets DEF SockAt, TypeOK, SockFd, Sock
<1>3. SockAt(f) # None => Len(rx[SockAt(f)]) \in Nat
  BY <1>2 DEF TypeOK
<1>4. Number(f \in events) \in 0..1 /\ Number(SockAt(f) \in ready) \in 0..1
  BY DEF Number
<1> QED
  BY <1>1, <1>2, <1>3, <1>4 DEF Load, Bound

\* Descriptors of one socket are one descriptor.
LEMMA OneFd ==
    ASSUME TypeOK, TableInv, NEW f \in SockFd, NEW g \in SockFd, SockAt(f) = SockAt(g), SockAt(f) # None
    PROVE  f = g
BY NamesAssumption, Sockets DEF TypeOK, TableInv, SockAt, SockFd

\* Who uses a descriptor counts.
LEMMA InUse ==
    ASSUME TypeOK, NEW w \in Worker, NEW f \in SockFd, Uses(wk[w], f)
    PROVE  /\ Load(f) >= 1
           /\ \A v \in Worker : v # w /\ Uses(wk[v], f) => Load(f) >= 2
<1>1. IsFiniteSet(Using(f)) /\ Cardinality(Using(f)) \in Nat
  BY SetsFinite
<1>2. w \in Using(f) /\ \A v \in Worker : Uses(wk[v], f) => v \in Using(f)
  BY DEF Using, Uses
<1>3. Cardinality(Using(f)) # 0
  BY <1>1, <1>2, FS_EmptySet
<1>4. ASSUME NEW v \in Worker, v # w, Uses(wk[v], f) PROVE Cardinality(Using(f)) # 1
  <2>1. SUFFICES ASSUME Cardinality(Using(f)) = 1 PROVE FALSE
    OBVIOUS
  <2>2. PICK x : Using(f) = {x}
    BY <1>1, <2>1, FS_Singleton
  <2> QED
    BY <1>2, <1>4, <2>2
<1> QED
  BY <1>1, <1>3, <1>4, Loads DEF Load

LEMMA BackedGoto ==
    ASSUME TypeOK, BackedInv, NEW w \in Worker, NEW l, Goto(w, l),
           wk[w].pc # "epoll_add", l.pc # "epoll_add",
           UNCHANGED <<taskq, events, fdt>>, ready' \subseteq ready,
           \A f \in SockFd : Uses(l, f) => Uses(wk[w], f),
           \A f \in SockFd : SockAt(f) # None =>
               /\ Len(rx'[SockAt(f)]) \in Nat
               /\ Len(rx'[SockAt(f)]) >= Len(rx[SockAt(f)]) - Number(Uses(wk[w], f) /\ ~Uses(l, f))
    PROVE  BackedInv'
<1> SUFFICES ASSUME NEW f \in SockFd PROVE Load(f)' <= Bound(f)'
  BY DEF BackedInv
<1>1. /\ Load(f) \in Nat /\ Bound(f) \in Nat /\ Load(f) <= Bound(f)
      /\ Cardinality(Using(f)) \in Nat /\ Cardinality(Pending(f)) \in Nat
  BY Loads DEF BackedInv
<1>2. Cardinality(Using(f)') = Cardinality(Using(f)) - Number(Uses(wk[w], f)) + Number(Uses(l, f))
  BY GotoCounts
<1>3. Cardinality(Using(f)') = Cardinality(Using(f)) - Number(Uses(wk[w], f) /\ ~Uses(l, f))
  BY <1>1, <1>2 DEF Number
<1>4. Pending(f)' = Pending(f) /\ SockAt(f)' = SockAt(f) /\ events' = events
  BY DEF Pending, SockAt
<1>5. Adding(f)' <=> Adding(f)
  <2>1. wk'[w] = l /\ \A v \in Worker \ {w} : wk'[v] = wk[v]
    BY DEF Goto, TypeOK
  <2> QED
    BY <2>1 DEF Adding
<1>6. Number(SockAt(f)' \in ready') <= Number(SockAt(f) \in ready) /\ Number(SockAt(f)' \in ready') \in Nat
      /\ Number(SockAt(f) \in ready) \in Nat /\ Number(f \in events) \in Nat
      /\ Number(Uses(wk[w], f) /\ ~Uses(l, f)) \in 0..1
  BY <1>4 DEF Number
<1>7. Load(f)' <= Load(f) - Number(Uses(wk[w], f) /\ ~Uses(l, f)) /\ Load(f)' \in Int
  BY <1>1, <1>3, <1>4, <1>6 DEF Load
<1>8. CASE SockAt(f) = None \/ Adding(f)
  BY <1>1, <1>4, <1>5, <1>6, <1>7, <1>8 DEF Bound
<1>9. CASE ~(SockAt(f) = None \/ Adding(f))
  <2>1. Bound(f) = Len(rx[SockAt(f)]) /\ Bound(f)' = Len(rx'[SockAt(f)])
    BY <1>4, <1>5, <1>9 DEF Bound
  <2> QED
    BY <1>1, <1>6, <1>7, <1>9, <2>1
<1> QED
  BY <1>8, <1>9


LEMMA BackedOutside ==
    ASSUME TypeOK, LocalInv, TableInv, BackedInv, AddInv,
           Environment \/ EpollWait \/ EpollDispatch \/ DeSrvMsgQueue \/ MsgDispatch
    PROVE  BackedInv'
<1> SUFFICES ASSUME NEW f \in SockFd PROVE Load(f)' <= Bound(f)'
  BY DEF BackedInv
<1> USE NamesAssumption DEF netVars, epollVars
<1>f. /\ Load(f) \in Nat /\ Bound(f) \in Nat /\ Load(f) <= Bound(f)
      /\ Cardinality(Using(f)) \in Nat /\ Cardinality(Pending(f)) \in Nat
      /\ Number(f \in events) \in 0..1 /\ Number(SockAt(f) \in ready) \in 0..1
  BY Loads DEF BackedInv
<1>1. ASSUME NEW s \in Sock, NEW item \in Items(s), Arrive(s, item), UNCHANGED serverVars
      PROVE  Load(f)' <= Bound(f)'
  <2>1. /\ rx'[s] = Append(rx[s], item) /\ \A t \in Sock : t # s => rx'[t] = rx[t]
    BY <1>1, Arrives
  <2>2. rx[s] \in Seq(Items(s))
    BY DEF TypeOK
  <2>3. Len(rx'[s]) = Len(rx[s]) + 1 /\ Len(rx[s]) \in Nat
    BY <2>1, <2>2
  <2>4. /\ Using(f)' = Using(f) /\ Pending(f)' = Pending(f) /\ events' = events
        /\ SockAt(f)' = SockAt(f) /\ (Adding(f)' <=> Adding(f))
    BY <1>1 DEF Using, Pending, SockAt, Adding, serverVars
  <2>5. Number(SockAt(f)' \in ready')
          <= Number(SockAt(f) \in ready) + Number(SockAt(f) = s /\ s \in interest)
        /\ Number(SockAt(f)' \in ready') \in Nat
    BY <1>1, <2>4 DEF Arrive, Edge, Number
  <2>6. Load(f)' <= Load(f) + Number(SockAt(f) = s /\ s \in interest) /\ Load(f)' \in Nat
    BY <1>f, <2>4, <2>5 DEF Load, Number
  <2>7. CASE SockAt(f) = None
    BY <1>f, <2>4, <2>6, <2>7, Sockets DEF Bound, Number
  <2>8. CASE Adding(f)
    <3>1. PICK w \in Worker : wk[w].pc = "epoll_add" /\ wk[w].fd = f
      BY <2>8 DEF Adding
    <3>2. fdt[f] = wk[w].on /\ wk[w].on \notin interest
      BY <3>1 DEF AddInv
    <3>3. SockAt(f) \notin interest
      BY <3>1, <3>2 DEF SockAt, LocalInv, LocalOK
    <3> QED
      BY <1>f, <2>4, <2>6, <2>8, <3>3 DEF Bound, Number
  <2>9. CASE SockAt(f) # None /\ ~Adding(f)
    <3>1. SockAt(f) \in Sock /\ Bound(f) = Len(rx[SockAt(f)]) /\ Bound(f)' = Len(rx'[SockAt(f)])
      BY <2>4, <2>9, Loads DEF Bound
    <3> QED
      BY <1>f, <2>1, <2>3, <2>6, <3>1 DEF Number
  <2> QED
    BY <2>7, <2>8, <2>9
<1>2. CASE Environment
  <2>1. ASSUME NEW c \in Conn, Connect(c) PROVE Load(f)' <= Bound(f)'
    BY <1>1, <2>1, Sockets DEF Connect
  <2>2. ASSUME NEW c \in Conn, NEW how, ClientClose(c, how) PROVE Load(f)' <= Bound(f)'
    BY <1>1, <2>2, Sockets DEF ClientClose
  <2>3. ASSUME NEW l \in Link, NEW item \in Link \cup Data, ClientSend(l, item)
        PROVE  Load(f)' <= Bound(f)'
    <3>1. Wire(l) \in Sock /\ item \in Items(Wire(l))
      BY <2>3, Sockets DEF Wire, ClientSend, Link
    <3> QED
      BY <1>1, <2>3, <3>1 DEF ClientSend
  <2>4. ASSUME StdinInput PROVE Load(f)' <= Bound(f)'
    <3>1. Lines[typed + 1] \in {"line", "EOF"}
      BY <2>4, BoundsAssumption DEF StdinInput, TypeOK
    <3> QED
      BY <1>1, <2>4, <3>1, Sockets DEF StdinInput
  <2> QED
    BY <1>2, <2>1, <2>2, <2>3, <2>4 DEF Environment
<1>3. CASE EpollWait
  <2>1. /\ events = {} /\ events' = {FdOf(s) : s \in ready} /\ ready' = {}
        /\ UNCHANGED <<fdt, rx, taskq, wk>>
    BY <1>3 DEF EpollWait
  <2>2. ASSUME f \in events' PROVE SockAt(f) \in ready
    <3>1. PICK s \in ready : f = FdOf(s)
      BY <2>1, <2>2
    <3>2. CASE s \in Conn
      <4>1. \E g \in Fd : fdt[g] = s
        BY <3>2 DEF TableInv, TypeOK
      <4>2. f \in Fd /\ fdt[f] = s
        BY <3>1, <3>2, <4>1 DEF FdOf
      <4> QED
        BY <4>2 DEF SockAt
    <3>3. CASE s \notin Conn
      <4>1. f = s /\ f \notin Fd
        BY <3>1, <3>3 DEF FdOf, TypeOK, Sock
      <4> QED
        BY <4>1 DEF SockAt
    <3> QED
      BY <3>2, <3>3
  <2>3. /\ Using(f)' = Using(f) /\ Pending(f)' = Pending(f) /\ Bound(f)' = Bound(f)
    BY <2>1 DEF Using, Pending, Bound, SockAt, Adding
  <2>4. Number(f \in events') <= Number(SockAt(f) \in ready) /\ Number(SockAt(f)' \in ready') = 0
        /\ Number(f \in events) = 0 /\ Number(f \in events') \in Nat
    BY <2>1, <2>2 DEF Number
  <2> QED
    BY <1>f, <2>3, <2>4 DEF Load
<1>4. CASE EpollDispatch
  <2>1. PICK fd \in events : taskq' = Append(taskq, Task(Handler(fd), fd)) /\ events' = events \ {fd}
    BY <1>4 DEF EpollDispatch
  <2>2. fd \in SockFd /\ Task(Handler(fd), fd) \in Work
    BY Tasks DEF TypeOK
  <2>3. Task(Handler(f), f) = Task(Handler(fd), fd) <=> f = fd
    BY DEF Task
  <2>4. Cardinality(Pending(f)') = Cardinality(Pending(f)) + Number(Task(Handler(f), f) = Task(Handler(fd), fd))
    BY <2>1, <2>2, TaskAdded
  <2>5. /\ Using(f)' = Using(f) /\ Bound(f)' = Bound(f) /\ SockAt(f)' = SockAt(f) /\ ready' = ready
    BY <1>4 DEF EpollDispatch, Using, Bound, SockAt, Adding
  <2>6. Number(f \in events') + Number(Task(Handler(f), f) = Task(Handler(fd), fd)) <= Number(f \in events)
        /\ Number(f \in events') \in Nat /\ Number(Task(Handler(f), f) = Task(Handler(fd), fd)) \in Nat
    BY <2>1, <2>3 DEF Number
  <2> QED
    BY <1>f, <2>4, <2>5, <2>6 DEF Load
<1>5. CASE DeSrvMsgQueue
  BY <1>5, <1>f DEF DeSrvMsgQueue, Load, Using, Pending, Bound, SockAt, Adding
<1>6. CASE MsgDispatch
  <2>1. mt \in Data /\ taskq' = Append(taskq, Note(mt))
    BY <1>6 DEF MsgDispatch, TypeOK, Note
  <2>2. Note(mt) \in Work /\ Task(Handler(f), f) # Note(mt)
    <3>1. Handler(f) \in ReadPC
      BY Tasks
    <3> QED
      BY <2>1, <3>1, Tasks DEF Task, Note, ReadPC
  <2>3. Cardinality(Pending(f)') = Cardinality(Pending(f))
    BY <1>f, <2>1, <2>2, TaskAdded DEF Number
  <2>4. /\ Using(f)' = Using(f) /\ Bound(f)' = Bound(f) /\ SockAt(f)' = SockAt(f) /\ ready' = ready
        /\ events' = events
    BY <1>6 DEF MsgDispatch, Using, Bound, SockAt, Adding
  <2> QED
    BY <1>f, <2>3, <2>4 DEF Load
<1> QED
  BY <1>2, <1>3, <1>4, <1>5, <1>6


\* The sockets the pool reads from.
LEMMA ReadsBacked ==
    ASSUME TypeOK, BackedInv, NEW w \in Worker, NEW f \in SockFd, Uses(wk[w], f)
    PROVE  SockAt(f) # None /\ ~Adding(f) /\ Load(f) <= Len(rx[SockAt(f)])
           /\ rx[SockAt(f)] # << >> /\ SockAt(f) \in Sock
<1>1. Load(f) >= 1 /\ Load(f) \in Nat /\ Load(f) <= Bound(f)
  BY InUse, Loads DEF BackedInv
<1>2. SockAt(f) # None /\ ~Adding(f) /\ Load(f) <= Len(rx[SockAt(f)])
  BY <1>1 DEF Bound
<1>3. SockAt(f) \in Sock
  BY <1>2, Loads
<1> QED
  BY <1>1, <1>2, <1>3 DEF TypeOK

LEMMA BackedWorker ==
    ASSUME TypeOK, LocalInv, TableInv, BackedInv, AddInv, TearInv, Regular', NEW w \in Worker, WorkerStep(w)
    PROVE  BackedInv'
<1> USE NamesAssumption DEF netVars, epollVars
<1>0. LocalOK(wk[w]) /\ wk[w] \in Local
  BY DEF LocalInv, TypeOK
<1>i. \A f \in SockFd : ~Uses(Idle, f)
  BY DEF Uses, Idle, At, ReadPC, TearPC
<1>f. ASSUME NEW f \in SockFd
      PROVE  /\ Load(f) \in Nat /\ Bound(f) \in Nat /\ Load(f) <= Bound(f)
             /\ Cardinality(Using(f)) \in Nat /\ Cardinality(Pending(f)) \in Nat
             /\ Number(f \in events) \in 0..1 /\ Number(SockAt(f) \in ready) \in 0..1
  BY Loads DEF BackedInv
<1>l. \A f \in SockFd : SockAt(f) # None => SockAt(f) \in Sock /\ Len(rx[SockAt(f)]) \in Nat
  BY Loads
<1>1. CASE TakeTask(w)
  <2> SUFFICES ASSUME NEW f \in SockFd PROVE Load(f)' <= Bound(f)'
    BY DEF BackedInv
  <2> DEFINE t == Head(taskq)
             l == IF t.h \in {"display", "forward"} THEN At(t.h, None, t.arg, None)
                                                    ELSE At(t.h, t.arg, None, None)
  <2>1. taskq # << >> /\ taskq' = Tail(taskq) /\ Goto(w, l) /\ wk[w] = Idle
        /\ UNCHANGED <<rx, fdt, events, ready>>
    BY <1>1 DEF TakeTask
  <2>2. t \in Work /\ Cardinality(Pending(f)') = Cardinality(Pending(f)) - Number(Task(Handler(f), f) = t)
    BY <2>1, TaskTaken
  <2> HIDE DEF t
  <2>3. (Uses(l, f) => Task(Handler(f), f) = t) /\ l.pc # "epoll_add"
    <3>1. (t.h \in ReadPC /\ t.arg = f) <=> t = Task(Handler(f), f)
      BY <2>2, Tasks
    <3>2. t.h \in ReadPC \cup {"display", "forward"}
      BY <2>2 DEF Work, Task, ReadPC
    <3> QED
      BY <3>1, <3>2 DEF Uses, At, ReadPC, TearPC
  <2> HIDE DEF l
  <2>4. Cardinality(Using(f)') = Cardinality(Using(f)) + Number(Uses(l, f))
    <3>1. Cardinality(Using(f)') = Cardinality(Using(f)) - Number(Uses(wk[w], f)) + Number(Uses(l, f))
      BY <2>1, GotoCounts
    <3> QED
      BY <1>f, <1>i, <2>1, <3>1 DEF Number
  <2>5. Bound(f)' = Bound(f) /\ SockAt(f)' = SockAt(f)
    <3>1. wk'[w] = l /\ \A v \in Worker \ {w} : wk'[v] = wk[v]
      BY <2>1 DEF Goto, TypeOK
    <3>2. Adding(f)' <=> Adding(f)
      BY <2>1, <2>3, <3>1 DEF Adding, Idle, At
    <3> QED
      BY <2>1, <3>2 DEF Bound, SockAt
  <2>6. Number(Uses(l, f)) <= Number(Task(Handler(f), f) = t) /\ Number(Uses(l, f)) \in Nat
        /\ Number(Task(Handler(f), f) = t) \in Nat
    BY <2>3 DEF Number
  <2>7. /\ Load(f) \in Nat /\ Bound(f) \in Nat /\ Load(f) <= Bound(f)
        /\ Cardinality(Using(f)) \in Nat /\ Cardinality(Pending(f)) \in Nat
        /\ Number(f \in events) \in Nat /\ Number(SockAt(f) \in ready) \in Nat
    BY <1>f
  <2>8. Number(f \in events') = Number(f \in events)
        /\ Number(SockAt(f)' \in ready') = Number(SockAt(f) \in ready)
    BY <2>1, <2>5
  <2> QED
    BY <2>2, <2>4, <2>5, <2>6, <2>7, <2>8 DEF Load
<1>2. CASE Accept(w)
  <2>1. PICK f0 \in FreeFds : /\ fdt' = [fdt EXCEPT ![f0] = Head(rx[Listener])]
                              /\ Goto(w, At("epoll_add", f0, None, Head(rx[Listener])))
    BY <1>2 DEF Accept
  <2> DEFINE c == Head(rx[Listener])
             l == At("epoll_add", f0, None, c)
  <2>2. /\ c \in Conn /\ \A t \in Sock : t # Listener => rx'[t] = rx[t]
        /\ Len(rx'[Listener]) = Len(rx[Listener]) - 1 /\ Len(rx[Listener]) \in Nat \ {0}
        /\ UNCHANGED <<taskq, events, ready, interest>>
        /\ c = rx[Listener][1] /\ 1 \in DOMAIN rx[Listener]
    BY <1>2, Takes, Sockets DEF Accept
  <2>3. f0 \in Fd /\ fdt[f0] = None /\ fdt'[f0] = c /\ \A g \in Fd : g # f0 => fdt'[g] = fdt[g]
    BY <2>1 DEF FreeFds, TypeOK
  <2>4. c \notin ready
    <3>1. \A g \in Fd : fdt[g] # c
      BY <2>2 DEF TableInv
    <3>2. c \notin interest
      BY <2>2, <3>1 DEF TableInv
    <3> QED
      BY <3>2 DEF TypeOK
  <2>5. Goto(w, l) /\ l.pc = "epoll_add" /\ l.fd = f0 /\ wk[w].pc = "accept" /\ wk[w].fd = Listener
    BY <1>0, <1>2, <2>1 DEF Accept, At, LocalOK
  <2>6. wk'[w] = l /\ \A v \in Worker \ {w} : wk'[v] = wk[v]
    BY <2>5 DEF Goto, TypeOK
  <2> HIDE DEF l, c
  <2> SUFFICES ASSUME NEW f \in SockFd PROVE Load(f)' <= Bound(f)'
    BY DEF BackedInv
  <2>7. Cardinality(Using(f)') = Cardinality(Using(f)) - Number(f = Listener)
    <3>1. Cardinality(Using(f)') = Cardinality(Using(f)) - Number(Uses(wk[w], f)) + Number(Uses(l, f))
      BY <2>5, GotoCounts
    <3>2. ~Uses(l, f) /\ (Uses(wk[w], f) <=> f = Listener)
      BY <2>5 DEF Uses, ReadPC, TearPC
    <3> QED
      BY <1>f, <3>1, <3>2 DEF Number
  <2>8. Pending(f)' = Pending(f) /\ events' = events
    BY <2>2 DEF Pending
  <2>9. f # f0 => SockAt(f)' = SockAt(f) /\ (Adding(f)' <=> Adding(f))
    BY <2>3, <2>5, <2>6 DEF SockAt, Adding
  <2>10. CASE f = f0
    <3>1. SockAt(f) = None /\ SockAt(f)' = c /\ f # Listener
      BY <2>3, <2>10 DEF SockAt
    <3>2. Load(f) = 0 /\ Number(SockAt(f)' \in ready') = 0
      BY <1>f, <2>2, <2>4, <3>1 DEF Bound, Number
    <3>3. Load(f)' = 0
      BY <1>f, <2>7, <2>8, <3>1, <3>2 DEF Load, Number
    <3>4. Adding(f)'
      BY <2>5, <2>6, <2>10 DEF Adding
    <3> QED
      BY <3>3, <3>4 DEF Bound
  <2>11. CASE f # f0
    <3>1. Load(f)' = Load(f) - Number(f = Listener)
      <4>1. /\ Cardinality(Using(f)) \in Nat /\ Cardinality(Pending(f)) \in Nat
            /\ Number(f \in events) \in Nat /\ Number(SockAt(f) \in ready) \in Nat
        BY <1>f
      <4>2. Number(SockAt(f)' \in ready') = Number(SockAt(f) \in ready) /\ Number(f = Listener) \in Nat
        BY <2>2, <2>9, <2>11 DEF Number
      <4> QED
        BY <2>7, <2>8, <4>1, <4>2 DEF Load
    <3>2. CASE f = Listener
      <4>1. SockAt(f) = Listener /\ f \notin Fd /\ Listener # None
        BY <3>2, Sockets DEF SockAt
      <4>2. ~Adding(f)
        BY <4>1 DEF Adding, LocalInv, LocalOK
      <4> QED
        BY <1>f, <2>2, <2>9, <2>11, <3>1, <3>2, <4>1, <4>2 DEF Bound, Number
    <3>3. CASE f # Listener
      <4>1. SockAt(f) # None => rx'[SockAt(f)] = rx[SockAt(f)]
        <5>1. SockAt(f) # Listener
          BY <3>3, Sockets DEF SockAt, TypeOK
        <5> QED
          BY <1>l, <2>2, <5>1
      <4>2. Bound(f)' = Bound(f)
        BY <2>9, <2>11, <4>1 DEF Bound
      <4> QED
        BY <1>f, <3>1, <3>3, <4>2 DEF Number
    <3> QED
      BY <3>2, <3>3
  <2> QED
    BY <2>10, <2>11
<1>3. CASE EpollAdd(w)
  <2> DEFINE f0 == wk[w].fd
             c == fdt[f0]
  <2>1. /\ Goto(w, Idle) /\ wk[w].pc = "epoll_add" /\ UNCHANGED <<rx, fdt, events, taskq>>
        /\ ready' = ready \/ (rx[c] # << >> /\ ready' = ready \cup {c})
    BY <1>3 DEF EpollAdd
  <2>2. f0 \in Fd /\ c = wk[w].on /\ c \in Conn /\ f0 \in SockFd /\ SockAt(f0) = c /\ c # None
    BY <1>0, <2>1, Sockets DEF LocalOK, AddInv, SockFd, SockAt
  <2>3. wk'[w] = Idle /\ \A v \in Worker \ {w} : wk'[v] = wk[v]
    BY <2>1 DEF Goto, TypeOK
  <2> HIDE DEF f0, c
  <2> SUFFICES ASSUME NEW f \in SockFd PROVE Load(f)' <= Bound(f)'
    BY DEF BackedInv
  <2>4. Cardinality(Using(f)') = Cardinality(Using(f))
    <3>1. Cardinality(Using(f)') = Cardinality(Using(f)) - Number(Uses(wk[w], f)) + Number(Uses(Idle, f))
      BY <2>1, GotoCounts
    <3>2. ~Uses(wk[w], f)
      BY <2>1 DEF Uses, ReadPC, TearPC
    <3> QED
      BY <1>f, <1>i, <3>1, <3>2 DEF Number
  <2>5. Pending(f)' = Pending(f) /\ events' = events /\ SockAt(f)' = SockAt(f)
    BY <2>1 DEF Pending, SockAt
  <2>6. CASE f = f0
    <3>1. Load(f) = 0
      BY <1>f, <2>1, <2>6 DEF Bound, Adding, f0
    <3>2. ~Adding(f)'
      BY <2>1, <2>3, <2>6 DEF Adding, AddInv, f0, Idle, At
    <3>3. Bound(f)' = Len(rx[c]) /\ Len(rx[c]) \in Nat
      BY <1>l, <2>1, <2>2, <2>5, <2>6, <3>2 DEF Bound
    <3>4. c \in Sock /\ (rx[c] # << >> => Len(rx[c]) > 0)
      BY <2>2, Sockets DEF TypeOK
    <3>5. Load(f)' <= Number(rx[c] # << >>) /\ Load(f)' \in Nat
      BY <1>f, <2>1, <2>2, <2>4, <2>5, <2>6, <3>1 DEF Load, Number
    <3> QED
      BY <3>3, <3>4, <3>5 DEF Number
  <2>7. CASE f # f0
    <3>1. SockAt(f) # c
      BY <2>2, <2>7, OneFd
    <3>2. Adding(f)' <=> Adding(f)
      BY <2>1, <2>3, <2>7 DEF Adding, f0, Idle, At
    <3>3. Bound(f)' = Bound(f)
      BY <2>1, <2>5, <3>2 DEF Bound
    <3>4. SockAt(f)' \in ready' <=> SockAt(f) \in ready
      BY <2>1, <2>5, <3>1
    <3> QED
      BY <1>f, <2>4, <2>5, <3>3, <3>4 DEF Load, Number
  <2> QED
    BY <2>6, <2>7
<1>4. CASE CloseFd(w)
  <2> DEFINE f0 == wk[w].fd
             c == fdt[f0]
  <2>1. /\ Goto(w, Idle) /\ wk[w].pc = "close" /\ UNCHANGED <<rx, events, taskq>>
        /\ ready' = ready \ {c} /\ fdt' = [fdt EXCEPT ![f0] = None]
    BY <1>4 DEF CloseFd
  <2>2. /\ f0 \in Fd /\ f0 \in SockFd /\ c = wk[w].on /\ rx[wk[w].on] = <<"EOF">> /\ c \in Conn
        /\ SockAt(f0) = c /\ c # None
    BY <1>0, <2>1, Sockets DEF LocalOK, TearInv, TearPC, SockFd, SockAt
  <2>3. wk'[w] = Idle /\ \A v \in Worker \ {w} : wk'[v] = wk[v]
    BY <2>1 DEF Goto, TypeOK
  <2>4. Uses(wk[w], f0)
    BY <2>1 DEF Uses, TearPC
  <2> HIDE DEF f0, c
  <2>5. Load(f0) <= 1
    <3>1. Load(f0) <= Len(rx[c])
      BY <2>2, <2>4, ReadsBacked
    <3> QED
      BY <2>2, <3>1
  <2> SUFFICES ASSUME NEW f \in SockFd PROVE Load(f)' <= Bound(f)'
    BY DEF BackedInv
  <2>6. Cardinality(Using(f)') = Cardinality(Using(f)) - Number(f = f0)
    <3>1. Cardinality(Using(f)') = Cardinality(Using(f)) - Number(Uses(wk[w], f)) + Number(Uses(Idle, f))
      BY <2>1, GotoCounts
    <3>2. Uses(wk[w], f) <=> f = f0
      BY <2>1 DEF Uses, TearPC, f0
    <3> QED
      BY <1>f, <1>i, <3>1, <3>2 DEF Number
  <2>7. Pending(f)' = Pending(f) /\ events' = events
    BY <2>1 DEF Pending
  <2>8. CASE f = f0
    <3>1. SockAt(f)' = None /\ None \notin ready'
      BY <2>1, <2>2, <2>8, Sockets DEF SockAt, TypeOK
    <3>2. Load(f)' <= 0
      BY <1>f, <2>5, <2>6, <2>7, <2>8, <3>1 DEF Load, Number
    <3> QED
      BY <3>1, <3>2 DEF Bound
  <2>9. CASE f # f0
    <3>1. SockAt(f)' = SockAt(f)
      BY <2>1, <2>9 DEF SockAt, TypeOK
    <3>2. Adding(f)' <=> Adding(f)
      BY <2>1, <2>3, <2>9 DEF Adding, f0, Idle, At
    <3>3. Bound(f)' = Bound(f)
      BY <2>1, <3>1, <3>2 DEF Bound
    <3>4. Number(SockAt(f)' \in ready') <= Number(SockAt(f) \in ready)
          /\ Number(SockAt(f)' \in ready') \in Nat
      BY <2>1, <3>1 DEF Number
    <3>5. Cardinality(Using(f)') = Cardinality(Using(f))
      BY <1>f, <2>6, <2>9 DEF Number
    <3> QED
      BY <1>f, <2>7, <3>3, <3>4, <3>5 DEF Load
  <2> QED
    BY <2>8, <2>9
<1>5. ASSUME NEW l, Goto(w, l), wk[w].pc # "epoll_add", l.pc # "epoll_add",
             UNCHANGED <<taskq, events, fdt, rx>>, ready' \subseteq ready,
             \A f \in SockFd : Uses(l, f) => Uses(wk[w], f)
      PROVE  BackedInv'
  <2>1. \A f \in SockFd : SockAt(f) # None =>
               /\ Len(rx'[SockAt(f)]) \in Nat
               /\ Len(rx'[SockAt(f)]) >= Len(rx[SockAt(f)]) - Number(Uses(wk[w], f) /\ ~Uses(l, f))
    <3>1. \A f \in SockFd : Number(Uses(wk[w], f) /\ ~Uses(l, f)) \in Nat
      BY DEF Number
    <3> QED
      BY <1>5, <1>l, <3>1
  <2> QED
    BY <1>5, <2>1, BackedGoto
<1>6. CASE \/ AcceptError(w) \/ RecvTcpError(w) \/ EnSrvMsgQueue(w) \/ Display(w) \/ BroadcastDone(w)
  <2>1. /\ Goto(w, Idle) /\ wk[w].pc # "epoll_add" /\ UNCHANGED <<taskq, events, fdt, rx, ready>>
        /\ Idle.pc # "epoll_add"
    BY <1>6 DEF AcceptError, RecvTcpError, EnSrvMsgQueue, Display, BroadcastDone, Idle, At
  <2> QED
    BY <1>5, <1>i, <2>1
<1>7. CASE RecvTcpEof(w) \/ AddTcpCli(w) \/ AddUdpCli(w) \/ EpollDel(w) \/ DelTcpCliByFd(w)
  <2>1. PICK p \in {"epoll_del", "ack", "delete", "close"} : \E msg, on :
          /\ Goto(w, At(p, wk[w].fd, msg, on)) /\ (p # "ack" => wk[w].pc \in ReadPC \cup TearPC)
          /\ wk[w].pc # "epoll_add" /\ UNCHANGED <<taskq, events, fdt, rx>> /\ ready' \subseteq ready
    <3>p. \A p : [wk[w] EXCEPT !.pc = p] = At(p, wk[w].fd, wk[w].msg, wk[w].on)
      BY Locals
    <3>1. CASE RecvTcpEof(w)
      BY <3>1 DEF RecvTcpEof, ReadPC
    <3>2. CASE AddTcpCli(w) \/ AddUdpCli(w)
      BY <3>2, <3>p DEF AddTcpCli, AddUdpCli
    <3>3. CASE EpollDel(w) \/ DelTcpCliByFd(w)
      BY <3>3, <3>p DEF EpollDel, DelTcpCliByFd, TearPC
    <3> QED
      BY <1>7, <3>1, <3>2, <3>3
  <2>2. PICK msg, on : Goto(w, At(p, wk[w].fd, msg, on))
    BY <2>1
  <2> DEFINE l == At(p, wk[w].fd, msg, on)
  <2>3. l.pc # "epoll_add" /\ \A f \in SockFd : Uses(l, f) => Uses(wk[w], f)
    BY <2>1 DEF Uses, At, ReadPC, TearPC
  <2>4. Goto(w, l)
    BY <2>2
  <2> HIDE DEF l
  <2> QED
    BY <1>5, <2>1, <2>3, <2>4
<1>8. CASE ForwardLookup(w)
  <2> DEFINE to == row[Dest[wk[w].msg]]
             l == CASE to = None -> Idle
                    [] to \in Fd -> At("send", to, wk[w].msg, fdt[to])
                    [] to \in UdpAddr -> At("send", to, wk[w].msg, None)
  <2>1. /\ Goto(w, l) /\ wk[w].pc = "forward" /\ UNCHANGED <<rx, fdt, ready, events, taskq>>
    BY <1>8 DEF ForwardLookup
  <2>2. to \in Fd \cup UdpAddr \cup {None}
    BY <1>0, <2>1 DEF LocalOK, TypeOK
  <2> HIDE DEF to
  <2>3. l.pc # "epoll_add" /\ \A f \in SockFd : ~Uses(l, f)
    BY <2>2 DEF Uses, At, ReadPC, TearPC, Idle
  <2> HIDE DEF l
  <2> QED
    BY <1>5, <2>1, <2>3
<1>9. CASE Sending(w)
  <2>1. PICK fd \in Fd \cup UdpAddr, pkt \in Packages : \E on : Deliver(fd, on, pkt)
    BY <1>9, Senders
  <2>2. ready' = ready
    BY <2>1, Delivers
  <2>3. /\ UNCHANGED <<rx, fdt, events, taskq>> /\ wk[w].pc \in {"ack", "send", "broadcast"}
    BY <1>9, Senders
  <2>4. PICK l : Goto(w, l) /\ (l.pc = "broadcast" \/ l = Idle)
    BY <1>9, Senders
  <2>5. l.pc # "epoll_add" /\ \A f \in SockFd : ~Uses(l, f)
    BY <1>i, <2>4 DEF Uses, ReadPC, TearPC, Idle, At
  <2> QED
    BY <1>5, <2>2, <2>3, <2>4, <2>5
<1>10. ASSUME NEW g \in SockFd, NEW l, Goto(w, l), wk[w].pc \in ReadPC, wk[w].fd = g,
              l.pc \notin ReadPC \cup TearPC \cup {"epoll_add"},
              SockAt(g) \in Sock, rx[SockAt(g)] # << >>, rx' = [rx EXCEPT ![SockAt(g)] = Tail(@)],
              UNCHANGED <<taskq, events, fdt, ready>>
       PROVE  BackedInv'
  <2> DEFINE s == SockAt(g)
  <2>1. /\ \A t \in Sock : t # s => rx'[t] = rx[t]
        /\ Len(rx'[s]) = Len(rx[s]) - 1 /\ Len(rx[s]) \in Nat \ {0}
    BY <1>10, Takes
  <2>2. \A f \in SockFd : ~Uses(l, f) /\ (Uses(wk[w], f) <=> f = g)
    BY <1>10 DEF Uses
  <2>3. wk[w].pc # "epoll_add" /\ l.pc # "epoll_add"
    BY <1>10 DEF ReadPC
  <2>4. s # None
    BY <1>10, Sockets
  <2> HIDE DEF s
  <2>5. ASSUME NEW f \in SockFd, SockAt(f) # None
        PROVE  /\ Len(rx'[SockAt(f)]) \in Nat
               /\ Len(rx'[SockAt(f)]) >= Len(rx[SockAt(f)]) - Number(Uses(wk[w], f) /\ ~Uses(l, f))
    <3>1. CASE f = g
      <4>1. Number(Uses(wk[w], f) /\ ~Uses(l, f)) = 1
        BY <2>2, <3>1 DEF Number
      <4> QED
        BY <2>1, <3>1, <4>1 DEF s
    <3>2. CASE f # g
      <4>1. SockAt(f) # s
        BY <2>4, <3>2, OneFd DEF s
      <4>2. rx'[SockAt(f)] = rx[SockAt(f)] /\ Len(rx[SockAt(f)]) \in Nat
        BY <1>l, <2>1, <2>5, <4>1
      <4>3. Number(Uses(wk[w], f) /\ ~Uses(l, f)) \in Nat
        BY DEF Number
      <4> QED
        BY <4>2, <4>3
    <3> QED
      BY <3>1, <3>2
  <2> QED
    BY <1>10, <2>2, <2>3, <2>5, BackedGoto
<1>11. CASE RecvTcpMsg(w)
  <2> DEFINE c == fdt[wk[w].fd]
             l == IF Head(rx[c]) = c THEN At("save", wk[w].fd, Owner[c], c)
                                     ELSE At("en_queue", None, Head(rx[c]), None)
  <2>1. /\ Goto(w, l) /\ wk[w].fd \in Fd /\ c # None /\ wk[w].pc = "recv"
        /\ UNCHANGED <<taskq, events, fdt, ready>>
        /\ rx' = [rx EXCEPT ![c] = Tail(@)] /\ rx[c] # << >>
    BY <1>11 DEF RecvTcpMsg
  <2>2. c \in Sock /\ SockAt(wk[w].fd) = c /\ wk[w].fd \in SockFd
    BY <2>1, Sockets DEF TypeOK, SockAt, SockFd
  <2>3. l.pc \notin ReadPC \cup TearPC \cup {"epoll_add"} /\ wk[w].pc \in ReadPC
    BY <2>1 DEF At, ReadPC, TearPC
  <2> HIDE DEF l
  <2> QED
    BY <1>10, <2>1, <2>2, <2>3
<1>12. CASE RecvUdp(w)
  <2> DEFINE item == Head(rx[UdpSock])
             l == IF item \in Data THEN At("en_queue", None, item, None)
                                   ELSE At("save", item, Owner[item], None)
  <2>1. /\ Goto(w, l) /\ wk[w].pc = "recv" /\ wk[w].fd = UdpSock /\ UNCHANGED <<taskq, events, fdt, ready>>
        /\ rx' = [rx EXCEPT ![UdpSock] = Tail(@)] /\ rx[UdpSock] # << >>
    BY <1>12 DEF RecvUdp
  <2>2. UdpSock \in Sock /\ SockAt(UdpSock) = UdpSock /\ UdpSock \in SockFd
    BY Sockets DEF SockAt, SockFd
  <2>3. l.pc \notin ReadPC \cup TearPC \cup {"epoll_add"} /\ wk[w].pc \in ReadPC
    BY <2>1 DEF At, ReadPC, TearPC
  <2> HIDE DEF l
  <2> QED
    BY <1>10, <2>1, <2>2, <2>3
<1>13. CASE ReadStdin(w)
  <2> DEFINE l == IF Head(rx[Stdin]) = "EOF" THEN Idle
                  ELSE At("broadcast", None, {x \in Client : row[x] # None}, None)
  <2>1. /\ Goto(w, l) /\ wk[w].pc = "stdin" /\ UNCHANGED <<taskq, events, fdt, ready>>
        /\ rx' = [rx EXCEPT ![Stdin] = Tail(@)] /\ rx[Stdin] # << >>
    BY <1>13 DEF ReadStdin
  <2>2. Stdin \in Sock /\ SockAt(Stdin) = Stdin /\ Stdin \in SockFd /\ wk[w].fd = Stdin
    BY <1>0, <2>1, Sockets DEF SockAt, SockFd, LocalOK
  <2>3. l.pc \notin ReadPC \cup TearPC \cup {"epoll_add"} /\ wk[w].pc \in ReadPC
    BY <2>1 DEF At, ReadPC, TearPC, Idle
  <2> HIDE DEF l
  <2> QED
    BY <1>10, <2>1, <2>2, <2>3
<1> QED
  BY <1>1, <1>2, <1>3, <1>4, <1>6, <1>7, <1>8, <1>9, <1>11, <1>12, <1>13 DEF WorkerStep, Sending


-----------------------------------------------------------------------------
(* The beginning and the end of a connection                               *)

LEMMA AddGoto ==
    ASSUME TypeOK, AddInv, NEW w \in Worker, NEW l, Goto(w, l), l.pc # "epoll_add",
           fdt' = fdt, interest' \subseteq interest
    PROVE  AddInv'
<1>1. wk'[w] = l /\ \A v \in Worker \ {w} : wk'[v] = wk[v]
  BY DEF Goto, TypeOK
<1> QED
  BY <1>1 DEF AddInv

LEMMA ServedGoto ==
    ASSUME TypeOK, ServedInv, NEW w \in Worker, NEW l, Goto(w, l), wk[w].pc # "epoll_add",
           UNCHANGED <<fdt, interest>>, rx'[Listener] = rx[Listener],
           \A c \in Conn : peer'[c] = "open" => peer[c] = "open"
    PROVE  ServedInv'
<1>1. wk'[w] = l /\ \A v \in Worker \ {w} : wk'[v] = wk[v]
  BY DEF Goto, TypeOK
<1>2. \A f : Adding(f) => Adding(f)'
  BY <1>1 DEF Adding
<1> QED
  BY <1>2 DEF ServedInv

LEMMA TearGoto ==
    ASSUME TypeOK, TearInv, LocalInv, NEW w \in Worker, NEW l, Goto(w, l), l.pc \notin TearPC,
           UNCHANGED <<fdt, row>>, \A c \in Conn : rx'[c] = rx[c]
    PROVE  TearInv'
<1>1. wk'[w] = l /\ \A v \in Worker \ {w} : wk'[v] = wk[v]
  BY DEF Goto, TypeOK
<1>2. \A v \in Worker : wk[v].pc \in TearPC => wk[v].on \in Conn
  BY DEF LocalInv, LocalOK
<1> QED
  BY <1>1, <1>2 DEF TearInv

\* Steps of the pool that neither begin nor end a connection.
LEMMA EndsGoto ==
    ASSUME TypeOK, LocalInv, AddInv, TearInv, ServedInv, NEW w \in Worker, NEW l, Goto(w, l),
           wk[w].pc # "epoll_add", l.pc \notin TearPC \cup {"epoll_add"},
           UNCHANGED <<fdt, interest, row>>, \A s \in Conn \cup {Listener} : rx'[s] = rx[s],
           \A c \in Conn : peer'[c] = "open" => peer[c] = "open"
    PROVE  AddInv' /\ TearInv' /\ ServedInv'
<1>1. AddInv'
  BY AddGoto
<1>2. TearInv'
  BY TearGoto
<1>3. ServedInv'
  BY ServedGoto
<1> QED
  BY <1>1, <1>2, <1>3

\* Who ends a connection is the only one, and its client is gone.
LEMMA Ends ==
    ASSUME TypeOK, LocalInv, TableInv, ItemsInv, BackedInv, TearInv, NEW w \in Worker, wk[w].pc \in TearPC
    PROVE  /\ wk[w].fd \in Fd /\ wk[w].on \in Conn /\ fdt[wk[w].fd] = wk[w].on
           /\ peer[wk[w].on] \notin {"new", "open"}
           /\ ~Adding(wk[w].fd)
           /\ \A v \in Worker : v # w /\ wk[v].pc \in TearPC => wk[v].fd # wk[w].fd
<1>1. /\ wk[w].fd \in Fd /\ wk[w].on \in Conn /\ fdt[wk[w].fd] = wk[w].on /\ rx[wk[w].on] = <<"EOF">>
  BY DEF LocalInv, LocalOK, TearInv
<1>2. peer[wk[w].on] \notin {"new", "open"}
  <2>1. 1 \in DOMAIN rx[wk[w].on] /\ rx[wk[w].on][1] = "EOF"
    BY <1>1
  <2> QED
    BY <1>1, <2>1 DEF ItemsInv
<1>3. wk[w].fd \in SockFd /\ SockAt(wk[w].fd) = wk[w].on /\ Uses(wk[w], wk[w].fd)
  BY <1>1 DEF SockFd, SockAt, Uses
<1>4. ~Adding(wk[w].fd) /\ Load(wk[w].fd) <= Len(rx[SockAt(wk[w].fd)])
  BY <1>3, ReadsBacked
<1>5. Load(wk[w].fd) <= 1
  <2>1. Len(rx[SockAt(wk[w].fd)]) = 1
    BY <1>1, <1>3
  <2> QED
    BY <1>4, <2>1
<1>6. ASSUME NEW v \in Worker, v # w, wk[v].pc \in TearPC, wk[v].fd = wk[w].fd PROVE FALSE
  <2>1. Uses(wk[v], wk[w].fd)
    BY <1>6 DEF Uses
  <2>2. Load(wk[w].fd) >= 2 /\ Load(wk[w].fd) \in Nat
    BY <1>3, <1>6, <2>1, InUse, Loads
  <2> QED
    BY <1>5, <2>2
<1> QED
  BY <1>1, <1>2, <1>4, <1>6

LEMMA EndsOutside ==
    ASSUME TypeOK, LocalInv, ItemsInv, AddInv, TearInv, ServedInv,
           Environment \/ EpollWait \/ EpollDispatch \/ DeSrvMsgQueue \/ MsgDispatch
    PROVE  AddInv' /\ TearInv' /\ ServedInv'
<1> USE NamesAssumption DEF netVars, epollVars
<1>1. ASSUME UNCHANGED <<wk, fdt, interest, row>>,
             \A c \in Conn : peer[c] \notin {"new", "open"} => rx'[c] = rx[c],
             \A c \in Conn : peer'[c] = "open" =>
                 peer[c] = "open" \/ \E i \in DOMAIN rx'[Listener] : rx'[Listener][i] = c,
             \A i \in DOMAIN rx[Listener] : i \in DOMAIN rx'[Listener] /\ rx'[Listener][i] = rx[Listener][i]
      PROVE  AddInv' /\ TearInv' /\ ServedInv'
  <2>1. AddInv'
    BY <1>1 DEF AddInv
  <2>2. TearInv'
    <3>1. ASSUME NEW w \in Worker, wk[w].pc \in TearPC PROVE rx'[wk[w].on] = rx[wk[w].on]
      <4>1. wk[w].on \in Conn /\ rx[wk[w].on] = <<"EOF">>
        BY <3>1 DEF LocalInv, LocalOK, TearInv
      <4>2. 1 \in DOMAIN rx[wk[w].on] /\ rx[wk[w].on][1] = "EOF"
        BY <4>1
      <4>3. peer[wk[w].on] \notin {"new", "open"}
        BY <4>1, <4>2 DEF ItemsInv
      <4> QED
        BY <1>1, <4>1, <4>3
    <3> QED
      BY <1>1, <3>1 DEF TearInv
  <2>3. ServedInv'
    BY <1>1 DEF ServedInv, Adding
  <2> QED
    BY <2>1, <2>2, <2>3
<1>2. ASSUME NEW c \in Conn, Connect(c) PROVE AddInv' /\ TearInv' /\ ServedInv'
  <2>1. rx'[Listener] = Append(rx[Listener], c) /\ \A t \in Sock : t # Listener => rx'[t] = rx[t]
    BY <1>2, Arrives, Sockets DEF Connect
  <2>2. rx[Listener] \in Seq(Conn)
    BY Sockets DEF TypeOK
  <2>3. /\ \A p \in DOMAIN rx[Listener] : p \in DOMAIN rx'[Listener] /\ rx'[Listener][p] = rx[Listener][p]
        /\ Len(rx[Listener]) + 1 \in DOMAIN rx'[Listener] /\ rx'[Listener][Len(rx[Listener]) + 1] = c
    BY <2>1, <2>2, Appended
  <2>4. UNCHANGED <<wk, fdt, interest, row>> /\ \A d \in Conn : d # c => peer'[d] = peer[d]
    BY <1>2 DEF Connect, serverVars, TypeOK
  <2>5. \A d \in Conn : rx'[d] = rx[d]
    BY <2>1, Sockets
  <2> QED
    BY <1>1, <2>3, <2>4, <2>5
<1>3. ASSUME NEW s \in Sock, s # Listener, NEW item \in Items(s), Arrive(s, item),
             s \in Conn => peer[s] = "open", UNCHANGED serverVars,
             \A c \in Conn : peer'[c] = "open" => peer[c] = "open"
      PROVE  AddInv' /\ TearInv' /\ ServedInv'
  <2>1. \A t \in Sock : t # s => rx'[t] = rx[t]
    BY <1>3, Arrives
  <2>2. UNCHANGED <<wk, fdt, interest, row>>
    BY <1>3 DEF serverVars
  <2>3. rx'[Listener] = rx[Listener] /\ \A c \in Conn : peer[c] \notin {"new", "open"} => rx'[c] = rx[c]
    BY <1>3, <2>1, Sockets
  <2> QED
    BY <1>1, <1>3, <2>2, <2>3
<1>4. ASSUME NEW c \in Conn, NEW how \in {"fin", "rst"}, ClientClose(c, how)
      PROVE  AddInv' /\ TearInv' /\ ServedInv'
  <2>1. c \in Sock /\ c # Listener /\ "EOF" \in Items(c)
    BY Sockets
  <2>2. /\ Arrive(c, "EOF") /\ UNCHANGED serverVars /\ peer[c] = "open"
        /\ \A d \in Conn : peer'[d] = "open" => peer[d] = "open"
    BY <1>4 DEF ClientClose, TypeOK
  <2> QED
    BY <1>3, <2>1, <2>2
<1>5. ASSUME NEW l \in Link, NEW item \in Link \cup Data, ClientSend(l, item)
      PROVE  AddInv' /\ TearInv' /\ ServedInv'
  <2>1. Wire(l) \in Sock /\ item \in Items(Wire(l)) /\ Wire(l) # Listener
        /\ (Wire(l) \in Conn => peer[Wire(l)] = "open")
    BY <1>5, Sockets DEF Wire, ClientSend, Link
  <2>2. Arrive(Wire(l), item) /\ UNCHANGED serverVars /\ peer' = peer
    BY <1>5 DEF ClientSend
  <2> QED
    BY <1>3, <2>1, <2>2
<1>6. ASSUME StdinInput PROVE AddInv' /\ TearInv' /\ ServedInv'
  <2>1. Lines[typed + 1] \in {"line", "EOF"}
    BY <1>6, BoundsAssumption DEF StdinInput, TypeOK
  <2>2. Stdin \in Sock /\ Lines[typed + 1] \in Items(Stdin) /\ Stdin # Listener /\ Stdin \notin Conn
    BY <2>1, Sockets
  <2>3. Arrive(Stdin, Lines[typed + 1]) /\ UNCHANGED serverVars /\ peer' = peer
    BY <1>6 DEF StdinInput
  <2> QED
    BY <1>3, <2>2, <2>3
<1>7. CASE EpollWait \/ EpollDispatch \/ DeSrvMsgQueue \/ MsgDispatch
  <2>1. UNCHANGED <<wk, fdt, interest, row, rx, peer>>
    BY <1>7 DEF EpollWait, EpollDispatch, DeSrvMsgQueue, MsgDispatch
  <2> QED
    BY <1>1, <2>1
<1> QED
  BY <1>2, <1>4, <1>5, <1>6, <1>7 DEF Environment


LEMMA EndsWorker ==
    ASSUME TypeOK, LocalInv, TableInv, ItemsInv, BackedInv, AddInv, TearInv, ServedInv, Regular',
           NEW w \in Worker, WorkerStep(w)
    PROVE  AddInv' /\ TearInv' /\ ServedInv'
<1> USE NamesAssumption DEF netVars, epollVars
<1>0. LocalOK(wk[w]) /\ wk[w] \in Local
  BY DEF LocalInv, TypeOK
<1>i. Idle.pc \notin TearPC \cup {"epoll_add"}
  BY DEF Idle, At, TearPC
<1>p. \A p : [wk[w] EXCEPT !.pc = p] = At(p, wk[w].fd, wk[w].msg, wk[w].on)
  BY Locals
<1>g. ASSUME NEW l, Goto(w, l) PROVE wk'[w] = l /\ \A v \in Worker \ {w} : wk'[v] = wk[v]
  BY <1>g DEF Goto, TypeOK
<1>a. ASSUME NEW v \in Worker, wk[v].pc \in TearPC \cup {"epoll_add"}
      PROVE  wk[v].fd \in Fd /\ wk[v].on \in Conn /\ fdt[wk[v].fd] = wk[v].on /\ wk[v].on # None
  BY <1>a, Sockets DEF LocalInv, LocalOK, AddInv, TearInv
<1>1. CASE TakeTask(w)
  <2> DEFINE t == Head(taskq)
             l == IF t.h \in {"display", "forward"} THEN At(t.h, None, t.arg, None)
                                                    ELSE At(t.h, t.arg, None, None)
  <2>1. taskq # << >> /\ Goto(w, l) /\ wk[w].pc # "epoll_add" /\ UNCHANGED <<fdt, interest, row, rx, peer>>
    BY <1>1 DEF TakeTask, Idle, At
  <2>2. t \in Work
    BY <2>1, Heads DEF TypeOK
  <2> HIDE DEF t
  <2>3. l.pc \notin TearPC \cup {"epoll_add"}
    BY <2>2 DEF Work, Task, At, TearPC
  <2> HIDE DEF l
  <2> QED
    BY <2>1, <2>3, EndsGoto
<1>2. CASE AcceptError(w) \/ RecvTcpError(w) \/ EnSrvMsgQueue(w) \/ Display(w) \/ BroadcastDone(w)
  <2>1. /\ Goto(w, Idle) /\ wk[w].pc # "epoll_add" /\ UNCHANGED <<fdt, interest, row, rx>>
        /\ peer' = peer \/ \E c \in Conn : peer' = [peer EXCEPT ![c] = "gone"]
    <3>1. CASE RecvTcpError(w)
      BY <3>1 DEF RecvTcpError, TypeOK
    <3>2. CASE AcceptError(w) \/ EnSrvMsgQueue(w) \/ Display(w) \/ BroadcastDone(w)
      BY <3>2 DEF AcceptError, EnSrvMsgQueue, Display, BroadcastDone
    <3> QED
      BY <1>2, <3>1, <3>2
  <2>2. \A c \in Conn : peer'[c] = "open" => peer[c] = "open"
    BY <2>1 DEF TypeOK
  <2> QED
    BY <1>i, <2>1, <2>2, EndsGoto
<1>3. CASE RecvUdp(w)
  <2> DEFINE item == Head(rx[UdpSock])
             l == IF item \in Data THEN At("en_queue", None, item, None)
                                   ELSE At("save", item, Owner[item], None)
  <2>1. /\ Goto(w, l) /\ wk[w].pc = "recv" /\ UNCHANGED <<fdt, interest, row, peer>>
        /\ rx' = [rx EXCEPT ![UdpSock] = Tail(@)] /\ rx[UdpSock] # << >>
    BY <1>3 DEF RecvUdp
  <2>2. \A s \in Conn \cup {Listener} : rx'[s] = rx[s]
    BY <2>1, Takes, Sockets
  <2>3. l.pc \notin TearPC \cup {"epoll_add"}
    BY DEF At, TearPC
  <2> HIDE DEF l
  <2> QED
    BY <2>1, <2>2, <2>3, EndsGoto
<1>4. CASE ReadStdin(w)
  <2> DEFINE l == IF Head(rx[Stdin]) = "EOF" THEN Idle
                  ELSE At("broadcast", None, {x \in Client : row[x] # None}, None)
  <2>1. /\ Goto(w, l) /\ wk[w].pc = "stdin" /\ UNCHANGED <<fdt, interest, row, peer>>
        /\ rx' = [rx EXCEPT ![Stdin] = Tail(@)] /\ rx[Stdin] # << >>
    BY <1>4 DEF ReadStdin
  <2>2. \A s \in Conn \cup {Listener} : rx'[s] = rx[s]
    BY <2>1, Takes, Sockets
  <2>3. l.pc \notin TearPC \cup {"epoll_add"}
    BY DEF At, TearPC, Idle
  <2> HIDE DEF l
  <2> QED
    BY <2>1, <2>2, <2>3, EndsGoto
<1>5. CASE ForwardLookup(w)
  <2> DEFINE to == row[Dest[wk[w].msg]]
             l == CASE to = None -> Idle
                    [] to \in Fd -> At("send", to, wk[w].msg, fdt[to])
                    [] to \in UdpAddr -> At("send", to, wk[w].msg, None)
  <2>1. /\ Goto(w, l) /\ wk[w].pc = "forward" /\ UNCHANGED <<rx, fdt, interest, row, peer>>
    BY <1>5 DEF ForwardLookup
  <2>2. to \in Fd \cup UdpAddr \cup {None}
    BY <1>0, <2>1 DEF LocalOK, TypeOK
  <2> HIDE DEF to
  <2>3. l.pc \notin TearPC \cup {"epoll_add"}
    BY <2>2 DEF At, TearPC, Idle
  <2> HIDE DEF l
  <2> QED
    BY <2>1, <2>3, EndsGoto
<1>6. CASE Sending(w)
  <2>1. PICK fd \in Fd \cup UdpAddr, pkt \in Packages : \E on : Deliver(fd, on, pkt)
    BY <1>6, Senders
  <2>2. \A c \in Conn : peer'[c] = "open" => peer[c] = "open"
    BY <2>1, Delivers
  <2>3. /\ UNCHANGED <<rx, fdt, interest, row>> /\ wk[w].pc \in {"ack", "send", "broadcast"}
    BY <1>6, Senders
  <2>4. PICK l : Goto(w, l) /\ (l.pc = "broadcast" \/ l = Idle)
    BY <1>6, Senders
  <2>5. l.pc \notin TearPC \cup {"epoll_add"}
    BY <1>i, <2>4 DEF TearPC
  <2> QED
    BY <2>2, <2>3, <2>4, <2>5, EndsGoto
<1>7. CASE Accept(w)
  <2> DEFINE c == Head(rx[Listener])
             q == rx[Listener]
  <2>1. PICK f \in FreeFds : /\ fdt' = [fdt EXCEPT ![f] = c] /\ Goto(w, At("epoll_add", f, None, c))
    BY <1>7 DEF Accept
  <2>2. /\ wk[w].pc = "accept" /\ q # << >> /\ rx' = [rx EXCEPT ![Listener] = Tail(@)]
        /\ UNCHANGED <<interest, row, peer>>
    BY <1>7 DEF Accept
  <2>3. q \in Seq(Conn)
    BY Sockets DEF TypeOK
  <2>4. /\ rx'[Listener] = Tail(q) /\ \A d \in Conn : rx'[d] = rx[d]
        /\ c \in Conn /\ c = q[1] /\ 1 \in DOMAIN q
    BY <2>2, Takes, Sockets
  <2>5. c \notin interest /\ \A g \in Fd : fdt[g] # c
    BY <2>4 DEF TableInv
  <2>6. f \in Fd /\ fdt[f] = None /\ fdt'[f] = c /\ \A g \in Fd : g # f => fdt'[g] = fdt[g]
    BY <2>1 DEF FreeFds, TypeOK
  <2>7. ASSUME NEW p \in DOMAIN q, p # 1 PROVE \E r \in DOMAIN rx'[Listener] : rx'[Listener][r] = q[p]
    <3> HIDE DEF q
    <3>1. p - 1 \in DOMAIN Tail(q) /\ Tail(q)[p - 1] = q[p]
      BY <2>2, <2>3, <2>7, Heads
    <3> QED
      BY <2>4, <3>1
  <2> HIDE DEF c, q
  <2>8. wk'[w] = At("epoll_add", f, None, c) /\ \A v \in Worker \ {w} : wk'[v] = wk[v]
    BY <1>g, <2>1
  <2>9. AddInv'
    <3>1. \A v \in Worker : wk[v].pc = "epoll_add" => wk[v].fd # f /\ fdt'[wk[v].fd] = wk[v].on /\ v # w
      BY <1>a, <2>2, <2>6
    <3>2. At("epoll_add", f, None, c).fd = f /\ At("epoll_add", f, None, c).on = c
      BY DEF At
    <3> QED
      BY <2>2, <2>5, <2>6, <2>8, <3>1, <3>2 DEF AddInv
  <2>10. TearInv'
    <3>1. \A v \in Worker : wk'[v].pc \in TearPC => wk'[v] = wk[v]
      BY <2>8 DEF At, TearPC
    <3>2. \A v \in Worker : wk[v].pc \in TearPC =>
            wk[v].fd # f /\ fdt'[wk[v].fd] = wk[v].on /\ rx'[wk[v].on] = rx[wk[v].on]
      BY <1>a, <2>4, <2>6
    <3>3. row' = row
      BY <2>2
    <3> SUFFICES ASSUME NEW v \in Worker, wk'[v].pc \in TearPC
                 PROVE  /\ fdt'[wk'[v].fd] = wk'[v].on /\ rx'[wk'[v].on] = <<"EOF">>
                        /\ wk'[v].pc = "close" => \A x \in Client : row'[x] # wk'[v].fd
      BY DEF TearInv
    <3>4. wk'[v] = wk[v] /\ wk[v].pc \in TearPC
      BY <3>1
    <3> QED
      BY <3>2, <3>3, <3>4 DEF TearInv
  <2>11. ServedInv'
    <3> SUFFICES ASSUME NEW d \in Conn, peer'[d] = "open",
                        \A i \in DOMAIN rx'[Listener] : rx'[Listener][i] # d
                 PROVE  \E g \in Fd : fdt'[g] = d /\ (d \in interest' \/ Adding(g)')
      BY DEF ServedInv
    <3>1. CASE d = c
      <4>1. Adding(f)'
        BY <2>8 DEF Adding, At
      <4> QED
        BY <2>6, <3>1, <4>1
    <3>2. CASE d # c
      <4>1. \A i \in DOMAIN rx[Listener] : rx[Listener][i] # d
        BY <2>4, <2>7, <3>2 DEF q
      <4>2. PICK g \in Fd : fdt[g] = d /\ (d \in interest \/ Adding(g))
        BY <2>2, <4>1 DEF ServedInv
      <4>3. fdt'[g] = d
        BY <2>6, <4>2, Sockets
      <4>4. Adding(g) => Adding(g)'
        BY <2>2, <2>8 DEF Adding
      <4> QED
        BY <2>2, <4>2, <4>3, <4>4
    <3> QED
      BY <3>1, <3>2
  <2> QED
    BY <2>9, <2>10, <2>11
<1>8. CASE EpollAdd(w)
  <2> DEFINE c == wk[w].on
  <2>1. /\ Goto(w, Idle) /\ wk[w].pc = "epoll_add" /\ UNCHANGED <<rx, fdt, row, peer>>
    BY <1>8 DEF EpollAdd
  <2>2. wk[w].fd \in Fd /\ fdt[wk[w].fd] = c /\ c \in Conn /\ c \notin interest /\ c # None
    BY <1>a, <2>1 DEF AddInv
  <2>3. interest' = interest \cup {c}
    BY <1>8, <2>2 DEF EpollAdd
  <2>4. wk'[w] = Idle /\ \A v \in Worker \ {w} : wk'[v] = wk[v]
    BY <1>g, <2>1
  <2>5. TearInv'
    BY <1>i, <2>1, TearGoto
  <2>6. AddInv'
    <3>1. ASSUME NEW v \in Worker, wk[v].pc = "epoll_add", v # w PROVE wk[v].on # c
      <4>1. wk[v].fd # wk[w].fd
        BY <2>1, <3>1 DEF AddInv
      <4> QED
        BY <1>a, <2>2, <3>1, <4>1 DEF TableInv
    <3> HIDE DEF c
    <3> QED
      BY <1>i, <2>1, <2>3, <2>4, <3>1 DEF AddInv
  <2>7. ServedInv'
    <3> SUFFICES ASSUME NEW d \in Conn, peer'[d] = "open",
                        \A i \in DOMAIN rx'[Listener] : rx'[Listener][i] # d
                 PROVE  \E g \in Fd : fdt'[g] = d /\ (d \in interest' \/ Adding(g)')
      BY DEF ServedInv
    <3>1. PICK g \in Fd : fdt[g] = d /\ (d \in interest \/ Adding(g))
      BY <2>1 DEF ServedInv
    <3>2. Adding(g) => Adding(g)' \/ d \in interest'
      BY <2>2, <2>3, <2>4, <3>1 DEF Adding
    <3> QED
      BY <2>1, <2>3, <3>1, <3>2
  <2> QED
    BY <2>5, <2>6, <2>7
<1>9. CASE RecvTcpEof(w)
  <2> DEFINE c == fdt[wk[w].fd]
             l == At("epoll_del", wk[w].fd, None, c)
  <2>1. /\ Goto(w, l) /\ wk[w].pc = "recv" /\ wk[w].fd \in Fd /\ UNCHANGED <<fdt, interest, row, peer, rx>>
        /\ c # None /\ rx[c] # << >> /\ Head(rx[c]) = "EOF"
    BY <1>9 DEF RecvTcpEof
  <2>2. c \in Conn /\ c \in Sock
    BY <2>1, Sockets DEF TypeOK
  <2>3. rx[c] = <<"EOF">>
    <3>1. rx[c] \in Seq(Items(c)) /\ 1 \in DOMAIN rx[c] /\ rx[c][1] = "EOF"
      <4>1. rx[c] \in Seq(Items(c))
        BY <2>2 DEF TypeOK
      <4> QED
        BY <2>1, <4>1, Heads
    <3>2. Len(rx[c]) = 1
      BY <2>2, <3>1 DEF ItemsInv
    <3> QED
      BY <3>1, <3>2
  <2>4. l.pc = "epoll_del" /\ l.fd = wk[w].fd /\ l.on = c
    BY DEF At
  <2> HIDE DEF c, l
  <2>5. AddInv'
    BY <2>1, <2>4, AddGoto
  <2>6. ServedInv'
    BY <2>1, ServedGoto
  <2>7. TearInv'
    <3>1. wk'[w] = l /\ \A v \in Worker \ {w} : wk'[v] = wk[v]
      BY <1>g, <2>1
    <3> QED
      BY <2>1, <2>3, <2>4, <3>1 DEF TearInv, c
  <2> QED
    BY <2>5, <2>6, <2>7
<1>10. CASE RecvTcpMsg(w)
  <2> DEFINE c == fdt[wk[w].fd]
             l == IF Head(rx[c]) = c THEN At("save", wk[w].fd, Owner[c], c)
                                     ELSE At("en_queue", None, Head(rx[c]), None)
  <2>1. /\ Goto(w, l) /\ wk[w].pc = "recv" /\ wk[w].fd \in Fd /\ c # None /\ rx[c] # << >>
        /\ Head(rx[c]) # "EOF" /\ rx' = [rx EXCEPT ![c] = Tail(@)] /\ UNCHANGED <<fdt, interest, row, peer>>
    BY <1>10 DEF RecvTcpMsg
  <2>2. c \in Conn /\ c \in Sock
    BY <2>1, Sockets DEF TypeOK
  <2>3. l.pc \notin TearPC \cup {"epoll_add"}
    BY DEF At, TearPC
  <2> HIDE DEF c, l
  <2>4. rx'[Listener] = rx[Listener] /\ \A d \in Conn : d # c => rx'[d] = rx[d]
    BY <2>1, <2>2, Takes, Sockets
  <2>5. AddInv'
    BY <2>1, <2>3, AddGoto
  <2>6. ServedInv'
    BY <2>1, <2>4, ServedGoto
  <2>7. TearInv'
    <3>1. wk'[w] = l /\ \A v \in Worker \ {w} : wk'[v] = wk[v]
      BY <1>g, <2>1
    <3>2. ASSUME NEW v \in Worker, wk[v].pc \in TearPC PROVE rx'[wk[v].on] = rx[wk[v].on]
      <4>1. rx[wk[v].on] = <<"EOF">> /\ wk[v].on \in Conn
        BY <1>a, <3>2 DEF TearInv
      <4>2. Head(<<"EOF">>) = "EOF"
        OBVIOUS
      <4> QED
        BY <2>1, <2>4, <4>1, <4>2
    <3> QED
      BY <2>1, <2>3, <3>1, <3>2 DEF TearInv
  <2> QED
    BY <2>5, <2>6, <2>7
<1>11. CASE AddTcpCli(w) \/ AddUdpCli(w)
  <2> DEFINE l == At("ack", wk[w].fd, wk[w].msg, wk[w].on)
  <2>1. /\ Goto(w, l) /\ wk[w].pc = "save" /\ UNCHANGED <<fdt, interest, peer, rx>>
    BY <1>11, <1>p DEF AddTcpCli, AddUdpCli
  <2>2. l.pc \notin TearPC \cup {"epoll_add"}
    BY DEF At, TearPC
  <2> HIDE DEF l
  <2>3. AddInv'
    BY <2>1, <2>2, AddGoto
  <2>4. ServedInv'
    BY <2>1, ServedGoto
  <2>5. ASSUME NEW v \in Worker, wk[v].pc = "close", NEW x \in Client, row[x] # wk[v].fd
        PROVE  row'[x] # wk[v].fd
    <3>1. CASE AddTcpCli(w)
      <4>1. row' = [row EXCEPT ![wk[w].msg] = wk[w].fd] /\ wk[w].fd # wk[v].fd
        BY <2>5, <3>1 DEF AddTcpCli, Regular
      <4> QED
        BY <2>5, <4>1 DEF TypeOK
    <3>2. CASE AddUdpCli(w)
      <4>1. wk[v].fd \in Fd /\ wk[w].fd \in UdpAddr
        BY <1>a, <2>5, <3>2 DEF AddUdpCli, TearPC
      <4> QED
        BY <2>5, <3>2, <4>1 DEF AddUdpCli, TypeOK
    <3> QED
      BY <1>11, <3>1, <3>2
  <2>6. TearInv'
    <3>1. wk'[w] = l /\ \A v \in Worker \ {w} : wk'[v] = wk[v]
      BY <1>g, <2>1
    <3> QED
      BY <2>1, <2>2, <2>5, <3>1 DEF TearInv
  <2> QED
    BY <2>3, <2>4, <2>6
<1>12. CASE EpollDel(w)
  <2> DEFINE l == At("delete", wk[w].fd, wk[w].msg, wk[w].on)
  <2>1. /\ Goto(w, l) /\ wk[w].pc = "epoll_del" /\ UNCHANGED <<fdt, row, peer, rx>>
        /\ interest' = interest \ {fdt[wk[w].fd]}
    BY <1>12, <1>p DEF EpollDel
  <2>2. wk[w].pc \in TearPC
    BY <2>1 DEF TearPC
  <2>3. /\ wk[w].fd \in Fd /\ wk[w].on \in Conn /\ fdt[wk[w].fd] = wk[w].on
        /\ peer[wk[w].on] # "open"
    BY <2>2, Ends
  <2>4. l.pc = "delete" /\ l.fd = wk[w].fd /\ l.on = wk[w].on
    BY DEF At
  <2> HIDE DEF l
  <2>5. wk'[w] = l /\ \A v \in Worker \ {w} : wk'[v] = wk[v]
    BY <1>g, <2>1
  <2>6. AddInv'
    BY <2>1, <2>4, AddGoto
  <2>7. TearInv'
    BY <2>1, <2>2, <2>4, <2>5 DEF TearInv
  <2>8. ServedInv'
    <3>1. \A f : Adding(f) => Adding(f)'
      BY <2>1, <2>5 DEF Adding
    <3> QED
      BY <2>1, <2>3, <3>1 DEF ServedInv
  <2> QED
    BY <2>6, <2>7, <2>8
<1>13. CASE DelTcpCliByFd(w)
  <2> DEFINE l == At("close", wk[w].fd, wk[w].msg, wk[w].on)
  <2>1. /\ Goto(w, l) /\ wk[w].pc = "delete" /\ UNCHANGED <<fdt, interest, peer, rx>>
        /\ row' = [x \in Client |-> IF row[x] = wk[w].fd THEN None ELSE row[x]]
    BY <1>13, <1>p DEF DelTcpCliByFd
  <2>2. wk[w].pc \in TearPC
    BY <2>1 DEF TearPC
  <2>3. l.pc = "close" /\ l.fd = wk[w].fd /\ l.on = wk[w].on
    BY DEF At
  <2> HIDE DEF l
  <2>4. wk'[w] = l /\ \A v \in Worker \ {w} : wk'[v] = wk[v]
    BY <1>g, <2>1
  <2>5. AddInv'
    BY <2>1, <2>3, AddGoto
  <2>6. ServedInv'
    BY <2>1, ServedGoto
  <2>7. ASSUME NEW v \in Worker, wk'[v].pc = "close", NEW x \in Client PROVE row'[x] # wk'[v].fd
    <3>1. wk'[v].fd = wk[v].fd /\ wk[v].fd \in Fd /\ None \notin Fd
      BY <1>a, <2>2, <2>3, <2>4, <2>7 DEF TearPC
    <3>2. v # w => row[x] # wk[v].fd
      BY <2>4, <2>7 DEF TearInv, TearPC
    <3> QED
      BY <2>1, <3>1, <3>2
  <2>8. TearInv'
    BY <2>1, <2>2, <2>3, <2>4, <2>7 DEF TearInv
  <2> QED
    BY <2>5, <2>6, <2>8
<1>14. CASE CloseFd(w)
  <2> DEFINE f0 == wk[w].fd
  <2>1. /\ Goto(w, Idle) /\ wk[w].pc = "close" /\ UNCHANGED <<row, peer, rx>>
        /\ interest' = interest \ {fdt[f0]} /\ fdt' = [fdt EXCEPT ![f0] = None]
    BY <1>14 DEF CloseFd
  <2>2. wk[w].pc \in TearPC
    BY <2>1 DEF TearPC
  <2>3. /\ f0 \in Fd /\ wk[w].on \in Conn /\ fdt[f0] = wk[w].on
        /\ peer[wk[w].on] # "open" /\ ~Adding(f0)
        /\ \A v \in Worker : v # w /\ wk[v].pc \in TearPC => wk[v].fd # f0
    BY <2>2, Ends
  <2> HIDE DEF f0
  <2>4. wk'[w] = Idle /\ \A v \in Worker \ {w} : wk'[v] = wk[v]
    BY <1>g, <2>1
  <2>5. \A g \in Fd : g # f0 => fdt'[g] = fdt[g]
    BY <2>1 DEF TypeOK
  <2>6. \A v \in Worker : wk[v].pc = "epoll_add" => wk[v].fd # f0
    BY <2>3 DEF Adding
  <2>7. AddInv'
    <3>1. \A v \in Worker : wk[v].pc = "epoll_add" => fdt'[wk[v].fd] = wk[v].on
      BY <1>a, <2>5, <2>6
    <3> QED
      BY <1>i, <2>1, <2>4, <3>1 DEF AddInv
  <2>8. TearInv'
    <3>1. \A v \in Worker : wk'[v].pc \in TearPC => v # w /\ wk'[v] = wk[v]
      BY <1>i, <2>4
    <3>2. \A v \in Worker : v # w /\ wk[v].pc \in TearPC => fdt'[wk[v].fd] = wk[v].on
      BY <1>a, <2>3, <2>5
    <3> QED
      BY <2>1, <3>1, <3>2 DEF TearInv
  <2>9. ServedInv'
    <3>1. \A f : Adding(f) => Adding(f)'
      BY <2>1, <2>4 DEF Adding
    <3> QED
      BY <2>1, <2>3, <2>5, <3>1 DEF ServedInv
  <2> QED
    BY <2>7, <2>8, <2>9
<1> QED
  BY <1>1, <1>2, <1>3, <1>4, <1>5, <1>6, <1>7, <1>8, <1>9, <1>10, <1>11, <1>12, <1>13, <1>14
     DEF WorkerStep, Sending


-----------------------------------------------------------------------------
(* The registry, and what is delivered                                     *)

\* Steps of the pool that neither write to the registry nor deliver anything.
LEMMA RowsGoto ==
    ASSUME TypeOK, RowInv, AckInv, RouteInv, NEW w \in Worker, NEW l, Goto(w, l),
           l.pc \notin {"ack", "send"}, UNCHANGED <<row, inbox, sent>>,
           \A f \in Fd : fdt[f] # None /\ (\E x \in Client : row[x] = f) => fdt'[f] = fdt[f],
           \A c \in Conn : peer'[c] = "open" => peer[c] = "open"
    PROVE  RowInv' /\ AckInv' /\ RouteInv'
<1>1. wk'[w] = l /\ \A v \in Worker \ {w} : wk'[v] = wk[v]
  BY DEF Goto, TypeOK
<1>2. ASSUME NEW x \in Client, row[x] \in Fd
      PROVE  fdt[row[x]] \in Conn /\ fdt'[row[x]] = fdt[row[x]]
  BY <1>2, Sockets DEF RowInv
<1>3. RowInv'
  BY <1>2 DEF RowInv
<1>4. RouteInv'
  BY <1>1 DEF RouteInv
<1>5. AckInv'
  <2> SUFFICES ASSUME NEW k \in Link, Acknowledged(k)' PROVE k \in sent' /\ (OnlyLink(k)' => PointsAt(Owner[k], k)')
    BY DEF AckInv
  <2>1. Acknowledged(k)
    BY <1>1 DEF Acknowledged
  <2>2. OnlyLink(k)' => OnlyLink(k)
    BY DEF OnlyLink
  <2>3. Owner[k] \in Client
    BY LinksAssumption
  <2>4. PointsAt(Owner[k], k) => PointsAt(Owner[k], k)'
    BY <1>2, <2>3 DEF PointsAt
  <2> QED
    BY <2>1, <2>2, <2>4 DEF AckInv
<1> QED
  BY <1>3, <1>4, <1>5

LEMMA RowsOutside ==
    ASSUME TypeOK, TableInv, RowInv, AckInv, RouteInv,
           Environment \/ EpollWait \/ EpollDispatch \/ DeSrvMsgQueue \/ MsgDispatch
    PROVE  RowInv' /\ AckInv' /\ RouteInv'
<1> USE DEF netVars, epollVars
<1>1. /\ UNCHANGED <<wk, fdt, row, inbox>> /\ sent \subseteq sent'
      /\ \A c \in Conn : peer'[c] = "open" => peer[c] \in {"new", "open"}
  <2>1. ASSUME NEW c \in Conn, Connect(c) \/ \E how \in {"fin", "rst"} : ClientClose(c, how)
        PROVE  /\ UNCHANGED <<wk, fdt, row, inbox>> /\ sent \subseteq sent'
               /\ \A d \in Conn : peer'[d] = "open" => peer[d] \in {"new", "open"}
    BY <2>1 DEF Connect, ClientClose, serverVars, TypeOK
  <2>2. ASSUME NEW l, NEW item, ClientSend(l, item)
        PROVE  UNCHANGED <<wk, fdt, row, inbox, peer>> /\ sent \subseteq sent'
    BY <2>2 DEF ClientSend, serverVars
  <2>3. ASSUME StdinInput PROVE UNCHANGED <<wk, fdt, row, inbox, peer, sent>>
    BY <2>3 DEF StdinInput, serverVars
  <2>4. CASE EpollWait \/ EpollDispatch \/ DeSrvMsgQueue \/ MsgDispatch
    BY <2>4 DEF EpollWait, EpollDispatch, DeSrvMsgQueue, MsgDispatch
  <2> QED
    BY <2>1, <2>2, <2>3, <2>4 DEF Environment
<1>2. RowInv' /\ RouteInv'
  BY <1>1 DEF RowInv, RouteInv
<1>3. AckInv'
  <2> SUFFICES ASSUME NEW k \in Link, Acknowledged(k)' PROVE k \in sent' /\ (OnlyLink(k)' => PointsAt(Owner[k], k)')
    BY DEF AckInv
  <2>1. Acknowledged(k) /\ k \in sent
    BY <1>1 DEF Acknowledged, AckInv
  <2>2. OnlyLink(k)' => OnlyLink(k)
    <3>1. k \in Conn => peer[k] # "new"
      BY <2>1 DEF TableInv
    <3> QED
      BY <1>1, <3>1 DEF OnlyLink
  <2>3. PointsAt(Owner[k], k)' <=> PointsAt(Owner[k], k)
    BY <1>1 DEF PointsAt
  <2> QED
    BY <1>1, <2>1, <2>2, <2>3 DEF AckInv
<1> QED
  BY <1>2, <1>3

\* What is put on a link is addressed to its client, and an acknowledgement is
\* put on the link whose registration was handled.
LEMMA Routes ==
    ASSUME TypeOK, LocalInv, RowInv, RouteInv, NEW w \in Worker, NEW fd \in Fd \cup UdpAddr,
           NEW pkt \in Packages, NEW on, Sends(wk[w], fd, on, pkt), fd \in Fd => fdt[fd] = on
    PROVE  /\ To(fd) \in Link => pkt.to = Owner[To(fd)]
           /\ pkt.body = "ack" => wk[w].pc = "ack" /\ To(fd) = LinkOf(wk[w])
<1> USE NamesAssumption
<1>0. LocalOK(wk[w])
  BY DEF LocalInv
<1>1. CASE wk[w].pc = "ack"
  <2>1. fd = wk[w].fd /\ on = wk[w].on /\ pkt = Package(wk[w].msg, "ack")
    BY <1>1 DEF Sends
  <2>2. To(fd) = LinkOf(wk[w]) /\ wk[w].msg = Owner[LinkOf(wk[w])]
    BY <1>0, <1>1, <2>1 DEF To, LinkOf, LocalOK
  <2> QED
    BY <1>1, <2>1, <2>2 DEF Package
<1>2. CASE wk[w].pc = "send"
  <2>1. fd = wk[w].fd /\ on = wk[w].on /\ pkt = Package(Dest[wk[w].msg], wk[w].msg)
    BY <1>2 DEF Sends
  <2>2. wk[w].msg \in Data /\ wk[w].msg # "ack"
    BY <1>0, <1>2 DEF LocalOK
  <2>3. Owner[To(fd)] = Dest[wk[w].msg]
    BY <1>2, <2>1 DEF RouteInv, To
  <2> QED
    BY <2>1, <2>2, <2>3 DEF Package
<1>3. CASE wk[w].pc = "broadcast"
  <2>1. PICK x \in Client : fd = row[x] /\ pkt = Package(x, "line")
    BY <1>3 DEF Sends
  <2>2. Owner[To(fd)] = x
    BY <2>1 DEF RowInv, To
  <2> QED
    BY <2>1, <2>2 DEF Package
<1> QED
  BY <1>1, <1>2, <1>3 DEF Sends

LEMMA RowsWorker ==
    ASSUME TypeOK, LocalInv, TableInv, ItemsInv, BackedInv, TearInv, RowInv, AckInv, RouteInv, Regular',
           NEW w \in Worker, WorkerStep(w)
    PROVE  RowInv' /\ AckInv' /\ RouteInv'
<1> USE NamesAssumption DEF netVars, epollVars
<1>0. LocalOK(wk[w]) /\ wk[w] \in Local
  BY DEF LocalInv, TypeOK
<1>i. Idle.pc \notin {"ack", "send"}
  BY DEF Idle, At
<1>p. \A p : [wk[w] EXCEPT !.pc = p] = At(p, wk[w].fd, wk[w].msg, wk[w].on)
  BY Locals
<1>g. ASSUME NEW l, Goto(w, l) PROVE wk'[w] = l /\ \A v \in Worker \ {w} : wk'[v] = wk[v]
  BY <1>g DEF Goto, TypeOK
<1>1. CASE TakeTask(w)
  <2> DEFINE t == Head(taskq)
             l == IF t.h \in {"display", "forward"} THEN At(t.h, None, t.arg, None)
                                                    ELSE At(t.h, t.arg, None, None)
  <2>1. taskq # << >> /\ Goto(w, l) /\ UNCHANGED <<row, inbox, sent, fdt, peer>>
    BY <1>1 DEF TakeTask
  <2>2. t \in Work
    BY <2>1, Heads DEF TypeOK
  <2> HIDE DEF t
  <2>3. l.pc \notin {"ack", "send"}
    BY <2>2 DEF Work, Task, At
  <2> HIDE DEF l
  <2> QED
    BY <2>1, <2>3, RowsGoto
<1>2. CASE \/ AcceptError(w) \/ EpollAdd(w) \/ RecvTcpError(w) \/ EnSrvMsgQueue(w) \/ Display(w) \/ BroadcastDone(w)
  <2>1. /\ Goto(w, Idle) /\ UNCHANGED <<row, inbox, sent, fdt>>
        /\ peer' = peer \/ \E c \in Conn : peer' = [peer EXCEPT ![c] = "gone"]
    <3>1. CASE RecvTcpError(w)
      BY <3>1 DEF RecvTcpError, TypeOK
    <3>2. CASE AcceptError(w) \/ EpollAdd(w) \/ EnSrvMsgQueue(w) \/ Display(w) \/ BroadcastDone(w)
      BY <3>2 DEF AcceptError, EpollAdd, EnSrvMsgQueue, Display, BroadcastDone
    <3> QED
      BY <1>2, <3>1, <3>2
  <2>2. \A c \in Conn : peer'[c] = "open" => peer[c] = "open"
    BY <2>1 DEF TypeOK
  <2> QED
    BY <1>i, <2>1, <2>2, RowsGoto
<1>3. CASE RecvTcpEof(w) \/ RecvTcpMsg(w) \/ RecvUdp(w) \/ ReadStdin(w) \/ EpollDel(w)
  <2>1. PICK p \in {"epoll_del", "save", "en_queue", "idle", "broadcast", "delete"} : \E fd, msg, on :
          Goto(w, At(p, fd, msg, on)) /\ UNCHANGED <<row, inbox, sent, fdt, peer>>
    BY <1>3, <1>p DEF RecvTcpEof, RecvTcpMsg, RecvUdp, ReadStdin, EpollDel, Idle
  <2>2. PICK fd, msg, on : Goto(w, At(p, fd, msg, on)) /\ UNCHANGED <<row, inbox, sent, fdt, peer>>
    BY <2>1
  <2>3. At(p, fd, msg, on).pc \notin {"ack", "send"}
    BY <2>1 DEF At
  <2> QED
    BY <2>2, <2>3, RowsGoto
<1>4. CASE Accept(w)
  <2>1. PICK f \in FreeFds : /\ fdt' = [fdt EXCEPT ![f] = Head(rx[Listener])]
                             /\ Goto(w, At("epoll_add", f, None, Head(rx[Listener])))
    BY <1>4 DEF Accept
  <2>2. UNCHANGED <<row, inbox, sent, peer>>
    BY <1>4 DEF Accept
  <2>3. \A g \in Fd : fdt[g] # None => fdt'[g] = fdt[g]
    BY <2>1 DEF FreeFds, TypeOK
  <2>4. At("epoll_add", f, None, Head(rx[Listener])).pc \notin {"ack", "send"}
    BY DEF At
  <2> QED
    BY <2>1, <2>2, <2>3, <2>4, RowsGoto
<1>5. CASE CloseFd(w)
  <2>1. /\ Goto(w, Idle) /\ wk[w].pc = "close" /\ UNCHANGED <<row, peer, inbox, sent>>
        /\ fdt' = [fdt EXCEPT ![wk[w].fd] = None]
    BY <1>5 DEF CloseFd
  <2>2. \A x \in Client : row[x] # wk[w].fd
    BY <2>1 DEF TearInv, TearPC
  <2>3. \A f \in Fd : (\E x \in Client : row[x] = f) => fdt'[f] = fdt[f]
    BY <2>1, <2>2 DEF TypeOK
  <2> QED
    BY <1>i, <2>1, <2>3, RowsGoto
<1>6. CASE ForwardLookup(w)
  <2> DEFINE x == Dest[wk[w].msg]
             to == row[x]
             l == CASE to = None -> Idle
                    [] to \in Fd -> At("send", to, wk[w].msg, fdt[to])
                    [] to \in UdpAddr -> At("send", to, wk[w].msg, None)
  <2>1. /\ Goto(w, l) /\ wk[w].pc = "forward" /\ UNCHANGED <<inbox, sent, fdt, row, peer>>
    BY <1>6 DEF ForwardLookup
  <2>2. x \in Client /\ to \in Fd \cup UdpAddr \cup {None}
    BY <1>0, <2>1 DEF LocalOK, TypeOK
  <2>3. CASE to = None
    <3>1. to \notin Fd /\ to \notin UdpAddr
      BY <2>3 DEF Link
    <3>2. l = Idle
      BY <2>3, <3>1
    <3>3. Goto(w, Idle)
      BY <2>1, <3>2
    <3> QED
      BY <1>i, <2>1, <3>3, RowsGoto
  <2>4. CASE to # None
    <3> DEFINE on == IF to \in Fd THEN fdt[to] ELSE None
    <3>1. l = At("send", to, wk[w].msg, on)
      BY <2>2, <2>4
    <3>2. wk'[w] = At("send", to, wk[w].msg, on) /\ \A v \in Worker \ {w} : wk'[v] = wk[v]
      BY <1>g, <2>1, <3>1
    <3>3. IF to \in Fd THEN on \in Conn /\ Owner[on] = x ELSE Owner[to] = x
      BY <2>2, <2>4 DEF RowInv
    <3> HIDE DEF to, on, l
    <3>4. wk'[w].pc = "send" /\ wk'[w].fd = to /\ wk'[w].msg = wk[w].msg /\ wk'[w].on = on
      BY <3>2 DEF At
    <3>5. RouteInv'
      BY <2>1, <3>2, <3>3, <3>4 DEF RouteInv
    <3>6. RowInv'
      BY <2>1 DEF RowInv
    <3>7. AckInv'
      <4>1. \A k \in Link : Acknowledged(k)' => Acknowledged(k)
        BY <2>1, <3>2, <3>4 DEF Acknowledged
      <4>2. \A k \in Link : (OnlyLink(k)' <=> OnlyLink(k)) /\ (PointsAt(Owner[k], k)' <=> PointsAt(Owner[k], k))
        BY <2>1 DEF OnlyLink, PointsAt
      <4> QED
        BY <2>1, <4>1, <4>2 DEF AckInv
    <3> QED
      BY <3>5, <3>6, <3>7
  <2> QED
    BY <2>3, <2>4
<1>7. CASE Sending(w)
  <2>1. PICK fd \in Fd \cup UdpAddr, pkt \in Packages : \E on : Sends(wk[w], fd, on, pkt) /\ Deliver(fd, on, pkt)
    BY <1>7, Senders
  <2>2. PICK on : Sends(wk[w], fd, on, pkt) /\ Deliver(fd, on, pkt)
    BY <2>1
  <2>3. /\ inbox' = inbox \/ (To(fd) \in Link /\ inbox' = [inbox EXCEPT ![To(fd)] = @ \cup {pkt}])
        /\ \A c \in Conn : peer'[c] = "open" => peer[c] = "open"
        /\ fd \in Fd => fdt[fd] = on
    BY <2>2, Delivers
  <2>4. /\ To(fd) \in Link => pkt.to = Owner[To(fd)]
        /\ pkt.body = "ack" => wk[w].pc = "ack" /\ To(fd) = LinkOf(wk[w])
    BY <2>2, <2>3, Routes
  <2>5. UNCHANGED <<sent, fdt, row>>
    BY <1>7, Senders
  <2>6. PICK l : Goto(w, l) /\ (l.pc = "broadcast" \/ l = Idle)
    BY <1>7, Senders
  <2>7. l.pc \notin {"ack", "send"}
    BY <1>i, <2>6
  <2>8. wk'[w] = l /\ \A v \in Worker \ {w} : wk'[v] = wk[v]
    BY <1>g, <2>6
  <2>9. \A k \in Link : \A q \in inbox'[k] : q \in inbox[k] \/ (k = To(fd) /\ q = pkt /\ To(fd) \in Link)
    BY <2>3 DEF TypeOK
  <2>10. RowInv'
    BY <2>5 DEF RowInv
  <2>11. RouteInv'
    BY <2>4, <2>7, <2>8, <2>9 DEF RouteInv
  <2>12. AckInv'
    <3> SUFFICES ASSUME NEW k \in Link, Acknowledged(k)' PROVE k \in sent' /\ (OnlyLink(k)' => PointsAt(Owner[k], k)')
      BY DEF AckInv
    <3>1. Acknowledged(k)
      <4>1. CASE Package(Owner[k], "ack") \in inbox'[k]
        <5>1. Package(Owner[k], "ack").body = "ack"
          BY DEF Package
        <5> QED
          BY <2>4, <2>9, <4>1, <5>1 DEF Acknowledged
      <4>2. CASE \E v \in Worker : wk'[v].pc = "ack" /\ LinkOf(wk'[v]) = k
        BY <2>7, <2>8, <4>2 DEF Acknowledged
      <4> QED
        BY <4>1, <4>2 DEF Acknowledged, LinkOf
    <3>2. OnlyLink(k)' => OnlyLink(k)
      BY <2>3, <2>5 DEF OnlyLink
    <3>3. PointsAt(Owner[k], k)' <=> PointsAt(Owner[k], k)
      BY <2>5 DEF PointsAt
    <3> QED
      BY <2>5, <3>1, <3>2, <3>3 DEF AckInv
  <2> QED
    BY <2>10, <2>11, <2>12
<1>8. CASE AddTcpCli(w) \/ AddUdpCli(w)
  <2> DEFINE fd == wk[w].fd
             k0 == LinkOf(wk[w])
             x0 == Owner[k0]
             l == At("ack", fd, wk[w].msg, wk[w].on)
  <2>1. /\ Goto(w, l) /\ wk[w].pc = "save" /\ UNCHANGED <<fdt, peer, inbox, sent>>
    BY <1>8, <1>p DEF AddTcpCli, AddUdpCli
  <2>2. /\ wk[w].msg = x0 /\ k0 \in sent /\ x0 \in Client /\ k0 \in Link
        /\ (fd \in Fd /\ wk[w].on \in Conn /\ k0 = wk[w].on) \/ (fd \in UdpAddr /\ k0 = fd)
    BY <1>0, <2>1, LinksAssumption DEF LocalOK, LinkOf, Link
  <2>3. l.pc = "ack" /\ LinkOf(l) = k0
    BY DEF At, LinkOf
  <2> HIDE DEF l, k0, x0
  <2>4. wk'[w] = l /\ \A v \in Worker \ {w} : wk'[v] = wk[v]
    BY <1>g, <2>1
  <2>5. RouteInv'
    BY <2>1, <2>3, <2>4 DEF RouteInv
  <2>6. \A k \in Link : Acknowledged(k)' => Acknowledged(k) \/ k = k0
    <3>1. \A k \in Link : Acknowledged(k)' =>
            Package(Owner[k], "ack") \in inbox[k] \/ \E v \in Worker : wk'[v].pc = "ack" /\ LinkOf(wk'[v]) = k
      BY <2>1 DEF Acknowledged, LinkOf
    <3> QED
      BY <2>3, <2>4, <3>1 DEF Acknowledged
  <2>7. \A k \in Link : OnlyLink(k)' <=> OnlyLink(k)
    BY <2>1 DEF OnlyLink
  <2>8. ASSUME NEW x \in Client, x # x0 PROVE row'[x] = row[x]
    BY <1>8, <2>2, <2>8 DEF AddTcpCli, AddUdpCli, TypeOK
  <2>9. CASE AddTcpCli(w)
    <3>1. fd \in Fd /\ fdt[fd] = wk[w].on /\ row'[x0] = fd
      BY <2>2, <2>9 DEF AddTcpCli, TypeOK, Regular
    <3>2. k0 \in Conn /\ fdt[fd] = k0
      BY <2>2, <3>1
    <3> HIDE DEF fd
    <3>3. RowInv'
      BY <2>1, <2>2, <2>8, <3>1, <3>2 DEF RowInv, x0
    <3>4. AckInv'
      <4> SUFFICES ASSUME NEW k \in Link, Acknowledged(k)'
                   PROVE  k \in sent' /\ (OnlyLink(k)' => PointsAt(Owner[k], k)')
        BY DEF AckInv
      <4>1. k \in sent
        BY <2>2, <2>6 DEF AckInv
      <4>2. ASSUME OnlyLink(k) PROVE PointsAt(Owner[k], k)'
        <5>1. CASE Owner[k] = x0
          <6>1. k = k0
            BY <2>2, <4>2, <5>1 DEF OnlyLink, x0
          <6> QED
            BY <2>1, <3>1, <3>2, <5>1, <6>1 DEF PointsAt
        <5>2. CASE Owner[k] # x0
          <6>1. Owner[k] \in Client /\ PointsAt(Owner[k], k)
            BY <2>6, <4>2, <5>2, LinksAssumption DEF AckInv, x0
          <6> QED
            BY <2>1, <2>8, <5>2, <6>1 DEF PointsAt
        <5> QED
          BY <5>1, <5>2
      <4> QED
        BY <2>1, <2>7, <4>1, <4>2
    <3> QED
      BY <2>5, <3>3, <3>4
  <2>10. CASE AddUdpCli(w)
    <3>1. fd \in UdpAddr /\ fd \notin Fd /\ k0 = fd /\ row'[x0] = IF row[x0] = None THEN fd ELSE row[x0]
      BY <2>2, <2>10 DEF AddUdpCli, TypeOK
    <3> HIDE DEF fd
    <3>2. RowInv'
      <4>1. ASSUME NEW x \in Client PROVE row'[x] = row[x] \/ (x = x0 /\ row'[x] = k0)
        BY <2>8, <3>1
      <4>2. k0 \in sent /\ k0 \in UdpAddr /\ k0 \notin Fd /\ Owner[k0] = x0
        BY <2>2, <3>1 DEF x0
      <4> QED
        BY <2>1, <4>1, <4>2 DEF RowInv
    <3>3. AckInv'
      <4> SUFFICES ASSUME NEW k \in Link, Acknowledged(k)'
                   PROVE  k \in sent' /\ (OnlyLink(k)' => PointsAt(Owner[k], k)')
        BY DEF AckInv
      <4>1. k \in sent
        BY <2>2, <2>6 DEF AckInv
      <4>2. ASSUME OnlyLink(k) PROVE PointsAt(Owner[k], k)'
        <5>0. Owner[k] \in Client /\ k \in Conn \cup UdpAddr
          BY LinksAssumption DEF Link
        <5>1. CASE k = k0
          <6>1. k \in UdpAddr /\ k \notin Conn /\ Owner[k] = x0
            BY <3>1, <5>1 DEF x0
          <6>2. row[x0] \in {None, k}
            <7>1. \A j \in sent \cap Link : Owner[j] = x0 => j = k
              BY <4>2, <6>1 DEF OnlyLink
            <7>2. row[x0] \in Fd \cup UdpAddr \cup {None}
              BY <2>2 DEF TypeOK
            <7> QED
              BY <2>2, <6>1, <7>1, <7>2 DEF RowInv, Link
          <6> QED
            BY <3>1, <5>1, <6>1, <6>2 DEF PointsAt
        <5>2. CASE k # k0
          <6>1. PointsAt(Owner[k], k)
            BY <2>6, <4>2, <5>2 DEF AckInv
          <6>2. row[Owner[k]] # None
            BY <5>0, <6>1, Sockets DEF PointsAt, Link
          <6>3. row'[Owner[k]] = row[Owner[k]]
            BY <2>8, <3>1, <5>0, <6>2
          <6> QED
            BY <2>1, <6>1, <6>3 DEF PointsAt
        <5> QED
          BY <5>1, <5>2
      <4> QED
        BY <2>1, <2>7, <4>1, <4>2
    <3> QED
      BY <2>5, <3>2, <3>3
  <2> QED
    BY <1>8, <2>9, <2>10
<1>9. CASE DelTcpCliByFd(w)
  <2> DEFINE l == At("close", wk[w].fd, wk[w].msg, wk[w].on)
  <2>1. /\ Goto(w, l) /\ wk[w].pc = "delete" /\ UNCHANGED <<fdt, peer, inbox, sent>>
        /\ row' = [x \in Client |-> IF row[x] = wk[w].fd THEN None ELSE row[x]]
    BY <1>9, <1>p DEF DelTcpCliByFd
  <2>2. wk[w].pc \in TearPC /\ l.pc = "close"
    BY <2>1 DEF TearPC, At
  <2>3. /\ wk[w].fd \in Fd /\ wk[w].on \in Conn /\ fdt[wk[w].fd] = wk[w].on /\ peer[wk[w].on] # "open"
    BY <2>2, Ends
  <2> HIDE DEF l
  <2>4. wk'[w] = l /\ \A v \in Worker \ {w} : wk'[v] = wk[v]
    BY <1>g, <2>1
  <2>5. RouteInv'
    BY <2>1, <2>2, <2>4 DEF RouteInv
  <2>6. RowInv'
    <3>1. \A x \in Client : row'[x] \in Fd \cup UdpAddr => row'[x] = row[x]
      BY <2>1 DEF Link
    <3> QED
      BY <2>1, <3>1 DEF RowInv
  <2>7. AckInv'
    <3> SUFFICES ASSUME NEW k \in Link, Acknowledged(k)' PROVE k \in sent' /\ (OnlyLink(k)' => PointsAt(Owner[k], k)')
      BY DEF AckInv
    <3>1. Acknowledged(k) /\ k \in sent
      BY <2>1, <2>2, <2>4 DEF Acknowledged, AckInv, LinkOf
    <3>2. ASSUME OnlyLink(k) PROVE PointsAt(Owner[k], k)'
      <4>1. PointsAt(Owner[k], k) /\ Owner[k] \in Client /\ (k \in Conn => peer[k] = "open") /\ k \in Conn \cup UdpAddr
        BY <3>1, <3>2, LinksAssumption DEF AckInv, OnlyLink, Link
      <4>2. row[Owner[k]] # wk[w].fd
        BY <2>3, <4>1 DEF PointsAt
      <4>3. row'[Owner[k]] = row[Owner[k]]
        BY <2>1, <4>1, <4>2
      <4> QED
        BY <2>1, <4>1, <4>3 DEF PointsAt
    <3>3. OnlyLink(k)' <=> OnlyLink(k)
      BY <2>1 DEF OnlyLink
    <3> QED
      BY <2>1, <3>1, <3>2, <3>3
  <2> QED
    BY <2>5, <2>6, <2>7
<1> QED
  BY <1>1, <1>2, <1>3, <1>4, <1>5, <1>6, <1>7, <1>8, <1>9 DEF WorkerStep, Sending


-----------------------------------------------------------------------------
(* The invariant                                                           *)

LEMMA IndInit == Init => IndInv
<1> SUFFICES ASSUME Init PROVE IndInv
  OBVIOUS
<1> USE NamesAssumption, BoundsAssumption DEF Init
<1>i. Idle \in Local /\ Idle.pc = "idle" /\ Idle.fd = None /\ LocalOK(Idle)
  BY DEF Idle, At, Local, LocalOK, TearPC
<1>w. \A w \in Worker : wk[w] = Idle /\ wk[w].pc = "idle"
  BY <1>i
<1>r. \A s \in Sock : rx[s] = << >> /\ << >> \in Seq(Items(s)) /\ DOMAIN rx[s] = {} /\ Len(rx[s]) = 0
  OBVIOUS
<1>s. Listener \in Sock /\ UdpSock \in Sock /\ \A c \in Conn : c \in Sock
  BY Sockets
<1>1. TypeOK
  <2>1. rx \in [Sock -> Seq(UNION {Items(s) : s \in Sock})] /\ \A s \in Sock : rx[s] \in Seq(Items(s))
    BY <1>r
  <2>2. wk \in [Worker -> Local]
    BY <1>i
  <2>3. interest \subseteq Sock /\ ready \subseteq interest /\ events \subseteq SockFd
    BY DEF Sock
  <2>4. inbox \in [Link -> SUBSET [to : Client, body : Data \cup {"ack", "line"}]]
    OBVIOUS
  <2>5. typed \in 0..Len(Lines)
    OBVIOUS
  <2>6. stale \in BOOLEAN
    OBVIOUS
  <2>7. taskq \in Seq(Work) /\ msgq \in Seq(Data)
    OBVIOUS
  <2> QED
    BY <2>1, <2>2, <2>3, <2>4, <2>5, <2>6, <2>7 DEF TypeOK
<1>2. LocalInv
  <2>1. \A w \in Worker : LocalOK(wk[w])
    BY <1>i, <1>w
  <2> QED
    BY <1>w, <2>1 DEF LocalInv
<1>3. TableInv
  <2>1. interest \cap Conn = {} /\ \A c \in Conn : c # None
    BY Sockets
  <2> QED
    BY <1>r, <1>s, <2>1 DEF TableInv
<1>4. ItemsInv
  BY <1>r, <1>s DEF ItemsInv
<1>5. OnceInv
  <2> SUFFICES ASSUME NEW m \in Data PROVE Places(m) <= Number(m \in sent)
    BY DEF OnceInv
  <2>1. Holding(m) = {}
    BY <1>w DEF Holding
  <2>2. TasksFor(m) = {} /\ Queued(m) = {}
    BY DEF TasksFor, Queued
  <2>3. Unread(m) = {}
    <3>1. Wire(Via[m]) \in Sock
      BY LinksAssumption, Sockets DEF Wire
    <3> QED
      BY <1>r, <3>1 DEF Unread
  <2>4. Told(m) = {}
    BY DEF Told
  <2>5. Number(mt = m) = 0 /\ Number(m \in sent) = 0
    BY DEF Number
  <2> QED
    BY <2>1, <2>2, <2>3, <2>4, <2>5, FS_EmptySet DEF Places, Inside
<1>6. BackedInv
  <2> SUFFICES ASSUME NEW f \in SockFd PROVE Load(f) <= Bound(f)
    BY DEF BackedInv
  <2>1. Using(f) = {} /\ Pending(f) = {}
    BY <1>w DEF Using, Pending, ReadPC, TearPC
  <2>2. Number(f \in events) = 0 /\ Number(SockAt(f) \in ready) = 0
    BY DEF Number
  <2>3. Load(f) = 0
    BY <2>1, <2>2, FS_EmptySet DEF Load
  <2> QED
    BY <1>1, <2>3, Loads
<1>7. AddInv /\ TearInv
  BY <1>w DEF AddInv, TearInv, TearPC
<1>8. ServedInv /\ RowInv
  BY DEF ServedInv, RowInv, Link
<1>9. AckInv /\ RouteInv
  BY <1>w DEF AckInv, Acknowledged, RouteInv
<1> QED
  BY <1>1, <1>2, <1>3, <1>4, <1>5, <1>6, <1>7, <1>8, <1>9 DEF IndInv, RegularInv

LEMMA IndNext == IndInv /\ [Next]_vars => IndInv'
<1> SUFFICES ASSUME IndInv, [Next]_vars PROVE IndInv'
  OBVIOUS
<1>0. TypeOK /\ LocalInv /\ TableInv /\ ItemsInv /\ OnceInv /\ (Regular => RegularInv)
  BY DEF IndInv
<1>1. CASE Environment \/ EpollWait \/ EpollDispatch \/ DeSrvMsgQueue \/ MsgDispatch
  <2>1. TypeOK' /\ LocalInv'
    BY <1>0, <1>1, TypeEnvironment, TypeThreads
  <2>2. TableInv' /\ ItemsInv'
    BY <1>0, <1>1, TableEnvironment, TableThreads
  <2>3. OnceInv'
    BY <1>0, <1>1, <2>1, OnceOutside
  <2>4. ASSUME Regular' PROVE RegularInv'
    <3>1. RegularInv
      BY <1>0, <1>1, <2>4, RegularKept DEF Next
    <3>2. BackedInv'
      BY <1>0, <1>1, <2>1, <2>2, <2>4, <3>1, BackedOutside DEF RegularInv
    <3>3. AddInv' /\ TearInv' /\ ServedInv'
      BY <1>0, <1>1, <3>1, EndsOutside DEF RegularInv
    <3>4. RowInv' /\ AckInv' /\ RouteInv'
      BY <1>0, <1>1, <3>1, RowsOutside DEF RegularInv
    <3> QED
      BY <3>2, <3>3, <3>4 DEF RegularInv
  <2> QED
    BY <2>1, <2>2, <2>3, <2>4 DEF IndInv
<1>2. ASSUME NEW w \in Worker, WorkerStep(w) PROVE IndInv'
  <2>1. TypeOK' /\ LocalInv'
    BY <1>0, <1>2, TypeWorker
  <2>2. TableInv' /\ ItemsInv'
    BY <1>0, <1>2, TableWorker
  <2>3. OnceInv'
    BY <1>0, <1>2, <2>1, OnceWorker
  <2>4. ASSUME Regular' PROVE RegularInv'
    <3>1. RegularInv
      BY <1>0, <1>2, <2>4, RegularKept DEF Next
    <3>2. BackedInv'
      BY <1>0, <1>2, <2>1, <2>4, <3>1, BackedWorker DEF RegularInv
    <3>3. AddInv' /\ TearInv' /\ ServedInv'
      BY <1>0, <1>2, <2>4, <3>1, EndsWorker DEF RegularInv
    <3>4. RowInv' /\ AckInv' /\ RouteInv'
      BY <1>0, <1>2, <2>4, <3>1, RowsWorker DEF RegularInv
    <3> QED
      BY <3>2, <3>3, <3>4 DEF RegularInv
  <2> QED
    BY <2>1, <2>2, <2>3, <2>4 DEF IndInv
<1>3. CASE UNCHANGED vars
  <2> USE <1>3 DEF vars
  <2>1. TypeOK' /\ LocalInv' /\ TableInv' /\ ItemsInv'
    BY <1>0 DEF TypeOK, LocalInv, LocalOK, LinkOf, TableInv, ItemsInv
  <2>2. OnceInv'
    BY <1>0 DEF OnceInv, Places, Inside, Holding, TasksFor, Queued, Unread, Told
  <2>3. ASSUME Regular' PROVE RegularInv'
    <3>1. RegularInv
      BY <1>0, <2>3 DEF Regular
    <3>2. BackedInv'
      BY <3>1 DEF RegularInv, BackedInv, Load, Bound, Using, Pending, SockAt, Adding
    <3>3. AddInv' /\ TearInv' /\ ServedInv'
      BY <3>1 DEF RegularInv, AddInv, TearInv, ServedInv, Adding
    <3>4. RowInv' /\ RouteInv'
      BY <3>1 DEF RegularInv, RowInv, RouteInv
    <3>5. AckInv'
      BY <3>1 DEF RegularInv, AckInv, Acknowledged, OnlyLink, PointsAt, LinkOf
    <3> QED
      BY <3>2, <3>3, <3>4, <3>5 DEF RegularInv
  <2> QED
    BY <2>1, <2>2, <2>3 DEF IndInv
<1> QED
  BY <1>1, <1>2, <1>3 DEF Next

\* Throughout any behaviour of the server its tables, queues and threads agree:
\* descriptors with connections, events, tasks and handlers with what has
\* arrived, rows with links, and every message is in one place.
THEOREM Invariance == Spec => []IndInv
BY IndInit, IndNext, PTL DEF Spec

\* However many threads handle events of one socket at once, none of them blocks
\* in accept(), recv() or read(): what it reads is there (server_epoll.c:94,
\* 139-150), unless a descriptor was used after its close or written to after
\* its peer's.
THEOREM Unblocked == Spec => []NoBlockedWorker
<1>1. IndInv => NoBlockedWorker
  <2> SUFFICES ASSUME TypeOK, LocalInv, BackedInv, NEW w \in Worker, wk[w].pc \in ReadPC
               PROVE  SockAt(wk[w].fd) # None /\ rx[SockAt(wk[w].fd)] # << >>
    BY DEF IndInv, RegularInv, NoBlockedWorker
  <2>1. wk[w].fd \in SockFd /\ Uses(wk[w], wk[w].fd)
    BY DEF LocalInv, LocalOK, ReadPC, SockFd, Uses
  <2> QED
    BY <2>1, ReadsBacked
<1> QED
  BY <1>1, Invariance, PTL

\* Tearing down one connection, with its descriptor about to be reused, leaves
\* every other connection its descriptor and its place in the epoll set
\* (server_tcp.c:93-98).
THEOREM OthersServed == Spec => []LiveConnServed
<1>1. IndInv => LiveConnServed
  <2> SUFFICES ASSUME TypeOK, ServedInv, NEW c \in Conn, peer[c] = "open", ~Contains(rx[Listener], c)
               PROVE  \E f \in Fd : /\ fdt[f] = c
                                    /\ \/ c \in interest
                                       \/ \E w \in Worker : wk[w].pc = "epoll_add" /\ wk[w].fd = f
    BY DEF IndInv, RegularInv, LiveConnServed
  <2>1. \A i \in DOMAIN rx[Listener] : rx[Listener][i] # c
    <3>1. rx[Listener] \in Seq(Items(Listener))
      BY Sockets DEF TypeOK
    <3> QED
      BY <3>1 DEF Contains
  <2> QED
    BY <2>1 DEF ServedInv, Adding
<1> QED
  BY <1>1, Invariance, PTL

\* Once the registration on a client's only link is acknowledged, the registry
\* points at that link for as long as it lives (server_tcp.c:94-96, 101-105).
THEOREM RegistrationsHold == Spec => []RegistrationKept
<1>1. IndInv => RegistrationKept
  <2> SUFFICES ASSUME AckInv, NEW l \in Link, Package(Owner[l], "ack") \in inbox[l], OnlyLink(l)
               PROVE  row[Owner[l]] # None /\ PointsAt(Owner[l], l)
    BY DEF IndInv, RegularInv, RegistrationKept, OnlyLink, PointsAt
  <2>1. PointsAt(Owner[l], l)
    BY DEF AckInv, Acknowledged
  <2>2. row[Owner[l]] # None
    BY <2>1, NamesAssumption DEF PointsAt
  <2> QED
    BY <2>1, <2>2
<1> QED
  BY <1>1, Invariance, PTL

\* Every message is in one place and is delivered once at most, and what arrives
\* on a link is addressed to the client at its other end (server_socket.c:18-25,
\* cli_sqlite3.c:240-248).
THEOREM Routing == Spec => []NoMisroute
<1>1. IndInv => NoMisroute
  <2> SUFFICES ASSUME IndInv PROVE NoMisroute
    OBVIOUS
  <2>1. \A m \in Data : Places(m) <= 1
    <3> SUFFICES ASSUME NEW m \in Data PROVE Places(m) <= 1
      OBVIOUS
    <3>1. Places(m) <= Number(m \in sent)
      BY DEF IndInv, OnceInv
    <3>2. /\ Cardinality(Holding(m)) \in Nat /\ Cardinality(TasksFor(m)) \in Nat
          /\ Cardinality(Queued(m)) \in Nat /\ Cardinality(Unread(m)) \in Nat /\ Cardinality(Told(m)) \in Nat
      BY SetsFinite DEF IndInv
    <3>3. Number(m \in sent) \in 0..1 /\ Number(mt = m) \in 0..1
      BY DEF Number
    <3> QED
      BY <3>1, <3>2, <3>3 DEF Places, Inside
  <2>2. Regular => \A l \in Link : \A p \in inbox[l] : p.to = Owner[l]
    BY DEF IndInv, RegularInv, RouteInv
  <2> QED
    BY <2>1, <2>2 DEF NoMisroute, MessageOnce, IndInv
<1> QED
  BY <1>1, Invariance, PTL

-----------------------------------------------------------------------------
(* The message queue by itself, with its unlocked first use: the pool's    *)
(* threads put messages in, the message thread takes them out.             *)

\* What a list can hold.
MqItem == Msg \cup {NoMsg}

\* The pointer names the newest list, and there is one when a thread uses it.
MqPointer ==
    /\ lists \in Seq(Seq(MqItem))
    /\ queue = Len(lists)
    /\ arg \in [Thread -> MqItem]
    /\ pc \in [Thread -> {"idle", "init", "create", "queue"}]
    /\ \A t \in Thread : pc[t] = "queue" => queue # 0

\* No message is lost but with the list it is in.
MqAccount ==
    /\ accepted \in Seq(MqItem) /\ taken \in Seq(MqItem)
    /\ Range(accepted) = Range(taken) \cup UNION {Range(lists[l]) : l \in DOMAIN lists}

MqInv == MqPointer /\ MqAccount

\* What a sequence holds when something is added at either end, or taken.
LEMMA MqRange ==
    ASSUME NEW s \in Seq(MqItem), NEW x \in MqItem
    PROVE  /\ Range(Append(s, x)) = Range(s) \cup {x}
           /\ Range(<<x>> \o s) = Range(s) \cup {x}
           /\ s # << >> => Head(s) \in MqItem /\ Tail(s) \in Seq(MqItem)
                           /\ Range(s) = Range(Tail(s)) \cup {Head(s)}
<1> USE DEF Range
<1>1. Range(Append(s, x)) = Range(s) \cup {x}
  <2>1. DOMAIN Append(s, x) = 1..(Len(s) + 1) /\ DOMAIN s = 1..Len(s) /\ Len(s) \in Nat
    OBVIOUS
  <2>2. Append(s, x)[Len(s) + 1] = x /\ \A j \in 1..Len(s) : Append(s, x)[j] = s[j]
    OBVIOUS
  <2>3. \A y \in Range(Append(s, x)) : y \in Range(s) \cup {x}
    BY <2>1, <2>2
  <2>4. \A y \in Range(s) \cup {x} : y \in Range(Append(s, x))
    BY <2>1, <2>2
  <2> QED
    BY <2>3, <2>4
<1>2. Range(<<x>> \o s) = Range(s) \cup {x}
  <2>1. DOMAIN (<<x>> \o s) = 1..(Len(s) + 1) /\ DOMAIN s = 1..Len(s) /\ Len(s) \in Nat
    OBVIOUS
  <2>2. (<<x>> \o s)[1] = x /\ \A j \in 1..Len(s) : (<<x>> \o s)[j + 1] = s[j]
    OBVIOUS
  <2>3. \A y \in Range(<<x>> \o s) : y \in Range(s) \cup {x}
    <3> SUFFICES ASSUME NEW j \in 1..(Len(s) + 1) PROVE (<<x>> \o s)[j] \in Range(s) \cup {x}
      BY <2>1
    <3>1. CASE j = 1
      BY <2>2, <3>1
    <3>2. CASE j # 1
      <4>1. j - 1 \in 1..Len(s) /\ (j - 1) + 1 = j
        BY <2>1, <3>2
      <4>2. (<<x>> \o s)[j] = s[j - 1]
        BY <2>2, <4>1
      <4> QED
        BY <2>1, <4>1, <4>2
    <3> QED
      BY <3>1, <3>2
  <2>4. \A y \in Range(s) \cup {x} : y \in Range(<<x>> \o s)
    <3>1. x \in Range(<<x>> \o s)
      BY <2>1, <2>2
    <3>2. ASSUME NEW j \in 1..Len(s) PROVE s[j] \in Range(<<x>> \o s)
      <4>1. j + 1 \in 1..(Len(s) + 1)
        BY <2>1
      <4> QED
        BY <2>1, <2>2, <4>1
    <3> QED
      BY <2>1, <3>1, <3>2
  <2> QED
    BY <2>3, <2>4
<1>3. ASSUME s # << >>
      PROVE  /\ Head(s) \in MqItem /\ Tail(s) \in Seq(MqItem)
             /\ Range(s) = Range(Tail(s)) \cup {Head(s)}
  <2>1. Head(s) = s[1] /\ Head(s) \in MqItem /\ Tail(s) \in Seq(MqItem) /\ Len(s) \in Nat /\ Len(s) # 0
    BY <1>3
  <2>2. /\ DOMAIN Tail(s) = 1..(Len(s) - 1) /\ DOMAIN s = 1..Len(s)
        /\ \A j \in 1..(Len(s) - 1) : Tail(s)[j] = s[j + 1]
    BY <1>3
  <2>3. ASSUME NEW j \in 1..Len(s) PROVE s[j] \in Range(Tail(s)) \cup {Head(s)}
    <3>1. CASE j = 1
      BY <2>1, <3>1
    <3>2. CASE j # 1
      <4>1. j - 1 \in 1..(Len(s) - 1) /\ (j - 1) + 1 = j
        BY <2>1, <3>2
      <4> QED
        BY <2>2, <4>1
    <3> QED
      BY <3>1, <3>2
  <2>4. ASSUME NEW j \in 1..(Len(s) - 1) PROVE Tail(s)[j] \in Range(s)
    <3>1. j + 1 \in 1..Len(s)
      BY <2>1
    <3> QED
      BY <2>2, <3>1
  <2>5. Head(s) \in Range(s)
    BY <2>1, <2>2
  <2> QED
    BY <2>1, <2>2, <2>3, <2>4, <2>5
<1> QED
  BY <1>1, <1>2, <1>3

\* The lists' contents when one of them changes, or an empty one is added.
Held(ls) == UNION {Range(ls[l]) : l \in DOMAIN ls}
HeldBut(ls, q) == UNION {Range(ls[l]) : l \in DOMAIN ls \ {q}}

LEMMA MqHeld ==
    ASSUME NEW ls \in Seq(Seq(MqItem)), NEW q \in 1..Len(ls), NEW s \in Seq(MqItem)
    PROVE  /\ [ls EXCEPT ![q] = s] \in Seq(Seq(MqItem))
           /\ Len([ls EXCEPT ![q] = s]) = Len(ls)
           /\ Held(ls) = Range(ls[q]) \cup HeldBut(ls, q)
           /\ [ls EXCEPT ![q] = s][q] = s
           /\ HeldBut([ls EXCEPT ![q] = s], q) = HeldBut(ls, q)
           /\ Held([ls EXCEPT ![q] = s]) = Range(s) \cup HeldBut(ls, q)
<1> DEFINE new == [ls EXCEPT ![q] = s]
<1>1. /\ new \in Seq(Seq(MqItem)) /\ Len(new) = Len(ls)
      /\ DOMAIN new = 1..Len(ls) /\ DOMAIN ls = 1..Len(ls)
      /\ new[q] = s /\ \A l \in 1..Len(ls) \ {q} : new[l] = ls[l]
  OBVIOUS
<1> HIDE DEF new
<1>2. Held(ls) = Range(ls[q]) \cup HeldBut(ls, q)
  BY <1>1 DEF Held, HeldBut
<1>3. HeldBut(new, q) = HeldBut(ls, q)
  BY <1>1 DEF HeldBut
<1>4. Held(new) = Range(new[q]) \cup HeldBut(new, q)
  BY <1>1 DEF Held, HeldBut
<1> QED
  BY <1>1, <1>2, <1>3, <1>4 DEF new

LEMMA MqHeldAppend ==
    ASSUME NEW ls \in Seq(Seq(MqItem))
    PROVE  /\ Append(ls, << >>) \in Seq(Seq(MqItem)) /\ Len(Append(ls, << >>)) = Len(ls) + 1
           /\ Held(Append(ls, << >>)) = Held(ls)
<1> DEFINE new == Append(ls, << >>)
<1>1. << >> \in Seq(MqItem)
  OBVIOUS
<1>2. /\ new \in Seq(Seq(MqItem)) /\ Len(new) = Len(ls) + 1 /\ Len(ls) \in Nat
      /\ DOMAIN new = 1..(Len(ls) + 1) /\ DOMAIN ls = 1..Len(ls)
      /\ new[Len(ls) + 1] = << >> /\ \A l \in 1..Len(ls) : new[l] = ls[l]
  BY <1>1
<1> HIDE DEF new
<1>3. Range(<< >>) = {}
  BY DEF Range
<1>4. \A l \in DOMAIN new : Range(new[l]) \subseteq Held(ls)
  <2> SUFFICES ASSUME NEW l \in DOMAIN new, Range(new[l]) # {}
               PROVE  Range(new[l]) \subseteq Held(ls)
    OBVIOUS
  <2>1. l \in DOMAIN ls /\ new[l] = ls[l]
    BY <1>2, <1>3
  <2> QED
    BY <2>1 DEF Held
<1>5. \A l \in DOMAIN ls : Range(ls[l]) \subseteq Held(new)
  <2> SUFFICES ASSUME NEW l \in 1..Len(ls) PROVE Range(ls[l]) \subseteq Held(new)
    BY <1>2
  <2>1. l \in DOMAIN new /\ new[l] = ls[l]
    BY <1>2
  <2> QED
    BY <2>1 DEF Held
<1>6. Held(new) = Held(ls)
  BY <1>4, <1>5 DEF Held
<1> QED
  BY <1>2, <1>6 DEF new

\* What a step of one thread does to the queue: the invariant holds after it, and
\* once the first use is over the list stays.
MqSettled == Settled => Settled' /\ queue' = queue /\ Stranded' = Stranded

LEMMA MqStep ==
    ASSUME MqInv, QueueNext
    PROVE  MqInv' /\ MqSettled
<1> USE DEF MqInv, MqPointer
<1> PICK t \in Thread : DeCall(t) \/ Run(t) \/ \E m \in Msg : EnCall(t, m)
  BY DEF QueueNext
<1>10. Msg \subseteq MqItem /\ NoMsg \in MqItem
  BY DEF MqItem
<1>0. queue \in Nat /\ DOMAIN lists = 1..queue
  OBVIOUS
<1>1. ASSUME UNCHANGED <<queue, lists, accepted, taken>>,
             arg' \in [Thread -> MqItem],
             NEW to, pc' = [pc EXCEPT ![t] = to],
             to = "idle" \/ (queue = 0 /\ to \in {"init", "create"}) \/ (queue # 0 /\ to = "queue")
      PROVE  MqInv' /\ MqSettled
  <2>1. MqAccount'
    BY <1>1 DEF MqAccount
  <2>2. MqPointer'
    BY <1>1
  <2>3. MqSettled
    BY <1>1 DEF MqSettled, Settled, Stranded
  <2> QED
    BY <2>1, <2>2, <2>3
<1>2. CASE DeCall(t)
  BY <1>1, <1>2 DEF DeCall, Called
<1>3. ASSUME NEW m \in Msg, EnCall(t, m)
      PROVE  MqInv' /\ MqSettled
  BY <1>1, <1>3, <1>10 DEF EnCall, Called
<1>4. CASE InitSrvMsgQueue(t)
  BY <1>1, <1>4 DEF InitSrvMsgQueue
<1>5. CASE InitMsgQueue(t)
  <2>1. /\ pc[t] = "create" /\ lists' = Append(lists, << >>) /\ queue' = Len(lists')
        /\ pc' = [pc EXCEPT ![t] = "queue"] /\ UNCHANGED <<arg, accepted, taken>>
    BY <1>5 DEF InitMsgQueue
  <2>2. /\ lists' \in Seq(Seq(MqItem)) /\ Len(lists') = Len(lists) + 1
        /\ Held(lists') = Held(lists)
    BY <2>1, MqHeldAppend
  <2>3. MqPointer'
    BY <1>0, <2>1, <2>2
  <2>4. MqAccount'
    BY <2>1, <2>2 DEF MqAccount, Held
  <2>5. MqSettled
    BY <2>1 DEF MqSettled, Settled
  <2> QED
    BY <2>3, <2>4, <2>5
<1>6. ASSUME NEW s \in Seq(MqItem), pc[t] = "queue", lists' = [lists EXCEPT ![queue] = s],
             pc' = [pc EXCEPT ![t] = "idle"], arg' = [arg EXCEPT ![t] = NoMsg],
             queue' = queue,
             accepted' \in Seq(MqItem), taken' \in Seq(MqItem),
             Range(accepted') = Range(taken') \cup Range(s) \cup HeldBut(lists, queue)
      PROVE  MqInv' /\ MqSettled
  <2>1. queue \in 1..Len(lists)
    BY <1>0, <1>6
  <2>2. /\ lists' \in Seq(Seq(MqItem)) /\ Len(lists') = Len(lists)
        /\ HeldBut(lists', queue) = HeldBut(lists, queue)
        /\ Held(lists') = Range(s) \cup HeldBut(lists, queue)
    <3>1. lists \in Seq(Seq(MqItem))
      OBVIOUS
    <3> DEFINE new == [lists EXCEPT ![queue] = s]
    <3>2. /\ new \in Seq(Seq(MqItem)) /\ Len(new) = Len(lists)
          /\ HeldBut(new, queue) = HeldBut(lists, queue)
          /\ Held(new) = Range(s) \cup HeldBut(lists, queue)
      BY <2>1, <3>1, MqHeld, ZenonT(40)
    <3>3. lists' = new
      BY <1>6
    <3> HIDE DEF new
    <3> QED
      BY <3>2, <3>3
  <2>3. MqPointer'
    BY <1>6, <1>10, <2>1, <2>2
  <2>4. MqAccount'
    BY <1>6, <2>2 DEF MqAccount, Held
  <2>5. MqSettled
    BY <1>6, <2>2 DEF MqSettled, Settled, Stranded, HeldBut
  <2> QED
    BY <2>3, <2>4, <2>5
<1>7. pc[t] = "queue" =>
        /\ queue \in 1..Len(lists) /\ lists[queue] \in Seq(MqItem)
        /\ Range(accepted) = Range(taken) \cup Range(lists[queue]) \cup HeldBut(lists, queue)
        /\ accepted \in Seq(MqItem) /\ taken \in Seq(MqItem)
  <2> SUFFICES ASSUME pc[t] = "queue"
               PROVE  /\ queue \in 1..Len(lists) /\ lists[queue] \in Seq(MqItem)
                      /\ Range(accepted) = Range(taken) \cup Range(lists[queue])
                                                  \cup HeldBut(lists, queue)
                      /\ accepted \in Seq(MqItem) /\ taken \in Seq(MqItem)
    OBVIOUS
  <2>1. queue \in 1..Len(lists)
    BY <1>0
  <2>2. lists[queue] \in Seq(MqItem)
    BY <2>1
  <2>3. Held(lists) = Range(lists[queue]) \cup HeldBut(lists, queue)
    <3>1. lists \in Seq(Seq(MqItem))
      OBVIOUS
    <3> QED
      BY <2>1, <2>2, <3>1, MqHeld, ZenonT(40)
  <2> QED
    BY <2>1, <2>2, <2>3 DEF MqAccount, Held
<1>8. CASE EnMsgToQueue(t)
  <2>1. /\ pc[t] = "queue" /\ arg[t] \in MqItem
        /\ lists' = [lists EXCEPT ![queue] = <<arg[t]>> \o lists[queue]]
        /\ accepted' = Append(accepted, arg[t]) /\ UNCHANGED <<queue, taken>>
        /\ pc' = [pc EXCEPT ![t] = "idle"] /\ arg' = [arg EXCEPT ![t] = NoMsg]
    BY <1>8 DEF EnMsgToQueue, Returned
  <2>2. <<arg[t]>> \o lists[queue] \in Seq(MqItem) /\ accepted' \in Seq(MqItem)
    BY <1>7, <2>1
  <2>3. /\ Range(accepted') = Range(accepted) \cup {arg[t]}
        /\ Range(<<arg[t]>> \o lists[queue]) = Range(lists[queue]) \cup {arg[t]}
    BY <1>7, <2>1, MqRange
  <2> QED
    BY <1>6, <1>7, <2>1, <2>2, <2>3
<1>9. CASE DeMsgFromQueue(t)
  <2>1. /\ pc[t] = "queue" /\ UNCHANGED <<queue, accepted>>
        /\ pc' = [pc EXCEPT ![t] = "idle"] /\ arg' = [arg EXCEPT ![t] = NoMsg]
    BY <1>9 DEF DeMsgFromQueue, Returned
  <2>2. CASE lists[queue] = << >>
    <3>1. UNCHANGED <<lists, taken>>
      BY <1>9, <2>2 DEF DeMsgFromQueue
    <3>2. arg' \in [Thread -> MqItem]
      BY <1>10, <2>1
    <3> QED
      BY <1>1, <2>1, <3>1, <3>2
  <2>3. CASE lists[queue] # << >>
    <3>1. /\ taken' = Append(taken, Head(lists[queue]))
          /\ lists' = [lists EXCEPT ![queue] = Tail(lists[queue])]
      BY <1>9, <2>3 DEF DeMsgFromQueue
    <3>2. /\ Head(lists[queue]) \in MqItem /\ Tail(lists[queue]) \in Seq(MqItem)
          /\ Range(lists[queue]) = Range(Tail(lists[queue])) \cup {Head(lists[queue])}
      BY <1>7, <2>1, <2>3, MqRange
    <3>3. /\ taken' \in Seq(MqItem)
          /\ Range(taken') = Range(taken) \cup {Head(lists[queue])}
      <4>1. /\ taken \in Seq(MqItem) /\ Head(lists[queue]) \in MqItem
            /\ taken' = Append(taken, Head(lists[queue]))
        BY <1>7, <2>1, <3>1, <3>2
      <4>2. Append(taken, Head(lists[queue])) \in Seq(MqItem)
        BY <4>1
      <4>3. Range(Append(taken, Head(lists[queue]))) = Range(taken) \cup {Head(lists[queue])}
        BY <4>1, MqRange, ZenonT(40)
      <4> QED
        BY <4>1, <4>2, <4>3
    <3> QED
      BY <1>6, <1>7, <2>1, <3>1, <3>2, <3>3
  <2> QED
    BY <2>2, <2>3
<1> QED
  BY <1>2, <1>3, <1>4, <1>5, <1>8, <1>9 DEF Run

\* The pointer and the lists agree, and what was put in has been taken out or is
\* in one of the lists, in every state.
THEOREM QueueInvariance == QueueSpec => []MqInv
<1>1. QueueInit => MqInv
  <2> SUFFICES ASSUME QueueInit PROVE MqInv
    OBVIOUS
  <2>1. MqPointer
    BY DEF QueueInit, MqPointer, MqItem
  <2>2. MqAccount
    BY DEF QueueInit, MqAccount, Range
  <2> QED
    BY <2>1, <2>2 DEF MqInv
<1>2. MqInv /\ [QueueNext]_queueVars => MqInv'
  <2>1. CASE UNCHANGED queueVars
    BY <2>1 DEF queueVars, MqInv, MqPointer, MqAccount
  <2> QED
    BY <2>1, MqStep
<1> QED
  BY <1>1, <1>2, PTL DEF QueueSpec

\* No thread uses a list that is not there; and once those that met at the first
\* use have passed, the list stays, and every message put in before or since is
\* in it, taken out, or lost already, for ever.
\* (server_msgqueue.c:12-17, 27-29, 42-44; msg_queue.c:15-51)
THEOREM QueueSettles == QueueSpec => SettledForGood
<1> DEFINE A == /\ \A t \in Thread : pc[t] = "queue" => queue # 0
                /\ Settled =>
                     /\ Settled' /\ queue' = queue
                     /\ Stranded' = Stranded
                     /\ Range(accepted') = Range(taken') \cup Range(lists'[queue])
                                                  \cup Stranded
<1>1. ASSUME MqInv, QueueNext PROVE A
  <2>1. MqInv' /\ MqSettled
    BY <1>1, MqStep
  <2>2. \A t \in Thread : pc[t] = "queue" => queue # 0
    BY <1>1 DEF MqInv, MqPointer
  <2>3. ASSUME Settled
        PROVE  Range(accepted') = Range(taken') \cup Range(lists'[queue]) \cup Stranded
    <3>1. queue' = queue /\ Stranded' = Stranded /\ queue # 0
      BY <2>1, <2>3 DEF MqSettled, Settled
    <3>2. lists' \in Seq(Seq(MqItem)) /\ queue \in 1..Len(lists')
      <4>1. lists' \in Seq(Seq(MqItem)) /\ queue = Len(lists')
        BY <2>1, <3>1 DEF MqInv, MqPointer
      <4> QED
        BY <3>1, <4>1
    <3>3. lists'[queue] \in Seq(MqItem)
      BY <3>2
    <3>4. Held(lists') = Range(lists'[queue]) \cup HeldBut(lists', queue)
      BY <3>2, <3>3, MqHeld
    <3>5. HeldBut(lists', queue) = Stranded'
      BY <3>1 DEF HeldBut, Stranded
    <3> QED
      BY <2>1, <3>1, <3>4, <3>5 DEF MqInv, MqAccount, Held
  <2> QED
    BY <2>1, <2>2, <2>3 DEF MqSettled
<1>2. MqInv /\ [QueueNext]_queueVars => [A]_queueVars
  BY <1>1
<1> QED
  BY <1>2, QueueInvariance, PTL DEF QueueSpec, SettledForGood

=============================================================================
