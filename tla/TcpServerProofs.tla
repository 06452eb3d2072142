-------------------------- MODULE TcpServerProofs ---------------------------
(***************************************************************************)
(* The TCP server keeps its list, its epoll set and its descriptors in     *)
(* step, never waits for input that is not there, stays up while its       *)
(* clients do, and delivers in order, for any clients, messages and        *)
(* descriptors.                                                            *)
(***************************************************************************)
EXTENDS TcpServer, FiniteSetTheorems, SequenceTheorems, TLAPS

Waits(c) == \E p \in DOMAIN rx[Listener] : rx[Listener][p] = c

\* A connection is accepted once.
AcceptInv ==
    /\ \A p, q \in DOMAIN rx[Listener] : rx[Listener][p] = rx[Listener][q] => p = q
    /\ \A p \in DOMAIN rx[Listener] :
         rx[Listener][p] \notin interest /\ peer[rx[Listener][p]] # "new"
    /\ \A c \in interest \cap Conn : peer[c] # "new"

\* The list has every connection that is watched once, and its descriptor.
TableInv ==
    /\ \A p, q \in DOMAIN list : list[p] = list[q] => p = q
    /\ IsFiniteSet(Range(list)) /\ Cardinality(Range(list)) = Len(list)
    /\ Range(list) = interest \cap Conn
    /\ \A f \in Fd : \A c \in Conn : fdt[f] = c <=> c \in Range(list) /\ fd[c] = f
    /\ \A c \in Range(list) : fd[c] \in Fd
    /\ pm.pc = "send" => pm.fd \in Fd

\* There is an item for every event and every edge, or the end of the
\* connection, with which both go away.
BackedInv ==
    /\ \A s \in events \cup ready : rx[s] # << >>
    /\ \A s \in events \cap ready : Len(rx[s]) > 1 \/ (s \in Conn /\ Last(rx[s]) = "EOF")
    /\ \A c \in Conn : peer[c] \in Gone /\ (c \in interest \/ Waits(c)) =>
         rx[c] # << >> /\ Last(rx[c]) = "EOF"

\* What is known of the message SrvProMsg works on, and of the one being put.
PipeInv ==
    /\ \A c \in Conn : cliEndid[c] \in {Server, c}
    /\ pending = << >> \/ (ep # None /\ (pending = <<ep>> \/ pending = <<Junk>>))
    /\ pm.pc \notin {"idle", "clear", "end"} => got \in Value
    /\ pm.pc \in {"show_dst", "dst", "load", "send", "log"} => Dest[got] # Server
    /\ pm.pc = "write" => Dest[got] = Server
    /\ pm.pc \in {"load", "send", "log"} => pm.dst \in {None, Dest[got]}
    /\ \A c \in Conn : \A p \in DOMAIN rx[c] : rx[c][p] \in Value => Via[rx[c][p]] = c

\* The places a message passes through, the last first.
Done(a) == \E c \in Conn \cup {Server} : \E i \in DOMAIN inbox[c] : inbox[c][i] = a
Handled(a) == pm.pc # "idle" /\ got = a
Queued(a) == \E i \in DOMAIN items : items[i] = a
Putting(a) == ep = a
Arrived(a) == \E p \in DOMAIN rx[Via[a]] : rx[Via[a]][p] = a

QueuePair(a, b) == \E i, j \in DOMAIN items : i < j /\ items[i] = a /\ items[j] = b
RxPair(a, b) == \E i, j \in DOMAIN rx[Via[a]] : i < j /\ rx[Via[a]][i] = a /\ rx[Via[a]][j] = b
InboxPair(a, b) == \E c \in Conn \cup {Server} : \E i, j \in DOMAIN inbox[c] :
                     i < j /\ inbox[c][i] = a /\ inbox[c][j] = b

\* Message a is further on than b.
Leads(a, b) ==
    \/ Done(a) /\ Handled(b)
    \/ (Done(a) \/ Handled(a)) /\ Queued(b)
    \/ (Done(a) \/ Handled(a) \/ Queued(a)) /\ Putting(b)
    \/ (Done(a) \/ Handled(a) \/ Queued(a) \/ Putting(a)) /\ Arrived(b)
    \/ QueuePair(a, b) \/ RxPair(a, b) \/ InboxPair(a, b)

Known(a) == Done(a) \/ Handled(a) \/ Queued(a) \/ Putting(a) \/ Arrived(a)

\* Of two messages of one sender the one that is further on was sent before.
OrderInv ==
    /\ \A k, l \in DOMAIN sent : sent[k] = sent[l] => k = l
    /\ \A a \in Value : Known(a) => \E k \in DOMAIN sent : sent[k] = a
    /\ \A a, b \in Value : Via[a] = Via[b] /\ Leads(a, b) => Before(a, b)

\* As long as no descriptor is closed between its reading and the send().
DestInv ==
    ~stale => /\ pm.pc = "send" => fdt[pm.fd] = Dest[got]
              /\ \A c \in Conn \cup {Server} : \A i \in DOMAIN inbox[c] :
                   inbox[c][i] \in Value => Dest[inbox[c][i]] = c

Staying == \A c \in Conn : peer[c] \notin Gone
Saves(c, p) == \E q \in DOMAIN rx[c] : q < p /\ rx[c][q] = "SAVE_CLI_INFO"

\* A walk is not behind the node it looks for.
Ahead(c) == \E i, j \in DOMAIN list : i <= j /\ list[i] = pm.at /\ list[j] = c

\* While every client stays: nodes stay, ...
NoEnds == \A c \in Conn : \A p \in DOMAIN rx[c] : rx[c][p] # "EOF"
Pointers == {pm.at, pm.src, pm.dst} \subseteq Range(list) \cup {None}

\* ... a sender is registered before its messages are handled, ...
Registering ==
    /\ \A c \in Conn : peer[c] = "saved" => Registered(c) \/ Saves(c, Len(rx[c]) + 1)
    /\ \A c \in Conn : \A p \in DOMAIN rx[c] : rx[c][p] \in Value => Registered(c) \/ Saves(c, p)
Senders == \A a \in Value : Handled(a) \/ Queued(a) \/ Putting(a) => Registered(Via[a])

\* ... and so found, ...
SrcFound ==
    /\ pm.pc \in {"show_src", "src"} => Ahead(Via[got])
    /\ pm.pc \in {"show_dst", "show", "dst", "write", "load", "send", "log"} => pm.src # None

\* ... and so is a receiver if none was addressed too early.
Receivers == \A k \in DOMAIN sent : Dest[sent[k]] = Server \/ Registered(Dest[sent[k]])
DstFound ==
    /\ pm.pc \in {"show_dst", "dst"} => Ahead(Dest[got])
    /\ pm.pc \in {"show", "load", "send", "log"} /\ Dest[got] # Server => pm.dst # None

StayInv ==
    Staying => /\ NoEnds /\ Pointers /\ Registering /\ Senders /\ SrcFound
               /\ ~early => Receivers /\ DstFound
               /\ ~early => proc # "crashed"
               /\ proc = "undefined" => got = Junk

IndInv ==
    /\ TypeOK /\ AcceptInv /\ TableInv /\ BackedInv /\ PipeInv /\ OrderInv /\ DestInv /\ StayInv


-----------------------------------------------------------------------------
(* Sequences                                                               *)

LEMMA Heads ==
    ASSUME NEW S, NEW s \in Seq(S), s # << >>
    PROVE  /\ Head(s) \in S /\ Tail(s) \in Seq(S) /\ Len(Tail(s)) = Len(s) - 1 /\ Len(s) \in Nat \ {0}
           /\ Head(s) = s[1] /\ 1 \in DOMAIN s
           /\ \A p \in DOMAIN Tail(s) : p + 1 \in DOMAIN s /\ Tail(s)[p] = s[p + 1] /\ p \in Nat \ {0}
           /\ \A p \in DOMAIN s : p # 1 => p - 1 \in DOMAIN Tail(s) /\ Tail(s)[p - 1] = s[p]
<1>1. /\ Head(s) \in S /\ Tail(s) \in Seq(S) /\ Len(Tail(s)) = Len(s) - 1 /\ Len(s) \in Nat \ {0}
      /\ Head(s) = s[1] /\ DOMAIN s = 1..Len(s) /\ DOMAIN Tail(s) = 1..(Len(s) - 1)
      /\ \A p \in 1..(Len(s) - 1) : Tail(s)[p] = s[p + 1]
  OBVIOUS
<1>2. ASSUME NEW p \in DOMAIN s, p # 1 PROVE p - 1 \in DOMAIN Tail(s) /\ Tail(s)[p - 1] = s[p]
  <2>1. p - 1 \in 1..(Len(s) - 1) /\ (p - 1) + 1 = p
    BY <1>1, <1>2
  <2> QED
    BY <1>1, <2>1
<1> QED
  BY <1>1, <1>2

LEMMA Appended ==
    ASSUME NEW S, NEW s \in Seq(S), NEW x \in S
    PROVE  /\ Append(s, x) \in Seq(S) /\ Len(Append(s, x)) = Len(s) + 1 /\ Len(s) \in Nat
           /\ Append(s, x) # << >>
           /\ \A p \in DOMAIN s : p \in DOMAIN Append(s, x) /\ Append(s, x)[p] = s[p] /\ p \in 1..Len(s)
           /\ Len(s) + 1 \in DOMAIN Append(s, x) /\ Append(s, x)[Len(s) + 1] = x
           /\ \A p \in DOMAIN Append(s, x) : p \in DOMAIN s \/ p = Len(s) + 1
OBVIOUS

LEMMA Pushed ==
    ASSUME NEW S, NEW s \in Seq(S), NEW x \in S
    PROVE  /\ <<x>> \o s \in Seq(S) /\ Len(<<x>> \o s) = Len(s) + 1 /\ Len(s) \in Nat
           /\ 1 \in DOMAIN (<<x>> \o s) /\ (<<x>> \o s)[1] = x
           /\ \A p \in DOMAIN s : p + 1 \in DOMAIN (<<x>> \o s) /\ (<<x>> \o s)[p + 1] = s[p] /\ p \in Nat \ {0}
           /\ \A p \in DOMAIN (<<x>> \o s) :
                p = 1 \/ (p - 1 \in DOMAIN s /\ (<<x>> \o s)[p] = s[p - 1] /\ p \in Nat \ {0})
<1> DEFINE t == <<x>> \o s
<1>1. <<x>> \in Seq(S) /\ Len(<<x>>) = 1 /\ <<x>>[1] = x
  OBVIOUS
<1>2. /\ t \in Seq(S) /\ Len(t) = Len(s) + 1 /\ Len(s) \in Nat /\ t[1] = x
      /\ \A p \in 1..Len(s) : t[p + 1] = s[p]
      /\ DOMAIN t = 1..(Len(s) + 1) /\ DOMAIN s = 1..Len(s)
  BY <1>1
<1> HIDE DEF t
<1>3. ASSUME NEW p \in DOMAIN t, p # 1 PROVE p - 1 \in DOMAIN s /\ t[p] = s[p - 1] /\ p \in Nat \ {0}
  <2>1. p - 1 \in 1..Len(s) /\ (p - 1) + 1 = p /\ p \in Nat \ {0}
    BY <1>2, <1>3
  <2> QED
    BY <1>2, <2>1
<1> QED
  BY <1>2, <1>3 DEF t

LEMMA Removed ==
    ASSUME NEW S, NEW s \in Seq(S), NEW p \in DOMAIN s
    PROVE  /\ RemoveAt(s, p) \in Seq(S) /\ Len(RemoveAt(s, p)) = Len(s) - 1 /\ Len(s) \in Nat \ {0}
           /\ \A q \in DOMAIN RemoveAt(s, p) :
                \/ q \in DOMAIN s /\ q < p /\ RemoveAt(s, p)[q] = s[q]
                \/ q + 1 \in DOMAIN s /\ q >= p /\ q \in Nat /\ RemoveAt(s, p)[q] = s[q + 1]
           /\ \A q \in DOMAIN s : q # p => \E k \in DOMAIN RemoveAt(s, p) : RemoveAt(s, p)[k] = s[q]
<1> DEFINE a == SubSeq(s, 1, p - 1)
           b == SubSeq(s, p + 1, Len(s))
           t == a \o b
<1>0. Len(s) \in Nat /\ p \in 1..Len(s) /\ DOMAIN s = 1..Len(s) /\ p \in Nat /\ RemoveAt(s, p) = t
  BY DEF RemoveAt
<1>1. a \in Seq(S) /\ Len(a) = p - 1 /\ \A q \in 1..(p - 1) : a[q] = s[q]
  BY <1>0
<1>2. b \in Seq(S) /\ Len(b) = Len(s) - p /\ \A q \in 1..(Len(s) - p) : b[q] = s[q + p]
  BY <1>0, SMTT(30)
<1> HIDE DEF a, b
<1>3. t \in Seq(S) /\ Len(t) = Len(s) - 1 /\ DOMAIN t = 1..(Len(s) - 1)
  <2>1. t \in Seq(S) /\ Len(t) = Len(a) + Len(b)
    BY <1>1, <1>2, ConcatProperties
  <2>2. DOMAIN t = 1..Len(t)
    BY <2>1
  <2> HIDE DEF t
  <2> QED
    BY <1>0, <1>1, <1>2, <2>1, <2>2
<1>4. \A q \in 1..(Len(s) - 1) : t[q] = IF q <= p - 1 THEN a[q] ELSE b[q - (p - 1)]
  BY <1>0, <1>1, <1>2
<1> HIDE DEF t
<1>5. \A q \in 1..(Len(s) - 1) : t[q] = IF q < p THEN s[q] ELSE s[q + 1]
  <2> SUFFICES ASSUME NEW q \in 1..(Len(s) - 1) PROVE t[q] = IF q < p THEN s[q] ELSE s[q + 1]
    OBVIOUS
  <2>1. CASE q < p
    BY <1>0, <1>1, <1>4, <2>1
  <2>2. CASE q >= p
    <3>1. q - (p - 1) \in 1..(Len(s) - p) /\ (q - (p - 1)) + p = q + 1
      BY <1>0, <2>2
    <3>2. b[q - (p - 1)] = s[(q - (p - 1)) + p]
      BY <1>2, <3>1
    <3> QED
      BY <1>0, <1>4, <2>2, <3>1, <3>2
  <2> QED
    BY <1>0, <2>1, <2>2
<1>6. \A q \in DOMAIN t : \/ q \in DOMAIN s /\ q < p /\ t[q] = s[q]
                          \/ q + 1 \in DOMAIN s /\ q >= p /\ q \in Nat /\ t[q] = s[q + 1]
  BY <1>0, <1>3, <1>5
<1>7. ASSUME NEW q \in DOMAIN s, q # p PROVE \E k \in DOMAIN t : t[k] = s[q]
  <2>1. CASE q < p
    <3>1. q \in 1..(Len(s) - 1) /\ t[q] = s[q]
      BY <1>0, <1>5, <2>1
    <3> QED
      BY <1>3, <3>1
  <2>2. CASE q > p
    <3>1. q - 1 \in 1..(Len(s) - 1) /\ ~(q - 1 < p) /\ (q - 1) + 1 = q
      BY <1>0, <2>2
    <3>2. t[q - 1] = s[q]
      BY <1>5, <3>1
    <3> QED
      BY <1>3, <3>1, <3>2
  <2> QED
    BY <1>0, <1>7, <2>1, <2>2
<1> QED
  BY <1>0, <1>3, <1>6, <1>7


-----------------------------------------------------------------------------
(* The kernel's part in a step                                             *)

\* What send() on descriptors of the table changes.
LEMMA Sends ==
    ASSUME TypeOK, NEW F \in SUBSET Fd, NEW m \in Value \cup {"line", "ack"}, Send(F, m)
    PROVE  /\ peer' \in [Conn -> {"new", "open", "saved"} \cup Gone]
           /\ inbox' \in [Conn \cup {Server} -> Seq(Value \cup {"line", "ack"})]
           /\ ready \subseteq ready' /\ ready' \subseteq interest
           /\ \A s \in ready' : s \in ready \/ (s \in Conn /\ peer[s] \in Gone)
           /\ \A c \in Conn : /\ peer'[c] \in Gone <=> peer[c] \in Gone
                              /\ peer[c] \notin Gone => peer'[c] = peer[c]
                              /\ peer'[c] \notin Gone => peer'[c] = peer[c]
           /\ \A c \in Conn \cup {Server} :
                \/ inbox'[c] = inbox[c]
                \/ /\ inbox'[c] = Append(inbox[c], m)
                   /\ c \in Conn /\ peer[c] \notin Gone /\ \E f \in F : fdt[f] = c
<1> DEFINE to == {fdt[f] : f \in F} \ {None}
           answered == {c \in to : peer[c] = "fin"}
<1>1. /\ inbox' = [c \in DOMAIN inbox |-> IF c \in to /\ peer[c] \notin Gone
                                          THEN Append(inbox[c], m) ELSE inbox[c]]
      /\ peer' = [c \in Conn |-> IF c \in answered THEN "reset" ELSE peer[c]]
      /\ ready' = ready \cup (answered \cap interest)
  BY DEF Send
<1>2. /\ fdt \in [Fd -> Conn \cup {None}] /\ peer \in [Conn -> {"new", "open", "saved"} \cup Gone]
      /\ inbox \in [Conn \cup {Server} -> Seq(Value \cup {"line", "ack"})] /\ ready \subseteq interest
  BY DEF TypeOK
<1>3. to \subseteq Conn /\ \A c \in to : \E f \in F : fdt[f] = c
  BY <1>2
<1>4. answered \subseteq to /\ \A c \in answered : peer[c] \in Gone
  BY DEF Gone
<1>5. Server \notin to
  BY <1>3, TcpServerAssumption
<1> HIDE DEF to, answered
<1>6. peer' \in [Conn -> {"new", "open", "saved"} \cup Gone]
  BY <1>1, <1>2 DEF Gone
<1>7. \A c \in Conn : peer'[c] = IF c \in answered THEN "reset" ELSE peer[c]
  BY <1>1
<1>8. \A c \in Conn : /\ peer'[c] \in Gone <=> peer[c] \in Gone
                      /\ peer[c] \notin Gone => peer'[c] = peer[c]
                      /\ peer'[c] \notin Gone => peer'[c] = peer[c]
  BY <1>4, <1>7 DEF Gone
<1>9. \A c \in Conn \cup {Server} : inbox[c] \in Seq(Value \cup {"line", "ack"})
                                    /\ Append(inbox[c], m) \in Seq(Value \cup {"line", "ack"})
  BY <1>2
<1>10. inbox' \in [Conn \cup {Server} -> Seq(Value \cup {"line", "ack"})]
  BY <1>1, <1>2, <1>9
<1>11. \A c \in Conn \cup {Server} :
                \/ inbox'[c] = inbox[c]
                \/ /\ inbox'[c] = Append(inbox[c], m)
                   /\ c \in Conn /\ peer[c] \notin Gone /\ \E f \in F : fdt[f] = c
  BY <1>1, <1>2, <1>3, <1>5
<1> QED
  BY <1>1, <1>2, <1>3, <1>4, <1>6, <1>8, <1>10, <1>11

\* The sources of events are told apart.
LEMMA Sources ==
    /\ Listener \in Source /\ Stdin \in Source /\ Listener # Stdin
    /\ \A c \in Conn : c \in Source /\ c # Listener /\ c # Stdin /\ c # None /\ c # Server
    /\ \A s \in Source : s \in Conn \/ s = Listener \/ s = Stdin
BY TcpServerAssumption DEF Source

\* What an arrival changes.
LEMMA Arrives ==
    ASSUME TypeOK, NEW s \in Source, NEW q, Arrive(s, q)
    PROVE  /\ rx'[s] = q /\ \A t \in Source : t # s => rx'[t] = rx[t]
           /\ q \in Seq(Conn \cup Item \cup {"line"}) => rx' \in [Source -> Seq(Conn \cup Item \cup {"line"})]
           /\ ready \subseteq ready' /\ ready' \subseteq interest
           /\ \A t \in ready' : t \in ready \/ t = s
           /\ UNCHANGED <<queueVars, epollVars, listVars, ep, pm, inbox, proc, stale>>
BY DEF Arrive, TypeOK, Edge

\* The node of an event is that of its connection.
LEMMA Receives ==
    ASSUME TypeOK, TableInv, NEW c \in Conn, NEW i, Recv(c, i)
    PROVE  /\ ep = None /\ c \in events /\ c \in interest /\ c \in Range(list)
           /\ events' = events \ {c} /\ fd[c] \in Fd /\ fdt[fd[c]] = c
           /\ \A p \in NodeOfFd(fd[c]) : p \in DOMAIN list /\ list[p] = c
           /\ rx[c] \in Seq(Item) /\ rx[c] # << >> /\ i = Head(rx[c])
           /\ rx'[c] = Tail(rx[c]) /\ \A t \in Source : t # c => rx'[t] = rx[t]
           /\ rx' \in [Source -> Seq(Conn \cup Item \cup {"line"})]
<1>1. /\ ep = None /\ c \in events /\ events' = events \ {c} /\ rx[c] # << >> /\ i = Head(rx[c])
      /\ rx' = [rx EXCEPT ![c] = Tail(rx[c])]
  BY DEF Recv, Event
<1>2. c \in interest /\ c \in Range(list)
  BY <1>1 DEF TypeOK, TableInv
<1>3. fd[c] \in Fd /\ fdt[fd[c]] = c
  BY <1>2 DEF TableInv
<1>4. ASSUME NEW p \in NodeOfFd(fd[c]) PROVE p \in DOMAIN list /\ list[p] = c
  <2>1. p \in DOMAIN list /\ fd[list[p]] = fd[c]
    BY <1>4 DEF NodeOfFd
  <2>2. list[p] \in Range(list) /\ list[p] \in Conn
    BY <2>1 DEF Range, TypeOK
  <2>3. fdt[fd[c]] = list[p]
    BY <1>3, <2>1, <2>2 DEF TableInv
  <2> QED
    BY <1>3, <2>1, <2>3
<1>5. rx[c] \in Seq(Item) /\ Tail(rx[c]) \in Seq(Conn \cup Item \cup {"line"})
  <2>1. rx[c] \in Seq(Item) /\ rx[c] \in Seq(Conn \cup Item \cup {"line"})
    BY Sources DEF TypeOK
  <2> QED
    BY <1>1, <2>1, Heads
<1>6. rx \in [Source -> Seq(Conn \cup Item \cup {"line"})] /\ c \in Source
  BY Sources DEF TypeOK
<1> QED
  BY <1>1, <1>2, <1>3, <1>4, <1>5, <1>6

-----------------------------------------------------------------------------
(* Types                                                                   *)

NetType ==
    /\ peer \in [Conn -> {"new", "open", "saved"} \cup Gone]
    /\ rx \in [Source -> Seq(Conn \cup Item \cup {"line"})]
    /\ rx[Listener] \in Seq(Conn) /\ \A c \in Conn : rx[c] \in Seq(Item)
    /\ inbox \in [Conn \cup {Server} -> Seq(Value \cup {"line", "ack"})]
    /\ sent \in Seq(Value)

TableType ==
    /\ fdt \in [Fd -> Conn \cup {None}]
    /\ ready \subseteq interest /\ events \subseteq interest /\ interest \subseteq Source
    /\ list \in Seq(Conn) /\ cliEndid \in [Conn -> Conn \cup {Server}] /\ fd \in [Conn -> Fd \cup {0}]

PmType == [pc : Walking \cup {"idle", "clear", "end", "show", "write", "load", "send", "log"},
           at : Conn \cup {None}, src : Conn \cup {None}, dst : Conn \cup {None}, fd : Fd \cup {0}]

PipeType ==
    /\ ep \in Value \cup {None}
    /\ items \in Seq(Element) /\ pending \in Seq(Element) /\ got \in Element
    /\ pm \in PmType
    /\ proc \in {"up", "crashed", "undefined"}

LEMMA TypeParts == TypeOK <=> NetType /\ TableType /\ PipeType
BY DEF TypeOK, NetType, TableType, PipeType, PmType

LEMMA TypePartsNext == TypeOK' <=> NetType' /\ TableType' /\ PipeType'
BY DEF TypeOK, NetType, TableType, PipeType, PmType

\* The descriptors send() is given are in the table.
LEMMA SendsTo ==
    ASSUME TypeOK, TableInv
    PROVE  /\ {fd[c] : c \in Range(list)} \in SUBSET Fd
           /\ \A c \in Conn : \A i : Recv(c, i) => {fd[c]} \in SUBSET Fd
           /\ pm.pc = "send" => {pm.fd} \in SUBSET Fd
<1>1. \A c \in Range(list) : fd[c] \in Fd
  BY DEF TableInv
<1>2. \A c \in Conn : \A i : Recv(c, i) => c \in Range(list)
  BY DEF TypeOK, TableInv, Recv, Event
<1> QED
  BY <1>1, <1>2 DEF TableInv

\* What arrives is an item for its source.
LEMMA ArrivesTyped ==
    ASSUME TypeOK, NEW s \in Source, NEW q, Arrive(s, q), q \in Seq(Conn \cup Item \cup {"line"}),
           s = Listener => q \in Seq(Conn), s \in Conn => q \in Seq(Item),
           peer' \in [Conn -> {"new", "open", "saved"} \cup Gone], sent' \in Seq(Value)
    PROVE  NetType'
<1>1. /\ rx' \in [Source -> Seq(Conn \cup Item \cup {"line"})]
      /\ rx'[s] = q /\ \A t \in Source : t # s => rx'[t] = rx[t]
      /\ inbox' = inbox
  BY Arrives
<1>2. /\ rx[Listener] \in Seq(Conn) /\ \A c \in Conn : rx[c] \in Seq(Item)
      /\ inbox \in [Conn \cup {Server} -> Seq(Value \cup {"line", "ack"})]
  BY DEF TypeOK
<1>3. rx'[Listener] \in Seq(Conn) /\ \A c \in Conn : rx'[c] \in Seq(Item)
  BY <1>1, <1>2, Sources
<1> QED
  BY <1>1, <1>2, <1>3 DEF NetType

LEMMA NetTypeStep ==
    ASSUME TypeOK, TableInv, PipeInv, Next
    PROVE  NetType'
<1> DEFINE Content == Conn \cup Item \cup {"line"}
<1>0. /\ NetType /\ rx[Listener] \in Seq(Conn) /\ rx[Listener] \in Seq(Content) /\ rx[Stdin] \in Seq(Content)
      /\ \A c \in Conn : rx[c] \in Seq(Item) /\ rx[c] \in Seq(Content)
      /\ peer \in [Conn -> {"new", "open", "saved"} \cup Gone] /\ sent \in Seq(Value)
  BY TypeParts, Sources DEF NetType
<1>1. ASSUME NEW c \in Conn, Connect(c) PROVE NetType'
  <2>1. Append(rx[Listener], c) \in Seq(Conn) /\ Append(rx[Listener], c) \in Seq(Content)
    BY <1>0
  <2>2. peer' \in [Conn -> {"new", "open", "saved"} \cup Gone] /\ sent' = sent
        /\ Arrive(Listener, Append(rx[Listener], c))
    BY <1>0, <1>1 DEF Connect, netVars
  <2> QED
    BY <1>0, <2>1, <2>2, ArrivesTyped, Sources
<1>2. ASSUME NEW c \in Conn, ClientSave(c) PROVE NetType'
  <2>0. "SAVE_CLI_INFO" \in Item /\ "SAVE_CLI_INFO" \in Content
    BY DEF Item
  <2>1. Append(rx[c], "SAVE_CLI_INFO") \in Seq(Item) /\ Append(rx[c], "SAVE_CLI_INFO") \in Seq(Content)
    BY <1>0, <2>0
  <2>2. peer' \in [Conn -> {"new", "open", "saved"} \cup Gone] /\ sent' = sent
        /\ Arrive(c, Append(rx[c], "SAVE_CLI_INFO"))
    BY <1>0, <1>2 DEF ClientSave, netVars
  <2> QED
    BY <1>0, <2>1, <2>2, ArrivesTyped, Sources
<1>3. ASSUME NEW c \in Conn, NEW how \in {"fin", "rst"}, ClientClose(c, how) PROVE NetType'
  <2>0. {"RST", "EOF"} \subseteq Item /\ {"RST", "EOF"} \subseteq Content
    BY DEF Item
  <2>1. /\ Append(rx[c], "EOF") \in Seq(Item) /\ Append(rx[c], "EOF") \in Seq(Content)
        /\ rx[c] \o <<"RST", "EOF">> \in Seq(Item) /\ rx[c] \o <<"RST", "EOF">> \in Seq(Content)
    BY <1>0, <2>0
  <2>2. peer' \in [Conn -> {"new", "open", "saved"} \cup Gone] /\ sent' = sent
        /\ (Arrive(c, Append(rx[c], "EOF")) \/ Arrive(c, rx[c] \o <<"RST", "EOF">>))
    BY <1>0, <1>3 DEF ClientClose, netVars, Gone
  <2>3. CASE Arrive(c, Append(rx[c], "EOF"))
    BY <1>0, <2>1, <2>2, <2>3, ArrivesTyped, Sources
  <2>4. CASE Arrive(c, rx[c] \o <<"RST", "EOF">>)
    BY <1>0, <2>1, <2>2, <2>4, ArrivesTyped, Sources
  <2> QED
    BY <2>2, <2>3, <2>4
<1>4. ASSUME NEW m \in Value, ClientSend(m) PROVE NetType'
  <2>0. Via[m] \in Conn /\ m \in Item /\ m \in Content
    BY TcpServerAssumption DEF Item
  <2>1. Append(rx[Via[m]], m) \in Seq(Item) /\ Append(rx[Via[m]], m) \in Seq(Content)
    BY <1>0, <2>0
  <2>2. peer' = peer /\ sent' = Append(sent, m) /\ Arrive(Via[m], Append(rx[Via[m]], m))
    BY <1>4 DEF ClientSend
  <2>3. sent' \in Seq(Value)
    BY <1>0, <2>2
  <2> QED
    BY <1>0, <2>0, <2>1, <2>2, <2>3, ArrivesTyped, Sources
<1>5. CASE StdinInput
  <2>1. Append(rx[Stdin], "line") \in Seq(Content)
    BY <1>0
  <2>2. peer' = peer /\ sent' = sent /\ Arrive(Stdin, Append(rx[Stdin], "line"))
    BY <1>5 DEF StdinInput
  <2> QED
    BY <1>0, <2>1, <2>2, ArrivesTyped, Sources
<1>6. CASE AcceptNewClient
  <2>1. rx' = [rx EXCEPT ![Listener] = Tail(rx[Listener])] /\ rx[Listener] # << >>
        /\ UNCHANGED <<peer, inbox, sent>>
    BY <1>6 DEF AcceptNewClient, netVars
  <2>2. Tail(rx[Listener]) \in Seq(Conn) /\ Tail(rx[Listener]) \in Seq(Content)
    BY <1>0, <2>1, Heads
  <2> QED
    BY <1>0, <2>1, <2>2, Sources DEF NetType
<1>7. CASE BroadcastAllClient
  <2>1. rx' = [rx EXCEPT ![Stdin] = Tail(rx[Stdin])] /\ rx[Stdin] # << >> /\ sent' = sent
        /\ Send({fd[c] : c \in Range(list)}, "line")
    BY <1>7 DEF BroadcastAllClient, netVars
  <2>2. Tail(rx[Stdin]) \in Seq(Content)
    BY <1>0, <2>1, Heads
  <2>3. {fd[c] : c \in Range(list)} \in SUBSET Fd /\ "line" \in Value \cup {"line", "ack"}
    BY SendsTo
  <2>4. /\ peer' \in [Conn -> {"new", "open", "saved"} \cup Gone]
        /\ inbox' \in [Conn \cup {Server} -> Seq(Value \cup {"line", "ack"})]
    BY <2>1, <2>3, Sends
  <2> QED
    BY <1>0, <2>1, <2>2, <2>4, Sources DEF NetType
<1>8. ASSUME NEW c \in Conn, NEW i, Recv(c, i), UNCHANGED sent,
             /\ peer' \in [Conn -> {"new", "open", "saved"} \cup Gone]
             /\ inbox' \in [Conn \cup {Server} -> Seq(Value \cup {"line", "ack"})]
      PROVE  NetType'
  <2>1. /\ rx'[c] = Tail(rx[c]) /\ \A t \in Source : t # c => rx'[t] = rx[t]
        /\ rx' \in [Source -> Seq(Content)] /\ rx[c] # << >>
    BY <1>8, Receives
  <2>2. rx'[c] \in Seq(Item)
    BY <1>0, <2>1, Heads
  <2> QED
    BY <1>0, <1>8, <2>1, <2>2, Sources DEF NetType
<1>9. ASSUME NEW c \in Conn, RecvSave(c) PROVE NetType'
  <2>1. Recv(c, "SAVE_CLI_INFO") /\ Send({fd[c]}, "ack") /\ sent' = sent
    BY <1>9 DEF RecvSave, netVars
  <2>2. {fd[c]} \in SUBSET Fd /\ "ack" \in Value \cup {"line", "ack"}
    BY <2>1, SendsTo
  <2>3. /\ peer' \in [Conn -> {"new", "open", "saved"} \cup Gone]
        /\ inbox' \in [Conn \cup {Server} -> Seq(Value \cup {"line", "ack"})]
    BY <2>1, <2>2, Sends
  <2> QED
    BY <1>8, <2>1, <2>3
<1>10. ASSUME NEW c \in Conn, RecvEnd(c) \/ RecvError(c) \/ \E m \in Value : RecvMsg(c, m) PROVE NetType'
  <2>1. (\E i : Recv(c, i)) /\ UNCHANGED <<sent, peer, inbox>>
    BY <1>10 DEF RecvEnd, RecvError, RecvMsg, netVars
  <2> QED
    BY <1>0, <1>8, <2>1 DEF NetType
<1>11. CASE Write
  <2>1. inbox' = [inbox EXCEPT ![Server] = Append(inbox[Server], got)] /\ UNCHANGED <<peer, rx, sent>>
        /\ pm.pc = "write"
    BY <1>11 DEF Write, PmUnchanged, netVars
  <2>2. got \in Value
    BY <2>1 DEF PipeInv
  <2> QED
    BY <1>0, <2>1, <2>2 DEF NetType
<1>12. CASE SendMsg
  <2>1. Send({pm.fd}, got) /\ UNCHANGED <<rx, sent>> /\ pm.pc = "send"
    BY <1>12 DEF SendMsg, netVars
  <2>2. {pm.fd} \in SUBSET Fd /\ got \in Value \cup {"line", "ack"}
    BY <2>1, SendsTo DEF PipeInv
  <2>3. /\ peer' \in [Conn -> {"new", "open", "saved"} \cup Gone]
        /\ inbox' \in [Conn \cup {Server} -> Seq(Value \cup {"line", "ack"})]
    BY <2>1, <2>2, Sends
  <2> QED
    BY <1>0, <2>1, <2>3 DEF NetType
<1>13. ASSUME \/ EpollWait \/ AcceptError \/ PutCopy \/ PutEnd \/ PmGet \/ PmClear \/ PmEndGet \/ WalkOn
              \/ WalkLost \/ WalkEnd \/ Show \/ LoadFd \/ Log
       PROVE  NetType'
  <2>1. UNCHANGED <<peer, rx, inbox, sent>>
    BY <1>13 DEF EpollWait, AcceptError, PutCopy, PutEnd, PmGet, PmClear, PmEndGet, WalkOn, WalkLost, WalkEnd,
              Show, LoadFd, Log, Quiet, PmUnchanged, netVars
  <2> QED
    BY <1>0, <2>1 DEF NetType
<1> QED
  BY <1>1, <1>2, <1>3, <1>4, <1>5, <1>6, <1>7, <1>9, <1>10, <1>11, <1>12, <1>13 DEF Next, Environment, SrvEp, SrvProMsg

LEMMA TableTypeStep ==
    ASSUME TypeOK, TableInv, PipeInv, Next
    PROVE  TableType'
<1>0. TableType
  BY TypeParts
<1>1. ASSUME NEW s \in Source, NEW q, Arrive(s, q) PROVE TableType'
  <2>1. UNCHANGED <<fdt, interest, events, list, cliEndid, fd>> /\ ready' \subseteq interest
    BY <1>1, Arrives DEF epollVars, listVars
  <2> QED
    BY <1>0, <2>1 DEF TableType
<1>2. ASSUME Environment PROVE TableType'
  <2>1. \E s \in Source : \E q : Arrive(s, q)
    <3>1. \A m \in Value : Via[m] \in Conn
      BY TcpServerAssumption
    <3> QED
      BY <1>2, <3>1, Sources DEF Environment, Connect, ClientSave, ClientClose, ClientSend, StdinInput
  <2> QED
    BY <1>1, <2>1
<1>3. CASE EpollWait
  BY <1>0, <1>3 DEF EpollWait, TableType, listVars
<1>4. CASE AcceptNewClient
  <2>1. PICK f \in Fd :
          /\ fdt' = [fdt EXCEPT ![f] = Head(rx[Listener])]
          /\ fd' = [fd EXCEPT ![Head(rx[Listener])] = f]
          /\ list' = <<Head(rx[Listener])>> \o list
          /\ interest' = interest \cup {Head(rx[Listener])}
          /\ ready' \subseteq ready \cup {Head(rx[Listener])}
    BY <1>4 DEF AcceptNewClient
  <2>2. events' \subseteq events /\ cliEndid' = cliEndid /\ rx[Listener] # << >>
    BY <1>4 DEF AcceptNewClient, Event
  <2>3. Head(rx[Listener]) \in Conn
    BY <2>2, Heads DEF TypeOK
  <2>4. list' \in Seq(Conn)
    BY <1>0, <2>1, <2>3, Pushed DEF TableType
  <2> QED
    BY <1>0, <2>1, <2>2, <2>3, <2>4, Sources DEF TableType
<1>5. CASE AcceptError
  BY <1>0, <1>5 DEF AcceptError, Event, TableType, listVars
<1>6. CASE BroadcastAllClient
  <2>1. Send({fd[c] : c \in Range(list)}, "line") /\ UNCHANGED <<fdt, interest, list, cliEndid, fd>>
        /\ events' \subseteq events
    BY <1>6 DEF BroadcastAllClient, Event, listVars
  <2>2. {fd[c] : c \in Range(list)} \in SUBSET Fd /\ "line" \in Value \cup {"line", "ack"}
    BY SendsTo
  <2>3. ready' \subseteq interest
    BY <2>1, <2>2, Sends
  <2> QED
    BY <1>0, <2>1, <2>3 DEF TableType
<1>7. ASSUME NEW c \in Conn, RecvEnd(c) PROVE TableType'
  <2>1. PICK p \in NodeOfFd(fd[c]) : list' = RemoveAt(list, p)
    BY <1>7 DEF RecvEnd
  <2>2. p \in DOMAIN list /\ c \in events /\ events' = events \ {c}
    BY <1>7, <2>1, Receives DEF RecvEnd
  <2>3. list' \in Seq(Conn)
    BY <1>0, <2>1, <2>2, Removed DEF TableType
  <2> QED
    BY <1>0, <1>7, <2>2, <2>3 DEF RecvEnd, TableType
<1>8. ASSUME NEW c \in Conn, RecvError(c) \/ \E m \in Value : RecvMsg(c, m) PROVE TableType'
  BY <1>0, <1>8 DEF RecvError, RecvMsg, Recv, Event, TableType, listVars
<1>9. ASSUME NEW c \in Conn, RecvSave(c) PROVE TableType'
  <2>1. /\ Recv(c, "SAVE_CLI_INFO") /\ Send({fd[c]}, "ack") /\ UNCHANGED <<fdt, interest, list, fd>>
        /\ \E p \in NodeOfFd(fd[c]) : cliEndid' = [cliEndid EXCEPT ![list[p]] = c]
    BY <1>9 DEF RecvSave
  <2>2. {fd[c]} \in SUBSET Fd /\ "ack" \in Value \cup {"line", "ack"}
    BY <2>1, SendsTo
  <2>3. ready' \subseteq interest
    BY <2>1, <2>2, Sends
  <2>4. events' \subseteq events
    BY <2>1 DEF Recv, Event
  <2> QED
    BY <1>0, <2>1, <2>3, <2>4 DEF TableType
<1>10. CASE SendMsg
  <2>1. Send({pm.fd}, got) /\ UNCHANGED <<epollVars, listVars>> /\ pm.pc = "send"
    BY <1>10 DEF SendMsg
  <2>2. {pm.fd} \in SUBSET Fd /\ got \in Value \cup {"line", "ack"}
    BY <2>1, SendsTo DEF PipeInv
  <2>3. ready' \subseteq interest
    BY <2>1, <2>2, Sends
  <2> QED
    BY <1>0, <2>1, <2>3 DEF TableType, epollVars, listVars
<1>11. ASSUME \/ PutCopy \/ PutEnd \/ PmGet \/ PmClear \/ PmEndGet \/ WalkOn
              \/ WalkLost \/ WalkEnd \/ Show \/ LoadFd \/ Log \/ Write
       PROVE  TableType'
  <2>1. UNCHANGED <<ready, epollVars, listVars>>
    BY <1>11 DEF PutCopy, PutEnd, PmGet, PmClear, PmEndGet, WalkOn, WalkLost, WalkEnd,
              Show, LoadFd, Log, Write, Quiet, PmUnchanged
  <2> QED
    BY <1>0, <2>1 DEF TableType, epollVars, listVars
<1> QED
  BY <1>2, <1>3, <1>4, <1>5, <1>6, <1>7, <1>8, <1>9, <1>10, <1>11 DEF Next, SrvEp, SrvProMsg

\* The nodes a walk comes to are in the list.
LEMMA Nodes ==
    ASSUME TypeOK
    PROVE  /\ First \in Conn \cup {None}
           /\ \A c \in Conn : Contains(list, c) => After(c) \in Conn \cup {None}
<1>0. list \in Seq(Conn)
  BY DEF TypeOK
<1>1. First \in Conn \cup {None}
  BY <1>0, Heads DEF First
<1>2. ASSUME NEW c \in Conn, Contains(list, c) PROVE After(c) \in Conn \cup {None}
  <2> DEFINE i == CHOOSE j \in DOMAIN list : list[j] = c
  <2>1. \E j \in DOMAIN list : list[j] = c
    BY <1>2 DEF Contains
  <2>2. i \in DOMAIN list
    BY <2>1
  <2>3. After(c) = IF i = Len(list) THEN None ELSE list[i + 1]
    BY DEF After
  <2> HIDE DEF i
  <2>4. CASE i # Len(list)
    <3>1. i + 1 \in 1..Len(list)
      BY <1>0, <2>2, <2>4
    <3> QED
      BY <1>0, <2>3, <2>4, <3>1
  <2> QED
    BY <2>3, <2>4
<1> QED
  BY <1>1, <1>2

\* The fields of SrvProMsg's record, and what their changes leave alone.
LEMMA PmFields ==
    ASSUME TypeOK
    PROVE  /\ pm \in PmType
           /\ pm.pc \in Walking \cup {"idle", "clear", "end", "show", "write", "load", "send", "log"}
           /\ pm.at \in Conn \cup {None} /\ pm.src \in Conn \cup {None} /\ pm.dst \in Conn \cup {None}
           /\ pm.fd \in Fd \cup {0}
BY DEF TypeOK, PmType

LEMMA PmTypeStep ==
    ASSUME TypeOK, PipeInv, Next
    PROVE  pm' \in PmType /\ proc' \in {"up", "crashed", "undefined"}
<1>0. /\ pm \in PmType /\ pm.at \in Conn \cup {None} /\ First \in Conn \cup {None}
      /\ pm.dst \in Conn \cup {None} /\ pm.src \in Conn \cup {None}
      /\ proc \in {"up", "crashed", "undefined"} /\ Idle \in PmType
  BY PmFields, Nodes DEF TypeOK, Idle, PmType
<1> DEFINE Ok == pm' \in PmType /\ proc' \in {"up", "crashed", "undefined"}
<1>1. ASSUME Environment \/ SrvEp PROVE UNCHANGED <<pm, proc>>
  BY <1>1 DEF Environment, SrvEp, Connect, ClientSave, ClientClose, ClientSend, StdinInput, Arrive, EpollWait,
      AcceptNewClient, AcceptError, BroadcastAllClient, PutCopy, PutEnd, RecvEnd, RecvError, RecvSave, RecvMsg
<1>2. CASE PmGet
  BY <1>0, <1>2 DEF PmGet, PmType
<1>3. CASE PmClear
  BY <1>0, <1>3 DEF PmClear, PmType
<1>4. CASE PmEndGet
  BY <1>0, <1>4, ZenonT(60) DEF PmEndGet, Walk, PmType, Walking
<1>5. CASE WalkOn
  <2>1. pm.at \in Conn /\ Contains(list, pm.at)
    BY <1>0, <1>5, TcpServerAssumption DEF WalkOn, Contains, TypeOK
  <2>2. After(pm.at) \in Conn \cup {None}
    BY <2>1, Nodes
  <2> QED
    BY <1>0, <1>5, <2>2 DEF WalkOn, PmType
<1>6. CASE WalkLost
  BY <1>0, <1>6 DEF WalkLost
<1>7. CASE WalkEnd
  BY <1>0, <1>7 DEF WalkEnd, PmType, Walking
<1>8. CASE Show
  BY <1>0, <1>8 DEF Show, Deref, Walk, PmType, Walking
<1>9. CASE Write \/ SendMsg
  BY <1>0, <1>9 DEF Write, SendMsg, PmType
<1>10. CASE LoadFd
  <2>1. \/ UNCHANGED pm /\ proc' \in {"crashed", "undefined"}
        \/ pm.dst # None /\ pm' = [pm EXCEPT !.pc = "send", !.fd = fd[pm.dst]] /\ UNCHANGED proc
    BY <1>10 DEF LoadFd, Deref
  <2>2. pm.dst # None => fd[pm.dst] \in Fd \cup {0}
    BY <1>0 DEF TypeOK
  <2> QED
    BY <1>0, <2>1, <2>2 DEF PmType
<1>11. CASE Log
  BY <1>0, <1>11 DEF Log, Deref
<1> QED
  BY <1>0, <1>1, <1>2, <1>3, <1>4, <1>5, <1>6, <1>7, <1>8, <1>9, <1>10, <1>11 DEF Next, SrvProMsg

\* What the operations of the queue do to what is in it.
LEMMA QueueSteps ==
    /\ BeginPut => pending = << >> /\ items' = items /\ pending' = pending /\ got' = got
    /\ Fill(ep) => (pending' = <<ep>> \/ pending' = <<Junk>>) /\ items' = items /\ got' = got
    /\ EndPut => pending # << >> /\ items' = items \o pending /\ pending' = << >> /\ got' = got
    /\ Get => items # << >> /\ got' = Head(items) /\ items' = Tail(items) /\ pending' = pending
    /\ Clear => items' = items /\ pending' = pending /\ got' = got
    /\ EndGet => items' = items /\ pending' = pending /\ got' = got
<1>1. BeginPut => pending = << >> /\ items' = items /\ pending' = pending /\ got' = got
  BY Zenon DEF BeginPut
<1>2. Fill(ep) => (pending' = <<ep>> \/ pending' = <<Junk>>) /\ items' = items /\ got' = got
  BY Zenon DEF Fill
<1>3. EndPut => pending # << >> /\ items' = items \o pending /\ pending' = << >> /\ got' = got
  BY Zenon DEF EndPut
<1>4. Get => items # << >> /\ got' = Head(items) /\ items' = Tail(items) /\ pending' = pending
  BY Zenon DEF Get
<1>5. Clear => items' = items /\ pending' = pending /\ got' = got
  BY Zenon DEF Clear
<1>6. EndGet => items' = items /\ pending' = pending /\ got' = got
  BY Zenon DEF EndGet
<1> QED
  BY <1>1, <1>2, <1>3, <1>4, <1>5, <1>6, Zenon

LEMMA PipeTypeStep ==
    ASSUME TypeOK, PipeInv, Next
    PROVE  PipeType'
<1>0. /\ ep \in Value \cup {None}
      /\ items \in Seq(Element) /\ pending \in Seq(Element) /\ got \in Element
      /\ pm' \in PmType /\ proc' \in {"up", "crashed", "undefined"}
  BY PmTypeStep DEF TypeOK
<1> DEFINE Ok == /\ ep' \in Value \cup {None}
                 /\ items' \in Seq(Element) /\ pending' \in Seq(Element) /\ got' \in Element
<1>1. ASSUME \/ Environment \/ EpollWait \/ AcceptNewClient \/ AcceptError \/ BroadcastAllClient
             \/ (\E c \in Conn : RecvEnd(c) \/ RecvError(c) \/ RecvSave(c))
             \/ WalkOn \/ WalkLost \/ WalkEnd \/ Show \/ Write \/ LoadFd \/ SendMsg \/ Log
      PROVE  Ok
  <2>1. UNCHANGED <<ep, queueVars>>
    BY <1>1 DEF Environment, Connect, ClientSave, ClientClose, ClientSend, StdinInput, Arrive, EpollWait,
      AcceptNewClient, AcceptError, BroadcastAllClient, RecvEnd, RecvError, RecvSave,
      WalkOn, WalkLost, WalkEnd, Show, Write, LoadFd, SendMsg, Log, Quiet, PmUnchanged
  <2> QED
    BY <1>0, <2>1 DEF queueVars, fifoVars
<1>2. ASSUME NEW c \in Conn, NEW m \in Value, RecvMsg(c, m) PROVE Ok
  BY <1>0, <1>2, QueueSteps DEF RecvMsg
<1>3. ASSUME PutCopy PROVE Ok
  <2>1. ep \in Element /\ Junk \in Element
    BY <1>0, <1>3 DEF PutCopy, Element
  <2>2. <<ep>> \in Seq(Element) /\ <<Junk>> \in Seq(Element)
    BY <2>1
  <2> QED
    BY <1>0, <1>3, <2>2, QueueSteps DEF PutCopy
<1>4. ASSUME PutEnd PROVE Ok
  <2>1. items' = items \o pending /\ pending' = << >> /\ got' = got /\ ep' = None
    BY <1>4, QueueSteps, Zenon DEF PutEnd
  <2> QED
    BY <1>0, <2>1
<1>5. ASSUME PmGet PROVE Ok
  <2>1. items # << >> /\ got' = Head(items) /\ items' = Tail(items) /\ pending' = pending /\ ep' = ep
    BY <1>5, QueueSteps DEF PmGet, PmUnchanged
  <2> QED
    BY <1>0, <2>1, Heads
<1>6. ASSUME PmClear \/ PmEndGet PROVE Ok
  BY <1>0, <1>6, QueueSteps DEF PmClear, PmEndGet, PmUnchanged
<1>7. Ok
  BY <1>1, <1>2, <1>3, <1>4, <1>5, <1>6 DEF Next, SrvEp, SrvProMsg
<1> QED
  BY <1>0, <1>7 DEF PipeType

LEMMA TypeStep ==
    ASSUME TypeOK, TableInv, PipeInv, Next
    PROVE  TypeOK'
BY NetTypeStep, TableTypeStep, PipeTypeStep, TypePartsNext

-----------------------------------------------------------------------------
(* Connections are accepted once                                           *)

\* Clients and terminal act through an arrival.
LEMMA Arrivals == Environment => \E s \in Source : \E q : Arrive(s, q)
<1>1. \A m \in Value : Via[m] \in Conn
  BY TcpServerAssumption
<1> QED
  BY <1>1, Sources DEF Environment, Connect, ClientSave, ClientClose, ClientSend, StdinInput

\* The server's three uses of send().
LEMMA Sendings ==
    ASSUME TypeOK, TableInv, PipeInv,
           BroadcastAllClient \/ (\E c \in Conn : RecvSave(c)) \/ SendMsg
    PROVE  \E F \in SUBSET Fd, m \in Value \cup {"line", "ack"} : Send(F, m)
<1>1. CASE BroadcastAllClient
  BY <1>1, SendsTo DEF BroadcastAllClient
<1>2. ASSUME NEW c \in Conn, RecvSave(c) PROVE \E F \in SUBSET Fd, m \in Value \cup {"line", "ack"} : Send(F, m)
  BY <1>2, SendsTo DEF RecvSave
<1>3. CASE SendMsg
  <2>1. {pm.fd} \in SUBSET Fd /\ got \in Value
    BY <1>3, SendsTo DEF SendMsg, PipeInv
  <2> QED
    BY <1>3, <2>1 DEF SendMsg
<1> QED
  BY <1>1, <1>2, <1>3

\* The other steps of the server leave the network alone.
LEMMA Silent ==
    ASSUME SrvEp \/ SrvProMsg, ~BroadcastAllClient, ~SendMsg, \A c \in Conn : ~RecvSave(c)
    PROVE  peer' = peer
BY DEF SrvEp, SrvProMsg, EpollWait, AcceptNewClient, AcceptError, PutCopy, PutEnd, RecvEnd, RecvError, RecvMsg,
       PmGet, PmClear, PmEndGet, WalkOn, WalkLost, WalkEnd, Show, Write, LoadFd, Log, Quiet, PmUnchanged

\* The server does not change who is gone.
LEMMA Peers ==
    ASSUME TypeOK, TableInv, PipeInv, SrvEp \/ SrvProMsg
    PROVE  \A c \in Conn : /\ peer'[c] \in Gone <=> peer[c] \in Gone
                           /\ peer[c] \notin Gone => peer'[c] = peer[c]
                           /\ peer'[c] \notin Gone => peer'[c] = peer[c]
<1>1. CASE BroadcastAllClient \/ (\E c \in Conn : RecvSave(c)) \/ SendMsg
  BY <1>1, Sendings, Sends
<1>2. CASE ~(BroadcastAllClient \/ (\E c \in Conn : RecvSave(c)) \/ SendMsg)
  BY <1>2, Silent
<1> QED
  BY <1>1, <1>2

LEMMA AcceptStep ==
    ASSUME TypeOK, TableInv, PipeInv, AcceptInv, Next
    PROVE  AcceptInv'
<1>0. rx[Listener] \in Seq(Conn) /\ interest \subseteq Source
  BY DEF TypeOK
<1>1. ASSUME rx'[Listener] = rx[Listener], interest' \subseteq interest,
             \A c \in Conn : peer'[c] = "new" => peer[c] = "new"
      PROVE  AcceptInv'
  <2>1. \A p \in DOMAIN rx[Listener] : rx[Listener][p] \in Conn
    BY <1>0
  <2> QED
    BY <1>1, <2>1 DEF AcceptInv
<1>2. ASSUME NEW c \in Conn, Connect(c) PROVE AcceptInv'
  <2>1. /\ rx'[Listener] = Append(rx[Listener], c) /\ interest' = interest
        /\ peer' = [peer EXCEPT ![c] = "open"] /\ peer[c] = "new"
    BY <1>2, Arrives, Sources DEF Connect, epollVars
  <2>2. \A d \in Conn : peer'[d] = IF d = c THEN "open" ELSE peer[d]
    BY <2>1 DEF TypeOK
  <2>3. /\ \A p \in DOMAIN rx[Listener] : rx[Listener][p] # c /\ rx[Listener][p] \in Conn
        /\ c \notin interest
    BY <1>0, <2>1 DEF AcceptInv
  <2>4. \A p \in DOMAIN rx'[Listener] : \/ p \in DOMAIN rx[Listener] /\ rx'[Listener][p] = rx[Listener][p]
                                        \/ p = Len(rx[Listener]) + 1 /\ rx'[Listener][p] = c
    BY <1>0, <2>1, Appended
  <2> QED
    BY <2>1, <2>2, <2>3, <2>4 DEF AcceptInv
<1>3. ASSUME NEW s \in Source, NEW q, Arrive(s, q), s # Listener,
             \A c \in Conn : peer'[c] = "new" => peer[c] = "new"
      PROVE  AcceptInv'
  BY <1>1, <1>3, Arrives, Sources DEF epollVars
<1>4. ASSUME NEW c \in Conn, ClientSave(c) \/ \E how \in {"fin", "rst"} : ClientClose(c, how) PROVE AcceptInv'
  <2>1. \A d \in Conn : peer'[d] = "new" => peer[d] = "new"
    BY <1>4 DEF ClientSave, ClientClose, TypeOK
  <2>2. \E q : Arrive(c, q)
    BY <1>4 DEF ClientSave, ClientClose
  <2> QED
    BY <1>3, <2>1, <2>2, Sources
<1>5. ASSUME NEW m \in Value, ClientSend(m) PROVE AcceptInv'
  <2>1. Via[m] \in Conn /\ peer' = peer /\ \E q : Arrive(Via[m], q)
    BY <1>5, TcpServerAssumption DEF ClientSend
  <2> QED
    BY <1>3, <2>1, Sources
<1>6. CASE StdinInput
  <2>1. peer' = peer /\ \E q : Arrive(Stdin, q)
    BY <1>6 DEF StdinInput
  <2> QED
    BY <1>3, <2>1, Sources
<1>7. CASE AcceptNewClient
  <2>1. /\ rx'[Listener] = Tail(rx[Listener]) /\ rx[Listener] # << >>
        /\ interest' = interest \cup {Head(rx[Listener])} /\ peer' = peer
    BY <1>7, Sources DEF AcceptNewClient, TypeOK
  <2>2. /\ \A p \in DOMAIN rx'[Listener] :
             p + 1 \in DOMAIN rx[Listener] /\ rx'[Listener][p] = rx[Listener][p + 1] /\ p \in Nat \ {0}
        /\ Head(rx[Listener]) = rx[Listener][1] /\ 1 \in DOMAIN rx[Listener] /\ Head(rx[Listener]) \in Conn
    BY <1>0, <2>1, Heads
  <2>3. \A p, q \in DOMAIN rx'[Listener] : rx'[Listener][p] = rx'[Listener][q] => p = q
    <3> SUFFICES ASSUME NEW p \in DOMAIN rx'[Listener], NEW q \in DOMAIN rx'[Listener],
                        rx'[Listener][p] = rx'[Listener][q]
                 PROVE  p = q
      OBVIOUS
    <3>1. p + 1 = q + 1 /\ p \in Nat /\ q \in Nat
      BY <2>2 DEF AcceptInv
    <3> QED
      BY <3>1
  <2>4. ASSUME NEW p \in DOMAIN rx'[Listener] PROVE rx'[Listener][p] # Head(rx[Listener])
    <3>1. p + 1 # 1 /\ p + 1 \in DOMAIN rx[Listener]
      BY <2>2
    <3> QED
      BY <2>2, <3>1 DEF AcceptInv
  <2> QED
    BY <2>1, <2>2, <2>3, <2>4 DEF AcceptInv
<1>8. ASSUME SrvEp \/ SrvProMsg, ~AcceptNewClient PROVE AcceptInv'
  <2>1. \A c \in Conn : peer'[c] = "new" => peer[c] = "new"
    BY <1>8, Peers DEF Gone
  <2>2. rx'[Listener] = rx[Listener]
    <3>1. ASSUME NEW c \in Conn, NEW i, Recv(c, i) PROVE rx'[Listener] = rx[Listener]
      BY <3>1, Receives, Sources
    <3>2. CASE \E c \in Conn : RecvEnd(c) \/ RecvError(c) \/ RecvSave(c) \/ \E m \in Value : RecvMsg(c, m)
      BY <3>1, <3>2 DEF RecvEnd, RecvError, RecvSave, RecvMsg
    <3>3. CASE BroadcastAllClient
      BY <3>3, Sources DEF BroadcastAllClient, TypeOK
    <3>4. CASE EpollWait \/ AcceptError \/ PutCopy \/ PutEnd
      BY <3>4 DEF EpollWait, AcceptError, PutCopy, PutEnd
    <3>5. CASE SrvProMsg
      BY <3>5 DEF SrvProMsg, PmGet, PmClear, PmEndGet, WalkOn, WalkLost, WalkEnd, Show, Write, LoadFd, SendMsg,
                  Log, Quiet, PmUnchanged
    <3> QED
      BY <1>8, <3>2, <3>3, <3>4, <3>5 DEF SrvEp
  <2>3. interest' \subseteq interest
    BY <1>8 DEF SrvEp, SrvProMsg, EpollWait, AcceptError, BroadcastAllClient, PutCopy, PutEnd, RecvEnd, RecvError,
         RecvSave, RecvMsg, PmGet, PmClear, PmEndGet, WalkOn, WalkLost, WalkEnd, Show, Write, LoadFd, SendMsg,
         Log, Quiet, PmUnchanged, epollVars
  <2> QED
    BY <1>1, <2>1, <2>2, <2>3
<1> QED
  BY <1>2, <1>4, <1>5, <1>6, <1>7, <1>8 DEF Next, Environment

-----------------------------------------------------------------------------
(* List, epoll set and descriptor table                                    *)

\* What TableInv says of the list and the tables, without SrvProMsg.
Tables ==
    /\ \A p, q \in DOMAIN list : list[p] = list[q] => p = q
    /\ IsFiniteSet(Range(list)) /\ Cardinality(Range(list)) = Len(list)
    /\ Range(list) = interest \cap Conn
    /\ \A f \in Fd : \A c \in Conn : fdt[f] = c <=> c \in Range(list) /\ fd[c] = f
    /\ \A c \in Range(list) : fd[c] \in Fd

LEMMA AcceptTables ==
    ASSUME TypeOK, TableInv, AcceptInv, AcceptNewClient
    PROVE  Tables'
<1> DEFINE c == Head(rx[Listener])
<1>1. PICK f \in Fd : /\ fdt[f] = None /\ fdt' = [fdt EXCEPT ![f] = c] /\ fd' = [fd EXCEPT ![c] = f]
                      /\ list' = <<c>> \o list /\ interest' = interest \cup {c}
  BY DEF AcceptNewClient
<1>2. /\ list \in Seq(Conn) /\ fdt \in [Fd -> Conn \cup {None}] /\ fd \in [Conn -> Fd \cup {0}]
      /\ rx[Listener] \in Seq(Conn) /\ rx[Listener] # << >>
  BY DEF TypeOK, AcceptNewClient
<1>3. c \in Conn /\ c \notin interest /\ c # None
  BY <1>2, Heads, Sources DEF AcceptInv
<1> HIDE DEF c
<1>4. c \notin Range(list) /\ \A p \in DOMAIN list : list[p] # c
  BY <1>3 DEF TableInv, Range
<1>5. /\ Len(list') = Len(list) + 1 /\ Len(list) \in Nat
      /\ 1 \in DOMAIN list' /\ list'[1] = c
      /\ \A p \in DOMAIN list : p + 1 \in DOMAIN list' /\ list'[p + 1] = list[p] /\ p \in Nat \ {0}
      /\ \A p \in DOMAIN list' : p = 1 \/ (p - 1 \in DOMAIN list /\ list'[p] = list[p - 1] /\ p \in Nat \ {0})
  BY <1>1, <1>2, <1>3, Pushed
<1>6. Range(list') = Range(list) \cup {c}
  <2>1. ASSUME NEW d \in Range(list') PROVE d \in Range(list) \cup {c}
    <3>1. PICK p \in DOMAIN list' : list'[p] = d
      BY <2>1 DEF Range
    <3> QED
      BY <1>5, <3>1 DEF Range
  <2>2. ASSUME NEW d \in Range(list) PROVE d \in Range(list')
    <3>1. PICK p \in DOMAIN list : list[p] = d
      BY <2>2 DEF Range
    <3>2. p + 1 \in DOMAIN list' /\ list'[p + 1] = d
      BY <1>5, <3>1
    <3> QED
      BY <3>2 DEF Range
  <2>3. c \in Range(list')
    BY <1>5 DEF Range
  <2> QED
    BY <2>1, <2>2, <2>3
<1>7. ASSUME NEW p \in DOMAIN list', NEW q \in DOMAIN list', list'[p] = list'[q] PROVE p = q
  <2>1. CASE p = 1
    BY <1>4, <1>5, <1>7, <2>1
  <2>2. CASE q = 1
    BY <1>4, <1>5, <1>7, <2>2
  <2>3. CASE p # 1 /\ q # 1
    <3>1. p - 1 \in DOMAIN list /\ q - 1 \in DOMAIN list /\ list[p - 1] = list[q - 1] /\ p \in Nat /\ q \in Nat
      BY <1>5, <1>7, <2>3
    <3>2. p - 1 = q - 1
      BY <3>1 DEF TableInv
    <3> QED
      BY <3>1, <3>2
  <2> QED
    BY <2>1, <2>2, <2>3
<1>8. IsFiniteSet(Range(list')) /\ Cardinality(Range(list')) = Len(list')
  <2>1. IsFiniteSet(Range(list)) /\ Cardinality(Range(list)) = Len(list)
    BY DEF TableInv
  <2>2. /\ IsFiniteSet(Range(list) \cup {c})
        /\ Cardinality(Range(list) \cup {c}) = Cardinality(Range(list)) + 1
    BY <1>4, <2>1, FS_AddElement
  <2> QED
    BY <1>5, <1>6, <2>1, <2>2
<1>9. Range(list') = interest' \cap Conn
  BY <1>1, <1>3, <1>6 DEF TableInv
<1>10. ASSUME NEW g \in Fd, NEW d \in Conn PROVE fdt'[g] = d <=> d \in Range(list') /\ fd'[d] = g
  <2>1. fdt'[g] = IF g = f THEN c ELSE fdt[g]
    BY <1>1, <1>2
  <2>2. fd'[d] = IF d = c THEN f ELSE fd[d]
    BY <1>1, <1>2
  <2>3. fdt[g] = d <=> d \in Range(list) /\ fd[d] = g
    BY DEF TableInv
  <2>4. d # None
    BY Sources
  <2> QED
    BY <1>1, <1>4, <1>6, <2>1, <2>2, <2>3, <2>4
<1>11. ASSUME NEW d \in Range(list') PROVE fd'[d] \in Fd
  <2>1. d \in Conn
    BY <1>9, <1>11
  <2>2. fd'[d] = IF d = c THEN f ELSE fd[d]
    BY <1>1, <1>2, <2>1
  <2> QED
    BY <1>6, <1>11, <2>2 DEF TableInv
<1> QED
  BY <1>7, <1>8, <1>9, <1>10, <1>11 DEF Tables

LEMMA EndTables ==
    ASSUME TypeOK, TableInv, NEW c \in Conn, RecvEnd(c)
    PROVE  Tables' /\ Range(list') = Range(list) \ {c}
<1>1. Recv(c, "EOF") /\ fdt' = [fdt EXCEPT ![fd[c]] = None] /\ interest' = interest \ {c} /\ fd' = fd
  BY DEF RecvEnd
<1>2. PICK p \in NodeOfFd(fd[c]) : list' = RemoveAt(list, p)
  BY DEF RecvEnd
<1>3. /\ list \in Seq(Conn) /\ fdt \in [Fd -> Conn \cup {None}] /\ fd \in [Conn -> Fd \cup {0}]
  BY DEF TypeOK
<1>4. p \in DOMAIN list /\ list[p] = c /\ c \in Range(list) /\ fd[c] \in Fd /\ fdt[fd[c]] = c /\ c # None
  BY <1>1, <1>2, Receives, Sources
<1>5. /\ Len(list') = Len(list) - 1 /\ Len(list) \in Nat \ {0}
      /\ \A q \in DOMAIN list' :
            \/ q \in DOMAIN list /\ q < p /\ list'[q] = list[q]
            \/ q + 1 \in DOMAIN list /\ q >= p /\ q \in Nat /\ list'[q] = list[q + 1]
      /\ \A q \in DOMAIN list : q # p => \E k \in DOMAIN list' : list'[k] = list[q]
  BY <1>2, <1>3, <1>4, Removed
<1>6. \A q, r \in DOMAIN list : list[q] = list[r] => q = r
  BY DEF TableInv
<1>7. p \in Nat /\ \A q \in DOMAIN list : q \in Nat
  BY <1>3, <1>4
<1>8. ASSUME NEW q \in DOMAIN list', NEW r \in DOMAIN list', list'[q] = list'[r] PROVE q = r
  <2>1. CASE q < p /\ r < p
    <3>1. q \in DOMAIN list /\ r \in DOMAIN list /\ list[q] = list[r]
      BY <1>5, <1>7, <1>8, <2>1
    <3> QED
      BY <1>6, <3>1
  <2>2. CASE q < p /\ ~(r < p)
    <3>1. q \in DOMAIN list /\ r + 1 \in DOMAIN list /\ list[q] = list[r + 1] /\ q \in Nat /\ r \in Nat
      BY <1>5, <1>7, <1>8, <2>2
    <3>2. q = r + 1
      BY <1>6, <3>1
    <3> QED
      BY <1>7, <2>2, <3>1, <3>2
  <2>3. CASE ~(q < p) /\ r < p
    <3>1. r \in DOMAIN list /\ q + 1 \in DOMAIN list /\ list[r] = list[q + 1] /\ q \in Nat /\ r \in Nat
      BY <1>5, <1>7, <1>8, <2>3
    <3>2. r = q + 1
      BY <1>6, <3>1
    <3> QED
      BY <1>7, <2>3, <3>1, <3>2
  <2>4. CASE ~(q < p) /\ ~(r < p)
    <3>1. r + 1 \in DOMAIN list /\ q + 1 \in DOMAIN list /\ list[r + 1] = list[q + 1] /\ q \in Nat /\ r \in Nat
      BY <1>5, <1>7, <1>8, <2>4
    <3>2. r + 1 = q + 1
      BY <1>6, <3>1
    <3> QED
      BY <3>1, <3>2
  <2> QED
    BY <2>1, <2>2, <2>3, <2>4
<1>9. ASSUME NEW q \in DOMAIN list' PROVE list'[q] \in Range(list) /\ list'[q] # c
  <2>1. CASE q \in DOMAIN list /\ q < p /\ list'[q] = list[q]
    <3>1. q # p
      BY <1>7, <2>1
    <3> QED
      BY <1>4, <1>6, <2>1, <3>1 DEF Range
  <2>2. CASE q + 1 \in DOMAIN list /\ q >= p /\ q \in Nat /\ list'[q] = list[q + 1]
    <3>1. q + 1 # p
      BY <1>7, <2>2
    <3> QED
      BY <1>4, <1>6, <2>2, <3>1 DEF Range
  <2> QED
    BY <1>5, <2>1, <2>2
<1>10. ASSUME NEW d \in Range(list), d # c PROVE d \in Range(list')
  <2>1. PICK q \in DOMAIN list : list[q] = d
    BY DEF Range
  <2>2. q # p
    BY <1>4, <1>10, <2>1
  <2>3. PICK k \in DOMAIN list' : list'[k] = d
    BY <1>5, <2>1, <2>2
  <2> QED
    BY <2>3 DEF Range
<1>11. Range(list') = Range(list) \ {c}
  <2>1. \A d \in Range(list') : \E q \in DOMAIN list' : list'[q] = d
    BY DEF Range
  <2> QED
    BY <1>9, <1>10, <2>1
<1>12. IsFiniteSet(Range(list')) /\ Cardinality(Range(list')) = Len(list')
  <2>1. IsFiniteSet(Range(list)) /\ Cardinality(Range(list)) = Len(list)
    BY DEF TableInv
  <2>2. /\ IsFiniteSet(Range(list) \ {c})
        /\ Cardinality(Range(list) \ {c}) = Cardinality(Range(list)) - 1
    BY <1>4, <2>1, FS_RemoveElement
  <2> QED
    BY <1>5, <1>11, <2>1, <2>2
<1>13. Range(list') = interest' \cap Conn
  BY <1>1, <1>11 DEF TableInv
<1>14. ASSUME NEW g \in Fd, NEW d \in Conn PROVE fdt'[g] = d <=> d \in Range(list') /\ fd'[d] = g
  <2>1. fdt'[g] = IF g = fd[c] THEN None ELSE fdt[g]
    BY <1>1, <1>3, <1>4
  <2>2. fdt[g] = d <=> d \in Range(list) /\ fd[d] = g
    BY DEF TableInv
  <2>4. d # None
    BY Sources
  <2> QED
    BY <1>1, <1>4, <1>11, <2>1, <2>2, <2>4
<1>15. \A d \in Range(list') : fd'[d] \in Fd
  BY <1>1, <1>11 DEF TableInv
<1> QED
  BY <1>8, <1>11, <1>12, <1>13, <1>14, <1>15 DEF Tables

\* Only an accept and the end of a connection change the list's links and the tables.
LEMMA TablesKept ==
    ASSUME Next, ~AcceptNewClient, \A c \in Conn : ~RecvEnd(c)
    PROVE  UNCHANGED <<list, fd, fdt, interest>>
<1>1. CASE Environment
  BY <1>1 DEF Environment, Connect, ClientSave, ClientClose, ClientSend, StdinInput, Arrive, epollVars, listVars
<1>2. CASE SrvEp
  BY <1>2 DEF SrvEp, EpollWait, AcceptError, BroadcastAllClient, PutCopy, PutEnd, RecvError, RecvSave, RecvMsg,
     epollVars, listVars
<1>3. CASE SrvProMsg
  BY <1>3 DEF SrvProMsg, PmGet, PmClear, PmEndGet, WalkOn, WalkLost, WalkEnd, Show, Write, LoadFd, SendMsg,
     Log, Quiet, PmUnchanged, epollVars, listVars
<1> QED
  BY <1>1, <1>2, <1>3 DEF Next

LEMMA TableStep ==
    ASSUME TypeOK, TableInv, PipeInv, AcceptInv, Next
    PROVE  TableInv'
<1>1. Tables'
  <2>1. CASE UNCHANGED <<list, fd, fdt, interest>>
    BY <2>1 DEF Tables, TableInv
  <2> QED
    BY <2>1, AcceptTables, EndTables, TablesKept
<1>2. pm'.pc = "send" => pm'.fd \in Fd
  <2>0. pm \in PmType /\ (pm.pc = "send" => pm.fd \in Fd)
    BY PmFields DEF TableInv
  <2>1. CASE LoadFd
    <3>1. pm.dst \in Range(list) \/ pm' = pm
      <4>1. pm.dst # None /\ ~Freed(pm.dst) => pm.dst \in Range(list)
        BY DEF Freed, Contains, Range, TypeOK
      <4> QED
        BY <2>1, <4>1 DEF LoadFd, Deref
    <3>2. pm' = pm \/ pm' = [pm EXCEPT !.pc = "send", !.fd = fd[pm.dst]]
      BY <2>1 DEF LoadFd, Deref
    <3>3. pm.dst \in Range(list) => fd[pm.dst] \in Fd
      BY DEF TableInv
    <3> QED
      BY <2>0, <3>1, <3>2, <3>3 DEF PmType
  <2>2. CASE pm' = pm
    BY <2>0, <2>2
  <2>3. CASE PmGet \/ PmClear \/ PmEndGet \/ WalkOn \/ WalkLost \/ WalkEnd \/ Show \/ Write \/ SendMsg \/ Log
    <3>1. pm'.pc # "send" \/ pm' = pm
      <4>1. CASE PmGet \/ PmClear \/ PmEndGet \/ Show
        BY <2>0, <4>1 DEF PmGet, PmClear, PmEndGet, Show, Deref, Walk, PmType
      <4>2. CASE WalkOn \/ WalkLost
        BY <2>0, <4>2 DEF WalkOn, WalkLost, PmType, Walking
      <4>3. CASE WalkEnd
        BY <2>0, <4>3 DEF WalkEnd, PmType, Walking
      <4>4. CASE Write \/ SendMsg \/ Log
        BY <2>0, <4>4 DEF Write, SendMsg, Log, Deref, PmType, Idle
      <4> QED
        BY <2>3, <4>1, <4>2, <4>3, <4>4
    <3> QED
      BY <2>0, <3>1
  <2>4. CASE Environment \/ SrvEp
    <3>1. pm' = pm
      BY <2>4 DEF Environment, SrvEp, Connect, ClientSave, ClientClose, ClientSend, StdinInput, Arrive, EpollWait,
          AcceptNewClient, AcceptError, BroadcastAllClient, PutCopy, PutEnd, RecvEnd, RecvError, RecvSave, RecvMsg
    <3> QED
      BY <2>2, <3>1
  <2> QED
    BY <2>1, <2>3, <2>4 DEF Next, SrvProMsg
<1> QED
  BY <1>1, <1>2 DEF TableInv, Tables

-----------------------------------------------------------------------------
(* Events have their items                                                 *)

LEMMA TailLeft ==
    ASSUME NEW S, NEW s \in Seq(S), Len(s) > 1
    PROVE  Tail(s) # << >>
<1>1. Len(s) \in Nat /\ s # << >>
  OBVIOUS
<1>2. Tail(s) \in Seq(S) /\ Len(Tail(s)) = Len(s) - 1
  BY <1>1
<1>3. Len(Tail(s)) # 0
  BY <1>1, <1>2
<1> QED
  BY <1>2, <1>3, EmptySeq

\* A connection that has ended is not used up before the end is read.
LEMMA EndStays ==
    ASSUME NEW S, NEW s \in Seq(S), s # << >>, Last(s) = "EOF", Head(s) # "EOF"
    PROVE  Tail(s) # << >> /\ Last(Tail(s)) = "EOF"
<1>1. Len(s) \in Nat \ {0} /\ Head(s) = s[1] /\ Tail(s) \in Seq(S) /\ Len(Tail(s)) = Len(s) - 1
  OBVIOUS
<1>2. s[Len(s)] = "EOF"
  BY DEF Last
<1>3. Len(s) # 1
  BY <1>1, <1>2
<1>4. Len(s) - 1 \in DOMAIN Tail(s) /\ Tail(s)[Len(s) - 1] = s[Len(s)]
  BY <1>1, <1>3
<1>5. Tail(s) # << >>
  <2>1. Len(Tail(s)) # 0
    BY <1>1, <1>3
  <2> QED
    BY <1>1, <2>1, EmptySeq
<1>6. Last(Tail(s)) = Tail(s)[Len(s) - 1]
  BY <1>1 DEF Last
<1> QED
  BY <1>2, <1>4, <1>5, <1>6

\* An arrival adds items at the end.
LEMMA ArrivesBacked ==
    ASSUME TypeOK, TableInv, BackedInv, NEW s \in Source, NEW q, Arrive(s, q),
           q # << >>, Len(rx[s]) \in Nat, Len(q) \in Nat, Len(q) > Len(rx[s]),
           \A c \in Conn : c # s => /\ peer'[c] \in Gone => peer[c] \in Gone
                                    /\ peer'[c] \in Gone /\ Waits(c)' => Waits(c),
           s \in Conn => (peer'[s] \in Gone => Last(q) = "EOF")
    PROVE  BackedInv'
<1>1. /\ rx'[s] = q /\ \A t \in Source : t # s => rx'[t] = rx[t]
      /\ ready' \subseteq interest /\ \A t \in ready' : t \in ready \/ t = s
      /\ events' = events /\ interest' = interest
  BY Arrives DEF epollVars
<1>2. interest \subseteq Source /\ events \subseteq interest /\ rx[s] \in Seq(Conn \cup Item \cup {"line"})
  BY DEF TypeOK
<1>3. \A t \in events' \cup ready' : rx'[t] # << >>
  BY <1>1, <1>2 DEF BackedInv
<1>4. ASSUME NEW t \in events' \cap ready' PROVE Len(rx'[t]) > 1 \/ (t \in Conn /\ Last(rx'[t]) = "EOF")
  <2>1. CASE t = s
    <3>1. rx[s] # << >>
      BY <1>1, <1>4, <2>1 DEF BackedInv
    <3>2. Len(rx[s]) >= 1
      BY <1>2, <3>1
    <3> QED
      BY <1>1, <2>1, <3>2
  <2>2. CASE t # s
    BY <1>1, <1>2, <1>4, <2>2 DEF BackedInv
  <2> QED
    BY <2>1, <2>2
<1>5. ASSUME NEW c \in Conn, peer'[c] \in Gone, c \in interest' \/ Waits(c)'
      PROVE  rx'[c] # << >> /\ Last(rx'[c]) = "EOF"
  <2>1. CASE c = s
    BY <1>1, <1>5, <2>1
  <2>2. CASE c # s
    BY <1>1, <1>5, <2>2, Sources DEF BackedInv
  <2> QED
    BY <2>1, <2>2
<1> QED
  BY <1>3, <1>4, <1>5 DEF BackedInv

\* So does the handling of an event of source s, other than the end.
LEMMA HandledBacked ==
    ASSUME TypeOK, TableInv, BackedInv, NEW s \in Source, rx[s] # << >>,
           events' \subseteq events \ {s}, interest' = interest, ready \subseteq ready', ready' \subseteq interest,
           \A t \in ready' : t \in ready \/ (t \in Conn /\ peer[t] \in Gone),
           \A c \in Conn : peer'[c] \in Gone <=> peer[c] \in Gone,
           s \in events, rx'[s] = Tail(rx[s]), \A t \in Source : t # s => rx'[t] = rx[t],
           s \in Conn => Head(rx[s]) # "EOF",
           s # Listener
    PROVE  BackedInv'
<1>1. /\ interest \subseteq Source /\ events \subseteq interest /\ rx[s] \in Seq(Conn \cup Item \cup {"line"})
      /\ rx[Listener] = rx'[Listener]
  BY Sources DEF TypeOK
<1>2. \A c \in Conn : Waits(c)' <=> Waits(c)
  BY <1>1 DEF Waits
<1>3. /\ Len(rx[s]) \in Nat /\ Tail(rx[s]) \in Seq(Conn \cup Item \cup {"line"})
      /\ Len(rx[s]) > 1 => Tail(rx[s]) # << >>
      /\ s \in Conn /\ Last(rx[s]) = "EOF" => Tail(rx[s]) # << >> /\ Last(Tail(rx[s])) = "EOF"
  <2>1. Tail(rx[s]) \in Seq(Conn \cup Item \cup {"line"}) /\ Len(Tail(rx[s])) = Len(rx[s]) - 1 /\ Len(rx[s]) \in Nat
    BY <1>1, Heads
  <2>2. Len(rx[s]) > 1 => Tail(rx[s]) # << >>
    BY <1>1, TailLeft
  <2>3. s \in Conn /\ Last(rx[s]) = "EOF" => Tail(rx[s]) # << >> /\ Last(Tail(rx[s])) = "EOF"
    BY <1>1, EndStays
  <2> QED
    BY <2>1, <2>2, <2>3
<1>4. ASSUME NEW c \in Conn, peer'[c] \in Gone, c \in interest' \/ Waits(c)'
      PROVE  rx'[c] # << >> /\ Last(rx'[c]) = "EOF"
  <2>1. rx[c] # << >> /\ Last(rx[c]) = "EOF"
    BY <1>2, <1>4 DEF BackedInv
  <2> QED
    BY <1>3, <2>1, Sources
<1>5. ASSUME NEW t \in events' \cup ready' PROVE rx'[t] # << >>
  <2>1. CASE t = s
    <3>1. t \in ready'
      BY <1>5, <2>1
    <3>2. CASE t \in ready
      BY <1>3, <2>1, <3>2 DEF BackedInv
    <3>3. CASE t \in Conn /\ peer[t] \in Gone
      BY <1>1, <1>4, <2>1, <3>3
    <3> QED
      BY <3>1, <3>2, <3>3
  <2>2. CASE t # s
    <3>1. CASE t \in events \cup ready
      BY <1>1, <2>2, <3>1 DEF BackedInv, TypeOK
    <3>2. CASE t \in Conn /\ peer[t] \in Gone /\ t \in interest
      BY <1>4, <3>2
    <3> QED
      BY <1>5, <3>1, <3>2
  <2> QED
    BY <2>1, <2>2
<1>6. ASSUME NEW t \in events' \cap ready' PROVE Len(rx'[t]) > 1 \/ (t \in Conn /\ Last(rx'[t]) = "EOF")
  <2>1. CASE t \in ready
    BY <1>1, <1>6, <2>1 DEF BackedInv
  <2>2. CASE t \in Conn /\ peer[t] \in Gone
    BY <1>4, <1>6, <2>2
  <2> QED
    BY <1>6, <2>1, <2>2
<1> QED
  BY <1>4, <1>5, <1>6 DEF BackedInv

LEMMA BackedArrivals ==
    ASSUME TypeOK, TableInv, AcceptInv, BackedInv, Environment
    PROVE  BackedInv'
<1>0. /\ rx[Listener] \in Seq(Conn) /\ \A c \in Conn : rx[c] \in Seq(Item)
      /\ rx[Stdin] \in Seq(Conn \cup Item \cup {"line"})
      /\ peer \in [Conn -> {"new", "open", "saved"} \cup Gone]
  BY Sources DEF TypeOK
<1>1. ASSUME NEW c \in Conn, Connect(c) PROVE BackedInv'
  <2> DEFINE q == Append(rx[Listener], c)
  <2>1. Arrive(Listener, q) /\ peer' = [peer EXCEPT ![c] = "open"]
    BY <1>1 DEF Connect
  <2>2. q # << >> /\ Len(rx[Listener]) \in Nat /\ Len(q) \in Nat /\ Len(q) > Len(rx[Listener])
        /\ \A p \in DOMAIN q : (p \in DOMAIN rx[Listener] /\ q[p] = rx[Listener][p]) \/ q[p] = c
    BY <1>0, Appended
  <2> HIDE DEF q
  <2>3. rx'[Listener] = q
    BY <2>1, Arrives, Sources
  <2>4. ASSUME NEW d \in Conn PROVE /\ peer'[d] \in Gone => peer[d] \in Gone
                                    /\ peer'[d] \in Gone /\ Waits(d)' => Waits(d)
    <3>1. peer'[d] = IF d = c THEN "open" ELSE peer[d]
      BY <1>0, <2>1
    <3> QED
      BY <2>2, <2>3, <3>1 DEF Waits, Gone
  <2> QED
    BY <2>1, <2>2, <2>4, ArrivesBacked, Sources
<1>2. ASSUME NEW s \in Source, NEW q, Arrive(s, q), s # Listener,
             q # << >>, Len(rx[s]) \in Nat, Len(q) \in Nat, Len(q) > Len(rx[s]),
             \A c \in Conn : c # s => peer'[c] = peer[c],
             s \in Conn => (peer'[s] \in Gone => Last(q) = "EOF")
      PROVE  BackedInv'
  <2>1. rx'[Listener] = rx[Listener]
    BY <1>2, Arrives, Sources
  <2>2. \A c \in Conn : Waits(c)' => Waits(c)
    BY <2>1 DEF Waits
  <2> QED
    BY <1>2, <2>2, ArrivesBacked
<1>3. ASSUME NEW c \in Conn, ClientSave(c) PROVE BackedInv'
  <2> DEFINE q == Append(rx[c], "SAVE_CLI_INFO")
  <2>1. Arrive(c, q) /\ peer' = [peer EXCEPT ![c] = "saved"]
    BY <1>3 DEF ClientSave
  <2>2. q # << >> /\ Len(rx[c]) \in Nat /\ Len(q) \in Nat /\ Len(q) > Len(rx[c])
    <3>1. rx[c] \in Seq(Item) /\ "SAVE_CLI_INFO" \in Item
      BY <1>0 DEF Item
    <3> QED
      BY <3>1, Appended
  <2> HIDE DEF q
  <2>3. (\A d \in Conn : d # c => peer'[d] = peer[d]) /\ peer'[c] \notin Gone
    BY <1>0, <2>1 DEF Gone
  <2> QED
    BY <1>2, <2>1, <2>2, <2>3, Sources
<1>4. ASSUME NEW c \in Conn, NEW how \in {"fin", "rst"}, ClientClose(c, how) PROVE BackedInv'
  <2>1. /\ \E q : q \in {Append(rx[c], "EOF"), rx[c] \o <<"RST", "EOF">>} /\ Arrive(c, q)
        /\ \A d \in Conn : d # c => peer'[d] = peer[d]
    BY <1>0, <1>4 DEF ClientClose
  <2>2. PICK q : q \in {Append(rx[c], "EOF"), rx[c] \o <<"RST", "EOF">>} /\ Arrive(c, q)
    BY <2>1
  <2>3. q # << >> /\ Len(rx[c]) \in Nat /\ Len(q) \in Nat /\ Len(q) > Len(rx[c]) /\ Last(q) = "EOF"
    <3>1. rx[c] \in Seq(Item) /\ "EOF" \in Item /\ "RST" \in Item
      BY <1>0 DEF Item
    <3>2. CASE q = Append(rx[c], "EOF")
      <4>1. q # << >> /\ Len(rx[c]) \in Nat /\ Len(q) = Len(rx[c]) + 1 /\ q[Len(rx[c]) + 1] = "EOF"
        BY <3>1, <3>2, Appended
      <4> QED
        BY <4>1 DEF Last
    <3>3. CASE q = rx[c] \o <<"RST", "EOF">>
      <4>1. /\ <<"RST", "EOF">> \in Seq(Item) /\ Len(<<"RST", "EOF">>) = 2 /\ <<"RST", "EOF">>[2] = "EOF"
            /\ Len(rx[c]) \in Nat
        BY <3>1
      <4>2. /\ q \in Seq(Item) /\ Len(q) = Len(rx[c]) + Len(<<"RST", "EOF">>)
        BY <3>1, <3>3, <4>1, ConcatProperties
      <4>3. q[Len(rx[c]) + 2] = "EOF"
        BY <3>1, <3>3, <4>1
      <4>4. Len(q) # 0 /\ Len(q) = Len(rx[c]) + 2
        BY <4>1, <4>2
      <4>5. q # << >>
        BY <4>2, <4>4, EmptySeq
      <4> QED
        BY <4>1, <4>3, <4>4, <4>5 DEF Last
    <3> QED
      BY <2>2, <3>2, <3>3
  <2> QED
    BY <1>2, <2>1, <2>2, <2>3, Sources
<1>5. ASSUME NEW m \in Value, ClientSend(m) PROVE BackedInv'
  <2> DEFINE q == Append(rx[Via[m]], m)
  <2>0. Via[m] \in Conn /\ m \in Item /\ rx[Via[m]] \in Seq(Item)
    BY <1>0, TcpServerAssumption DEF Item
  <2>1. Arrive(Via[m], q) /\ peer' = peer /\ peer[Via[m]] = "saved"
    BY <1>5 DEF ClientSend
  <2>2. q # << >> /\ Len(rx[Via[m]]) \in Nat /\ Len(q) \in Nat /\ Len(q) > Len(rx[Via[m]])
    BY <2>0, Appended
  <2> HIDE DEF q
  <2>3. peer'[Via[m]] \notin Gone
    BY <2>1 DEF Gone
  <2> QED
    BY <1>2, <2>0, <2>1, <2>2, <2>3, Sources
<1>6. CASE StdinInput
  <2> DEFINE q == Append(rx[Stdin], "line")
  <2>1. Arrive(Stdin, q) /\ peer' = peer
    BY <1>6 DEF StdinInput
  <2>2. q # << >> /\ Len(rx[Stdin]) \in Nat /\ Len(q) \in Nat /\ Len(q) > Len(rx[Stdin])
    BY <1>0, Appended
  <2> HIDE DEF q
  <2> QED
    BY <1>2, <2>1, <2>2, Sources
<1> QED
  BY <1>1, <1>3, <1>4, <1>5, <1>6 DEF Environment

LEMMA BackedStep ==
    ASSUME TypeOK, TableInv, PipeInv, AcceptInv, BackedInv, Next
    PROVE  BackedInv'
<1>0. /\ rx[Listener] \in Seq(Conn) /\ \A c \in Conn : rx[c] \in Seq(Item)
      /\ ready \subseteq interest /\ events \subseteq interest /\ interest \subseteq Source
  BY Sources DEF TypeOK
<1>1. CASE Environment
  BY <1>1, BackedArrivals
<1>2. ASSUME UNCHANGED <<rx, interest>>, \A c \in Conn : peer'[c] \in Gone <=> peer[c] \in Gone,
             \/ events' \subseteq events /\ ready \subseteq ready' /\ ready' \subseteq interest
                /\ \A t \in ready' : t \in ready \/ (t \in Conn /\ peer[t] \in Gone)
             \/ events' = ready /\ ready' = {}
      PROVE  BackedInv'
  <2>1. \A c \in Conn : Waits(c)' <=> Waits(c)
    BY <1>2 DEF Waits
  <2>2. \A c \in Conn : peer'[c] \in Gone /\ (c \in interest' \/ Waits(c)') =>
            rx'[c] # << >> /\ Last(rx'[c]) = "EOF"
    BY <1>2, <2>1 DEF BackedInv
  <2>3. \A s \in events' \cup ready' : rx'[s] # << >>
    BY <1>2 DEF BackedInv
  <2>4. \A s \in events' \cap ready' : Len(rx'[s]) > 1 \/ (s \in Conn /\ Last(rx'[s]) = "EOF")
    BY <1>2 DEF BackedInv
  <2> QED
    BY <2>2, <2>3, <2>4 DEF BackedInv
<1>3. CASE EpollWait
  <2>1. UNCHANGED <<rx, interest, peer>> /\ events' = ready /\ ready' = {}
    BY <1>3 DEF EpollWait
  <2> QED
    BY <1>2, <2>1
<1>4. CASE AcceptError
  <2>1. UNCHANGED <<rx, interest, peer, ready>> /\ events' \subseteq events
    BY <1>4 DEF AcceptError, Event
  <2> QED
    BY <1>0, <1>2, <2>1
<1>5. CASE SendMsg
  <2>1. UNCHANGED <<rx, interest, events>>
    BY <1>5 DEF SendMsg, epollVars
  <2>2. PICK F \in SUBSET Fd, m \in Value \cup {"line", "ack"} : Send(F, m)
    BY <1>5, Sendings
  <2> QED
    BY <1>2, <2>1, <2>2, Sends
<1>6. CASE BroadcastAllClient
  <2>1. /\ events' = events \ {Stdin} /\ Stdin \in events /\ interest' = interest /\ rx[Stdin] # << >>
        /\ rx'[Stdin] = Tail(rx[Stdin]) /\ \A t \in Source : t # Stdin => rx'[t] = rx[t]
    BY <1>6, Sources DEF BroadcastAllClient, Event, TypeOK
  <2>2. PICK F \in SUBSET Fd, m \in Value \cup {"line", "ack"} : Send(F, m)
    BY <1>6, Sendings
  <2> QED
    BY <2>1, <2>2, Sends, HandledBacked, Sources
<1>7. ASSUME NEW c \in Conn, NEW i, Recv(c, i), i # "EOF", interest' = interest,
             ready \subseteq ready', ready' \subseteq interest,
             \A t \in ready' : t \in ready \/ (t \in Conn /\ peer[t] \in Gone),
             \A d \in Conn : peer'[d] \in Gone <=> peer[d] \in Gone
      PROVE  BackedInv'
  <2>1. /\ c \in events /\ events' = events \ {c} /\ rx[c] # << >> /\ i = Head(rx[c])
        /\ rx'[c] = Tail(rx[c]) /\ \A t \in Source : t # c => rx'[t] = rx[t]
    BY <1>7, Receives
  <2> QED
    BY <1>7, <2>1, HandledBacked, Sources
<1>8. ASSUME NEW c \in Conn, RecvSave(c) PROVE BackedInv'
  <2>1. Recv(c, "SAVE_CLI_INFO") /\ interest' = interest
    BY <1>8 DEF RecvSave
  <2>2. PICK F \in SUBSET Fd, m \in Value \cup {"line", "ack"} : Send(F, m)
    BY <1>8, Sendings
  <2> QED
    BY <1>7, <2>1, <2>2, Sends
<1>9. ASSUME NEW c \in Conn, RecvError(c) \/ \E m \in Value : RecvMsg(c, m) PROVE BackedInv'
  <2>1. UNCHANGED <<peer, interest, ready>>
    BY <1>9 DEF RecvError, RecvMsg
  <2>2. \E i : i # "EOF" /\ Recv(c, i)
    BY <1>9, TcpServerAssumption DEF RecvError, RecvMsg
  <2> QED
    BY <1>0, <1>7, <2>1, <2>2
<1>10. ASSUME NEW c \in Conn, RecvEnd(c) PROVE BackedInv'
  <2>1. /\ Recv(c, "EOF") /\ interest' = interest \ {c} /\ ready' = ready \ {c} /\ peer' = peer
    BY <1>10 DEF RecvEnd
  <2>2. /\ c \in interest /\ events' = events \ {c} /\ \A t \in Source : t # c => rx'[t] = rx[t]
    BY <2>1, Receives
  <2>3. rx'[Listener] = rx[Listener] /\ ~Waits(c)
    BY <2>2, Sources DEF Waits, AcceptInv
  <2>4. \A d \in Conn : Waits(d)' <=> Waits(d)
    BY <2>3 DEF Waits
  <2>5. \A d \in Conn : peer'[d] \in Gone /\ (d \in interest' \/ Waits(d)') =>
            rx'[d] # << >> /\ Last(rx'[d]) = "EOF"
    BY <2>1, <2>2, <2>3, <2>4, Sources DEF BackedInv
  <2>6. \A s \in events' \cup ready' : rx'[s] # << >>
    BY <1>0, <2>1, <2>2 DEF BackedInv
  <2>7. \A s \in events' \cap ready' : Len(rx'[s]) > 1 \/ (s \in Conn /\ Last(rx'[s]) = "EOF")
    BY <1>0, <2>1, <2>2 DEF BackedInv
  <2> QED
    BY <2>5, <2>6, <2>7 DEF BackedInv
<1>11. CASE AcceptNewClient
  <2> DEFINE c == Head(rx[Listener])
  <2>1. /\ rx[Listener] # << >> /\ Listener \in events /\ events' = events \ {Listener}
        /\ interest' = interest \cup {c} /\ peer' = peer
        /\ ready' = IF rx[c] # << >> THEN ready \cup {c} ELSE ready
        /\ rx'[Listener] = Tail(rx[Listener]) /\ \A t \in Source : t # Listener => rx'[t] = rx[t]
    BY <1>11, Sources DEF AcceptNewClient, Event, TypeOK
  <2>2. /\ c \in Conn /\ Waits(c) /\ c \notin interest
        /\ Tail(rx[Listener]) \in Seq(Conn) /\ Len(Tail(rx[Listener])) = Len(rx[Listener]) - 1 /\ Len(rx[Listener]) \in Nat
        /\ \A d \in Conn : Waits(d)' => Waits(d)
    <3>1. /\ \A p \in DOMAIN rx'[Listener] : p + 1 \in DOMAIN rx[Listener] /\ rx'[Listener][p] = rx[Listener][p + 1]
          /\ c = rx[Listener][1] /\ 1 \in DOMAIN rx[Listener] /\ c \in Conn
          /\ Tail(rx[Listener]) \in Seq(Conn) /\ Len(Tail(rx[Listener])) = Len(rx[Listener]) - 1 /\ Len(rx[Listener]) \in Nat
      BY <1>0, <2>1, Heads
    <3> HIDE DEF c
    <3>2. Waits(c) /\ c \notin interest
      BY <3>1 DEF Waits, AcceptInv
    <3>3. \A d \in Conn : Waits(d)' => Waits(d)
      BY <3>1 DEF Waits
    <3> QED
      BY <3>1, <3>2, <3>3
  <2>3. Len(rx[Listener]) > 1 => Tail(rx[Listener]) # << >>
    BY <1>0, TailLeft
  <2> HIDE DEF c
  <2>4. \A d \in Conn : peer'[d] \in Gone /\ (d \in interest' \/ Waits(d)') =>
            rx'[d] # << >> /\ Last(rx'[d]) = "EOF"
    BY <2>1, <2>2, Sources DEF BackedInv
  <2>5. Listener \in ready' => Len(rx[Listener]) > 1
    BY <2>1, <2>2, Sources DEF BackedInv
  <2>6. \A s \in events' \cup ready' : rx'[s] # << >>
    BY <1>0, <2>1, <2>2, <2>3, <2>5, Sources DEF BackedInv
  <2>7. \A s \in events' \cap ready' : Len(rx'[s]) > 1 \/ (s \in Conn /\ Last(rx'[s]) = "EOF")
    BY <1>0, <2>1, <2>2 DEF BackedInv
  <2> QED
    BY <2>4, <2>6, <2>7 DEF BackedInv
<1>12. ASSUME \/ PutCopy \/ PutEnd \/ PmGet \/ PmClear \/ PmEndGet \/ WalkOn
              \/ WalkLost \/ WalkEnd \/ Show \/ LoadFd \/ Log \/ Write
       PROVE  BackedInv'
  <2>1. UNCHANGED <<rx, peer, ready, epollVars>>
    BY <1>12 DEF PutCopy, PutEnd, PmGet, PmClear, PmEndGet, WalkOn, WalkLost, WalkEnd,
              Show, LoadFd, Log, Write, Quiet, PmUnchanged
  <2> QED
    BY <1>0, <1>2, <2>1 DEF epollVars
<1> QED
  BY <1>1, <1>3, <1>4, <1>5, <1>6, <1>8, <1>9, <1>10, <1>11, <1>12 DEF Next, SrvEp, SrvProMsg

-----------------------------------------------------------------------------
(* The message that is handled                                             *)

\* Only SrvProMsg changes its record, ...
LEMMA PmKept ==
    ASSUME Environment \/ SrvEp
    PROVE  UNCHANGED <<pm, got, proc>>
<1>1. CASE Environment
  BY <1>1 DEF Environment, Connect, ClientSave, ClientClose, ClientSend, StdinInput, Arrive, queueVars, fifoVars
<1>2. CASE EpollWait \/ AcceptNewClient \/ AcceptError \/ BroadcastAllClient
           \/ \E c \in Conn : RecvEnd(c) \/ RecvError(c) \/ RecvSave(c)
  BY <1>2 DEF EpollWait, AcceptNewClient, AcceptError, BroadcastAllClient, RecvEnd, RecvError, RecvSave, queueVars, fifoVars
<1>3. CASE PutCopy \/ PutEnd \/ \E c \in Conn : \E m \in Value : RecvMsg(c, m)
  BY <1>3, QueueSteps DEF PutCopy, PutEnd, RecvMsg
<1> QED
  BY <1>1, <1>2, <1>3 DEF SrvEp

\* ... and only SrvEp the items that have arrived, the registration and the put.
LEMMA PmLeaves ==
    ASSUME SrvProMsg
    PROVE  UNCHANGED <<rx, cliEndid, list, fd, fdt, interest, events, ep, pending, sent, early>>
<1>1. UNCHANGED <<rx, epollVars, listVars, netVars, ep>>
  BY DEF SrvProMsg, PmGet, PmClear, PmEndGet, WalkOn, WalkLost, WalkEnd, Show, Write, LoadFd, SendMsg,
         Log, Quiet, PmUnchanged
<1>2. pending' = pending
  <2>1. CASE PmGet \/ PmClear \/ PmEndGet
    BY <2>1, QueueSteps DEF PmGet, PmClear, PmEndGet
  <2>2. CASE WalkOn \/ WalkLost \/ WalkEnd \/ Show \/ Write \/ LoadFd \/ SendMsg \/ Log
    BY <2>2 DEF WalkOn, WalkLost, WalkEnd, Show, Write, LoadFd, SendMsg, Log, Quiet, queueVars, fifoVars
  <2> QED
    BY <2>1, <2>2 DEF SrvProMsg
<1> QED
  BY <1>1, <1>2 DEF epollVars, listVars, netVars

\* What SrvProMsg knows of the message.
PmKnows ==
    /\ pm.pc \notin {"idle", "clear", "end"} => got \in Value
    /\ pm.pc \in {"show_dst", "dst", "load", "send", "log"} => Dest[got] # Server
    /\ pm.pc = "write" => Dest[got] = Server
    /\ pm.pc \in {"load", "send", "log"} => pm.dst \in {None, Dest[got]}

LEMMA PmKnowsStep ==
    ASSUME TypeOK, PipeInv, SrvProMsg
    PROVE  PmKnows'
<1>0. PmKnows /\ pm \in PmType
  BY PmFields DEF PipeInv, PmKnows
<1>1. CASE PmGet \/ PmClear
  <2>1. pm' \in {[pm EXCEPT !.pc = "clear"], [pm EXCEPT !.pc = "end"]}
    BY <1>1 DEF PmGet, PmClear
  <2>2. pm'.pc \in {"clear", "end"}
    BY <1>0, <2>1 DEF PmType
  <2> QED
    BY <2>2 DEF PmKnows
<1>2. CASE PmEndGet
  <2>1. got' = got /\ pm.pc = "end" /\ ((got # Junk /\ pm' = [pm EXCEPT !.pc = "show_src", !.at = First]) \/ pm' = pm)
    BY <1>2, QueueSteps DEF PmEndGet, Walk
  <2>2. got # Junk => got \in Value
    BY DEF TypeOK, Element
  <2>3. pm' = pm \/ pm'.pc = "show_src"
    BY <1>0, <2>1 DEF PmType
  <2> QED
    BY <1>0, <2>1, <2>2, <2>3 DEF PmKnows
<1>3. ASSUME WalkOn \/ WalkLost \/ WalkEnd \/ Show \/ Write \/ LoadFd \/ SendMsg \/ Log PROVE got' = got
  BY <1>3 DEF WalkOn, WalkLost, WalkEnd, Show, Write, LoadFd, SendMsg, Log, Quiet, queueVars, fifoVars
<1>4. CASE WalkOn \/ WalkLost
  <2>1. pm' = pm \/ (pm.pc \in Walking /\ pm' = [pm EXCEPT !.at = After(pm.at)])
    BY <1>4 DEF WalkOn, WalkLost
  <2>2. pm'.pc = pm.pc /\ pm'.dst = pm.dst
    BY <1>0, <2>1 DEF PmType
  <2> QED
    BY <1>0, <1>3, <1>4, <2>2 DEF PmKnows
<1>5. CASE WalkEnd
  <2>1. got \in Value
    BY <1>0, <1>5 DEF WalkEnd, PmKnows, Walking
  <2>2. CASE pm.pc = "show_src"
    BY <1>0, <1>3, <1>5, <2>1, <2>2 DEF WalkEnd, PmKnows, PmType
  <2>3. CASE pm.pc = "show_dst"
    BY <1>0, <1>3, <1>5, <2>1, <2>3 DEF WalkEnd, PmKnows, PmType
  <2>4. CASE pm.pc = "src"
    BY <1>0, <1>3, <1>5, <2>1, <2>4 DEF WalkEnd, PmKnows, PmType
  <2>5. CASE pm.pc = "dst"
    <3>1. /\ pm' = [pm EXCEPT !.pc = "load", !.dst = pm.at, !.at = None]
          /\ pm.at = None \/ (Contains(list, pm.at) /\ cliEndid[pm.at] = Dest[got])
          /\ Dest[got] # Server
      BY <1>0, <1>5, <2>5 DEF WalkEnd, Wanted, PmKnows
    <3>2. pm.at \in {None, Dest[got]}
      <4>1. pm.at # None => pm.at \in Conn
        BY PmFields
      <4> QED
        BY <3>1, <4>1 DEF PipeInv
    <3> QED
      BY <1>0, <1>3, <1>5, <2>1, <3>1, <3>2 DEF PmKnows, PmType
  <2> QED
    BY <1>5, <2>2, <2>3, <2>4, <2>5 DEF WalkEnd, Walking
<1>6. CASE Show
  <2>1. pm' = pm \/ pm' = [pm EXCEPT !.pc = "src", !.at = First]
    BY <1>6 DEF Show, Deref, Walk
  <2>2. got \in Value
    BY <1>0, <1>6 DEF Show, PmKnows
  <2> QED
    BY <1>0, <1>3, <1>6, <2>1, <2>2 DEF PmKnows, PmType
<1>7. CASE Write \/ SendMsg \/ Log
  <2>1. pm' = pm \/ pm' = Idle \/ (pm.pc = "send" /\ pm' = [pm EXCEPT !.pc = "log"])
    BY <1>7 DEF Write, SendMsg, Log, Deref
  <2>2. Idle.pc = "idle"
    BY DEF Idle
  <2> QED
    BY <1>0, <1>3, <1>7, <2>1, <2>2 DEF PmKnows, PmType
<1>8. CASE LoadFd
  <2>1. pm' = pm \/ (pm.pc = "load" /\ pm' = [pm EXCEPT !.pc = "send", !.fd = fd[pm.dst]])
    BY <1>8 DEF LoadFd, Deref
  <2> QED
    BY <1>0, <1>3, <1>8, <2>1 DEF PmKnows, PmType
<1> QED
  BY <1>1, <1>2, <1>4, <1>5, <1>6, <1>7, <1>8 DEF SrvProMsg

\* A message arrives on its sender's connection.
OwnItems == \A c \in Conn : \A p \in DOMAIN rx[c] : rx[c][p] \in Value => Via[rx[c][p]] = c

LEMMA OwnItemsStep ==
    ASSUME TypeOK, TableInv, OwnItems, Next
    PROVE  OwnItems'
<1>0. \A c \in Conn : rx[c] \in Seq(Item)
  BY DEF TypeOK
<1>1. ASSUME NEW c \in Conn, NEW q \in Seq(Item), rx'[c] = q, \A d \in Conn : d # c => rx'[d] = rx[d],
             \A p \in DOMAIN q : \/ \E k \in DOMAIN rx[c] : q[p] = rx[c][k]
                                 \/ q[p] \in Value => Via[q[p]] = c
      PROVE  OwnItems'
  BY <1>1 DEF OwnItems
<1>2. ASSUME \A c \in Conn : rx'[c] = rx[c] PROVE OwnItems'
  BY <1>2 DEF OwnItems
<1>3. ASSUME NEW c \in Conn, Connect(c) PROVE OwnItems'
  <2>1. Arrive(Listener, Append(rx[Listener], c))
    BY <1>3 DEF Connect
  <2> QED
    BY <1>2, <2>1, Arrives, Sources
<1>4. CASE StdinInput
  <2>1. Arrive(Stdin, Append(rx[Stdin], "line"))
    BY <1>4 DEF StdinInput
  <2> QED
    BY <1>2, <2>1, Arrives, Sources
<1>5. ASSUME NEW c \in Conn, NEW x \in Item, Arrive(c, Append(rx[c], x)), x \in Value => Via[x] = c
      PROVE  OwnItems'
  <2>1. rx[c] \in Seq(Item) /\ rx'[c] = Append(rx[c], x) /\ \A d \in Conn : d # c => rx'[d] = rx[d]
    BY <1>0, <1>5, Arrives, Sources
  <2>2. /\ Append(rx[c], x) \in Seq(Item)
        /\ \A p \in DOMAIN Append(rx[c], x) :
             \/ p \in DOMAIN rx[c] /\ Append(rx[c], x)[p] = rx[c][p]
             \/ Append(rx[c], x)[p] = x
    BY <2>1, Appended
  <2> QED
    BY <1>1, <1>5, <2>1, <2>2
<1>6. ASSUME NEW c \in Conn, ClientSave(c) PROVE OwnItems'
  <2>1. "SAVE_CLI_INFO" \in Item /\ "SAVE_CLI_INFO" \notin Value /\ Arrive(c, Append(rx[c], "SAVE_CLI_INFO"))
    BY <1>6, TcpServerAssumption DEF ClientSave, Item
  <2> QED
    BY <1>5, <2>1
<1>7. ASSUME NEW c \in Conn, NEW how \in {"fin", "rst"}, ClientClose(c, how) PROVE OwnItems'
  <2>0. "EOF" \in Item /\ "EOF" \notin Value /\ "RST" \in Item /\ "RST" \notin Value
    BY TcpServerAssumption DEF Item
  <2>1. CASE Arrive(c, Append(rx[c], "EOF"))
    BY <1>5, <2>0, <2>1
  <2>2. CASE Arrive(c, rx[c] \o <<"RST", "EOF">>)
    <3> DEFINE q == rx[c] \o <<"RST", "EOF">>
    <3>1. rx[c] \in Seq(Item) /\ rx'[c] = q /\ \A d \in Conn : d # c => rx'[d] = rx[d]
      BY <1>0, <2>2, Arrives, Sources
    <3>2. /\ <<"RST", "EOF">> \in Seq(Item) /\ Len(<<"RST", "EOF">>) = 2 /\ Len(rx[c]) \in Nat
          /\ <<"RST", "EOF">>[1] = "RST" /\ <<"RST", "EOF">>[2] = "EOF"
      BY <2>0, <3>1
    <3>3. /\ q \in Seq(Item) /\ DOMAIN q = 1..(Len(rx[c]) + 2)
          /\ \A p \in 1..Len(rx[c]) : q[p] = rx[c][p]
          /\ q[Len(rx[c]) + 1] = "RST" /\ q[Len(rx[c]) + 2] = "EOF" /\ DOMAIN rx[c] = 1..Len(rx[c])
      BY <3>1, <3>2
    <3> HIDE DEF q
    <3>4. \A p \in DOMAIN q : \/ \E k \in DOMAIN rx[c] : q[p] = rx[c][k]
                              \/ q[p] \in Value => Via[q[p]] = c
      <4> SUFFICES ASSUME NEW p \in DOMAIN q, p \notin DOMAIN rx[c] PROVE q[p] \notin Value
        BY <3>3
      <4>1. p = Len(rx[c]) + 1 \/ p = Len(rx[c]) + 2
        BY <3>2, <3>3
      <4> QED
        BY <2>0, <3>3, <4>1
    <3> QED
      BY <1>1, <3>1, <3>3, <3>4
  <2> QED
    BY <1>7, <2>1, <2>2 DEF ClientClose
<1>8. ASSUME NEW m \in Value, ClientSend(m) PROVE OwnItems'
  <2>1. m \in Item /\ Via[m] \in Conn /\ Arrive(Via[m], Append(rx[Via[m]], m))
    BY <1>8, TcpServerAssumption DEF ClientSend, Item
  <2> QED
    BY <1>5, <2>1
<1>9. ASSUME NEW c \in Conn, NEW i, Recv(c, i) PROVE OwnItems'
  <2>1. rx[c] \in Seq(Item) /\ rx[c] # << >> /\ rx'[c] = Tail(rx[c]) /\ \A d \in Conn : d # c => rx'[d] = rx[d]
    BY <1>9, Receives, Sources
  <2>2. /\ Tail(rx[c]) \in Seq(Item)
        /\ \A p \in DOMAIN Tail(rx[c]) : p + 1 \in DOMAIN rx[c] /\ Tail(rx[c])[p] = rx[c][p + 1]
    BY <2>1, Heads
  <2> QED
    BY <1>1, <2>1, <2>2
<1>10. CASE SrvEp
  <2>1. CASE \E c \in Conn : RecvEnd(c) \/ RecvError(c) \/ RecvSave(c) \/ \E m \in Value : RecvMsg(c, m)
    BY <1>9, <2>1 DEF RecvEnd, RecvError, RecvSave, RecvMsg
  <2>2. CASE AcceptNewClient \/ BroadcastAllClient
    <3>1. \A c \in Conn : rx'[c] = rx[c]
      BY <2>2, Sources DEF AcceptNewClient, BroadcastAllClient, TypeOK
    <3> QED
      BY <1>2, <3>1
  <2>3. CASE EpollWait \/ AcceptError \/ PutCopy \/ PutEnd
    BY <1>2, <2>3 DEF EpollWait, AcceptError, PutCopy, PutEnd
  <2> QED
    BY <1>10, <2>1, <2>2, <2>3 DEF SrvEp
<1>11. CASE SrvProMsg
  BY <1>2, <1>11, PmLeaves
<1> QED
  BY <1>3, <1>4, <1>6, <1>7, <1>8, <1>10, <1>11 DEF Next, Environment

LEMMA PipeStep ==
    ASSUME TypeOK, TableInv, PipeInv, Next
    PROVE  PipeInv'
<1>1. OwnItems'
  BY OwnItemsStep DEF PipeInv, OwnItems
<1>2. PmKnows'
  <2>1. CASE Environment \/ SrvEp
    BY <2>1, PmKept DEF PipeInv, PmKnows
  <2> QED
    BY <2>1, PmKnowsStep DEF Next
<1>3. \A c \in Conn : cliEndid'[c] \in {Server, c}
  <2>1. ASSUME NEW c \in Conn, RecvSave(c) PROVE \A d \in Conn : cliEndid'[d] \in {Server, d}
    <3>1. PICK p \in NodeOfFd(fd[c]) : cliEndid' = [cliEndid EXCEPT ![list[p]] = c]
      BY <2>1 DEF RecvSave
    <3>2. list[p] = c
      BY <2>1, Receives DEF RecvSave
    <3> QED
      BY <3>1, <3>2 DEF PipeInv, TypeOK
  <2>2. ASSUME \A c \in Conn : ~RecvSave(c) PROVE cliEndid' = cliEndid
    <3>1. CASE Environment
      BY <3>1 DEF Environment, Connect, ClientSave, ClientClose, ClientSend, StdinInput, Arrive, listVars
    <3>2. CASE SrvEp
      BY <2>2, <3>2 DEF SrvEp, EpollWait, AcceptNewClient, AcceptError, BroadcastAllClient, PutCopy, PutEnd, RecvEnd,
         RecvError, RecvMsg, listVars
    <3> QED
      BY <3>1, <3>2, PmLeaves DEF Next
  <2> QED
    BY <2>1, <2>2 DEF PipeInv
<1>4. pending' = << >> \/ (ep' # None /\ (pending' = <<ep'>> \/ pending' = <<Junk>>))
  <2>1. CASE PutCopy
    BY <2>1, QueueSteps DEF PutCopy
  <2>2. CASE PutEnd
    BY <2>2, QueueSteps DEF PutEnd
  <2>3. ASSUME NEW c \in Conn, NEW m \in Value, RecvMsg(c, m) PROVE pending' = << >>
    BY <2>3, QueueSteps DEF RecvMsg
  <2>4. CASE UNCHANGED <<ep, pending>>
    BY <2>4 DEF PipeInv
  <2>5. ASSUME \/ Environment \/ EpollWait \/ AcceptNewClient \/ AcceptError \/ BroadcastAllClient
               \/ (\E c \in Conn : RecvEnd(c) \/ RecvError(c) \/ RecvSave(c))
        PROVE  UNCHANGED <<ep, pending>>
    BY <2>5 DEF Environment, Connect, ClientSave, ClientClose, ClientSend, StdinInput, Arrive, EpollWait,
      AcceptNewClient, AcceptError, BroadcastAllClient, RecvEnd, RecvError, RecvSave, queueVars, fifoVars
  <2> QED
    BY <2>1, <2>2, <2>3, <2>4, <2>5, PmLeaves DEF Next, SrvEp
<1> QED
  BY <1>1, <1>2, <1>3, <1>4 DEF PipeInv, OwnItems, PmKnows

-----------------------------------------------------------------------------
(* Order                                                                   *)

\* An inbox gets a message at its end.
LEMMA InboxGrows ==
    ASSUME TypeOK, NEW m \in Value \cup {"line", "ack"},
           \A c \in Conn \cup {Server} : inbox'[c] = inbox[c] \/ inbox'[c] = Append(inbox[c], m)
    PROVE  /\ \A a \in Value : Done(a)' => Done(a) \/ a = m
           /\ \A a, b \in Value : InboxPair(a, b)' => InboxPair(a, b) \/ (Done(a) /\ b = m)
<1>0. \A c \in Conn \cup {Server} : inbox[c] \in Seq(Value \cup {"line", "ack"})
  BY DEF TypeOK
<1>1. ASSUME NEW c \in Conn \cup {Server}
      PROVE  /\ \A i \in DOMAIN inbox'[c] : \/ i \in DOMAIN inbox[c] /\ inbox'[c][i] = inbox[c][i]
                                            \/ i = Len(inbox[c]) + 1 /\ inbox'[c][i] = m
             /\ Len(inbox[c]) \in Nat /\ DOMAIN inbox[c] = 1..Len(inbox[c])
  BY <1>0, Appended
<1>2. ASSUME NEW a \in Value, Done(a)' PROVE Done(a) \/ a = m
  BY <1>1, <1>2 DEF Done
<1>3. ASSUME NEW a \in Value, NEW b \in Value, InboxPair(a, b)' PROVE InboxPair(a, b) \/ (Done(a) /\ b = m)
  <2>1. PICK c \in Conn \cup {Server} : \E i, j \in DOMAIN inbox'[c] :
               i < j /\ inbox'[c][i] = a /\ inbox'[c][j] = b
    BY <1>3 DEF InboxPair
  <2>2. PICK i \in DOMAIN inbox'[c], j \in DOMAIN inbox'[c] : i < j /\ inbox'[c][i] = a /\ inbox'[c][j] = b
    BY <2>1
  <2>3. i \in DOMAIN inbox[c] /\ inbox[c][i] = a
    <3>1. i # Len(inbox[c]) + 1
      BY <1>1, <2>2
    <3> QED
      BY <1>1, <2>2, <3>1
  <2>4. Done(a)
    BY <2>3 DEF Done
  <2>5. CASE j \in DOMAIN inbox[c] /\ inbox'[c][j] = inbox[c][j]
    BY <2>2, <2>3, <2>5 DEF InboxPair
  <2> QED
    BY <1>1, <2>2, <2>4, <2>5
<1> QED
  BY <1>2, <1>3

\* What arrives on a connection and is no message changes nothing here.
LEMMA RxKept ==
    ASSUME TypeOK, NEW c \in Conn, \A d \in Conn : d # c => rx'[d] = rx[d],
           \A p \in DOMAIN rx'[c] : rx'[c][p] \in Value => p \in DOMAIN rx[c] /\ rx'[c][p] = rx[c][p]
    PROVE  /\ \A a \in Value : Arrived(a)' => Arrived(a)
           /\ \A a, b \in Value : RxPair(a, b)' => RxPair(a, b)
<1>0. \A a \in Value : Via[a] \in Conn
  BY TcpServerAssumption
<1>1. ASSUME NEW a \in Value, Arrived(a)' PROVE Arrived(a)
  BY <1>0, <1>1 DEF Arrived
<1>2. ASSUME NEW a \in Value, NEW b \in Value, RxPair(a, b)' PROVE RxPair(a, b)
  <2>1. PICK i \in DOMAIN rx'[Via[a]], j \in DOMAIN rx'[Via[a]] : i < j /\ rx'[Via[a]][i] = a /\ rx'[Via[a]][j] = b
    BY <1>2 DEF RxPair
  <2>2. i \in DOMAIN rx[Via[a]] /\ j \in DOMAIN rx[Via[a]] /\ rx[Via[a]][i] = a /\ rx[Via[a]][j] = b
    BY <1>0, <2>1
  <2> QED
    BY <2>1, <2>2 DEF RxPair
<1> QED
  BY <1>1, <1>2

LEMMA RxGrows ==
    ASSUME TypeOK, NEW c \in Conn, NEW x \in Item, rx'[c] = Append(rx[c], x), \A d \in Conn : d # c => rx'[d] = rx[d]
    PROVE  /\ \A a \in Value : Arrived(a)' => Arrived(a) \/ a = x
           /\ \A a, b \in Value : RxPair(a, b)' => RxPair(a, b) \/ (Arrived(a) /\ b = x)
<1>0. \A a \in Value : Via[a] \in Conn
  BY TcpServerAssumption
<1>1. /\ \A p \in DOMAIN rx'[c] : \/ p \in DOMAIN rx[c] /\ rx'[c][p] = rx[c][p]
                                  \/ p = Len(rx[c]) + 1 /\ rx'[c][p] = x
      /\ Len(rx[c]) \in Nat /\ DOMAIN rx[c] = 1..Len(rx[c])
  <2>1. rx[c] \in Seq(Item)
    BY DEF TypeOK
  <2> QED
    BY <2>1, Appended
<1>2. ASSUME NEW a \in Value, Arrived(a)' PROVE Arrived(a) \/ a = x
  BY <1>0, <1>1, <1>2 DEF Arrived
<1>3. ASSUME NEW a \in Value, NEW b \in Value, RxPair(a, b)' PROVE RxPair(a, b) \/ (Arrived(a) /\ b = x)
  <2>1. PICK i \in DOMAIN rx'[Via[a]], j \in DOMAIN rx'[Via[a]] : i < j /\ rx'[Via[a]][i] = a /\ rx'[Via[a]][j] = b
    BY <1>3 DEF RxPair
  <2>2. CASE Via[a] # c
    BY <1>0, <2>1, <2>2 DEF RxPair
  <2>3. CASE Via[a] = c
    <3>1. i \in DOMAIN rx[c] /\ rx[c][i] = a
      <4>1. i # Len(rx[c]) + 1
        BY <1>1, <2>1, <2>3
      <4> QED
        BY <1>1, <2>1, <2>3, <4>1
    <3>2. Arrived(a)
      BY <2>3, <3>1 DEF Arrived
    <3>3. CASE j \in DOMAIN rx[c] /\ rx'[c][j] = rx[c][j]
      BY <2>1, <2>3, <3>1, <3>3 DEF RxPair
    <3> QED
      BY <1>1, <2>1, <2>3, <3>2, <3>3
  <2> QED
    BY <2>2, <2>3
<1> QED
  BY <1>2, <1>3

\* What is read is ahead of what is left.
LEMMA RxShrinks ==
    ASSUME TypeOK, TableInv, PipeInv, NEW c \in Conn, NEW x, Recv(c, x)
    PROVE  /\ \A a \in Value : Arrived(a)' => Arrived(a)
           /\ \A a, b \in Value : RxPair(a, b)' => RxPair(a, b)
           /\ x \in Value => /\ Via[x] = c /\ Arrived(x)
                             /\ \A b \in Value : Via[b] = c /\ Arrived(b)' => RxPair(x, b)
<1>0. \A a \in Value : Via[a] \in Conn
  BY TcpServerAssumption
<1>1. /\ rx[c] \in Seq(Item) /\ rx[c] # << >> /\ x = Head(rx[c])
      /\ rx'[c] = Tail(rx[c]) /\ \A d \in Conn : d # c => rx'[d] = rx[d]
  BY Receives, Sources
<1>2. /\ \A p \in DOMAIN rx'[c] : p + 1 \in DOMAIN rx[c] /\ rx'[c][p] = rx[c][p + 1] /\ p \in Nat \ {0}
      /\ x = rx[c][1] /\ 1 \in DOMAIN rx[c]
  BY <1>1, Heads
<1>3. ASSUME NEW a \in Value, Arrived(a)' PROVE Arrived(a)
  <2>1. PICK p \in DOMAIN rx'[Via[a]] : rx'[Via[a]][p] = a
    BY <1>3 DEF Arrived
  <2>2. CASE Via[a] = c
    <3>1. p + 1 \in DOMAIN rx[Via[a]] /\ rx[Via[a]][p + 1] = a
      BY <1>2, <2>1, <2>2
    <3> QED
      BY <3>1 DEF Arrived
  <2>3. CASE Via[a] # c
    BY <1>0, <1>1, <2>1, <2>3 DEF Arrived
  <2> QED
    BY <2>2, <2>3
<1>4. ASSUME NEW a \in Value, NEW b \in Value, RxPair(a, b)' PROVE RxPair(a, b)
  <2>1. PICK i \in DOMAIN rx'[Via[a]], j \in DOMAIN rx'[Via[a]] : i < j /\ rx'[Via[a]][i] = a /\ rx'[Via[a]][j] = b
    BY <1>4 DEF RxPair
  <2>2. CASE Via[a] # c
    BY <1>0, <1>1, <2>1, <2>2 DEF RxPair
  <2>3. CASE Via[a] = c
    <3>1. /\ i + 1 \in DOMAIN rx[c] /\ j + 1 \in DOMAIN rx[c] /\ rx[c][i + 1] = a /\ rx[c][j + 1] = b
          /\ i \in Nat /\ j \in Nat
      BY <1>2, <2>1, <2>3
    <3>2. i + 1 < j + 1
      BY <2>1, <3>1
    <3> QED
      BY <2>3, <3>1, <3>2 DEF RxPair
  <2> QED
    BY <2>2, <2>3
<1>5. ASSUME x \in Value PROVE Via[x] = c /\ Arrived(x)
  BY <1>2, <1>5 DEF PipeInv, Arrived
<1>6. ASSUME x \in Value, NEW b \in Value, Via[b] = c, Arrived(b)' PROVE RxPair(x, b)
  <2>1. PICK p \in DOMAIN rx'[c] : rx'[c][p] = b
    BY <1>6 DEF Arrived
  <2>2. p + 1 \in DOMAIN rx[c] /\ rx[c][p + 1] = b /\ 1 < p + 1
    BY <1>2, <2>1
  <2> QED
    BY <1>2, <1>5, <1>6, <2>2 DEF RxPair
<1> QED
  BY <1>3, <1>4, <1>5, <1>6

\* What leaves the places alone leaves the messages there.
LEMMA PlacesKept ==
    /\ inbox' = inbox => /\ \A a \in Value : Done(a)' <=> Done(a)
                         /\ \A a, b \in Value : InboxPair(a, b)' <=> InboxPair(a, b)
    /\ items' = items => /\ \A a \in Value : Queued(a)' <=> Queued(a)
                         /\ \A a, b \in Value : QueuePair(a, b)' <=> QueuePair(a, b)
    /\ (\A c \in Conn : rx'[c] = rx[c]) =>
                         /\ \A a \in Value : Arrived(a)' <=> Arrived(a)
                         /\ \A a, b \in Value : RxPair(a, b)' <=> RxPair(a, b)
    /\ ep' = ep => \A a \in Value : Putting(a)' <=> Putting(a)
    /\ got' = got /\ (pm.pc = "idle" => pm'.pc = "idle") => \A a \in Value : Handled(a)' => Handled(a)
<1>1. inbox' = inbox => /\ \A a \in Value : Done(a)' <=> Done(a)
                        /\ \A a, b \in Value : InboxPair(a, b)' <=> InboxPair(a, b)
  BY DEF Done, InboxPair
<1>2. items' = items => /\ \A a \in Value : Queued(a)' <=> Queued(a)
                        /\ \A a, b \in Value : QueuePair(a, b)' <=> QueuePair(a, b)
  BY DEF Queued, QueuePair
<1>3. ASSUME \A c \in Conn : rx'[c] = rx[c]
      PROVE  /\ \A a \in Value : Arrived(a)' <=> Arrived(a)
             /\ \A a, b \in Value : RxPair(a, b)' <=> RxPair(a, b)
  <2>1. \A a \in Value : rx'[Via[a]] = rx[Via[a]]
    BY <1>3, TcpServerAssumption
  <2> QED
    BY <2>1 DEF Arrived, RxPair
<1>4. ep' = ep => \A a \in Value : Putting(a)' <=> Putting(a)
  BY DEF Putting
<1>5. got' = got /\ (pm.pc = "idle" => pm'.pc = "idle") => \A a \in Value : Handled(a)' => Handled(a)
  BY DEF Handled
<1> QED
  BY <1>1, <1>2, <1>3, <1>4, <1>5

\* A step that keeps the order of the messages keeps the invariant.
LEMMA OrderKept ==
    ASSUME OrderInv, sent' = sent,
           \A a \in Value : Known(a)' => Known(a),
           \A a, b \in Value : Via[a] = Via[b] /\ Leads(a, b)' => Leads(a, b)
    PROVE  OrderInv'
<1>1. \A a, b : Before(a, b) <=> Before(a, b)'
  BY DEF Before
<1> QED
  BY <1>1 DEF OrderInv

\* In particular one that moves no message on.
LEMMA OrderQuiet ==
    ASSUME OrderInv, sent' = sent,
           \A a \in Value : /\ Done(a)' => Done(a)
                            /\ Handled(a)' => Handled(a)
                            /\ Queued(a)' => Queued(a)
                            /\ Putting(a)' => Putting(a)
                            /\ Arrived(a)' => Arrived(a),
           \A a, b \in Value : /\ QueuePair(a, b)' => QueuePair(a, b)
                               /\ RxPair(a, b)' => RxPair(a, b)
                               /\ InboxPair(a, b)' => InboxPair(a, b)
    PROVE  OrderInv'
<1>1. \A a \in Value : Known(a)' => Known(a)
  BY DEF Known
<1>2. \A a, b \in Value : Leads(a, b)' => Leads(a, b)
  BY DEF Leads
<1> QED
  BY <1>1, <1>2, OrderKept

LEMMA OrderSends ==
    ASSUME TypeOK, OrderInv, NEW m \in Value, ClientSend(m)
    PROVE  OrderInv'
<1>1. /\ sent' = Append(sent, m) /\ ~Contains(sent, m) /\ sent \in Seq(Value)
      /\ Arrive(Via[m], Append(rx[Via[m]], m)) /\ Via[m] \in Conn /\ m \in Item
  BY TcpServerAssumption DEF ClientSend, TypeOK, Item
<1>2. /\ UNCHANGED <<queueVars, ep, pm, inbox>>
      /\ rx'[Via[m]] = Append(rx[Via[m]], m) /\ \A d \in Conn : d # Via[m] => rx'[d] = rx[d]
  BY <1>1, Arrives, Sources
<1>3. /\ \A a \in Value : Arrived(a)' => Arrived(a) \/ a = m
      /\ \A a, b \in Value : RxPair(a, b)' => RxPair(a, b) \/ (Arrived(a) /\ b = m)
  BY <1>1, <1>2, RxGrows
<1>4. /\ \A a \in Value : /\ Done(a)' => Done(a)
                          /\ Handled(a)' => Handled(a)
                          /\ Queued(a)' => Queued(a)
                          /\ Putting(a)' => Putting(a)
      /\ \A a, b \in Value : /\ QueuePair(a, b)' => QueuePair(a, b)
                             /\ InboxPair(a, b)' => InboxPair(a, b)
  BY <1>2, PlacesKept DEF queueVars, fifoVars
<1>5. /\ \A k \in DOMAIN sent : sent[k] # m /\ sent'[k] = sent[k] /\ k \in DOMAIN sent' /\ k < Len(sent) + 1
      /\ Len(sent) + 1 \in DOMAIN sent' /\ sent'[Len(sent) + 1] = m
      /\ \A k \in DOMAIN sent' : k \in DOMAIN sent \/ k = Len(sent) + 1
  BY <1>1, Appended DEF Contains
<1>6. \A k, l \in DOMAIN sent' : sent'[k] = sent'[l] => k = l
  BY <1>5 DEF OrderInv
<1>7. ASSUME NEW a \in Value, Known(a)' PROVE \E k \in DOMAIN sent' : sent'[k] = a
  <2>1. Known(a) \/ a = m
    BY <1>3, <1>4, <1>7 DEF Known
  <2> QED
    BY <1>5, <2>1 DEF OrderInv
<1>8. ASSUME NEW a \in Value, NEW b \in Value, Via[a] = Via[b], Leads(a, b)' PROVE Before(a, b)'
  <2>1. Leads(a, b) \/ (Known(a) /\ b = m)
    BY <1>3, <1>4, <1>8 DEF Leads, Known
  <2>2. CASE Leads(a, b)
    <3>1. Before(a, b)
      BY <1>8, <2>2 DEF OrderInv
    <3> QED
      BY <1>5, <3>1 DEF Before
  <2>3. CASE Known(a) /\ b = m
    <3>1. PICK k \in DOMAIN sent : sent[k] = a
      BY <2>3 DEF OrderInv
    <3> QED
      BY <1>5, <2>3, <3>1 DEF Before
  <2> QED
    BY <2>1, <2>2, <2>3
<1> QED
  BY <1>6, <1>7, <1>8 DEF OrderInv

LEMMA OrderPuts ==
    ASSUME TypeOK, PipeInv, OrderInv, PutEnd
    PROVE  OrderInv'
<1>1. /\ items' = items \o pending /\ pending # << >> /\ got' = got /\ ep' = None /\ ep # None
      /\ UNCHANGED <<rx, pm, inbox, sent>>
  BY QueueSteps DEF PutEnd, netVars
<1>2. PICK v \in Element : pending = <<v>> /\ (v = ep \/ v = Junk)
  BY <1>1 DEF PipeInv, TypeOK, Element
<1>3. items \in Seq(Element) /\ items' = Append(items, v)
  BY <1>1, <1>2 DEF TypeOK
<1>4. /\ \A i \in DOMAIN items' : \/ i \in DOMAIN items /\ items'[i] = items[i]
                                  \/ i = Len(items) + 1 /\ items'[i] = v
      /\ Len(items) \in Nat /\ DOMAIN items = 1..Len(items)
  BY <1>3, Appended
<1>5. Junk \notin Value /\ None \notin Value
  BY TcpServerAssumption
<1>6. \A a \in Value : Queued(a)' => Queued(a) \/ Putting(a)
  BY <1>2, <1>4, <1>5 DEF Queued, Putting
<1>7. ASSUME NEW a \in Value, NEW b \in Value, QueuePair(a, b)' PROVE QueuePair(a, b) \/ (Queued(a) /\ Putting(b))
  <2>1. PICK i \in DOMAIN items', j \in DOMAIN items' : i < j /\ items'[i] = a /\ items'[j] = b
    BY <1>7 DEF QueuePair
  <2>2. i # Len(items) + 1
    BY <1>4, <2>1
  <2>3. i \in DOMAIN items /\ items[i] = a
    BY <1>4, <2>1, <2>2
  <2>4. CASE j \in DOMAIN items /\ items'[j] = items[j]
    BY <2>1, <2>3, <2>4 DEF QueuePair
  <2>5. CASE items'[j] = v
    BY <1>2, <1>5, <2>1, <2>3, <2>5 DEF Queued, Putting
  <2> QED
    BY <1>4, <2>4, <2>5
<1>8. /\ \A a \in Value : /\ Done(a)' => Done(a)
                          /\ Handled(a)' => Handled(a)
                          /\ ~Putting(a)'
                          /\ Arrived(a)' => Arrived(a)
      /\ \A a, b \in Value : /\ RxPair(a, b)' => RxPair(a, b)
                             /\ InboxPair(a, b)' => InboxPair(a, b)
  BY <1>1, <1>5, PlacesKept DEF Putting
<1>9. \A a \in Value : Known(a)' => Known(a)
  BY <1>6, <1>8 DEF Known
<1>10. \A a, b \in Value : Leads(a, b)' => Leads(a, b)
  BY <1>6, <1>7, <1>8 DEF Leads
<1> QED
  BY <1>1, <1>9, <1>10, OrderKept

LEMMA OrderGets ==
    ASSUME TypeOK, OrderInv, PmGet
    PROVE  OrderInv'
<1>1. /\ items # << >> /\ got' = Head(items) /\ items' = Tail(items) /\ pm.pc = "idle"
      /\ UNCHANGED <<rx, ep, inbox, sent>> /\ items \in Seq(Element)
  BY QueueSteps DEF PmGet, PmUnchanged, netVars, TypeOK
<1>2. /\ \A i \in DOMAIN items' : i + 1 \in DOMAIN items /\ items'[i] = items[i + 1] /\ i \in Nat \ {0}
      /\ got' = items[1] /\ 1 \in DOMAIN items
  BY <1>1, Heads
<1>3. ASSUME NEW a \in Value, Handled(a)' PROVE Queued(a) /\ \A b \in Value : Queued(b)' => QueuePair(a, b)
  <2>1. a = items[1]
    BY <1>2, <1>3 DEF Handled
  <2>2. ASSUME NEW b \in Value, Queued(b)' PROVE QueuePair(a, b)
    <3>1. PICK i \in DOMAIN items' : items'[i] = b
      BY <2>2 DEF Queued
    <3>2. i + 1 \in DOMAIN items /\ items[i + 1] = b /\ 1 < i + 1
      BY <1>2, <3>1
    <3> QED
      BY <1>2, <2>1, <3>2 DEF QueuePair
  <2> QED
    BY <1>2, <2>1, <2>2 DEF Queued
<1>4. ASSUME NEW a \in Value, Queued(a)' PROVE Queued(a)
  <2>1. PICK i \in DOMAIN items' : items'[i] = a
    BY <1>4 DEF Queued
  <2>2. i + 1 \in DOMAIN items /\ items[i + 1] = a
    BY <1>2, <2>1
  <2> QED
    BY <2>2 DEF Queued
<1>5. ASSUME NEW a \in Value, NEW b \in Value, QueuePair(a, b)' PROVE QueuePair(a, b)
  <2>1. PICK i \in DOMAIN items', j \in DOMAIN items' : i < j /\ items'[i] = a /\ items'[j] = b
    BY <1>5 DEF QueuePair
  <2>2. /\ i + 1 \in DOMAIN items /\ items[i + 1] = a /\ j + 1 \in DOMAIN items /\ items[j + 1] = b
        /\ i \in Nat /\ j \in Nat
    BY <1>2, <2>1
  <2>3. i + 1 < j + 1
    BY <2>1, <2>2
  <2> QED
    BY <2>2, <2>3 DEF QueuePair
<1>6. /\ \A a \in Value : /\ Done(a)' => Done(a)
                          /\ Putting(a)' => Putting(a)
                          /\ Arrived(a)' => Arrived(a)
      /\ \A a, b \in Value : /\ RxPair(a, b)' => RxPair(a, b)
                             /\ InboxPair(a, b)' => InboxPair(a, b)
  BY <1>1, PlacesKept
<1>7. \A a \in Value : Known(a)' => Known(a)
  BY <1>3, <1>4, <1>6 DEF Known
<1>8. \A a, b \in Value : Leads(a, b)' => Leads(a, b)
  BY <1>3, <1>4, <1>5, <1>6 DEF Leads
<1> QED
  BY <1>1, <1>7, <1>8, OrderKept

LEMMA OrderReceives ==
    ASSUME TypeOK, TableInv, PipeInv, OrderInv, NEW c \in Conn, NEW m \in Value, RecvMsg(c, m)
    PROVE  OrderInv'
<1>1. /\ Recv(c, m) /\ ep' = m /\ items' = items /\ got' = got /\ UNCHANGED <<pm, inbox, sent>>
  BY QueueSteps DEF RecvMsg, netVars
<1>2. /\ \A a \in Value : Arrived(a)' => Arrived(a)
      /\ \A a, b \in Value : RxPair(a, b)' => RxPair(a, b)
      /\ Via[m] = c /\ Arrived(m)
      /\ \A b \in Value : Via[b] = c /\ Arrived(b)' => RxPair(m, b)
  BY <1>1, RxShrinks
<1>3. \A a \in Value : Putting(a)' => a = m
  BY <1>1 DEF Putting
<1>4. /\ \A a \in Value : /\ Done(a)' => Done(a)
                          /\ Handled(a)' => Handled(a)
                          /\ Queued(a)' => Queued(a)
      /\ \A a, b \in Value : /\ QueuePair(a, b)' => QueuePair(a, b)
                             /\ InboxPair(a, b)' => InboxPair(a, b)
  BY <1>1, PlacesKept
<1>5. \A a \in Value : Known(a)' => Known(a)
  BY <1>2, <1>3, <1>4 DEF Known
<1>6. \A a, b \in Value : Via[a] = Via[b] /\ Leads(a, b)' => Leads(a, b)
  BY <1>2, <1>3, <1>4 DEF Leads
<1> QED
  BY <1>1, <1>5, <1>6, OrderKept

\* The message handled is delivered, and the next one awaited.
LEMMA OrderDelivers ==
    ASSUME TypeOK, OrderInv, pm.pc # "idle", pm'.pc = "idle", UNCHANGED <<rx, items, got, ep, sent>>, got \in Value,
           \A c \in Conn \cup {Server} : inbox'[c] = inbox[c] \/ inbox'[c] = Append(inbox[c], got)
    PROVE  OrderInv'
<1>1. /\ \A a \in Value : Done(a)' => Done(a) \/ a = got
      /\ \A a, b \in Value : InboxPair(a, b)' => InboxPair(a, b) \/ (Done(a) /\ b = got)
  BY InboxGrows
<1>2. Handled(got) /\ \A a \in Value : ~Handled(a)'
  BY DEF Handled
<1>3. /\ \A a \in Value : /\ Queued(a)' => Queued(a)
                          /\ Putting(a)' => Putting(a)
                          /\ Arrived(a)' => Arrived(a)
      /\ \A a, b \in Value : /\ QueuePair(a, b)' => QueuePair(a, b)
                             /\ RxPair(a, b)' => RxPair(a, b)
  BY PlacesKept
<1>4. \A a \in Value : Known(a)' => Known(a)
  BY <1>1, <1>2, <1>3 DEF Known
<1>5. \A a, b \in Value : Leads(a, b)' => Leads(a, b)
  BY <1>1, <1>2, <1>3 DEF Leads
<1> QED
  BY <1>4, <1>5, OrderKept

\* What send() adds to the inboxes.
LEMMA Delivers ==
    ASSUME TypeOK, NEW F \in SUBSET Fd, NEW m \in Value \cup {"line", "ack"}, Send(F, m), NEW c \in Conn \cup {Server}
    PROVE  /\ inbox'[c] = inbox[c] \/ inbox'[c] = Append(inbox[c], m)
           /\ inbox'[c] # inbox[c] => c \in Conn /\ peer[c] \notin Gone /\ \E f \in F : fdt[f] = c
<1> DEFINE to == {fdt[f] : f \in F} \ {None}
<1>1. inbox' = [d \in DOMAIN inbox |-> IF d \in to /\ peer[d] \notin Gone THEN Append(inbox[d], m) ELSE inbox[d]]
  BY DEF Send
<1>2. fdt \in [Fd -> Conn \cup {None}] /\ DOMAIN inbox = Conn \cup {Server}
  BY DEF TypeOK
<1>3. c \in to => \E f \in F : fdt[f] = c
  OBVIOUS
<1>4. to \subseteq Conn
  BY <1>2
<1> HIDE DEF to
<1> QED
  BY <1>1, <1>2, <1>3, <1>4

LEMMA OrderStep ==
    ASSUME TypeOK, TableInv, PipeInv, OrderInv, Next
    PROVE  OrderInv'
<1>1. ASSUME NEW m \in Value, ClientSend(m) PROVE OrderInv'
  BY <1>1, OrderSends
<1>2. CASE PutEnd
  BY <1>2, OrderPuts
<1>3. CASE PmGet
  BY <1>3, OrderGets
<1>4. ASSUME NEW c \in Conn, NEW m \in Value, RecvMsg(c, m) PROVE OrderInv'
  BY <1>4, OrderReceives
<1>5. CASE Write
  <2>1. /\ pm.pc = "write" /\ pm' = Idle /\ inbox' = [inbox EXCEPT ![Server] = Append(inbox[Server], got)]
        /\ UNCHANGED <<rx, queueVars, ep, netVars>>
    BY <1>5 DEF Write, PmUnchanged
  <2>2. got \in Value /\ pm'.pc = "idle"
    BY <2>1 DEF PipeInv, Idle
  <2>3. \A c \in Conn \cup {Server} : inbox'[c] = inbox[c] \/ inbox'[c] = Append(inbox[c], got)
    BY <2>1 DEF TypeOK
  <2> QED
    BY <2>1, <2>2, <2>3, OrderDelivers DEF queueVars, fifoVars, netVars
<1>6. CASE SendMsg
  <2>1. /\ pm.pc = "send" /\ pm' = IF SendFails(pm.fd) THEN [pm EXCEPT !.pc = "log"] ELSE Idle
        /\ Send({pm.fd}, got) /\ UNCHANGED <<rx, queueVars, ep, netVars>>
    BY <1>6 DEF SendMsg
  <2>2. got \in Value /\ {pm.fd} \in SUBSET Fd
    BY <2>1, SendsTo DEF PipeInv
  <2>3. \A c \in Conn \cup {Server} :
            \/ inbox'[c] = inbox[c]
            \/ inbox'[c] = Append(inbox[c], got) /\ c \in Conn /\ peer[c] \notin Gone /\ fdt[pm.fd] = c
    <3>1. PICK F \in SUBSET Fd, m \in Value \cup {"line", "ack"} : F = {pm.fd} /\ m = got /\ Send(F, m)
      BY <2>1, <2>2
    <3>2. Send(F, m)
      BY <3>1
    <3>3. \A c \in Conn \cup {Server} :
            /\ inbox'[c] = inbox[c] \/ inbox'[c] = Append(inbox[c], m)
            /\ inbox'[c] # inbox[c] => c \in Conn /\ peer[c] \notin Gone /\ \E f \in F : fdt[f] = c
      BY <3>2, Delivers
    <3> QED
      BY <3>1, <3>3
  <2>4. CASE SendFails(pm.fd)
    <3>1. inbox' = inbox
      <4>1. \A c \in Conn \cup {Server} : inbox'[c] = inbox[c]
        BY <2>3, <2>4, Sources DEF SendFails, Gone
      <4>2. inbox' \in [Conn \cup {Server} -> Seq(Value \cup {"line", "ack"})]
        BY <2>1, <2>2, Sends
      <4> QED
        BY <4>1, <4>2 DEF TypeOK
    <3> QED
      BY <2>1, <3>1, PlacesKept, OrderQuiet DEF queueVars, fifoVars, netVars
  <2>5. CASE ~SendFails(pm.fd)
    <3>1. pm'.pc = "idle"
      BY <2>1, <2>5 DEF Idle
    <3> QED
      BY <2>1, <2>2, <2>3, <3>1, OrderDelivers DEF queueVars, fifoVars, netVars
  <2> QED
    BY <2>4, <2>5
<1>7. ASSUME NEW c \in Conn, RecvEnd(c) \/ RecvError(c) PROVE OrderInv'
  <2>1. UNCHANGED <<queueVars, pm, inbox, ep, netVars>> /\ \E x : Recv(c, x)
    BY <1>7 DEF RecvEnd, RecvError
  <2> QED
    BY <2>1, RxShrinks, PlacesKept, OrderQuiet DEF queueVars, fifoVars, netVars
<1>8. ASSUME NEW c \in Conn, RecvSave(c) PROVE OrderInv'
  <2>1. UNCHANGED <<queueVars, pm, ep, netVars>> /\ Recv(c, "SAVE_CLI_INFO") /\ Send({fd[c]}, "ack")
    BY <1>8 DEF RecvSave
  <2>2. {fd[c]} \in SUBSET Fd /\ "ack" \in Value \cup {"line", "ack"} /\ "ack" \notin Value
    BY <2>1, SendsTo, TcpServerAssumption
  <2>3. \A d \in Conn \cup {Server} : inbox'[d] = inbox[d] \/ inbox'[d] = Append(inbox[d], "ack")
    BY <2>1, <2>2, Delivers, ZenonT(60)
  <2>4. /\ \A a \in Value : Done(a)' => Done(a)
        /\ \A a, b \in Value : InboxPair(a, b)' => InboxPair(a, b)
    BY <2>2, <2>3, InboxGrows
  <2> QED
    BY <2>1, <2>4, RxShrinks, PlacesKept, OrderQuiet DEF queueVars, fifoVars, netVars
<1>9. CASE BroadcastAllClient
  <2>1. /\ UNCHANGED <<queueVars, pm, ep, netVars>> /\ Send({fd[c] : c \in Range(list)}, "line")
        /\ \A c \in Conn : rx'[c] = rx[c]
    BY <1>9, Sources DEF BroadcastAllClient, TypeOK
  <2>2. {fd[c] : c \in Range(list)} \in SUBSET Fd /\ "line" \in Value \cup {"line", "ack"} /\ "line" \notin Value
    BY SendsTo, TcpServerAssumption
  <2>3. \A d \in Conn \cup {Server} : inbox'[d] = inbox[d] \/ inbox'[d] = Append(inbox[d], "line")
    <3>1. PICK F \in SUBSET Fd, m \in Value \cup {"line", "ack"} : m = "line" /\ Send(F, m)
      BY <2>1, <2>2
    <3> QED
      BY <3>1, Delivers
  <2>4. /\ \A a \in Value : Done(a)' => Done(a)
        /\ \A a, b \in Value : InboxPair(a, b)' => InboxPair(a, b)
    BY <2>2, <2>3, InboxGrows
  <2> QED
    BY <2>1, <2>4, PlacesKept, OrderQuiet DEF queueVars, fifoVars, netVars
<1>10. ASSUME NEW s \in Source, NEW q, Arrive(s, q), sent' = sent, s \notin Conn PROVE OrderInv'
  <2>1. UNCHANGED <<queueVars, ep, pm, inbox>> /\ \A c \in Conn : rx'[c] = rx[c]
    BY <1>10, Arrives, Sources
  <2> QED
    BY <1>10, <2>1, PlacesKept, OrderQuiet DEF queueVars, fifoVars
<1>11. CASE StdinInput \/ \E c \in Conn : Connect(c)
  <2>1. sent' = sent /\ \E s \in {Listener, Stdin} : \E q : Arrive(s, q)
    BY <1>11 DEF StdinInput, Connect, netVars
  <2>2. {Listener, Stdin} \subseteq Source /\ Listener \notin Conn /\ Stdin \notin Conn
    BY Sources
  <2> QED
    BY <1>10, <2>1, <2>2
<1>12. ASSUME NEW c \in Conn, NEW q, Arrive(c, q), sent' = sent,
              \A p \in DOMAIN q : q[p] \in Value => p \in DOMAIN rx[c] /\ q[p] = rx[c][p]
       PROVE  OrderInv'
  <2>1. UNCHANGED <<queueVars, ep, pm, inbox>> /\ rx'[c] = q /\ \A d \in Conn : d # c => rx'[d] = rx[d]
    BY <1>12, Arrives, Sources
  <2> QED
    BY <1>12, <2>1, RxKept, PlacesKept, OrderQuiet DEF queueVars, fifoVars
<1>13. ASSUME NEW c \in Conn, ClientSave(c) \/ \E how \in {"fin", "rst"} : ClientClose(c, how) PROVE OrderInv'
  <2>1. /\ sent' = sent
        /\ \E q \in {Append(rx[c], "SAVE_CLI_INFO"), Append(rx[c], "EOF"), rx[c] \o <<"RST", "EOF">>} : Arrive(c, q)
    BY <1>13 DEF ClientSave, ClientClose, netVars
  <2>2. /\ rx[c] \in Seq(Item) /\ "EOF" \in Item /\ "EOF" \notin Value /\ "RST" \in Item /\ "RST" \notin Value
        /\ "SAVE_CLI_INFO" \in Item /\ "SAVE_CLI_INFO" \notin Value
    BY TcpServerAssumption DEF Item, TypeOK
  <2>3. ASSUME NEW x \in Item, x \notin Value, NEW p \in DOMAIN Append(rx[c], x), Append(rx[c], x)[p] \in Value
        PROVE  p \in DOMAIN rx[c] /\ Append(rx[c], x)[p] = rx[c][p]
    BY <2>2, <2>3, Appended
  <2>4. ASSUME NEW p \in DOMAIN (rx[c] \o <<"RST", "EOF">>), (rx[c] \o <<"RST", "EOF">>)[p] \in Value
        PROVE  p \in DOMAIN rx[c] /\ (rx[c] \o <<"RST", "EOF">>)[p] = rx[c][p]
    <3> DEFINE q == rx[c] \o <<"RST", "EOF">>
    <3>1. /\ <<"RST", "EOF">> \in Seq(Item) /\ Len(<<"RST", "EOF">>) = 2 /\ Len(rx[c]) \in Nat
          /\ <<"RST", "EOF">>[1] = "RST" /\ <<"RST", "EOF">>[2] = "EOF"
      BY <2>2
    <3>2. /\ DOMAIN q = 1..(Len(rx[c]) + 2) /\ \A k \in 1..Len(rx[c]) : q[k] = rx[c][k]
          /\ q[Len(rx[c]) + 1] = "RST" /\ q[Len(rx[c]) + 2] = "EOF" /\ DOMAIN rx[c] = 1..Len(rx[c])
      BY <2>2, <3>1
    <3>3. p \in DOMAIN q /\ q[p] \in Value
      BY <2>4
    <3> HIDE DEF q
    <3>4. p \in 1..Len(rx[c])
      BY <2>2, <3>1, <3>2, <3>3
    <3> QED
      BY <3>2, <3>4 DEF q
  <2>5. CASE Arrive(c, Append(rx[c], "SAVE_CLI_INFO"))
    BY <1>12, <2>1, <2>2, <2>3, <2>5
  <2>6. CASE Arrive(c, Append(rx[c], "EOF"))
    BY <1>12, <2>1, <2>2, <2>3, <2>6
  <2>7. CASE Arrive(c, rx[c] \o <<"RST", "EOF">>)
    BY <1>12, <2>1, <2>4, <2>7
  <2> QED
    BY <2>1, <2>5, <2>6, <2>7
<1>14. CASE AcceptNewClient
  <2>1. UNCHANGED <<queueVars, pm, inbox, ep, netVars>> /\ \A c \in Conn : rx'[c] = rx[c]
    BY <1>14, Sources DEF AcceptNewClient, TypeOK
  <2> QED
    BY <2>1, PlacesKept, OrderQuiet DEF queueVars, fifoVars, netVars
<1>15. CASE EpollWait \/ AcceptError \/ PutCopy
  <2>1. UNCHANGED <<pm, inbox, ep, netVars, rx>>
    BY <1>15 DEF EpollWait, AcceptError, PutCopy
  <2>2. UNCHANGED <<items, got>>
    BY <1>15, QueueSteps DEF EpollWait, AcceptError, PutCopy, queueVars, fifoVars
  <2> QED
    BY <2>1, <2>2, PlacesKept, OrderQuiet DEF netVars
<1>16. CASE PmClear \/ PmEndGet \/ WalkOn \/ WalkLost \/ WalkEnd \/ Show \/ LoadFd \/ Log
  <2>1. UNCHANGED <<inbox, ep, netVars, rx>> /\ pm.pc # "idle"
    BY <1>16 DEF PmClear, PmEndGet, WalkOn, WalkLost, WalkEnd, Show, LoadFd, Log, Quiet, PmUnchanged, Walking
  <2>2. UNCHANGED <<items, got>>
    BY <1>16, QueueSteps DEF PmClear, PmEndGet, WalkOn, WalkLost, WalkEnd, Show, LoadFd, Log, Quiet, queueVars, fifoVars
  <2> QED
    BY <2>1, <2>2, PlacesKept, OrderQuiet DEF netVars
<1> QED
  BY <1>1, <1>2, <1>3, <1>4, <1>5, <1>6, <1>7, <1>8, <1>9, <1>11, <1>13, <1>14, <1>15, <1>16
     DEF Next, Environment, SrvEp, SrvProMsg

-----------------------------------------------------------------------------
(* Destination                                                             *)

\* A descriptor once closed under SrvProMsg's hands is remembered.
LEMMA StaleStays == ASSUME Next PROVE stale => stale'
<1>1. CASE Environment
  BY <1>1, Zenon DEF Environment, Connect, ClientSave, ClientClose, ClientSend, StdinInput, Arrive
<1>2. CASE \E c \in Conn : RecvEnd(c)
  BY <1>2, Zenon DEF RecvEnd
<1>3. CASE SrvEp /\ ~\E c \in Conn : RecvEnd(c)
  <2>1. stale' = stale
    BY <1>3 DEF SrvEp, EpollWait, AcceptNewClient, AcceptError, BroadcastAllClient, PutCopy, PutEnd, RecvError,
                RecvSave, RecvMsg
  <2> QED
    BY <2>1, Zenon
<1>4. CASE SrvProMsg
  <2>1. stale' = stale
    BY <1>4 DEF SrvProMsg, PmGet, PmClear, PmEndGet, WalkOn, WalkLost, WalkEnd, Show, Write, LoadFd, SendMsg,
                Log, Quiet
  <2> QED
    BY <2>1, Zenon
<1> QED
  BY <1>1, <1>2, <1>3, <1>4 DEF Next

OnTarget == pm.pc = "send" => fdt[pm.fd] = Dest[got]
Addressed == \A c \in Conn \cup {Server} : \A i \in DOMAIN inbox[c] :
               inbox[c][i] \in Value => Dest[inbox[c][i]] = c

LEMMA OnTargetStep ==
    ASSUME TypeOK, TableInv, PipeInv, OnTarget, Next,
           \A c \in Conn : RecvEnd(c) => ~(pm.pc = "send" /\ pm.fd = fd[c])
    PROVE  OnTarget'
<1>0. /\ fdt \in [Fd -> Conn \cup {None}] /\ pm \in PmType
      /\ pm.pc = "send" => pm.fd \in Fd /\ Dest[got] \in Conn
  <2>1. pm.pc = "send" => got \in Value /\ Dest[got] # Server
    BY DEF PipeInv
  <2> QED
    BY <2>1, PmFields, TcpServerAssumption DEF TableInv, TypeOK
<1>1. CASE AcceptNewClient
  <2>1. PICK f \in Fd : fdt[f] = None /\ fdt' = [fdt EXCEPT ![f] = Head(rx[Listener])]
    BY <1>1 DEF AcceptNewClient
  <2>2. UNCHANGED <<pm, got>>
    BY <1>1, PmKept DEF SrvEp
  <2>3. pm.pc = "send" => pm.fd # f
    BY <1>0, <2>1, Sources DEF OnTarget
  <2> QED
    BY <1>0, <2>1, <2>2, <2>3 DEF OnTarget
<1>2. ASSUME NEW c \in Conn, RecvEnd(c) PROVE OnTarget'
  <2>1. fdt' = [fdt EXCEPT ![fd[c]] = None] /\ (pm.pc = "send" => pm.fd # fd[c])
    BY <1>2 DEF RecvEnd
  <2>2. UNCHANGED <<pm, got>>
    BY <1>2, PmKept DEF SrvEp
  <2> QED
    BY <1>0, <2>1, <2>2 DEF OnTarget
<1>3. ASSUME Environment \/ SrvEp, ~AcceptNewClient, \A c \in Conn : ~RecvEnd(c) PROVE OnTarget'
  BY <1>3, PmKept, TablesKept DEF OnTarget
<1>4. CASE LoadFd
  <2>1. fdt' = fdt /\ got' = got
    BY <1>4, PmLeaves DEF SrvProMsg, LoadFd, Quiet, queueVars, fifoVars
  <2>2. \/ pm' = pm
        \/ pm' = [pm EXCEPT !.pc = "send", !.fd = fd[pm.dst]] /\ pm.dst # None /\ ~Freed(pm.dst) /\ pm.pc = "load"
    BY <1>4 DEF LoadFd, Deref
  <2>3. pm.dst # None /\ ~Freed(pm.dst) => pm.dst \in Range(list)
    BY DEF Freed, Contains, Range, TypeOK
  <2>4. CASE pm' = pm
    BY <2>1, <2>4 DEF OnTarget
  <2>5. CASE pm' = [pm EXCEPT !.pc = "send", !.fd = fd[pm.dst]] /\ pm.dst # None /\ ~Freed(pm.dst) /\ pm.pc = "load"
    <3>1. pm.dst = Dest[got]
      BY <2>5 DEF PipeInv
    <3>2. pm.dst \in Conn /\ fd[pm.dst] \in Fd
      BY <2>3, <2>5, PmFields DEF TableInv
    <3>3. fdt[fd[pm.dst]] = pm.dst
      BY <2>3, <2>5, <3>2 DEF TableInv
    <3>4. pm'.fd = fd[pm.dst]
      BY <1>0, <2>5 DEF PmType
    <3> QED
      BY <2>1, <3>1, <3>3, <3>4 DEF OnTarget
  <2> QED
    BY <2>2, <2>4, <2>5
<1>5. CASE SrvProMsg /\ ~LoadFd
  <2>1. pm'.pc # "send" \/ pm' = pm
    <3>1. CASE PmGet \/ PmClear \/ PmEndGet \/ Show
      BY <1>0, <3>1 DEF PmGet, PmClear, PmEndGet, Show, Deref, Walk, PmType
    <3>2. CASE WalkOn \/ WalkLost
      BY <1>0, <3>2 DEF WalkOn, WalkLost, PmType, Walking
    <3>3. CASE WalkEnd
      BY <1>0, <3>3 DEF WalkEnd, PmType, Walking
    <3>4. CASE Write \/ SendMsg \/ Log
      BY <1>0, <3>4 DEF Write, SendMsg, Log, Deref, PmType, Idle
    <3> QED
      BY <1>5, <3>1, <3>2, <3>3, <3>4 DEF SrvProMsg
  <2>2. fdt' = fdt
    BY <1>5, PmLeaves
  <2>3. CASE pm' = pm /\ pm.pc = "send"
    <3>1. got' = got
      BY <1>5, <2>3 DEF SrvProMsg, PmGet, PmClear, PmEndGet, WalkOn, WalkLost, WalkEnd, Show, Write, SendMsg,
                Log, Quiet, queueVars, fifoVars, Walking
    <3> QED
      BY <2>2, <2>3, <3>1 DEF OnTarget
  <2> QED
    BY <2>1, <2>3 DEF OnTarget
<1> QED
  BY <1>1, <1>2, <1>3, <1>4, <1>5 DEF Next

LEMMA AddressedGrows ==
    ASSUME TypeOK, Addressed, NEW m \in Value \cup {"line", "ack"},
           \A c \in Conn \cup {Server} : \/ inbox'[c] = inbox[c]
                                         \/ inbox'[c] = Append(inbox[c], m) /\ (m \in Value => Dest[m] = c)
    PROVE  Addressed'
<1> SUFFICES ASSUME NEW c \in Conn \cup {Server}, NEW i \in DOMAIN inbox'[c], inbox'[c][i] \in Value
             PROVE  Dest[inbox'[c][i]] = c
  BY DEF Addressed
<1>1. CASE inbox'[c] = inbox[c]
  BY <1>1 DEF Addressed
<1>2. CASE inbox'[c] = Append(inbox[c], m) /\ (m \in Value => Dest[m] = c)
  <2>1. inbox[c] \in Seq(Value \cup {"line", "ack"})
    BY DEF TypeOK
  <2>2. (i \in DOMAIN inbox[c] /\ inbox'[c][i] = inbox[c][i]) \/ inbox'[c][i] = m
    BY <1>2, <2>1, Appended
  <2> QED
    BY <1>2, <2>2 DEF Addressed
<1> QED
  BY <1>1, <1>2

LEMMA AddressedStep ==
    ASSUME TypeOK, TableInv, PipeInv, OnTarget, Addressed, Next
    PROVE  Addressed'
<1>1. CASE SendMsg
  <2>1. PICK F \in SUBSET Fd, m \in Value \cup {"line", "ack"} : F = {pm.fd} /\ m = got /\ Send(F, m)
    BY <1>1, SendsTo DEF SendMsg, PipeInv
  <2>2. Send(F, m) /\ fdt[pm.fd] = Dest[got]
    BY <1>1, <2>1 DEF SendMsg, OnTarget
  <2>3. \A c \in Conn \cup {Server} :
            /\ inbox'[c] = inbox[c] \/ inbox'[c] = Append(inbox[c], m)
            /\ inbox'[c] # inbox[c] => c \in Conn /\ peer[c] \notin Gone /\ \E f \in F : fdt[f] = c
    BY <2>2, Delivers
  <2>4. \A c \in Conn \cup {Server} : \/ inbox'[c] = inbox[c]
                                      \/ inbox'[c] = Append(inbox[c], m) /\ Dest[m] = c
    BY <2>1, <2>2, <2>3
  <2> QED
    BY <2>4, AddressedGrows
<1>2. CASE Write
  <2>1. /\ inbox' = [inbox EXCEPT ![Server] = Append(inbox[Server], got)] /\ got \in Value /\ Dest[got] = Server
    BY <1>2 DEF Write, PipeInv
  <2>2. \A c \in Conn \cup {Server} : \/ inbox'[c] = inbox[c]
                                      \/ inbox'[c] = Append(inbox[c], got) /\ (got \in Value => Dest[got] = c)
    BY <2>1 DEF TypeOK
  <2> QED
    BY <2>1, <2>2, AddressedGrows
<1>3. CASE BroadcastAllClient \/ \E c \in Conn : RecvSave(c)
  <2>1. PICK F \in SUBSET Fd, m \in {"line", "ack"} : Send(F, m)
    <3>1. CASE BroadcastAllClient
      BY <3>1, SendsTo DEF BroadcastAllClient
    <3>2. ASSUME NEW c \in Conn, RecvSave(c) PROVE \E F \in SUBSET Fd, m \in {"line", "ack"} : Send(F, m)
      BY <3>2, SendsTo DEF RecvSave
    <3> QED
      BY <1>3, <3>1, <3>2
  <2>2. m \notin Value /\ m \in Value \cup {"line", "ack"}
    BY TcpServerAssumption
  <2>3. \A c \in Conn \cup {Server} : inbox'[c] = inbox[c] \/ inbox'[c] = Append(inbox[c], m)
    BY <2>1, <2>2, Delivers
  <2> QED
    BY <2>2, <2>3, AddressedGrows
<1>4. CASE Next /\ ~SendMsg /\ ~Write /\ ~BroadcastAllClient /\ \A c \in Conn : ~RecvSave(c)
  <2>1. inbox' = inbox
    <3>1. CASE Environment
      BY <3>1 DEF Environment, Connect, ClientSave, ClientClose, ClientSend, StdinInput, Arrive
    <3>2. CASE SrvEp
      BY <1>4, <3>2 DEF SrvEp, EpollWait, AcceptNewClient, AcceptError, PutCopy, PutEnd, RecvEnd, RecvError, RecvMsg
    <3>3. CASE SrvProMsg
      BY <1>4, <3>3 DEF SrvProMsg, PmGet, PmClear, PmEndGet, WalkOn, WalkLost, WalkEnd, Show, LoadFd, Log, Quiet
    <3> QED
      BY <3>1, <3>2, <3>3 DEF Next
  <2> QED
    BY <2>1 DEF Addressed
<1> QED
  BY <1>1, <1>2, <1>3, <1>4

LEMMA DestStep ==
    ASSUME TypeOK, TableInv, PipeInv, DestInv, Next
    PROVE  DestInv'
<1> SUFFICES ASSUME ~stale' PROVE OnTarget' /\ Addressed'
  BY DEF DestInv, OnTarget, Addressed
<1>1. ~stale
  BY StaleStays
<1>2. OnTarget /\ Addressed
  BY <1>1 DEF DestInv, OnTarget, Addressed
<1>3. ASSUME NEW c \in Conn, RecvEnd(c) PROVE ~(pm.pc = "send" /\ pm.fd = fd[c])
  <2>1. stale' = (stale \/ (pm.pc = "send" /\ pm.fd = fd[c]))
    BY <1>3, Zenon DEF RecvEnd
  <2> QED
    BY <2>1, Zenon
<1> QED
  BY <1>2, <1>3, OnTargetStep, AddressedStep

-----------------------------------------------------------------------------
(* While every client stays                                                *)

LEMMA StayedBefore ==
    ASSUME TypeOK, TableInv, PipeInv, Next, Staying'
    PROVE  Staying /\ \A c \in Conn : \A how \in {"fin", "rst"} : ~ClientClose(c, how)
<1>1. \A c \in Conn : peer'[c] \notin Gone
  BY DEF Staying
<1>2. ASSUME NEW c \in Conn, NEW how \in {"fin", "rst"} PROVE ~ClientClose(c, how)
  <2> SUFFICES ASSUME ClientClose(c, how) PROVE FALSE
    OBVIOUS
  <2>1. peer' = [peer EXCEPT ![c] = how]
    BY DEF ClientClose
  <2>2. peer'[c] = how
    BY <2>1 DEF TypeOK
  <2> QED
    BY <1>1, <2>2 DEF Gone
<1>3. CASE Environment
  <2>1. \A c \in Conn : peer[c] \in Gone => peer'[c] \in Gone
    BY <1>2, <1>3 DEF Environment, Connect, ClientSave, ClientSend, StdinInput, Gone, TypeOK
  <2> QED
    BY <1>1, <1>2, <2>1 DEF Staying
<1>4. CASE SrvEp \/ SrvProMsg
  BY <1>1, <1>2, <1>4, Peers DEF Staying
<1> QED
  BY <1>3, <1>4 DEF Next

\* What can arrive on a connection then, and what is read there.
LEMMA StayingInput ==
    ASSUME TypeOK, TableInv, PipeInv, Next, Staying', NoEnds, NEW c \in Conn
    PROVE  /\ ~RecvEnd(c)
           /\ \/ rx'[c] = rx[c]
              \/ ClientSave(c) /\ rx'[c] = Append(rx[c], "SAVE_CLI_INFO")
              \/ \E m \in Value : ClientSend(m) /\ Via[m] = c /\ rx'[c] = Append(rx[c], m)
              \/ /\ RecvError(c) \/ RecvSave(c) \/ \E m \in Value : RecvMsg(c, m)
                 /\ rx'[c] = Tail(rx[c]) /\ rx[c] # << >>
                 /\ ~RecvSave(c) => Head(rx[c]) # "SAVE_CLI_INFO"
<1>1. ~RecvEnd(c)
  <2> SUFFICES ASSUME RecvEnd(c) PROVE FALSE
    OBVIOUS
  <2>1. rx[c] \in Seq(Item) /\ rx[c] # << >> /\ "EOF" = Head(rx[c])
    BY Receives DEF RecvEnd
  <2>2. 1 \in DOMAIN rx[c] /\ rx[c][1] = "EOF"
    BY <2>1, Heads
  <2> QED
    BY <2>2 DEF NoEnds
<1>2. CASE Environment
  <2>1. \A d \in Conn : \A how \in {"fin", "rst"} : ~ClientClose(d, how)
    BY StayedBefore
  <2>2. ASSUME NEW d \in Conn, Connect(d) PROVE rx'[c] = rx[c]
    BY <2>2, Arrives, Sources DEF Connect
  <2>3. ASSUME NEW d \in Conn, ClientSave(d) PROVE IF d = c THEN rx'[c] = Append(rx[c], "SAVE_CLI_INFO") ELSE rx'[c] = rx[c]
    BY <2>3, Arrives, Sources DEF ClientSave
  <2>4. ASSUME NEW m \in Value, ClientSend(m) PROVE IF Via[m] = c THEN rx'[c] = Append(rx[c], m) ELSE rx'[c] = rx[c]
    <3>1. Via[m] \in Conn /\ Arrive(Via[m], Append(rx[Via[m]], m))
      BY <2>4, TcpServerAssumption DEF ClientSend
    <3>2. rx'[Via[m]] = Append(rx[Via[m]], m) /\ \A t \in Source : t # Via[m] => rx'[t] = rx[t]
      BY <3>1, Arrives, Sources
    <3> QED
      BY <3>2, Sources
  <2>5. ASSUME StdinInput PROVE rx'[c] = rx[c]
    BY <2>5, Arrives, Sources DEF StdinInput
  <2> QED
    BY <1>1, <1>2, <2>1, <2>2, <2>3, <2>4, <2>5 DEF Environment
<1>3. CASE SrvEp
  <2>1. ASSUME NEW d \in Conn, d # c, NEW x, Recv(d, x) PROVE rx'[c] = rx[c]
    BY <2>1, Receives, Sources
  <2>2. ASSUME NEW d \in Conn, d # c, RecvEnd(d) \/ RecvError(d) \/ RecvSave(d) \/ \E m \in Value : RecvMsg(d, m)
        PROVE  rx'[c] = rx[c]
    BY <2>1, <2>2 DEF RecvEnd, RecvError, RecvSave, RecvMsg
  <2>3. ASSUME RecvError(c) \/ RecvSave(c) \/ \E m \in Value : RecvMsg(c, m)
        PROVE  rx'[c] = Tail(rx[c]) /\ rx[c] # << >> /\ (~RecvSave(c) => Head(rx[c]) # "SAVE_CLI_INFO")
    <3>1. PICK x : Recv(c, x) /\ (~RecvSave(c) => x # "SAVE_CLI_INFO")
      BY <2>3, TcpServerAssumption DEF RecvError, RecvSave, RecvMsg
    <3> QED
      BY <3>1, Receives
  <2>4. CASE AcceptNewClient \/ BroadcastAllClient
    BY <1>1, <2>4, Sources DEF AcceptNewClient, BroadcastAllClient, TypeOK
  <2>5. CASE EpollWait \/ AcceptError \/ PutCopy \/ PutEnd
    BY <1>1, <2>5 DEF EpollWait, AcceptError, PutCopy, PutEnd
  <2> QED
    BY <1>1, <1>3, <2>2, <2>3, <2>4, <2>5 DEF SrvEp
<1>4. CASE SrvProMsg
  BY <1>1, <1>4, PmLeaves
<1> QED
  BY <1>1, <1>2, <1>3, <1>4 DEF Next

LEMMA NoEndsStep ==
    ASSUME TypeOK, TableInv, PipeInv, NoEnds, Next, Staying'
    PROVE  NoEnds'
<1> SUFFICES ASSUME NEW c \in Conn, NEW p \in DOMAIN rx'[c] PROVE rx'[c][p] # "EOF"
  BY DEF NoEnds
<1>0. rx[c] \in Seq(Item) /\ "SAVE_CLI_INFO" \in Item /\ Value \subseteq Item /\ "EOF" \notin Value
  BY TcpServerAssumption DEF TypeOK, Item
<1>1. CASE rx'[c] = rx[c]
  BY <1>1 DEF NoEnds
<1>2. ASSUME NEW x \in Item, x # "EOF", rx'[c] = Append(rx[c], x) PROVE rx'[c][p] # "EOF"
  <2>1. (p \in DOMAIN rx[c] /\ rx'[c][p] = rx[c][p]) \/ rx'[c][p] = x
    BY <1>0, <1>2, Appended
  <2> QED
    BY <1>2, <2>1 DEF NoEnds
<1>3. CASE rx'[c] = Tail(rx[c]) /\ rx[c] # << >>
  <2>1. p + 1 \in DOMAIN rx[c] /\ rx'[c][p] = rx[c][p + 1]
    BY <1>0, <1>3, Heads
  <2> QED
    BY <2>1 DEF NoEnds
<1> QED
  BY <1>0, <1>1, <1>2, <1>3, StayingInput

\* Nodes are only added, in front.
LEMMA ListGrows ==
    ASSUME TypeOK, TableInv, PipeInv, AcceptInv, NoEnds, Next, Staying'
    PROVE  /\ list' = list \/ \E c \in Conn : list' = <<c>> \o list
           /\ Range(list) \subseteq Range(list')
           /\ \A c \in Conn : cliEndid'[c] = cliEndid[c] \/ (RecvSave(c) /\ cliEndid'[c] = c)
           /\ \A c \in Conn : Registered(c) => Registered(c)'
<1>0. list \in Seq(Conn)
  BY DEF TypeOK
<1>1. list' = list \/ \E c \in Conn : list' = <<c>> \o list
  <2>1. CASE AcceptNewClient
    <3>1. Head(rx[Listener]) \in Conn
      BY <2>1, Heads DEF AcceptNewClient, TypeOK
    <3> QED
      BY <2>1, <3>1 DEF AcceptNewClient
  <2> QED
    BY <2>1, StayingInput, TablesKept
<1>2. ASSUME NEW p \in DOMAIN list PROVE \E q \in DOMAIN list' : list'[q] = list[p]
  <2>1. ASSUME NEW c \in Conn, list' = <<c>> \o list PROVE \E q \in DOMAIN list' : list'[q] = list[p]
    <3>1. p + 1 \in DOMAIN list' /\ list'[p + 1] = list[p]
      BY <1>0, <2>1, Pushed
    <3> QED
      BY <3>1
  <2> QED
    BY <1>1, <2>1
<1>3. Range(list) \subseteq Range(list')
  BY <1>2 DEF Range
<1>4. ASSUME NEW c \in Conn PROVE cliEndid'[c] = cliEndid[c] \/ (RecvSave(c) /\ cliEndid'[c] = c)
  <2>1. ASSUME NEW d \in Conn, RecvSave(d) PROVE cliEndid' = [cliEndid EXCEPT ![d] = d]
    <3>1. PICK p \in NodeOfFd(fd[d]) : cliEndid' = [cliEndid EXCEPT ![list[p]] = d]
      BY <2>1 DEF RecvSave
    <3>2. list[p] = d
      BY <2>1, Receives DEF RecvSave
    <3> QED
      BY <3>1, <3>2
  <2>2. ASSUME \A d \in Conn : ~RecvSave(d) PROVE cliEndid' = cliEndid
    <3>1. CASE Environment
      BY <3>1 DEF Environment, Connect, ClientSave, ClientClose, ClientSend, StdinInput, Arrive, listVars
    <3>2. CASE SrvEp
      BY <2>2, <3>2 DEF SrvEp, EpollWait, AcceptNewClient, AcceptError, BroadcastAllClient, PutCopy, PutEnd, RecvEnd,
         RecvError, RecvMsg, listVars
    <3> QED
      BY <3>1, <3>2, PmLeaves DEF Next
  <2> QED
    BY <2>1, <2>2 DEF TypeOK
<1>5. \A c \in Conn : Contains(list, c) => Contains(list', c)
  <2>1. ASSUME NEW c \in Conn, list' = <<c>> \o list PROVE list' \in Seq(Conn)
    BY <1>0, <2>1, Pushed
  <2>2. list' \in Seq(Conn)
    BY <1>0, <1>1, <2>1
  <2> QED
    BY <1>0, <1>2, <2>2 DEF Contains
<1> QED
  BY <1>1, <1>3, <1>4, <1>5 DEF Registered

LEMMA RegisteringStep ==
    ASSUME TypeOK, TableInv, PipeInv, AcceptInv, NoEnds, Registering, Next, Staying'
    PROVE  Registering'
<1> SUFFICES ASSUME NEW c \in Conn
             PROVE  /\ peer'[c] = "saved" => Registered(c)' \/ Saves(c, Len(rx[c]) + 1)'
                    /\ \A p \in DOMAIN rx'[c] : rx'[c][p] \in Value => Registered(c)' \/ Saves(c, p)'
  BY DEF Registering
<1>0. /\ rx[c] \in Seq(Item) /\ "SAVE_CLI_INFO" \in Item /\ Value \subseteq Item /\ "SAVE_CLI_INFO" \notin Value
      /\ Len(rx[c]) \in Nat /\ DOMAIN rx[c] = 1..Len(rx[c])
  BY TcpServerAssumption DEF TypeOK, Item
<1>1. CASE Registered(c)
  BY <1>1, ListGrows
<1>2. CASE ~Registered(c)
  <2>0. /\ peer[c] = "saved" => Saves(c, Len(rx[c]) + 1)
        /\ \A p \in DOMAIN rx[c] : rx[c][p] \in Value => Saves(c, p)
    BY <1>2 DEF Registering
  <2>1. peer'[c] = "saved" => peer[c] = "saved" \/ ClientSave(c)
    <3>1. CASE Environment
      <4>1. \A d \in Conn : \A how \in {"fin", "rst"} : ~ClientClose(d, how)
        BY StayedBefore
      <4> QED
        BY <3>1, <4>1 DEF Environment, Connect, ClientSave, ClientSend, StdinInput, TypeOK
    <3>2. CASE SrvEp \/ SrvProMsg
      BY <3>2, Peers DEF Gone
    <3> QED
      BY <3>1, <3>2 DEF Next
  <2>2. CASE rx'[c] = rx[c] /\ ~ClientSave(c)
    BY <2>0, <2>1, <2>2 DEF Saves
  <2>3. ASSUME NEW x \in Item, rx'[c] = Append(rx[c], x)
        PROVE  /\ \A p \in DOMAIN rx[c] : rx[c][p] \in Value => Saves(c, p)'
               /\ peer[c] = "saved" => Saves(c, Len(rx[c]) + 1)'
               /\ Len(rx'[c]) = Len(rx[c]) + 1
               /\ \A p \in DOMAIN rx[c] : p \in DOMAIN rx'[c] /\ rx'[c][p] = rx[c][p]
               /\ Len(rx[c]) + 1 \in DOMAIN rx'[c] /\ rx'[c][Len(rx[c]) + 1] = x
               /\ \A p \in DOMAIN rx'[c] : p \in DOMAIN rx[c] \/ p = Len(rx[c]) + 1
    <3>1. /\ \A p \in DOMAIN rx[c] : p \in DOMAIN rx'[c] /\ rx'[c][p] = rx[c][p]
          /\ Len(rx[c]) + 1 \in DOMAIN rx'[c] /\ rx'[c][Len(rx[c]) + 1] = x
          /\ \A p \in DOMAIN rx'[c] : p \in DOMAIN rx[c] \/ p = Len(rx[c]) + 1
          /\ Len(rx'[c]) = Len(rx[c]) + 1
      BY <1>0, <2>3, Appended
    <3>2. \A p \in Nat : Saves(c, p) => \E q \in DOMAIN rx'[c] : q < p /\ rx'[c][q] = "SAVE_CLI_INFO"
      BY <3>1 DEF Saves
    <3>3. ASSUME peer[c] = "saved" PROVE \E q \in DOMAIN rx'[c] : q < Len(rx[c]) + 1 /\ rx'[c][q] = "SAVE_CLI_INFO"
      BY <1>0, <2>0, <3>2, <3>3
    <3>4. ASSUME peer[c] = "saved" PROVE Saves(c, Len(rx[c]) + 1)'
      <4>1. PICK q \in DOMAIN rx'[c] : q < Len(rx[c]) + 1 /\ rx'[c][q] = "SAVE_CLI_INFO"
        BY <3>3, <3>4
      <4>2. q < Len(rx'[c]) + 1
        BY <1>0, <3>1, <4>1
      <4> QED
        BY <4>1, <4>2 DEF Saves
    <3>5. ASSUME NEW p \in DOMAIN rx[c], rx[c][p] \in Value PROVE Saves(c, p)'
      <4>1. p \in Nat /\ Saves(c, p)
        BY <1>0, <2>0, <3>5
      <4> QED
        BY <3>2, <4>1 DEF Saves
    <3> QED
      BY <3>1, <3>4, <3>5
  <2>4. CASE ClientSave(c) /\ rx'[c] = Append(rx[c], "SAVE_CLI_INFO")
    <3>1. /\ \A p \in DOMAIN rx[c] : rx[c][p] \in Value => Saves(c, p)'
          /\ Len(rx'[c]) = Len(rx[c]) + 1
          /\ \A p \in DOMAIN rx[c] : p \in DOMAIN rx'[c] /\ rx'[c][p] = rx[c][p]
          /\ Len(rx[c]) + 1 \in DOMAIN rx'[c] /\ rx'[c][Len(rx[c]) + 1] = "SAVE_CLI_INFO"
          /\ \A p \in DOMAIN rx'[c] : p \in DOMAIN rx[c] \/ p = Len(rx[c]) + 1
      BY <1>0, <2>3, <2>4
    <3>2. Len(rx[c]) + 1 < Len(rx'[c]) + 1
      BY <1>0, <3>1
    <3>3. Saves(c, Len(rx[c]) + 1)'
      BY <3>1, <3>2 DEF Saves
    <3> QED
      BY <1>0, <3>1, <3>3
  <2>5. ASSUME NEW m \in Value, ClientSend(m), Via[m] = c, rx'[c] = Append(rx[c], m)
        PROVE  /\ peer'[c] = "saved" => Saves(c, Len(rx[c]) + 1)'
               /\ \A p \in DOMAIN rx'[c] : rx'[c][p] \in Value => Saves(c, p)'
    <3>0. peer[c] = "saved"
      BY <2>5 DEF ClientSend
    <3>1. /\ \A p \in DOMAIN rx[c] : rx[c][p] \in Value => Saves(c, p)'
          /\ Saves(c, Len(rx[c]) + 1)'
          /\ \A p \in DOMAIN rx[c] : p \in DOMAIN rx'[c] /\ rx'[c][p] = rx[c][p]
          /\ \A p \in DOMAIN rx'[c] : p \in DOMAIN rx[c] \/ p = Len(rx[c]) + 1
          /\ Len(rx'[c]) = Len(rx[c]) + 1 /\ Len(rx[c]) + 1 \in DOMAIN rx'[c] /\ rx'[c][Len(rx[c]) + 1] = m
      BY <1>0, <2>3, <2>5, <3>0
    <3>2. PICK q \in DOMAIN rx[c] : q < Len(rx[c]) + 1 /\ rx[c][q] = "SAVE_CLI_INFO"
      BY <2>0, <3>0 DEF Saves
    <3>3. q \in DOMAIN rx'[c] /\ rx'[c][q] = "SAVE_CLI_INFO"
      BY <3>1, <3>2
    <3>4. \A p \in DOMAIN rx'[c] : p = Len(rx[c]) + 1 => Saves(c, p)'
      BY <3>2, <3>3 DEF Saves
    <3> QED
      BY <3>1, <3>4
  <2>6. CASE RecvSave(c)
    <3>1. c \in Range(list) /\ list' = list
      BY <2>6, Receives DEF RecvSave
    <3>2. cliEndid'[c] = c
      <4>1. PICK p \in NodeOfFd(fd[c]) : cliEndid' = [cliEndid EXCEPT ![list[p]] = c]
        BY <2>6 DEF RecvSave
      <4>2. list[p] = c
        BY <2>6, Receives DEF RecvSave
      <4> QED
        BY <4>1, <4>2 DEF TypeOK
    <3>3. Registered(c)'
      BY <3>1, <3>2 DEF Registered, Contains, Range, TypeOK
    <3> QED
      BY <3>3
  <2>7. CASE /\ RecvError(c) \/ \E m \in Value : RecvMsg(c, m)
             /\ rx'[c] = Tail(rx[c]) /\ rx[c] # << >> /\ Head(rx[c]) # "SAVE_CLI_INFO"
    <3>1. /\ Head(rx[c]) = rx[c][1] /\ Len(rx'[c]) = Len(rx[c]) - 1
          /\ \A p \in DOMAIN rx'[c] : p + 1 \in DOMAIN rx[c] /\ rx'[c][p] = rx[c][p + 1] /\ p \in Nat \ {0}
          /\ \A p \in DOMAIN rx[c] : p # 1 => p - 1 \in DOMAIN rx'[c] /\ rx'[c][p - 1] = rx[c][p]
      BY <1>0, <2>7, Heads
    <3>2. ASSUME NEW n \in Nat, Saves(c, n + 1) PROVE \E q \in DOMAIN rx'[c] : q < n /\ rx'[c][q] = "SAVE_CLI_INFO"
      <4>1. PICK q \in DOMAIN rx[c] : q < n + 1 /\ rx[c][q] = "SAVE_CLI_INFO"
        BY <3>2 DEF Saves
      <4>2. q # 1
        BY <2>7, <3>1, <4>1
      <4>3. q - 1 \in DOMAIN rx'[c] /\ rx'[c][q - 1] = "SAVE_CLI_INFO" /\ q - 1 < n
        BY <1>0, <3>1, <4>1, <4>2
      <4> QED
        BY <4>3
    <3>3. ASSUME NEW p \in DOMAIN rx'[c], rx'[c][p] \in Value PROVE Saves(c, p)'
      <4>1. p \in Nat /\ Saves(c, p + 1)
        BY <2>0, <3>1, <3>3
      <4> QED
        BY <3>2, <4>1 DEF Saves
    <3>4. ~ClientSave(c)
      <4>1. peer' = peer
        BY <2>7 DEF RecvError, RecvMsg
      <4>2. ClientSave(c) => peer[c] = "open" /\ peer'[c] = "saved"
        BY DEF ClientSave, TypeOK
      <4> QED
        BY <4>1, <4>2
    <3>5. ASSUME peer'[c] = "saved" PROVE Saves(c, Len(rx[c]) + 1)'
      <4>1. Saves(c, Len(rx[c]) + 1)
        BY <2>0, <2>1, <3>4, <3>5
      <4>2. \E q \in DOMAIN rx'[c] : q < Len(rx[c]) /\ rx'[c][q] = "SAVE_CLI_INFO"
        BY <1>0, <3>2, <4>1
      <4>3. Len(rx[c]) = Len(rx'[c]) + 1
        BY <1>0, <3>1
      <4> QED
        BY <4>2, <4>3 DEF Saves
    <3> QED
      BY <3>3, <3>5
  <2>8. ClientSave(c) => rx'[c] = Append(rx[c], "SAVE_CLI_INFO")
    BY Arrives, Sources DEF ClientSave
  <2> QED
    BY <2>2, <2>4, <2>5, <2>6, <2>7, <2>8, StayingInput
<1> QED
  BY <1>1, <1>2

LEMMA SendersStep ==
    ASSUME TypeOK, TableInv, PipeInv, AcceptInv, NoEnds, Registering, Senders, Next, Staying'
    PROVE  Senders'
<1> DEFINE In(a) == Handled(a) \/ Queued(a) \/ Putting(a)
<1>0. \A a \in Value : Via[a] \in Conn
  BY TcpServerAssumption
<1>1. ASSUME \A a \in Value : In(a)' => In(a) PROVE Senders'
  BY <1>0, <1>1, ListGrows DEF Senders
<1>2. ASSUME NEW c \in Conn, NEW m \in Value, RecvMsg(c, m) PROVE Senders'
  <2>1. Recv(c, m) /\ ep' = m /\ UNCHANGED <<items, got, pm>>
    BY <1>2, QueueSteps DEF RecvMsg
  <2>2. Via[m] = c
    BY <2>1, RxShrinks
  <2>3. rx[c] \in Seq(Item) /\ rx[c] # << >> /\ m = Head(rx[c])
    BY <2>1, Receives
  <2>4. 1 \in DOMAIN rx[c] /\ rx[c][1] = m /\ DOMAIN rx[c] \subseteq Nat \ {0}
    BY <2>3, Heads
  <2>5. ~Saves(c, 1)
    BY <2>4 DEF Saves
  <2>6. Registered(c)
    BY <2>4, <2>5 DEF Registering
  <2>7. \A a \in Value : Handled(a)' \/ Queued(a)' \/ Putting(a)' => Handled(a) \/ Queued(a) \/ a = m
    BY <2>1, PlacesKept DEF Putting
  <2> QED
    BY <1>0, <2>2, <2>6, <2>7, ListGrows DEF Senders
<1>3. CASE PutEnd
  <2>1. /\ items' = items \o pending /\ pending # << >> /\ got' = got /\ ep' = None /\ ep # None /\ pm' = pm
    BY <1>3, QueueSteps DEF PutEnd
  <2>2. PICK v \in Element : pending = <<v>> /\ (v = ep \/ v = Junk)
    BY <2>1 DEF PipeInv, TypeOK, Element
  <2>3. items \in Seq(Element) /\ items' = Append(items, v) /\ Junk \notin Value /\ None \notin Value
    BY <2>1, <2>2, TcpServerAssumption DEF TypeOK
  <2>4. \A i \in DOMAIN items' : (i \in DOMAIN items /\ items'[i] = items[i]) \/ items'[i] = v
    BY <2>3, Appended
  <2>5. \A a \in Value : In(a)' => In(a)
    BY <2>1, <2>2, <2>3, <2>4 DEF Queued, Putting, Handled
  <2> QED
    BY <1>1, <2>5
<1>4. CASE PmGet
  <2>1. /\ items # << >> /\ got' = Head(items) /\ items' = Tail(items) /\ ep' = ep /\ items \in Seq(Element)
    BY <1>4, QueueSteps DEF PmGet, PmUnchanged, TypeOK
  <2>2. /\ \A i \in DOMAIN items' : i + 1 \in DOMAIN items /\ items'[i] = items[i + 1]
        /\ got' = items[1] /\ 1 \in DOMAIN items
    BY <2>1, Heads
  <2>3. \A a \in Value : Queued(a)' => Queued(a)
    BY <2>2 DEF Queued
  <2>4. \A a \in Value : Handled(a)' => Queued(a)
    BY <2>2 DEF Handled, Queued
  <2>5. \A a \in Value : In(a)' => In(a)
    BY <2>1, <2>3, <2>4 DEF Putting
  <2> QED
    BY <1>1, <2>5
<1>5. ASSUME ~PutEnd, ~PmGet, \A c \in Conn : \A m \in Value : ~RecvMsg(c, m) PROVE Senders'
  <2>1. UNCHANGED <<ep, items, got>> /\ (pm.pc = "idle" => pm'.pc = "idle")
    <3>1. CASE Environment
      <4>1. PICK s \in Source : \E q : Arrive(s, q)
        BY <3>1, Arrivals
      <4> QED
        BY <4>1 DEF Arrive, queueVars, fifoVars
    <3>2. CASE SrvEp
      <4>1. ep' = ep /\ pm' = pm
        BY <1>5, <3>2 DEF SrvEp, EpollWait, AcceptNewClient, AcceptError, BroadcastAllClient, PutCopy, RecvEnd,
           RecvError, RecvSave
      <4>2. UNCHANGED <<items, got>>
        <5>1. CASE PutCopy
          BY <5>1, QueueSteps DEF PutCopy
        <5>2. CASE ~PutCopy
          BY <1>5, <3>2, <5>2 DEF SrvEp, EpollWait, AcceptNewClient, AcceptError, BroadcastAllClient, RecvEnd,
             RecvError, RecvSave, queueVars, fifoVars
        <5> QED
          BY <5>1, <5>2
      <4> QED
        BY <4>1, <4>2
    <3>3. CASE SrvProMsg
      <4>1. ep' = ep
        BY <3>3, PmLeaves
      <4>2. pm.pc # "idle"
        BY <1>5, <3>3 DEF SrvProMsg, PmClear, PmEndGet, WalkOn, WalkLost, WalkEnd, Show, Write, LoadFd, SendMsg, Log,
             Walking
      <4>3. UNCHANGED <<items, got>>
        <5>1. CASE PmClear \/ PmEndGet
          BY <5>1, QueueSteps DEF PmClear, PmEndGet
        <5>2. CASE ~(PmClear \/ PmEndGet)
          BY <1>5, <3>3, <5>2 DEF SrvProMsg, WalkOn, WalkLost, WalkEnd, Show, Write, LoadFd, SendMsg, Log, Quiet,
             queueVars, fifoVars
        <5> QED
          BY <5>1, <5>2
      <4> QED
        BY <4>1, <4>2, <4>3
    <3> QED
      BY <3>1, <3>2, <3>3 DEF Next
  <2>2. \A a \in Value : In(a)' => In(a)
    BY <2>1, PlacesKept
  <2> QED
    BY <1>1, <2>2
<1> QED
  BY <1>2, <1>3, <1>4, <1>5

\* A node looked for is still ahead when another is put in front.
LEMMA AheadKept ==
    ASSUME TypeOK, TableInv, PipeInv, AcceptInv, NoEnds, Next, Staying', pm'.at = pm.at, NEW c, Ahead(c)
    PROVE  Ahead(c)'
<1>0. list \in Seq(Conn)
  BY DEF TypeOK
<1>1. PICK i \in DOMAIN list, j \in DOMAIN list : i <= j /\ list[i] = pm.at /\ list[j] = c
  BY DEF Ahead
<1>2. CASE list' = list
  BY <1>1, <1>2 DEF Ahead
<1>3. ASSUME NEW d \in Conn, list' = <<d>> \o list PROVE Ahead(c)'
  <2>1. /\ i + 1 \in DOMAIN list' /\ list'[i + 1] = list[i] /\ i \in Nat
        /\ j + 1 \in DOMAIN list' /\ list'[j + 1] = list[j] /\ j \in Nat
    BY <1>0, <1>3, Pushed
  <2>2. i + 1 <= j + 1
    BY <1>1, <2>1
  <2> QED
    BY <1>1, <2>1, <2>2 DEF Ahead
<1> QED
  BY <1>2, <1>3, ListGrows

\* A walk begins ahead of every node, ...
LEMMA AheadFirst ==
    ASSUME TypeOK, NEW c \in Conn, Registered(c), list' = list, pm'.at = First
    PROVE  Ahead(c)'
<1>0. list \in Seq(Conn)
  BY DEF TypeOK
<1>1. PICK j \in DOMAIN list : list[j] = c
  BY <1>0 DEF Registered, Contains
<1>2. list # << >> /\ 1 \in DOMAIN list /\ 1 <= j /\ Head(list) = list[1]
  BY <1>0, <1>1
<1> QED
  BY <1>1, <1>2 DEF Ahead, First

\* ... and comes to it.
LEMMA AheadNext ==
    ASSUME TypeOK, TableInv, NEW c \in Conn, Ahead(c), pm.at # c, list' = list, pm'.at = After(pm.at)
    PROVE  Ahead(c)'
<1>0. list \in Seq(Conn) /\ Len(list) \in Nat /\ DOMAIN list = 1..Len(list)
  BY DEF TypeOK
<1>1. PICK i \in DOMAIN list, j \in DOMAIN list : i <= j /\ list[i] = pm.at /\ list[j] = c
  BY DEF Ahead
<1>2. i # j
  BY <1>1
<1>3. i + 1 <= j /\ i + 1 \in DOMAIN list /\ i # Len(list)
  BY <1>0, <1>1, <1>2
<1>4. (CHOOSE k \in DOMAIN list : list[k] = pm.at) = i
  <2> DEFINE n == CHOOSE k \in DOMAIN list : list[k] = pm.at
  <2>1. n \in DOMAIN list /\ list[n] = pm.at
    BY <1>1
  <2> QED
    BY <1>1, <2>1 DEF TableInv
<1>5. After(pm.at) = list[i + 1]
  BY <1>3, <1>4 DEF After
<1> QED
  BY <1>1, <1>3, <1>5 DEF Ahead

\* Until the next message is got SrvProMsg looks at the same one.
LEMMA SameMessage ==
    ASSUME SrvProMsg, ~PmGet
    PROVE  got' = got
<1>1. CASE PmClear \/ PmEndGet
  BY <1>1, QueueSteps DEF PmClear, PmEndGet
<1>2. CASE ~(PmClear \/ PmEndGet)
  BY <1>2 DEF SrvProMsg, WalkOn, WalkLost, WalkEnd, Show, Write, LoadFd, SendMsg, Log, Quiet, queueVars, fifoVars
<1> QED
  BY <1>1, <1>2

LEMMA NodesListed ==
    ASSUME TypeOK
    PROVE  /\ First \in Range(list) \cup {None}
           /\ \A c \in Conn : Contains(list, c) => After(c) \in Range(list) \cup {None}
           /\ \A c \in Conn : Contains(list, c) <=> c \in Range(list)
<1>0. list \in Seq(Conn)
  BY DEF TypeOK
<1>1. First \in Range(list) \cup {None}
  BY <1>0, Heads DEF First, Range
<1>2. ASSUME NEW c \in Conn, Contains(list, c) PROVE After(c) \in Range(list) \cup {None}
  <2> DEFINE i == CHOOSE j \in DOMAIN list : list[j] = c
  <2>1. \E j \in DOMAIN list : list[j] = c
    BY <1>0, <1>2 DEF Contains
  <2>2. i \in DOMAIN list
    BY <2>1
  <2>3. After(c) = IF i = Len(list) THEN None ELSE list[i + 1]
    BY DEF After
  <2> HIDE DEF i
  <2>4. CASE i # Len(list)
    <3>1. i + 1 \in DOMAIN list
      BY <1>0, <2>2, <2>4
    <3> QED
      BY <2>3, <2>4, <3>1 DEF Range
  <2> QED
    BY <2>3, <2>4
<1>3. \A c \in Conn : Contains(list, c) <=> c \in Range(list)
  BY <1>0 DEF Contains, Range
<1> QED
  BY <1>1, <1>2, <1>3

LEMMA PointersStep ==
    ASSUME TypeOK, TableInv, PipeInv, AcceptInv, NoEnds, Pointers, Next, Staying'
    PROVE  Pointers'
<1>0. pm \in PmType
  BY PmFields
<1>1. CASE Environment \/ SrvEp
  BY <1>1, PmKept, ListGrows DEF Pointers
<1>2. CASE SrvProMsg
  <2> DEFINE P == Range(list) \cup {None}
  <2>1. list' = list /\ First \in P /\ pm.at \in P /\ pm.src \in P /\ pm.dst \in P /\ None \in P
    BY <1>2, PmLeaves, NodesListed DEF Pointers
  <2>2. pm'.at \in P /\ pm'.src \in P /\ pm'.dst \in P
    <3>1. CASE PmGet \/ PmClear \/ PmEndGet \/ Show \/ LoadFd
      <4>1. \/ pm' = pm
            \/ \E pc \in {"clear", "end"} : pm' = [pm EXCEPT !.pc = pc]
            \/ \E pc \in {"show_src", "src"} : pm' = [pm EXCEPT !.pc = pc, !.at = First]
            \/ pm' = [pm EXCEPT !.pc = "send", !.fd = fd[pm.dst]]
        BY <3>1 DEF PmGet, PmClear, PmEndGet, Show, LoadFd, Deref, Walk
      <4> HIDE DEF P
      <4> QED
        BY <1>0, <2>1, <4>1 DEF PmType
    <3>2. CASE WalkOn
      <4>1. Contains(list, pm.at) /\ pm' = [pm EXCEPT !.at = After(pm.at)]
        BY <3>2 DEF WalkOn
      <4>2. pm.at \in Conn
        <5>1. None \notin Conn /\ list \in Seq(Conn)
          BY TcpServerAssumption DEF TypeOK
        <5> QED
          BY <4>1, <5>1, PmFields DEF Contains
      <4>3. After(pm.at) \in P
        BY <4>1, <4>2, NodesListed
      <4> HIDE DEF P
      <4> QED
        BY <1>0, <2>1, <4>1, <4>3 DEF PmType
    <3>3. CASE WalkLost
      BY <2>1, <3>3 DEF WalkLost
    <3>4. CASE WalkEnd
      <4> HIDE DEF P
      <4> QED
        BY <1>0, <2>1, <3>4 DEF WalkEnd, PmType, Walking
    <3>5. CASE Write \/ SendMsg \/ Log
      <4>1. pm' = pm \/ pm' = Idle \/ pm' = [pm EXCEPT !.pc = "log"]
        BY <3>5 DEF Write, SendMsg, Log, Deref
      <4> HIDE DEF P
      <4> QED
        BY <1>0, <2>1, <4>1 DEF PmType, Idle
    <3> QED
      BY <1>2, <3>1, <3>2, <3>3, <3>4, <3>5 DEF SrvProMsg
  <2> QED
    BY <2>1, <2>2 DEF Pointers
<1> QED
  BY <1>1, <1>2 DEF Next

LEMMA SrcFoundStep ==
    ASSUME TypeOK, TableInv, PipeInv, AcceptInv, NoEnds, Senders, SrcFound, Next, Staying'
    PROVE  SrcFound'
<1>0. pm \in PmType /\ \A a \in Value : Via[a] \in Conn
  BY PmFields, TcpServerAssumption
<1>1. CASE Environment \/ SrvEp
  <2>1. pm' = pm /\ got' = got
    BY <1>1, PmKept
  <2>2. pm.pc \in {"show_src", "src"} => Ahead(Via[got])'
    BY <2>1, AheadKept DEF SrcFound
  <2> QED
    BY <2>1, <2>2 DEF SrcFound
<1>2. CASE PmGet \/ PmClear
  <2>1. \E pc \in {"clear", "end"} : pm' = [pm EXCEPT !.pc = pc]
    BY <1>2 DEF PmGet, PmClear
  <2>2. pm'.pc \in {"clear", "end"}
    BY <1>0, <2>1 DEF PmType
  <2> QED
    BY <2>2 DEF SrcFound
<1>4. CASE PmEndGet
  <2>1. pm.pc = "end" /\ got' = got /\ list' = list
        /\ (pm' = pm \/ (got # Junk /\ pm' = [pm EXCEPT !.pc = "show_src", !.at = First]))
    BY <1>4, PmLeaves, QueueSteps DEF SrvProMsg, PmEndGet, Walk
  <2>2. CASE pm' = pm
    BY <2>1, <2>2 DEF SrcFound
  <2>3. CASE got # Junk /\ pm' = [pm EXCEPT !.pc = "show_src", !.at = First]
    <3>1. got \in Value
      BY <2>3 DEF TypeOK, Element
    <3>2. Handled(got)
      BY <2>1 DEF Handled
    <3>3. Registered(Via[got]) /\ Via[got] \in Conn
      BY <1>0, <3>1, <3>2 DEF Senders
    <3>4. pm'.at = First /\ pm'.pc = "show_src"
      BY <1>0, <2>3 DEF PmType
    <3>5. Ahead(Via[got])'
      BY <2>1, <3>3, <3>4, AheadFirst
    <3> QED
      BY <2>1, <3>4, <3>5 DEF SrcFound
  <2> QED
    BY <2>1, <2>2, <2>3
<1>5. CASE WalkOn
  <2>1. /\ pm.pc \in Walking /\ Contains(list, pm.at) /\ cliEndid[pm.at] # Wanted
        /\ pm' = [pm EXCEPT !.at = After(pm.at)] /\ got' = got /\ list' = list
    BY <1>5, PmLeaves DEF SrvProMsg, WalkOn, Quiet, queueVars, fifoVars
  <2>2. pm'.pc = pm.pc /\ pm'.src = pm.src /\ pm'.at = After(pm.at)
    BY <1>0, <2>1 DEF PmType
  <2>3. ASSUME pm.pc \in {"show_src", "src"} PROVE Ahead(Via[got])'
    <3>1. got \in Value /\ Handled(got) /\ Wanted = Via[got]
      BY <2>3 DEF PipeInv, Handled, Wanted
    <3>2. Via[got] \in Conn /\ cliEndid[Via[got]] = Via[got]
      BY <1>0, <3>1 DEF Senders, Registered
    <3>3. pm.at # Via[got] /\ Ahead(Via[got])
      BY <2>1, <2>3, <3>1, <3>2 DEF SrcFound
    <3> QED
      BY <2>1, <2>2, <3>2, <3>3, AheadNext
  <2> QED
    BY <2>1, <2>2, <2>3 DEF SrcFound
<1>6. CASE WalkLost
  <2>1. pm' = pm /\ got' = got /\ list' = list
    BY <1>6, PmLeaves DEF SrvProMsg, WalkLost, Quiet, queueVars, fifoVars
  <2> QED
    BY <2>1 DEF SrcFound, Ahead
<1>7. CASE WalkEnd
  <2>1. pm.pc \in {"show_src", "src"} => pm.at # None
    <3>1. ASSUME pm.pc \in {"show_src", "src"} PROVE pm.at # None
      <4>1. PICK i \in DOMAIN list : list[i] = pm.at
        BY <3>1 DEF SrcFound, Ahead
      <4> QED
        BY <4>1, TcpServerAssumption DEF TypeOK
    <3> QED
      BY <3>1
  <2>2. pm'.src # None /\ pm'.pc \notin {"show_src", "src"}
    BY <1>0, <1>7, <2>1 DEF WalkEnd, SrcFound, PmType, Walking
  <2> QED
    BY <2>2 DEF SrcFound
<1>8. CASE Show
  <2>1. pm.pc = "show" /\ got' = got /\ list' = list
        /\ (pm' = pm \/ pm' = [pm EXCEPT !.pc = "src", !.at = First])
    BY <1>8, PmLeaves DEF SrvProMsg, Show, Deref, Walk, Quiet, queueVars, fifoVars
  <2>2. CASE pm' = pm
    BY <2>1, <2>2 DEF SrcFound
  <2>3. CASE pm' = [pm EXCEPT !.pc = "src", !.at = First]
    <3>1. got \in Value /\ Handled(got)
      BY <2>1 DEF PipeInv, Handled
    <3>2. Registered(Via[got]) /\ Via[got] \in Conn
      BY <1>0, <3>1 DEF Senders
    <3>3. pm'.at = First /\ pm'.pc = "src"
      BY <1>0, <2>3 DEF PmType
    <3>4. Ahead(Via[got])'
      BY <2>1, <3>2, <3>3, AheadFirst
    <3> QED
      BY <2>1, <3>3, <3>4 DEF SrcFound
  <2> QED
    BY <2>1, <2>2, <2>3
<1>9. CASE Write \/ LoadFd \/ SendMsg \/ Log
  <2>1. /\ pm.pc \in {"write", "load", "send", "log"}
        /\ \/ pm' = pm \/ pm' = Idle
           \/ pm' = [pm EXCEPT !.pc = "log"] \/ pm' = [pm EXCEPT !.pc = "send", !.fd = fd[pm.dst]]
    BY <1>9 DEF Write, LoadFd, SendMsg, Log, Deref
  <2>2. pm.src # None
    BY <2>1 DEF SrcFound
  <2>3. pm'.pc \in {"idle", "write", "load", "send", "log"} /\ (pm'.pc # "idle" => pm'.src # None)
    <3>1. CASE pm' = pm
      BY <2>1, <2>2, <3>1
    <3>2. CASE pm' = Idle
      BY <3>2 DEF Idle
    <3>3. CASE pm' = [pm EXCEPT !.pc = "log"] \/ pm' = [pm EXCEPT !.pc = "send", !.fd = fd[pm.dst]]
      BY <1>0, <2>2, <3>3 DEF PmType
    <3> QED
      BY <2>1, <3>1, <3>2, <3>3
  <2> QED
    BY <2>3 DEF SrcFound
<1> QED
  BY <1>1, <1>2, <1>4, <1>5, <1>6, <1>7, <1>8, <1>9 DEF Next, SrvProMsg

LEMMA ReceiversStep ==
    ASSUME TypeOK, TableInv, PipeInv, AcceptInv, NoEnds, Receivers, Next, Staying',
           \A m \in Value : ClientSend(m) => Dest[m] = Server \/ Registered(Dest[m])
    PROVE  Receivers'
<1>0. sent \in Seq(Value) /\ \A m \in Value : Dest[m] \in Conn \cup {Server}
  BY TcpServerAssumption DEF TypeOK
<1>1. ASSUME NEW m \in Value, ClientSend(m) PROVE Receivers'
  <2>1. sent' = Append(sent, m)
    BY <1>1 DEF ClientSend
  <2>2. \A k \in DOMAIN sent' : (k \in DOMAIN sent /\ sent'[k] = sent[k]) \/ sent'[k] = m
    BY <1>0, <2>1, Appended
  <2>3. ASSUME NEW k \in DOMAIN sent' PROVE Dest[sent'[k]] = Server \/ Registered(Dest[sent'[k]])
    <3>1. CASE k \in DOMAIN sent /\ sent'[k] = sent[k]
      BY <3>1 DEF Receivers
    <3>2. CASE sent'[k] = m
      BY <1>1, <3>2
    <3> QED
      BY <2>2, <3>1, <3>2
  <2>4. sent' \in Seq(Value)
    BY <1>0, <2>1
  <2>5. \A k \in DOMAIN sent' : sent'[k] \in Value
    BY <2>4
  <2>6. \A k \in DOMAIN sent' : Dest[sent'[k]] \in Conn \cup {Server}
    BY <1>0, <2>5
  <2> QED
    BY <2>3, <2>6, ListGrows DEF Receivers
<1>2. ASSUME \A m \in Value : ~ClientSend(m) PROVE Receivers'
  <2>1. sent' = sent
    <3>1. CASE Environment
      BY <1>2, <3>1 DEF Environment, Connect, ClientSave, ClientClose, StdinInput, netVars
    <3>2. CASE SrvEp
      BY <3>2 DEF SrvEp, EpollWait, AcceptNewClient, AcceptError, BroadcastAllClient, PutCopy, PutEnd, RecvEnd,
         RecvError, RecvSave, RecvMsg, netVars
    <3> QED
      BY <3>1, <3>2, PmLeaves DEF Next
  <2>2. \A k \in DOMAIN sent : Dest[sent[k]] \in Conn \cup {Server}
    BY <1>0
  <2> QED
    BY <2>1, <2>2, ListGrows DEF Receivers
<1> QED
  BY <1>1, <1>2

LEMMA DstFoundStep ==
    ASSUME TypeOK, TableInv, PipeInv, AcceptInv, OrderInv, NoEnds, Receivers, DstFound, Next, Staying'
    PROVE  DstFound'
<1>0. pm \in PmType /\ \A a \in Value : Dest[a] \in Conn \cup {Server}
  BY PmFields, TcpServerAssumption
<1>1. ASSUME pm.pc \in Walking PROVE Dest[got] # Server => Registered(Dest[got]) /\ Dest[got] \in Conn
  <2>1. got \in Value /\ Handled(got)
    BY <1>1 DEF PipeInv, Handled, Walking
  <2>2. PICK k \in DOMAIN sent : sent[k] = got
    BY <2>1 DEF OrderInv, Known
  <2> QED
    BY <1>0, <2>1, <2>2 DEF Receivers
<1>2. CASE Environment \/ SrvEp
  <2>1. pm' = pm /\ got' = got
    BY <1>2, PmKept
  <2>2. pm.pc \in {"show_dst", "dst"} => Ahead(Dest[got])'
    BY <2>1, AheadKept DEF DstFound
  <2> QED
    BY <2>1, <2>2 DEF DstFound
<1>3. CASE PmGet \/ PmClear \/ PmEndGet \/ Show
  <2>1. \/ \E pc \in {"clear", "end"} : pm' = [pm EXCEPT !.pc = pc]
        \/ \E pc \in {"show_src", "src"} : pm' = [pm EXCEPT !.pc = pc, !.at = First]
        \/ pm' = pm /\ ~PmGet
    BY <1>3 DEF PmGet, PmClear, PmEndGet, Show, Deref, Walk
  <2>2. pm'.pc \in {"clear", "end", "show_src", "src"} \/ (pm' = pm /\ ~PmGet)
    BY <1>0, <2>1 DEF PmType
  <2>3. CASE pm'.pc \in {"clear", "end", "show_src", "src"}
    BY <2>3 DEF DstFound
  <2>4. CASE pm' = pm /\ ~PmGet
    <3>1. got' = got /\ list' = list
      BY <1>3, <2>4, SameMessage, PmLeaves DEF SrvProMsg
    <3> QED
      BY <2>4, <3>1 DEF DstFound, Ahead
  <2> QED
    BY <2>2, <2>3, <2>4
<1>4. CASE WalkOn
  <2>1. /\ pm.pc \in Walking /\ Contains(list, pm.at) /\ cliEndid[pm.at] # Wanted
        /\ pm' = [pm EXCEPT !.at = After(pm.at)] /\ got' = got /\ list' = list
    BY <1>4, PmLeaves DEF SrvProMsg, WalkOn, Quiet, queueVars, fifoVars
  <2>2. pm'.pc = pm.pc /\ pm'.dst = pm.dst /\ pm'.at = After(pm.at)
    BY <1>0, <2>1 DEF PmType
  <2>3. ASSUME pm.pc \in {"show_dst", "dst"} PROVE Ahead(Dest[got])'
    <3>1. Dest[got] # Server /\ Wanted = Dest[got]
      BY <2>3 DEF PipeInv, Wanted
    <3>2. Dest[got] \in Conn /\ cliEndid[Dest[got]] = Dest[got]
      BY <1>1, <2>1, <3>1 DEF Registered
    <3>3. pm.at # Dest[got] /\ Ahead(Dest[got])
      BY <2>1, <2>3, <3>1, <3>2 DEF DstFound
    <3> QED
      BY <2>1, <2>2, <3>2, <3>3, AheadNext
  <2> QED
    BY <2>1, <2>2, <2>3 DEF DstFound, Walking
<1>5. CASE WalkLost
  <2>1. pm' = pm /\ got' = got /\ list' = list
    BY <1>5, PmLeaves DEF SrvProMsg, WalkLost, Quiet, queueVars, fifoVars
  <2> QED
    BY <2>1 DEF DstFound, Ahead
<1>6. CASE WalkEnd
  <2>0. pm.pc \in Walking /\ got' = got /\ list' = list
    BY <1>6, PmLeaves DEF SrvProMsg, WalkEnd, Quiet, queueVars, fifoVars
  <2>1. CASE pm.pc \in {"show_dst", "dst"}
    <3>1. PICK i \in DOMAIN list : list[i] = pm.at
      BY <2>1 DEF DstFound, Ahead
    <3>2. pm.at # None
      BY <3>1, TcpServerAssumption DEF TypeOK
    <3>3. pm'.dst = pm.at /\ pm'.pc \in {"show", "load"}
      BY <1>0, <1>6, <2>1 DEF WalkEnd, PmType
    <3> QED
      BY <3>2, <3>3 DEF DstFound
  <2>2. CASE pm.pc \in {"show_src", "src"} /\ Dest[got] = Server
    <3>1. pm'.pc \in {"show", "write"}
      BY <1>0, <1>6, <2>2 DEF WalkEnd, PmType
    <3> QED
      BY <2>0, <2>2, <3>1 DEF DstFound
  <2>3. CASE pm.pc \in {"show_src", "src"} /\ Dest[got] # Server
    <3>1. pm'.pc \in {"show_dst", "dst"} /\ pm'.at = First
      BY <1>0, <1>6, <2>3 DEF WalkEnd, PmType
    <3>2. Registered(Dest[got]) /\ Dest[got] \in Conn
      BY <1>1, <2>0, <2>3
    <3>3. Ahead(Dest[got])'
      BY <2>0, <3>1, <3>2, AheadFirst
    <3> QED
      BY <2>0, <3>1, <3>3 DEF DstFound
  <2> QED
    BY <2>0, <2>1, <2>2, <2>3 DEF Walking
<1>7. CASE Write \/ LoadFd \/ SendMsg \/ Log
  <2>1. /\ pm.pc \in {"write", "load", "send", "log"}
        /\ \/ pm' = pm \/ pm' = Idle
           \/ pm' = [pm EXCEPT !.pc = "log"] /\ pm.pc = "send"
           \/ pm' = [pm EXCEPT !.pc = "send", !.fd = fd[pm.dst]] /\ pm.pc = "load"
    BY <1>7 DEF Write, LoadFd, SendMsg, Log, Deref
  <2>2. got' = got /\ list' = list
    BY <1>7, PmLeaves DEF SrvProMsg, Write, LoadFd, SendMsg, Log, Quiet, queueVars, fifoVars
  <2>3. CASE pm' = pm
    BY <2>2, <2>3 DEF DstFound, Ahead
  <2>4. CASE pm' = Idle
    BY <2>4 DEF DstFound, Idle
  <2>5. CASE \/ pm' = [pm EXCEPT !.pc = "log"] /\ pm.pc = "send"
             \/ pm' = [pm EXCEPT !.pc = "send", !.fd = fd[pm.dst]] /\ pm.pc = "load"
    <3>1. pm'.pc \in {"log", "send"} /\ pm'.dst = pm.dst
      BY <1>0, <2>5 DEF PmType
    <3> QED
      BY <2>2, <2>5, <3>1 DEF DstFound
  <2> QED
    BY <2>1, <2>3, <2>4, <2>5
<1> QED
  BY <1>2, <1>3, <1>4, <1>5, <1>6, <1>7 DEF Next, SrvProMsg

\* A step that ends the program dereferences NULL, or a freed node, or reads an
\* element that was never written.
LEMMA Ends ==
    ASSUME TypeOK, PipeInv, Pointers, SrcFound, Next
    PROVE  /\ proc' = "crashed" => ~DstFound
           /\ proc' = "undefined" => got' = Junk
<1>0. proc = "up"
  BY DEF Next
<1>1. \A p \in {pm.at, pm.src, pm.dst} : ~Freed(p)
  BY PmFields, NodesListed DEF Pointers, Freed
<1>2. ASSUME NEW P \in SUBSET {pm.src, pm.dst}, NEW step, Deref(P, step), None \notin P PROVE proc' = proc
  BY <1>1, <1>2 DEF Deref
<1>3. ASSUME NEW P \in SUBSET {pm.src, pm.dst}, NEW step, Deref(P, step) PROVE proc' # "undefined"
  BY <1>0, <1>1, <1>3 DEF Deref
<1>4. CASE Environment \/ SrvEp
  BY <1>0, <1>4, PmKept
<1>5. CASE PmEndGet
  <2>1. got' = got /\ (proc' = proc \/ (got = Junk /\ proc' = "undefined"))
    BY <1>5, QueueSteps DEF PmEndGet
  <2> QED
    BY <1>0, <2>1
<1>6. CASE WalkLost
  BY <1>1, <1>6 DEF WalkLost
<1>7. CASE Show
  <2> DEFINE P == {pm.src} \cup (IF Dest[got] = Server THEN {} ELSE {pm.dst})
  <2>1. pm.pc = "show" /\ Deref(P, Walk("src")) /\ P \in SUBSET {pm.src, pm.dst} /\ pm.src # None
    BY <1>7 DEF Show, SrcFound
  <2>2. DstFound => None \notin P
    BY <2>1 DEF DstFound
  <2> HIDE DEF P
  <2>3. proc' # "undefined"
    BY <1>3, <2>1
  <2>4. DstFound => proc' = proc
    BY <1>2, <2>1, <2>2
  <2> QED
    BY <1>0, <2>3, <2>4
<1>8. CASE LoadFd
  <2> DEFINE P == {pm.dst}
             S == pm' = [pm EXCEPT !.pc = "send", !.fd = fd[pm.dst]]
  <2>1. pm.pc = "load" /\ Deref(P, S) /\ P \in SUBSET {pm.src, pm.dst} /\ Dest[got] # Server
    BY <1>8 DEF LoadFd, PipeInv
  <2>2. DstFound => None \notin P
    BY <2>1 DEF DstFound
  <2> HIDE DEF P, S
  <2>3. proc' # "undefined"
    BY <1>3, <2>1
  <2>4. DstFound => proc' = proc
    BY <1>2, <2>1, <2>2
  <2> QED
    BY <1>0, <2>3, <2>4
<1>9. CASE Log
  <2> DEFINE P == {pm.src, pm.dst}
             S == pm' = Idle
  <2>1. pm.pc = "log" /\ Deref(P, S) /\ P \in SUBSET {pm.src, pm.dst} /\ Dest[got] # Server /\ pm.src # None
    BY <1>9 DEF Log, PipeInv, SrcFound
  <2>2. DstFound => None \notin P
    BY <2>1 DEF DstFound
  <2> HIDE DEF P, S
  <2>3. proc' # "undefined"
    BY <1>3, <2>1
  <2>4. DstFound => proc' = proc
    BY <1>2, <2>1, <2>2
  <2> QED
    BY <1>0, <2>3, <2>4
<1>10. CASE PmGet \/ PmClear \/ WalkOn \/ WalkEnd \/ Write \/ SendMsg
  BY <1>0, <1>10 DEF PmGet, PmClear, WalkOn, WalkEnd, Write, SendMsg
<1> QED
  BY <1>4, <1>5, <1>6, <1>7, <1>8, <1>9, <1>10 DEF Next, SrvProMsg

\* A message to a client that is not registered is remembered.
LEMMA EarlyStays ==
    ASSUME Next
    PROVE  /\ ~early' => ~early
           /\ ~early' => \A m \in Value : ClientSend(m) => Dest[m] = Server \/ Registered(Dest[m])
<1>1. ASSUME NEW m \in Value, ClientSend(m)
      PROVE  early' = (early \/ (Dest[m] # Server /\ ~Registered(Dest[m])))
  BY <1>1, Zenon DEF ClientSend
<1>2. ASSUME \A m \in Value : ~ClientSend(m) PROVE early' = early
  <2>1. CASE Environment
    BY <1>2, <2>1 DEF Environment, Connect, ClientSave, ClientClose, StdinInput, netVars
  <2>2. CASE SrvEp
    BY <2>2 DEF SrvEp, EpollWait, AcceptNewClient, AcceptError, BroadcastAllClient, PutCopy, PutEnd, RecvEnd,
       RecvError, RecvSave, RecvMsg, netVars
  <2> QED
    BY <2>1, <2>2, PmLeaves DEF Next
<1>3. ~early' => ~early
  <2>1. CASE \E m \in Value : ClientSend(m)
    BY <1>1, <2>1, Zenon
  <2>2. CASE \A m \in Value : ~ClientSend(m)
    BY <1>2, <2>2, Zenon
  <2> QED
    BY <2>1, <2>2, Zenon
<1>4. ASSUME ~early', NEW m \in Value, ClientSend(m) PROVE Dest[m] = Server \/ Registered(Dest[m])
  BY <1>1, <1>4, Zenon
<1> QED
  BY <1>3, <1>4, Zenon

LEMMA StayStep ==
    ASSUME TypeOK, TableInv, PipeInv, AcceptInv, OrderInv, StayInv, Next
    PROVE  StayInv'
<1> SUFFICES ASSUME Staying'
             PROVE  /\ NoEnds' /\ Pointers' /\ Registering' /\ Senders' /\ SrcFound'
                    /\ ~early' => Receivers' /\ DstFound'
                    /\ ~early' => proc' # "crashed"
                    /\ proc' = "undefined" => got' = Junk
  BY DEF StayInv
<1>1. Staying
  BY StayedBefore
<1>2. NoEnds /\ Pointers /\ Registering /\ Senders /\ SrcFound
  BY <1>1 DEF StayInv
<1>3. ~early => Receivers /\ DstFound
  BY <1>1 DEF StayInv
<1>4. NoEnds' /\ Pointers' /\ Registering' /\ Senders' /\ SrcFound'
  BY <1>2, NoEndsStep, PointersStep, RegisteringStep, SendersStep, SrcFoundStep
<1>5. ASSUME ~early' PROVE Receivers' /\ DstFound' /\ proc' # "crashed"
  <2>1. Receivers /\ DstFound /\ \A m \in Value : ClientSend(m) => Dest[m] = Server \/ Registered(Dest[m])
    BY <1>3, <1>5, EarlyStays
  <2>2. Receivers'
    BY <1>2, <2>1, ReceiversStep
  <2>3. DstFound'
    BY <1>2, <2>1, DstFoundStep
  <2>4. proc' # "crashed"
    BY <1>2, <2>1, Ends
  <2> QED
    BY <2>2, <2>3, <2>4
<1>6. proc' = "undefined" => got' = Junk
  BY <1>2, Ends
<1> QED
  BY <1>4, <1>5, <1>6

-----------------------------------------------------------------------------
(* The theorems                                                            *)

LEMMA InitInd == Init => IndInv
<1> SUFFICES ASSUME Init PROVE IndInv
  OBVIOUS
<1>1. /\ items = << >> /\ pending = << >> /\ got \in Value
      /\ peer = [c \in Conn |-> "new"] /\ rx = [s \in Source |-> << >>] /\ fdt = [f \in Fd |-> None]
      /\ interest = {Listener, Stdin} /\ ready = {} /\ events = {} /\ list = << >>
      /\ cliEndid = [c \in Conn |-> Server] /\ fd = [c \in Conn |-> 0] /\ ep = None /\ pm = Idle
      /\ inbox = [c \in Conn \cup {Server} |-> << >>] /\ sent = << >> /\ proc = "up"
  BY Zenon DEF Init, FifoInit
<1>2. TypeOK
  <2>1. pm \in PmType
    BY <1>1 DEF PmType, Idle
  <2>2. NetType
    BY <1>1, Sources DEF NetType
  <2>3. TableType
    BY <1>1, Sources DEF TableType
  <2>4. PipeType
    BY <1>1, <2>1 DEF PipeType, Element
  <2> QED
    BY <2>2, <2>3, <2>4, TypeParts
<1>3. /\ DOMAIN list = {} /\ DOMAIN items = {} /\ DOMAIN sent = {} /\ \A s \in Source : DOMAIN rx[s] = {}
      /\ \A c \in Conn \cup {Server} : DOMAIN inbox[c] = {}
  BY <1>1
<1>4. pm.pc = "idle" /\ pm.at = None /\ pm.src = None /\ pm.dst = None
  BY <1>1 DEF Idle
<1>5. AcceptInv
  BY <1>1, <1>3, Sources DEF AcceptInv
<1>6. TableInv
  <2>1. Range(list) = {} /\ Len(list) = 0
    BY <1>1 DEF Range
  <2>2. IsFiniteSet({}) /\ Cardinality({}) = 0
    BY FS_EmptySet
  <2>3. {} = interest \cap Conn
    BY <1>1, Sources
  <2>4. \A f \in Fd : \A c \in Conn : fdt[f] # c
    BY <1>1, Sources
  <2> QED
    BY <1>3, <1>4, <2>1, <2>2, <2>3, <2>4 DEF TableInv
<1>7. BackedInv
  <2>1. \A c \in Conn : peer[c] \notin Gone
    BY <1>1 DEF Gone
  <2> QED
    BY <1>1, <2>1 DEF BackedInv
<1>8. PipeInv
  BY <1>1, <1>3, <1>4, Sources DEF PipeInv
<1>9. \A a \in Value : ~Done(a) /\ ~Handled(a) /\ ~Queued(a) /\ ~Putting(a) /\ ~Arrived(a)
  <2>1. \A a \in Value : Via[a] \in Source /\ a # None
    BY Sources, TcpServerAssumption
  <2> QED
    BY <1>1, <1>3, <1>4, <2>1 DEF Done, Handled, Queued, Putting, Arrived
<1>10. OrderInv
  <2>1. \A a \in Value : Via[a] \in Source
    BY Sources, TcpServerAssumption
  <2>2. \A a, b \in Value : ~QueuePair(a, b) /\ ~RxPair(a, b) /\ ~InboxPair(a, b)
    BY <1>3, <2>1 DEF QueuePair, RxPair, InboxPair
  <2>3. \A a, b \in Value : ~Leads(a, b)
    BY <1>9, <2>2 DEF Leads
  <2> QED
    BY <1>3, <1>9, <2>3 DEF OrderInv, Known
<1>11. DestInv
  BY <1>3, <1>4 DEF DestInv
<1>12. StayInv
  <2>1. NoEnds /\ Pointers
    BY <1>3, <1>4, Sources DEF NoEnds, Pointers
  <2>2. Registering
    BY <1>1, <1>3, Sources DEF Registering
  <2>3. Senders /\ SrcFound /\ Receivers /\ DstFound
    BY <1>3, <1>4, <1>9 DEF Senders, SrcFound, Receivers, DstFound
  <2> QED
    BY <1>1, <2>1, <2>2, <2>3 DEF StayInv
<1> QED
  BY <1>2, <1>5, <1>6, <1>7, <1>8, <1>10, <1>11, <1>12 DEF IndInv

LEMMA Stutter == IndInv /\ UNCHANGED vars => IndInv'
<1> SUFFICES ASSUME IndInv, UNCHANGED vars PROVE IndInv'
  OBVIOUS
<1>1. UNCHANGED <<peer, rx, fdt, interest, ready, events, list, cliEndid, fd, ep, pm, inbox, sent, proc, early, stale,
                  items, pending, got>>
  BY DEF vars, queueVars, fifoVars, netVars, epollVars, listVars
<1>2. TypeOK' /\ AcceptInv' /\ TableInv'
  <2>1. TypeOK'
    BY <1>1 DEF IndInv, TypeOK
  <2>2. AcceptInv'
    BY <1>1 DEF IndInv, AcceptInv
  <2>3. TableInv'
    BY <1>1 DEF IndInv, TableInv
  <2> QED
    BY <2>1, <2>2, <2>3
<1>3. BackedInv' /\ PipeInv'
  BY <1>1 DEF IndInv, BackedInv, PipeInv, Waits
<1>4. OrderInv'
  <2>1. \A a \in Value : /\ Done(a)' => Done(a)
                         /\ Handled(a)' => Handled(a)
                         /\ Queued(a)' => Queued(a)
                         /\ Putting(a)' => Putting(a)
                         /\ Arrived(a)' => Arrived(a)
    BY <1>1, PlacesKept
  <2>2. \A a, b \in Value : /\ QueuePair(a, b)' => QueuePair(a, b)
                            /\ RxPair(a, b)' => RxPair(a, b)
                            /\ InboxPair(a, b)' => InboxPair(a, b)
    BY <1>1, PlacesKept
  <2> QED
    BY <1>1, <2>1, <2>2, OrderQuiet DEF IndInv
<1>5. DestInv'
  BY <1>1, Zenon DEF IndInv, DestInv
<1>6. StayInv'
  BY <1>1, ZenonT(60) DEF IndInv, StayInv, Staying, NoEnds, Pointers, Registering, Senders, SrcFound, Receivers, DstFound,
     Registered, Saves, Ahead, Handled, Queued, Putting
<1> QED
  BY <1>2, <1>3, <1>4, <1>5, <1>6 DEF IndInv

\* The inductive invariant: whatever clients, terminal and the two threads do,
\* list, epoll set and descriptors agree, edges are backed, and a message is
\* never overtaken by a later one of its sender.
THEOREM Invariance == Spec => []IndInv
<1>1. IndInv /\ [Next]_vars => IndInv'
  <2>1. ASSUME IndInv, Next PROVE IndInv'
    <3>1. TypeOK /\ AcceptInv /\ TableInv /\ BackedInv /\ PipeInv /\ OrderInv /\ DestInv /\ StayInv
      BY <2>1 DEF IndInv
    <3>2. TypeOK' /\ AcceptInv' /\ TableInv' /\ BackedInv' /\ PipeInv'
      BY <2>1, <3>1, TypeStep, AcceptStep, TableStep, BackedStep, PipeStep
    <3>3. OrderInv' /\ DestInv' /\ StayInv'
      BY <2>1, <3>1, OrderStep, DestStep, StayStep
    <3> QED
      BY <3>2, <3>3 DEF IndInv
  <2> QED
    BY <2>1, Stutter
<1> QED
  BY <1>1, InitInd, PTL DEF Spec

\* The list, the epoll set and the descriptor table name the same connections
\* through every order of accepts, ends and reuse of descriptors, however many
\* there are.  (server_socket.c:78-86, client_info.c:35-38, 48-56)
THEOREM RegistryAgrees == Spec => []RegistryExact
<1>1. IndInv => RegistryExact
  <2> SUFFICES ASSUME IndInv PROVE RegistryExact
    OBVIOUS
  <2>1. TypeOK /\ TableInv
    BY DEF IndInv
  <2>2. \A c \in Conn : Contains(list, c) <=> c \in Range(list)
    BY <2>1, NodesListed
  <2>3. \A f \in Fd : \A c \in Conn : fdt[f] = c <=> Contains(list, c) /\ fd[c] = f
    BY <2>1, <2>2 DEF TableInv
  <2>4. events \cap Conn \subseteq Range(list)
    BY <2>1 DEF TableInv, TypeOK
  <2> QED
    BY <2>1, <2>3, <2>4 DEF RegistryExact, TableInv
<1> QED
  BY <1>1, Invariance, PTL

\* SrvEp calls accept(), recv() and read() only when something is there, for any
\* merging of edges.  (server_socket.c:78, 96, 111; server_epoll.c:56-61)
THEOREM NeverBlocks == Spec => []EventsBacked
<1>1. IndInv => EventsBacked
  BY DEF IndInv, BackedInv, EventsBacked
<1> QED
  BY <1>1, Invariance, PTL

\* What a client or the server gets is for it and in its sender's order, unless a
\* descriptor was closed under the send().  (server_socket.c:125, 181, 192-194, 212)
THEOREM InOrder == Spec => []DeliveredInOrder
<1>1. IndInv => DeliveredInOrder
  <2> SUFFICES ASSUME IndInv, ~stale, NEW c \in Conn \cup {Server}, NEW i \in DOMAIN inbox[c], inbox[c][i] \in Value
               PROVE  /\ Dest[inbox[c][i]] = c
                      /\ \A j \in DOMAIN inbox[c] :
                           i < j /\ inbox[c][j] \in Value /\ Via[inbox[c][j]] = Via[inbox[c][i]] =>
                             Before(inbox[c][i], inbox[c][j])
    BY DEF DeliveredInOrder
  <2>1. Dest[inbox[c][i]] = c
    BY DEF IndInv, DestInv
  <2>2. ASSUME NEW j \in DOMAIN inbox[c], i < j, inbox[c][j] \in Value, Via[inbox[c][j]] = Via[inbox[c][i]]
        PROVE  Before(inbox[c][i], inbox[c][j])
    <3>1. InboxPair(inbox[c][i], inbox[c][j])
      BY <2>2 DEF InboxPair
    <3> QED
      BY <2>2, <3>1 DEF IndInv, OrderInv, Leads
  <2> QED
    BY <2>1, <2>2
<1> QED
  BY <1>1, Invariance, PTL

\* While every client stays, and messages are only for the registered, the server
\* dereferences no NULL and reads no freed node, for a list of any length and any
\* interleaving with the unlocked changes to it.
\* (server_socket.c:141-150, 178-194; client_info.c:83-90)
THEOREM ServerStaysUp == Spec => []StaysUp
<1>1. IndInv => StaysUp
  BY DEF IndInv, StayInv, Staying, StaysUp
<1> QED
  BY <1>1, Invariance, PTL

=============================================================================
