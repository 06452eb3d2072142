-------------------------- MODULE UdpClientProofs ---------------------------
(***************************************************************************)
(* The UDP client's buffers, lines and registration, for any number of     *)
(* pool threads, tries, lines and messages.                                *)
(***************************************************************************)
EXTENDS UdpClient, FiniteSetTheorems, SequenceTheorems, TLAPS

\* The buffers of the tasks, and the threads at work.
Args == {t.arg : t \in Tasks}
Busy == {w \in Worker : wk[w] # None}

\* The n-th registration has been made.
Asked(n) == n < Index \/ (n = Index /\ pc # "init")

\* Message m has a buffer of the receiving thread.
Copied(m) == Buf("rx", m.id) \in DOMAIN mem

\* Between two looks the counter is that of the registration to be made.
CountInv == pc = "init" => Index \in 1..Tries

\* A buffer belongs to one task.
UniqueInv ==
    /\ \A p, q \in DOMAIN taskq : taskq[p].arg = taskq[q].arg => p = q
    /\ \A p \in DOMAIN taskq, w \in Busy : taskq[p].arg # wk[w].arg
    /\ \A v, w \in Busy : wk[v].arg = wk[w].arg => v = w

OwnedInv ==
    /\ DOMAIN mem = Args \cup (IF pc = "talk" THEN {TxBuf} ELSE {})
    /\ IsFiniteSet(Args) /\ Cardinality(Args) = Len(taskq) + Cardinality(Busy)

\* What a buffer holds can be told from its name.
ContentInv ==
    /\ \A n \in 1..Tries : Buf("reg", n) \in DOMAIN mem =>
         mem[Buf("reg", n)] = Msg("SaveCliInfo", n, None)
    /\ \A l \in Line : Buf("copy", l) \in DOMAIN mem =>
         mem[Buf("copy", l)] \in typed /\ mem[Buf("copy", l)].id = l
    /\ \A m \in Incoming : Copied(m) => mem[Buf("rx", m.id)] = m

\* What is received is in one place at most.
InInv ==
    /\ \A p, q \in DOMAIN rx : rx[p] = rx[q] => p = q
    /\ \A p \in DOMAIN rx : rx[p] \notin down /\ ~Copied(rx[p])
    /\ \A m \in down : ~Copied(m)

\* A registration on its way out has not come back, and one not made is nowhere.
RegInv ==
    \A n \in 1..Tries : LET m == Msg("SaveCliInfo", n, None) IN
        /\ (Buf("reg", n) \in DOMAIN mem \/ m \in up) =>
             Asked(n) /\ m \notin down /\ ~Copied(m) /\ \A p \in DOMAIN rx : rx[p] # m
        /\ (m \in down \/ Copied(m) \/ \E p \in DOMAIN rx : rx[p] = m) => Asked(n) /\ registered
        /\ ~(Buf("reg", n) \in DOMAIN mem /\ m \in up)

SentInv ==
    /\ \A n \in DOMAIN sent : sent[n].type = "DataMsg" =>
         sent[n] \in typed /\ Buf("copy", sent[n].id) \notin DOMAIN mem
    /\ LinesAsTyped

RegisteredInv == boolInitCliInfo \/ pc \in {"menu", "talk"} => registered

IndInv ==
    /\ TypeOK /\ CountInv /\ UniqueInv /\ OwnedInv /\ ContentInv /\ InInv /\ RegInv /\ SentInv /\ RegisteredInv


-----------------------------------------------------------------------------
(* Buffers and messages by their names                                     *)

LEMMA BufNames ==
    /\ \A a, x, b, y : Buf(a, x) = Buf(b, y) => a = b /\ x = y
    /\ \A a, x : a # "TxBuf" => Buf(a, x) # TxBuf
BY DEF Buf, TxBuf

LEMMA MsgFields ==
    \A t, i, e : Msg(t, i, e).type = t /\ Msg(t, i, e).id = i /\ Msg(t, i, e).to = e
BY DEF Msg

\* A message that is received is told from the others by its id.
LEMMA IncomingIds ==
    /\ \A m, k \in Incoming : m.id = k.id => m = k
    /\ \A m \in Incoming : m.type = "SaveCliInfo" =>
         m.id \in 1..Tries /\ m = Msg("SaveCliInfo", m.id, None)
    /\ \A m \in Incoming : m.type \in {"SaveCliInfo", "DataMsg"}
    /\ \A m \in Typing : m.type = "DataMsg" /\ m.id \in Line
    /\ \A m \in Regs : m.type = "SaveCliInfo" /\ m \in Incoming
    /\ \A n \in 1..Tries : Msg("SaveCliInfo", n, None) \in Regs
    /\ \A n \in Note : Msg("DataMsg", n, None) \in Incoming
    /\ \A l \in Line, e \in End : Msg("DataMsg", l, e) \in Typing
<1>1. \A m \in Incoming : \/ \E n \in 1..Tries : m = Msg("SaveCliInfo", n, None)
                          \/ \E n \in Note : m = Msg("DataMsg", n, None)
  BY DEF Incoming, Regs
<1> QED
  BY <1>1, MsgFields, NamesAssumption DEF Incoming, Regs, Typing

LEMMA Heads ==
    ASSUME NEW S, NEW s \in Seq(S), s # << >>
    PROVE  /\ Head(s) \in S /\ Tail(s) \in Seq(S) /\ Len(Tail(s)) = Len(s) - 1 /\ Len(s) \in Nat \ {0}
           /\ Head(s) = s[1] /\ 1 \in DOMAIN s
           /\ \A p \in DOMAIN Tail(s) : p + 1 \in DOMAIN s /\ Tail(s)[p] = s[p + 1] /\ p \in Nat \ {0}
           /\ \A p \in DOMAIN s : p # 1 => p - 1 \in DOMAIN Tail(s) /\ Tail(s)[p - 1] = s[p]
<1>1. /\ Head(s) \in S /\ Tail(s) \in Seq(S) /\ Len(Tail(s)) = Len(s) - 1 /\ Len(s) \in Nat \ {0}
      /\ Head(s) = s[1] /\ DOMAIN s = 1..Len(s) /\ DOMAIN Tail(s) = 1..(Len(s) - 1)
      /\ \A p \in 1..(Len(s) - 1) : Tail(s)[p] = s[p + 1]
  OBVIOUS
<1>2. ASSUME NEW p \in DOMAIN s, p # 1 PROVE p - 1 \in DOMAIN Tail(s) /\ Tail(s)[p - 1] = s[p]
  <2>1. p - 1 \in 1..(Len(s) - 1) /\ (p - 1) + 1 = p
    BY <1>1, <1>2
  <2> QED
    BY <1>1, <2>1
<1> QED
  BY <1>1, <1>2

LEMMA Appended ==
    ASSUME NEW S, NEW s \in Seq(S), NEW x \in S
    PROVE  /\ Append(s, x) \in Seq(S) /\ Len(Append(s, x)) = Len(s) + 1 /\ Len(s) \in Nat
           /\ \A p \in DOMAIN s : p \in DOMAIN Append(s, x) /\ Append(s, x)[p] = s[p] /\ p # Len(s) + 1
           /\ Len(s) + 1 \in DOMAIN Append(s, x) /\ Append(s, x)[Len(s) + 1] = x
           /\ \A p \in DOMAIN Append(s, x) : p \in DOMAIN s \/ p = Len(s) + 1
OBVIOUS

-----------------------------------------------------------------------------
(* Tasks and their buffers                                                 *)

\* The buffers of the tasks, by where the tasks are.
LEMMA ArgsWhere ==
    /\ \A b : b \in Args <=> \/ \E p \in DOMAIN taskq : taskq[p].arg = b
                            \/ \E w \in Busy : wk[w].arg = b
    /\ \A b : b \in Args' <=> \/ \E p \in DOMAIN taskq' : taskq'[p].arg = b
                             \/ \E w \in Busy' : wk'[w].arg = b
BY DEF Args, Busy, Tasks, Range

LEMMA BusyFinite == IsFiniteSet(Busy) /\ Cardinality(Busy) \in Nat
<1>1. Busy \in SUBSET Worker
  BY DEF Busy
<1> QED
  BY <1>1, NamesAssumption, FS_Subset, FS_CardinalityType

\* AddTaskToPool with a buffer that has just been allocated.
LEMMA TaskAdded ==
    ASSUME TypeOK, TypeOK', UniqueInv, OwnedInv,
           NEW t \in Task, t.arg \notin DOMAIN mem, taskq' = Append(taskq, t), wk' = wk
    PROVE  /\ UniqueInv' /\ Args' = Args \cup {t.arg} /\ IsFiniteSet(Args')
           /\ Cardinality(Args') = Len(taskq') + Cardinality(Busy')
<1>0. taskq \in Seq(Task) /\ wk \in [Worker -> Task \cup {None}] /\ taskq' \in Seq(Task) /\ Busy' = Busy
  BY DEF TypeOK, Busy
<1>1. \A b : b \in Args <=> (\E p \in DOMAIN taskq : taskq[p].arg = b) \/ (\E w \in Busy : wk[w].arg = b)
  BY ArgsWhere
<1>2. \A b : b \in Args' <=> (\E p \in DOMAIN taskq' : taskq'[p].arg = b) \/ (\E w \in Busy : wk[w].arg = b)
  BY <1>0, ArgsWhere
<1>3. t.arg \notin Args
  BY DEF OwnedInv
<1>4. /\ \A p \in DOMAIN taskq : p \in DOMAIN taskq' /\ taskq'[p] = taskq[p] /\ p # Len(taskq) + 1
      /\ Len(taskq) + 1 \in DOMAIN taskq' /\ taskq'[Len(taskq) + 1] = t
      /\ \A p \in DOMAIN taskq' : p \in DOMAIN taskq \/ p = Len(taskq) + 1
      /\ Len(taskq') = Len(taskq) + 1 /\ Len(taskq) \in Nat
  BY <1>0, Appended
<1>5. Args' = Args \cup {t.arg}
  BY <1>1, <1>2, <1>4
<1>6. IsFiniteSet(Args') /\ Cardinality(Args') = Cardinality(Args) + 1
  BY <1>3, <1>5, FS_AddElement DEF OwnedInv
<1>7. UniqueInv'
  <2>1. \A p \in DOMAIN taskq : taskq[p].arg # t.arg
    BY <1>1, <1>3
  <2>2. \A w \in Busy : wk[w].arg # t.arg
    BY <1>1, <1>3
  <2> QED
    BY <1>0, <1>4, <2>1, <2>2 DEF UniqueInv
<1> QED
  BY <1>0, <1>4, <1>5, <1>6, <1>7, BusyFinite DEF OwnedInv


\* A pool thread takes the first task.
LEMMA TaskTaken ==
    ASSUME TypeOK, UniqueInv, OwnedInv, NEW w \in Worker, TakeTask(w)
    PROVE  UniqueInv' /\ Args' = Args /\ Cardinality(Args) = Len(taskq') + Cardinality(Busy')
<1>0. /\ taskq \in Seq(Task) /\ taskq # << >> /\ taskq' = Tail(taskq)
      /\ w \notin Busy /\ Busy' = Busy \cup {w} /\ wk'[w] = Head(taskq)
      /\ \A v \in Busy : wk'[v] = wk[v]
  <2>1. taskq \in Seq(Task) /\ taskq # << >> /\ taskq' = Tail(taskq) /\ wk[w] = None
    BY DEF TypeOK, TakeTask
  <2>2. Head(taskq) # None
    BY <2>1, Heads, NoneAssumption
  <2>3. wk'[w] = Head(taskq) /\ \A v \in Worker : v # w => wk'[v] = wk[v]
    BY DEF TakeTask, TypeOK
  <2> QED
    BY <2>1, <2>2, <2>3 DEF Busy
<1>1. \A b : b \in Args <=> (\E p \in DOMAIN taskq : taskq[p].arg = b) \/ (\E v \in Busy : wk[v].arg = b)
  BY ArgsWhere
<1>2. \A b : b \in Args' <=> (\E p \in DOMAIN taskq' : taskq'[p].arg = b) \/ (\E v \in Busy' : wk'[v].arg = b)
  BY ArgsWhere
<1>3. /\ Len(taskq') = Len(taskq) - 1 /\ Len(taskq) \in Nat \ {0}
      /\ Head(taskq) = taskq[1] /\ 1 \in DOMAIN taskq
      /\ \A p \in DOMAIN taskq' : p + 1 \in DOMAIN taskq /\ taskq'[p] = taskq[p + 1] /\ p \in Nat \ {0}
      /\ \A p \in DOMAIN taskq : p # 1 => p - 1 \in DOMAIN taskq' /\ taskq'[p - 1] = taskq[p]
  BY <1>0, Heads
<1>4. \A b : b \in Args' => b \in Args
  BY <1>0, <1>1, <1>2, <1>3
<1>5. \A b : b \in Args => b \in Args'
  <2> SUFFICES ASSUME NEW b, b \in Args PROVE b \in Args'
    OBVIOUS
  <2>1. CASE \E v \in Busy : wk[v].arg = b
    BY <1>0, <1>2, <2>1
  <2>2. ASSUME NEW p \in DOMAIN taskq, taskq[p].arg = b PROVE b \in Args'
    <3>1. CASE p = 1
      BY <1>0, <1>2, <1>3, <2>2, <3>1
    <3>2. CASE p # 1
      <4>1. p - 1 \in DOMAIN taskq' /\ taskq'[p - 1].arg = b
        BY <1>3, <2>2, <3>2
      <4> QED
        BY <1>2, <4>1
    <3> QED
      BY <3>1, <3>2
  <2> QED
    BY <1>1, <2>1, <2>2
<1>6. Cardinality(Busy') = Cardinality(Busy) + 1
  BY <1>0, BusyFinite, FS_AddElement
<1>7. UniqueInv'
  <2>1. \A p, q \in DOMAIN taskq' : taskq'[p].arg = taskq'[q].arg => p = q
    BY <1>3 DEF UniqueInv
  <2>2. \A p \in DOMAIN taskq', v \in Busy' : taskq'[p].arg # wk'[v].arg
    BY <1>0, <1>3 DEF UniqueInv
  <2>3. \A u, v \in Busy' : wk'[u].arg = wk'[v].arg => u = v
    BY <1>0, <1>3 DEF UniqueInv
  <2> QED
    BY <2>1, <2>2, <2>3 DEF UniqueInv
<1>8. Args' = Args
  BY <1>4, <1>5
<1>9. Cardinality(Args) = Len(taskq) + Cardinality(Busy)
  BY DEF OwnedInv
<1> QED
  BY <1>3, <1>6, <1>7, <1>8, <1>9, BusyFinite

\* A pool thread has done its task.
LEMMA TaskDone ==
    ASSUME TypeOK, UniqueInv, OwnedInv, NEW w \in Worker, wk[w] # None,
           wk' = [wk EXCEPT ![w] = None], taskq' = taskq
    PROVE  /\ UniqueInv' /\ Args' = Args \ {wk[w].arg} /\ IsFiniteSet(Args') /\ wk[w].arg \in Args
           /\ Cardinality(Args') = Len(taskq') + Cardinality(Busy')
<1>0. w \in Busy /\ Busy' = Busy \ {w} /\ \A v \in Busy' : wk'[v] = wk[v]
  BY DEF TypeOK, Busy
<1>1. \A b : b \in Args <=> (\E p \in DOMAIN taskq : taskq[p].arg = b) \/ (\E v \in Busy : wk[v].arg = b)
  BY ArgsWhere
<1>2. \A b : b \in Args' <=> (\E p \in DOMAIN taskq' : taskq'[p].arg = b) \/ (\E v \in Busy' : wk'[v].arg = b)
  BY ArgsWhere
<1>3. Args' = Args \ {wk[w].arg} /\ wk[w].arg \in Args
  <2>1. wk[w].arg \in Args /\ wk[w].arg \notin Args'
    BY <1>0, <1>1, <1>2 DEF UniqueInv
  <2>2. \A b : b \in Args' => b \in Args
    BY <1>0, <1>1, <1>2
  <2>3. \A b : b \in Args /\ b # wk[w].arg => b \in Args'
    BY <1>0, <1>1, <1>2
  <2> QED
    BY <2>1, <2>2, <2>3
<1>4. IsFiniteSet(Args') /\ Cardinality(Args') = Cardinality(Args) - 1
  BY <1>3, FS_RemoveElement DEF OwnedInv
<1>5. Cardinality(Busy') = Cardinality(Busy) - 1
  BY <1>0, BusyFinite, FS_RemoveElement
<1>6. UniqueInv'
  BY <1>0 DEF UniqueInv
<1>7. Len(taskq) \in Nat
  BY DEF TypeOK
<1> QED
  BY <1>3, <1>4, <1>5, <1>6, <1>7, BusyFinite DEF OwnedInv

\* What a pool thread finds at its task's buffer.
LEMMA Loaded ==
    ASSUME TypeOK, OwnedInv, ContentInv, NEW w \in Worker, wk[w] # None
    PROVE  /\ wk[w].arg \in DOMAIN mem
           /\ wk[w].Handler \in {"SendMsgBufToServer", "ProcessServerMsg"}
           /\ wk[w].Handler = "SendMsgBufToServer" =>
                \/ \E n \in 1..Tries : wk[w].arg = Buf("reg", n) /\ mem[wk[w].arg] = Msg("SaveCliInfo", n, None)
                \/ \E l \in Line : wk[w].arg = Buf("copy", l) /\ mem[wk[w].arg] \in typed /\ mem[wk[w].arg].id = l
           /\ wk[w].Handler = "ProcessServerMsg" =>
                \E m \in Incoming : wk[w].arg = Buf("rx", m.id) /\ mem[wk[w].arg] = m
<1>1. wk[w] \in Task /\ wk[w].arg \in Args
  BY ArgsWhere DEF TypeOK, Busy
<1>2. wk[w].arg \in DOMAIN mem
  BY <1>1 DEF OwnedInv
<1>3. /\ wk[w].Handler \in {"SendMsgBufToServer", "ProcessServerMsg"}
      /\ wk[w].Handler = "SendMsgBufToServer" =>
           (\E n \in 1..Tries : wk[w].arg = Buf("reg", n)) \/ (\E l \in Line : wk[w].arg = Buf("copy", l))
      /\ wk[w].Handler = "ProcessServerMsg" => \E m \in Incoming : wk[w].arg = Buf("rx", m.id)
  BY <1>1 DEF Task
<1> QED
  BY <1>2, <1>3 DEF ContentInv, Copied


-----------------------------------------------------------------------------
(* The steps                                                               *)

\* The buffer to be allocated is not in use.
LEMMA Fresh ==
    ASSUME TypeOK, ContentInv, InInv, RegInv
    PROVE  /\ pc = "init" /\ Index \in 1..Tries => Buf("reg", Index) \notin DOMAIN mem
           /\ \A l \in Line : (\A m \in typed : m.id # l) => Buf("copy", l) \notin DOMAIN mem
           /\ rx # << >> => Head(rx) \in Incoming /\ ~Copied(Head(rx))
<1>1. pc = "init" /\ Index \in 1..Tries => Buf("reg", Index) \notin DOMAIN mem
  BY DEF RegInv, Asked, TypeOK
<1>2. \A l \in Line : (\A m \in typed : m.id # l) => Buf("copy", l) \notin DOMAIN mem
  BY DEF ContentInv
<1>3. ASSUME rx # << >> PROVE Head(rx) \in Incoming /\ ~Copied(Head(rx))
  <2>1. Head(rx) \in Incoming /\ Head(rx) = rx[1] /\ 1 \in DOMAIN rx
    BY <1>3, Heads DEF TypeOK
  <2> QED
    BY <2>1 DEF InInv
<1> QED
  BY <1>1, <1>2, <1>3

LEMMA TypeStep == TypeOK /\ CountInv /\ OwnedInv /\ ContentInv /\ Next => TypeOK' /\ CountInv'
<1> SUFFICES ASSUME TypeOK, CountInv, OwnedInv, ContentInv, Next PROVE TypeOK' /\ CountInv'
  OBVIOUS
<1> USE NamesAssumption
<1>1. CASE Look
  <2>1. Index \in 0..Tries /\ Index < Tries /\ Index' = Index + 1
    BY <1>1 DEF Look, TypeOK
  <2>2. Index' \in 1..Tries
    BY <2>1
  <2>3. boolInitCliInfo' \in BOOLEAN /\ registered' \in BOOLEAN
    BY <1>1, Zenon DEF Look, TypeOK
  <2>4. pc' \in {"look", "init"} /\ pc = "look" /\ dest' = dest
    BY <1>1 DEF Look
  <2> QED
    BY <1>1, <2>2, <2>3, <2>4 DEF Look, TypeOK, CountInv
<1>2. ASSUME UNCHANGED <<Index, boolInitCliInfo, registered>>, pc' # "init"
      PROVE  /\ Index' \in 0..Tries /\ boolInitCliInfo' \in BOOLEAN /\ registered' \in BOOLEAN /\ CountInv'
  BY <1>2, Zenon DEF TypeOK, CountInv
<1>3. CASE InitClientInfoToServer
  <2> DEFINE m == Msg("SaveCliInfo", Index, None)
             t == [Handler |-> "SendMsgBufToServer", arg |-> Buf("reg", Index)]
  <2>1. Index \in 1..Tries /\ m \in Regs /\ t \in Task
    BY <1>3, IncomingIds DEF InitClientInfoToServer, CountInv, Task
  <2>2. m \in Incoming
    BY <2>1, IncomingIds
  <2> HIDE DEF m, t
  <2>3. mem' = [x \in DOMAIN mem \cup {Buf("reg", Index)} |-> IF x = Buf("reg", Index) THEN m ELSE mem[x]]
    BY <1>3 DEF InitClientInfoToServer, malloc, m
  <2>4. mem' \in [DOMAIN mem' -> Incoming \cup Typing \cup {None}]
    BY <2>2, <2>3 DEF TypeOK
  <2>5. taskq' \in Seq(Task)
    BY <1>3, <2>1, Appended DEF InitClientInfoToServer, AddTask, t, TypeOK
  <2>6. pc' = "look" /\ UNCHANGED <<Index, boolInitCliInfo, registered>>
    BY <1>3 DEF InitClientInfoToServer
  <2> QED
    BY <1>2, <1>3, <2>4, <2>5, <2>6 DEF InitClientInfoToServer, TypeOK
<1>4. CASE LastLook
  <2>1. pc' \in {"menu", "error"} /\ pc = "look" /\ UNCHANGED <<Index, boolInitCliInfo, registered>>
    BY <1>4 DEF LastLook
  <2> QED
    BY <1>2, <1>4, <2>1 DEF LastLook, TypeOK
<1>5. ASSUME NEW e \in End, Menu(e) PROVE TypeOK' /\ CountInv'
  <2>1. mem' \in [DOMAIN mem' -> Incoming \cup Typing \cup {None}]
    BY <1>5 DEF Menu, malloc, TypeOK
  <2>2. pc' = "talk" /\ UNCHANGED <<Index, boolInitCliInfo, registered>>
    BY <1>5 DEF Menu
  <2> QED
    BY <1>2, <1>5, <2>1, <2>2 DEF Menu, TypeOK
<1>6. ASSUME NEW l \in Line, SendLine(l) PROVE TypeOK' /\ CountInv'
  <2> DEFINE m == Msg("DataMsg", l, dest)
             t == [Handler |-> "SendMsgBufToServer", arg |-> Buf("copy", l)]
  <2>1. m \in Typing /\ t \in Task
    BY <1>6, IncomingIds DEF SendLine, Task, TypeOK
  <2> HIDE DEF m, t
  <2>2. /\ mem' = [b \in DOMAIN mem \cup {Buf("copy", l)} |->
                        IF b \in {TxBuf, Buf("copy", l)} THEN m ELSE mem[b]]
        /\ typed' = typed \cup {m} /\ taskq' = Append(taskq, t)
    BY <1>6 DEF SendLine, AddTask, m, t
  <2>3. mem' \in [DOMAIN mem' -> Incoming \cup Typing \cup {None}]
    BY <2>1, <2>2 DEF TypeOK
  <2>4. taskq' \in Seq(Task)
    BY <2>1, <2>2, Appended DEF TypeOK
  <2>5. pc' = "talk" /\ UNCHANGED <<Index, boolInitCliInfo, registered>>
    BY <1>6 DEF SendLine
  <2> QED
    BY <1>2, <1>6, <2>1, <2>2, <2>3, <2>4, <2>5 DEF SendLine, TypeOK
<1>7. CASE Quit
  <2>1. mem' \in [DOMAIN mem' -> Incoming \cup Typing \cup {None}]
    BY <1>7 DEF Quit, free, TypeOK
  <2>2. pc' = "menu" /\ UNCHANGED <<Index, boolInitCliInfo, registered>>
    BY <1>7 DEF Quit
  <2> QED
    BY <1>2, <1>7, <2>1, <2>2 DEF Quit, TypeOK
<1>8. ASSUME UNCHANGED <<pc, Index, dest>>
      PROVE  /\ pc' \in {"look", "init", "menu", "talk", "error"} /\ Index' \in 0..Tries
             /\ dest' \in End \cup {None} /\ (pc' = "talk" <=> dest' # None) /\ CountInv'
  BY <1>8 DEF TypeOK, CountInv
<1>9. CASE RecvServerMsg
  <2> DEFINE t == [Handler |-> "ProcessServerMsg", arg |-> Buf("rx", Head(rx).id)]
  <2>1. Head(rx) \in Incoming /\ Tail(rx) \in Seq(Incoming) /\ t \in Task
    BY <1>9, Heads DEF RecvServerMsg, Task, TypeOK
  <2> HIDE DEF t
  <2>2. mem' \in [DOMAIN mem' -> Incoming \cup Typing \cup {None}]
    BY <1>9, <2>1 DEF RecvServerMsg, malloc, TypeOK
  <2>3. taskq' \in Seq(Task)
    BY <1>9, <2>1, Appended DEF RecvServerMsg, AddTask, t, TypeOK
  <2>4. boolInitCliInfo' \in BOOLEAN /\ registered' \in BOOLEAN
    BY <1>9, Zenon DEF RecvServerMsg, TypeOK
  <2> QED
    BY <1>8, <1>9, <2>1, <2>2, <2>3, <2>4 DEF RecvServerMsg, TypeOK
<1>10. ASSUME NEW w \in Worker, TakeTask(w) PROVE TypeOK' /\ CountInv'
  <2>1. Head(taskq) \in Task /\ Tail(taskq) \in Seq(Task)
    BY <1>10, Heads DEF TakeTask, TypeOK
  <2>2. wk' \in [Worker -> Task \cup {None}] /\ taskq' \in Seq(Task)
    BY <1>10, <2>1 DEF TakeTask, TypeOK
  <2>3. boolInitCliInfo' \in BOOLEAN /\ registered' \in BOOLEAN
    BY <1>10, Zenon DEF TakeTask, TypeOK
  <2> QED
    BY <1>8, <1>10, <2>2, <2>3 DEF TakeTask, TypeOK
<1>11. ASSUME NEW w \in Worker, wk' = [wk EXCEPT ![w] = None], free(wk[w].arg)
       PROVE  wk' \in [Worker -> Task \cup {None}] /\ mem' \in [DOMAIN mem' -> Incoming \cup Typing \cup {None}]
  BY <1>11 DEF free, TypeOK
<1>12. ASSUME NEW w \in Worker, SendMsgBufToServer(w) PROVE TypeOK' /\ CountInv'
  <2>1. mem[wk[w].arg] \in Regs \cup Typing
    <3>1. wk[w] # None /\ wk[w].Handler = "SendMsgBufToServer"
      BY <1>12 DEF SendMsgBufToServer
    <3>2. \/ \E n \in 1..Tries : mem[wk[w].arg] = Msg("SaveCliInfo", n, None)
          \/ mem[wk[w].arg] \in typed
      BY <3>1, Loaded
    <3> QED
      BY <3>2, IncomingIds DEF TypeOK
  <2>2. sent' \in Seq(Regs \cup Typing) /\ up' \subseteq Regs \cup Typing
    BY <1>12, <2>1, Appended DEF SendMsgBufToServer, TypeOK
  <2>3. boolInitCliInfo' \in BOOLEAN /\ registered' \in BOOLEAN
    BY <1>12, Zenon DEF SendMsgBufToServer, TypeOK
  <2> QED
    BY <1>8, <1>11, <1>12, <2>2, <2>3 DEF SendMsgBufToServer, TypeOK
<1>13. ASSUME NEW w \in Worker, ProcessServerMsg(w) PROVE TypeOK' /\ CountInv'
  <2>1. mem[wk[w].arg] \in Incoming
    BY <1>13, Loaded DEF ProcessServerMsg
  <2>2. shown' \in Seq(Incoming)
    <3>1. Append(shown, mem[wk[w].arg]) \in Seq(Incoming) /\ shown \in Seq(Incoming)
      BY <2>1, Appended DEF TypeOK
    <3> QED
      BY <1>13, <3>1 DEF ProcessServerMsg
  <2>3. boolInitCliInfo' \in BOOLEAN /\ registered' \in BOOLEAN
    <3>1. boolInitCliInfo' = TRUE \/ boolInitCliInfo' = boolInitCliInfo
      BY <1>13, Zenon DEF ProcessServerMsg
    <3>2. registered' = registered
      BY <1>13 DEF ProcessServerMsg
    <3> QED
      BY <3>1, <3>2, Zenon DEF TypeOK
  <2> QED
    BY <1>8, <1>11, <1>13, <2>2, <2>3 DEF ProcessServerMsg, TypeOK
<1>14. ASSUME NEW m \in up \cup down, ServerTake(m) PROVE TypeOK' /\ CountInv'
  <2>1. boolInitCliInfo' \in BOOLEAN /\ registered' \in BOOLEAN
    <3>1. (registered' = TRUE \/ registered' = registered) /\ boolInitCliInfo' = boolInitCliInfo
      BY <1>14, Zenon DEF ServerTake
    <3> QED
      BY <3>1, Zenon DEF TypeOK
  <2>2. m \in up /\ down' \subseteq Incoming
    <3>1. m \in Regs \cup Typing /\ m \in up
      BY <1>14 DEF ServerTake, TypeOK
    <3>2. m.type = "SaveCliInfo" => m \in Incoming
      BY <3>1, IncomingIds
    <3> QED
      BY <1>14, <3>1, <3>2 DEF ServerTake, TypeOK
  <2> QED
    BY <1>8, <1>14, <2>1, <2>2 DEF ServerTake, TypeOK
<1>15. ASSUME NEW m \in up \cup down, Lose(m) PROVE TypeOK' /\ CountInv'
  <2>1. boolInitCliInfo' \in BOOLEAN /\ registered' \in BOOLEAN
    BY <1>15, Zenon DEF Lose, TypeOK
  <2> QED
    BY <1>8, <1>15, <2>1 DEF Lose, TypeOK
<1>16. ASSUME NEW m \in up \cup down, Arrive(m) PROVE TypeOK' /\ CountInv'
  <2>1. boolInitCliInfo' \in BOOLEAN /\ registered' \in BOOLEAN
    BY <1>16, Zenon DEF Arrive, TypeOK
  <2>2. rx' \in Seq(Incoming)
    BY <1>16, Appended DEF Arrive, TypeOK
  <2> QED
    BY <1>8, <1>16, <2>1, <2>2 DEF Arrive, TypeOK
<1>17. ASSUME NEW n \in Note, OtherSends(n) PROVE TypeOK' /\ CountInv'
  <2>1. boolInitCliInfo' \in BOOLEAN /\ registered' \in BOOLEAN
    BY <1>17, Zenon DEF OtherSends, TypeOK
  <2>2. down' \subseteq Incoming
    BY <1>17, IncomingIds DEF OtherSends, TypeOK
  <2> QED
    BY <1>8, <1>17, <2>1, <2>2 DEF OtherSends, TypeOK
<1> QED
  BY <1>1, <1>3, <1>4, <1>5, <1>6, <1>7, <1>9, <1>10, <1>12, <1>13, <1>14, <1>15, <1>16, <1>17
  DEF Next, Interface, User, WorkerStep


LEMMA OwnedStep ==
    TypeOK /\ CountInv /\ UniqueInv /\ OwnedInv /\ ContentInv /\ InInv /\ RegInv /\ Next
      => UniqueInv' /\ OwnedInv'
<1> SUFFICES ASSUME TypeOK, CountInv, UniqueInv, OwnedInv, ContentInv, InInv, RegInv, Next
             PROVE  UniqueInv' /\ OwnedInv'
  OBVIOUS
<1> USE NamesAssumption
<1>0. TypeOK'
  BY TypeStep
<1>t. \A t \in Task : t.arg # TxBuf
  BY BufNames DEF Task
<1>a. TxBuf \notin Args
  <2>1. \A p \in DOMAIN taskq : taskq[p] \in Task
    BY DEF TypeOK
  <2>2. \A w \in Busy : wk[w] \in Task
    BY DEF TypeOK, Busy
  <2> QED
    BY <1>t, <2>1, <2>2, ArgsWhere
\* Steps that leave the tasks and the memory alone.
<1>1. ASSUME UNCHANGED <<taskq, wk, mem>>, pc' = "talk" <=> pc = "talk" PROVE UniqueInv' /\ OwnedInv'
  <2>1. Args' = Args /\ Busy' = Busy
    BY <1>1 DEF Args, Tasks, Busy
  <2> QED
    BY <1>1, <2>1 DEF UniqueInv, OwnedInv
<1>2. CASE Look \/ LastLook
  BY <1>1, <1>2 DEF Look, LastLook
<1>3. ASSUME NEW m \in up \cup down, ServerTake(m) \/ Lose(m) \/ Arrive(m) PROVE UniqueInv' /\ OwnedInv'
  BY <1>1, <1>3 DEF ServerTake, Lose, Arrive
<1>4. ASSUME NEW n \in Note, OtherSends(n) PROVE UniqueInv' /\ OwnedInv'
  BY <1>1, <1>4 DEF OtherSends
\* Steps that change TxBuf only.
<1>5. ASSUME NEW e \in End, Menu(e) PROVE UniqueInv' /\ OwnedInv'
  <2>1. UNCHANGED <<taskq, wk>> /\ DOMAIN mem' = DOMAIN mem \cup {TxBuf} /\ pc = "menu" /\ pc' = "talk"
    BY <1>5 DEF Menu, malloc
  <2>2. Args' = Args /\ Busy' = Busy
    BY <2>1 DEF Args, Tasks, Busy
  <2> QED
    BY <2>1, <2>2 DEF UniqueInv, OwnedInv
<1>6. CASE Quit
  <2>1. UNCHANGED <<taskq, wk>> /\ DOMAIN mem' = DOMAIN mem \ {TxBuf} /\ pc = "talk" /\ pc' = "menu"
    BY <1>6 DEF Quit, free
  <2>2. Args' = Args /\ Busy' = Busy
    BY <2>1 DEF Args, Tasks, Busy
  <2> QED
    BY <1>a, <2>1, <2>2 DEF UniqueInv, OwnedInv
\* Steps that add a task with a new buffer.
<1>7. ASSUME NEW t \in Task, t.arg \notin DOMAIN mem, DOMAIN mem' = DOMAIN mem \cup {t.arg},
             taskq' = Append(taskq, t), wk' = wk, pc' = "talk" <=> pc = "talk"
      PROVE  UniqueInv' /\ OwnedInv'
  <2>1. /\ UniqueInv' /\ Args' = Args \cup {t.arg} /\ IsFiniteSet(Args')
        /\ Cardinality(Args') = Len(taskq') + Cardinality(Busy')
    BY <1>0, <1>7, TaskAdded
  <2> QED
    BY <1>7, <2>1 DEF OwnedInv
<1>8. CASE InitClientInfoToServer
  <2> DEFINE t == [Handler |-> "SendMsgBufToServer", arg |-> Buf("reg", Index)]
  <2>1. t \in Task /\ t.arg = Buf("reg", Index)
    BY <1>8 DEF InitClientInfoToServer, CountInv, Task
  <2>2. Buf("reg", Index) \notin DOMAIN mem
    BY <1>8, Fresh DEF InitClientInfoToServer, CountInv
  <2>3. taskq' = Append(taskq, t) /\ wk' = wk /\ DOMAIN mem' = DOMAIN mem \cup {Buf("reg", Index)}
        /\ pc' # "talk" /\ pc # "talk"
    BY <1>8 DEF InitClientInfoToServer, AddTask, malloc
  <2> HIDE DEF t
  <2> QED
    BY <1>7, <2>1, <2>2, <2>3
<1>9. ASSUME NEW l \in Line, SendLine(l) PROVE UniqueInv' /\ OwnedInv'
  <2> DEFINE t == [Handler |-> "SendMsgBufToServer", arg |-> Buf("copy", l)]
  <2>1. t \in Task /\ t.arg = Buf("copy", l)
    BY DEF Task
  <2>2. Buf("copy", l) \notin DOMAIN mem
    BY <1>9, Fresh DEF SendLine
  <2>3. taskq' = Append(taskq, t) /\ wk' = wk /\ DOMAIN mem' = DOMAIN mem \cup {Buf("copy", l)} /\ pc' = pc
    BY <1>9 DEF SendLine, AddTask
  <2> HIDE DEF t
  <2> QED
    BY <1>7, <2>1, <2>2, <2>3
<1>10. CASE RecvServerMsg
  <2> DEFINE t == [Handler |-> "ProcessServerMsg", arg |-> Buf("rx", Head(rx).id)]
  <2>1. Head(rx) \in Incoming /\ ~Copied(Head(rx))
    BY <1>10, Fresh DEF RecvServerMsg
  <2>2. t \in Task /\ t.arg = Buf("rx", Head(rx).id) /\ Buf("rx", Head(rx).id) \notin DOMAIN mem
    BY <2>1 DEF Task, Copied
  <2>3. taskq' = Append(taskq, t) /\ wk' = wk /\ DOMAIN mem' = DOMAIN mem \cup {Buf("rx", Head(rx).id)} /\ pc' = pc
    BY <1>10 DEF RecvServerMsg, AddTask, malloc
  <2> HIDE DEF t
  <2> QED
    BY <1>7, <2>2, <2>3
\* Steps of the pool's threads.
<1>11. ASSUME NEW w \in Worker, TakeTask(w) PROVE UniqueInv' /\ OwnedInv'
  <2>1. UniqueInv' /\ Args' = Args /\ Cardinality(Args) = Len(taskq') + Cardinality(Busy')
    BY <1>11, TaskTaken
  <2> QED
    BY <1>11, <2>1 DEF OwnedInv, TakeTask
<1>12. ASSUME NEW w \in Worker, SendMsgBufToServer(w) \/ ProcessServerMsg(w) PROVE UniqueInv' /\ OwnedInv'
  <2>1. /\ wk[w] # None /\ wk' = [wk EXCEPT ![w] = None] /\ taskq' = taskq
        /\ DOMAIN mem' = DOMAIN mem \ {wk[w].arg} /\ pc' = pc
    BY <1>12 DEF SendMsgBufToServer, ProcessServerMsg, free
  <2>2. /\ UniqueInv' /\ Args' = Args \ {wk[w].arg} /\ IsFiniteSet(Args') /\ wk[w].arg \in Args
        /\ Cardinality(Args') = Len(taskq') + Cardinality(Busy')
    BY <2>1, TaskDone
  <2> QED
    BY <1>a, <2>1, <2>2 DEF OwnedInv
<1> QED
  BY <1>2, <1>3, <1>4, <1>5, <1>6, <1>8, <1>9, <1>10, <1>11, <1>12 DEF Next, Interface, User, WorkerStep

LEMMA ContentStep ==
    TypeOK /\ CountInv /\ OwnedInv /\ ContentInv /\ InInv /\ Next => ContentInv'
<1> SUFFICES ASSUME TypeOK, CountInv, OwnedInv, ContentInv, InInv, Next PROVE ContentInv'
  OBVIOUS
<1>1. ASSUME typed \subseteq typed', \A b \in DOMAIN mem' : b # TxBuf => b \in DOMAIN mem /\ mem'[b] = mem[b]
      PROVE  ContentInv'
  <2>1. /\ \A n : Buf("reg", n) # TxBuf /\ Buf("copy", n) # TxBuf /\ Buf("rx", n) # TxBuf
    BY BufNames
  <2> QED
    BY <1>1, <2>1 DEF ContentInv, Copied
<1>2. CASE Look \/ LastLook
  BY <1>1, <1>2 DEF Look, LastLook
<1>3. ASSUME NEW m \in up \cup down, ServerTake(m) \/ Lose(m) \/ Arrive(m) PROVE ContentInv'
  BY <1>1, <1>3 DEF ServerTake, Lose, Arrive
<1>4. ASSUME NEW n \in Note, OtherSends(n) PROVE ContentInv'
  BY <1>1, <1>4 DEF OtherSends
<1>5. ASSUME NEW e \in End, Menu(e) PROVE ContentInv'
  <2>1. typed' = typed /\ \A b \in DOMAIN mem' : b # TxBuf => b \in DOMAIN mem /\ mem'[b] = mem[b]
    BY <1>5 DEF Menu, malloc
  <2> QED
    BY <1>1, <2>1
<1>6. CASE Quit
  <2>1. typed' = typed /\ \A b \in DOMAIN mem' : b # TxBuf => b \in DOMAIN mem /\ mem'[b] = mem[b]
    BY <1>6 DEF Quit, free
  <2> QED
    BY <1>1, <2>1
<1>7. ASSUME NEW w \in Worker, WorkerStep(w) PROVE ContentInv'
  <2>1. typed' = typed /\ \A b \in DOMAIN mem' : b \in DOMAIN mem /\ mem'[b] = mem[b]
    BY <1>7 DEF WorkerStep, TakeTask, SendMsgBufToServer, ProcessServerMsg, free
  <2> QED
    BY <1>1, <2>1
<1>8. ASSUME NEW a, NEW x, NEW c, a \in {"reg", "copy", "rx"}, typed \subseteq typed',
             \A b \in DOMAIN mem' : b # TxBuf /\ b # Buf(a, x) => b \in DOMAIN mem /\ mem'[b] = mem[b],
             mem'[Buf(a, x)] = c,
             a = "reg" => c = Msg("SaveCliInfo", x, None),
             a = "copy" => c \in typed' /\ c.id = x,
             a = "rx" => c \in Incoming /\ c.id = x
      PROVE  ContentInv'
  <2>1. /\ \A n : Buf("reg", n) # TxBuf /\ Buf("copy", n) # TxBuf /\ Buf("rx", n) # TxBuf
        /\ \A b, n : Buf(b, n) = Buf(a, x) => b = a /\ n = x
    BY BufNames
  <2>2. \A n \in 1..Tries : Buf("reg", n) \in DOMAIN mem' => mem'[Buf("reg", n)] = Msg("SaveCliInfo", n, None)
    BY <1>8, <2>1 DEF ContentInv
  <2>3. \A l \in Line : Buf("copy", l) \in DOMAIN mem' =>
           mem'[Buf("copy", l)] \in typed' /\ mem'[Buf("copy", l)].id = l
    BY <1>8, <2>1 DEF ContentInv
  <2>4. \A m \in Incoming : Buf("rx", m.id) \in DOMAIN mem' => mem'[Buf("rx", m.id)] = m
    BY <1>8, <2>1, IncomingIds DEF ContentInv, Copied
  <2> QED
    BY <2>2, <2>3, <2>4 DEF ContentInv, Copied
<1>9. CASE InitClientInfoToServer
  <2>1. /\ typed' = typed /\ mem'[Buf("reg", Index)] = Msg("SaveCliInfo", Index, None)
        /\ \A b \in DOMAIN mem' : b # Buf("reg", Index) => b \in DOMAIN mem /\ mem'[b] = mem[b]
    BY <1>9 DEF InitClientInfoToServer, malloc
  <2> QED
    BY <1>8, <2>1
<1>10. ASSUME NEW l \in Line, SendLine(l) PROVE ContentInv'
  <2> DEFINE m == Msg("DataMsg", l, dest)
  <2>1. /\ typed' = typed \cup {m} /\ mem'[Buf("copy", l)] = m /\ m.id = l
        /\ \A b \in DOMAIN mem' : b # TxBuf /\ b # Buf("copy", l) => b \in DOMAIN mem /\ mem'[b] = mem[b]
    BY <1>10, MsgFields DEF SendLine
  <2> HIDE DEF m
  <2> QED
    BY <1>8, <2>1
<1>11. CASE RecvServerMsg
  <2>1. /\ typed' = typed /\ mem'[Buf("rx", Head(rx).id)] = Head(rx)
        /\ \A b \in DOMAIN mem' : b # Buf("rx", Head(rx).id) => b \in DOMAIN mem /\ mem'[b] = mem[b]
    BY <1>11 DEF RecvServerMsg, malloc
  <2>2. Head(rx) \in Incoming
    BY <1>11, Heads DEF RecvServerMsg, TypeOK
  <2> QED
    BY <1>8, <2>1, <2>2
<1> QED
  BY <1>2, <1>3, <1>4, <1>5, <1>6, <1>7, <1>9, <1>10, <1>11 DEF Next, Interface, User


LEMMA InStep == TypeOK /\ OwnedInv /\ ContentInv /\ InInv /\ RegInv /\ Next => InInv'
<1> SUFFICES ASSUME TypeOK, OwnedInv, ContentInv, InInv, RegInv, Next PROVE InInv'
  OBVIOUS
<1>0. /\ rx \in Seq(Incoming) /\ down \subseteq Incoming
      /\ \A p \in DOMAIN rx : rx[p] \in Incoming
  BY DEF TypeOK
<1>b. \A n, k : Buf("reg", n) # Buf("rx", k) /\ Buf("copy", n) # Buf("rx", k) /\ TxBuf # Buf("rx", k)
  BY BufNames
<1>1. ASSUME rx' = rx, down' \subseteq down,
             \A k : Buf("rx", k) \in DOMAIN mem' => Buf("rx", k) \in DOMAIN mem
      PROVE  InInv'
  BY <1>1 DEF InInv, Copied
<1>2. CASE Interface \/ User
  <2>1. rx' = rx /\ down' = down
    BY <1>2 DEF Interface, User, Look, InitClientInfoToServer, LastLook, Menu, SendLine, Quit
  <2>2. \A k : Buf("rx", k) \in DOMAIN mem' => Buf("rx", k) \in DOMAIN mem
    BY <1>2, <1>b DEF Interface, User, Look, InitClientInfoToServer, LastLook, Menu, SendLine, Quit, malloc, free
  <2> QED
    BY <1>1, <2>1, <2>2
<1>3. ASSUME NEW w \in Worker, WorkerStep(w) PROVE InInv'
  <2>1. rx' = rx /\ down' = down /\ DOMAIN mem' \subseteq DOMAIN mem
    BY <1>3 DEF WorkerStep, TakeTask, SendMsgBufToServer, ProcessServerMsg, free
  <2> QED
    BY <1>1, <2>1
<1>4. ASSUME NEW m \in up \cup down, Lose(m) PROVE InInv'
  BY <1>1, <1>4 DEF Lose
<1>5. ASSUME NEW m \in up \cup down, ServerTake(m) PROVE InInv'
  <2>1. rx' = rx /\ mem' = mem /\ m \in up
    BY <1>5 DEF ServerTake
  <2>2. CASE m.type # "SaveCliInfo"
    BY <1>1, <1>5, <2>2 DEF ServerTake
  <2>3. CASE m.type = "SaveCliInfo"
    <3>1. m \in Incoming /\ m.id \in 1..Tries /\ m = Msg("SaveCliInfo", m.id, None)
      BY <2>1, <2>3, IncomingIds DEF TypeOK
    <3>2. ~Copied(m) /\ \A p \in DOMAIN rx : rx[p] # m
      BY <2>1, <3>1 DEF RegInv
    <3>3. down' = down \cup {m}
      BY <1>5, <2>3 DEF ServerTake
    <3> QED
      BY <2>1, <3>2, <3>3 DEF InInv, Copied
  <2> QED
    BY <2>2, <2>3
<1>6. ASSUME NEW n \in Note, OtherSends(n) PROVE InInv'
  <2> DEFINE m == Msg("DataMsg", n, None)
  <2>1. /\ rx' = rx /\ mem' = mem /\ down' = down \cup {m} /\ m \notin Range(rx)
        /\ \A b \in DOMAIN mem : mem[b] # m
    BY <1>6 DEF OtherSends
  <2>2. m \in Incoming
    BY IncomingIds
  <2> HIDE DEF m
  <2>3. ~Copied(m)
    BY <2>1, <2>2 DEF ContentInv, Copied
  <2>4. \A p \in DOMAIN rx : rx[p] # m
    BY <2>1 DEF Range
  <2> QED
    BY <2>1, <2>3, <2>4 DEF InInv, Copied
<1>7. ASSUME NEW m \in up \cup down, Arrive(m) PROVE InInv'
  <2>1. m \in down /\ down' = down \ {m} /\ rx' = Append(rx, m) /\ mem' = mem /\ m \in Incoming
    BY <1>0, <1>7 DEF Arrive
  <2>2. /\ \A p \in DOMAIN rx : p \in DOMAIN rx' /\ rx'[p] = rx[p] /\ p # Len(rx) + 1
        /\ Len(rx) + 1 \in DOMAIN rx' /\ rx'[Len(rx) + 1] = m
        /\ \A p \in DOMAIN rx' : p \in DOMAIN rx \/ p = Len(rx) + 1
    BY <1>0, <2>1, Appended
  <2> QED
    BY <2>1, <2>2 DEF InInv, Copied
<1>8. CASE RecvServerMsg
  <2>1. /\ rx # << >> /\ rx' = Tail(rx) /\ down' = down
        /\ DOMAIN mem' = DOMAIN mem \cup {Buf("rx", Head(rx).id)}
    BY <1>8 DEF RecvServerMsg, malloc
  <2>2. /\ Head(rx) \in Incoming /\ Head(rx) = rx[1] /\ 1 \in DOMAIN rx
        /\ \A p \in DOMAIN rx' : p + 1 \in DOMAIN rx /\ rx'[p] = rx[p + 1] /\ p \in Nat \ {0}
    BY <1>0, <2>1, Heads
  <2>3. \A m \in Incoming : Copied(m)' => Copied(m) \/ m = Head(rx)
    BY <2>1, <2>2, BufNames, IncomingIds DEF Copied
  <2>4. \A p \in DOMAIN rx' : rx'[p] # Head(rx)
    BY <2>2 DEF InInv
  <2>5. \A p, q \in DOMAIN rx' : rx'[p] = rx'[q] => p = q
    BY <2>2 DEF InInv
  <2>6. \A p \in DOMAIN rx' : rx'[p] \in Incoming /\ rx'[p] \notin down' /\ ~Copied(rx'[p])
    BY <1>0, <2>1, <2>2 DEF InInv
  <2>7. \A m \in down' : m \in Incoming /\ m # Head(rx) /\ ~Copied(m)
    BY <1>0, <2>1, <2>2 DEF InInv
  <2>8. \A m \in Incoming : ~Copied(m) /\ m # Head(rx) => Buf("rx", m.id) \notin DOMAIN mem'
    BY <2>3 DEF Copied
  <2> QED
    BY <2>4, <2>5, <2>6, <2>7, <2>8 DEF InInv, Copied
<1> QED
  BY <1>2, <1>3, <1>4, <1>5, <1>6, <1>7, <1>8 DEF Next

\* A registration that was made stays made.
LEMMA AskedStays == TypeOK /\ Next => \A n \in 1..Tries : Asked(n) => Asked(n)'
<1> SUFFICES ASSUME TypeOK, Next, NEW n \in 1..Tries, Asked(n) PROVE Asked(n)'
  OBVIOUS
<1> USE NamesAssumption
<1>1. CASE Look
  BY <1>1 DEF Look, Asked, TypeOK
<1>2. CASE Index' = Index /\ pc' # "init"
  BY <1>2 DEF Asked
<1>3. CASE Index' = Index /\ pc' = pc
  BY <1>3 DEF Asked
<1> QED
  BY <1>1, <1>2, <1>3 DEF Next, Interface, InitClientInfoToServer, LastLook, User, Menu, SendLine, Quit,
     RecvServerMsg, WorkerStep, TakeTask, SendMsgBufToServer, ProcessServerMsg, ServerTake, Lose, Arrive,
     OtherSends

LEMMA RegStep ==
    TypeOK /\ CountInv /\ OwnedInv /\ ContentInv /\ InInv /\ RegInv /\ Next => RegInv'
<1> SUFFICES ASSUME TypeOK, CountInv, OwnedInv, ContentInv, InInv, RegInv, Next, NEW n \in 1..Tries
             PROVE  LET m == Msg("SaveCliInfo", n, None) IN
                      /\ (Buf("reg", n) \in DOMAIN mem' \/ m \in up') =>
                           Asked(n)' /\ m \notin down' /\ ~Copied(m)' /\ \A p \in DOMAIN rx' : rx'[p] # m
                      /\ (m \in down' \/ Copied(m)' \/ \E p \in DOMAIN rx' : rx'[p] = m) => Asked(n)' /\ registered'
                      /\ ~(Buf("reg", n) \in DOMAIN mem' /\ m \in up')
  BY DEF RegInv
<1> DEFINE m == Msg("SaveCliInfo", n, None)
           R == Buf("reg", n) \in DOMAIN mem
           X == \E p \in DOMAIN rx : rx[p] = m
           Goal == /\ R' \/ m \in up' => Asked(n)' /\ m \notin down' /\ ~Copied(m)' /\ ~X'
                   /\ m \in down' \/ Copied(m)' \/ X' => Asked(n)' /\ registered'
                   /\ ~(R' /\ m \in up')
<1>0. SUFFICES Goal
  OBVIOUS
<1>m. m \in Regs /\ m \in Incoming /\ m.type = "SaveCliInfo" /\ m.id = n
  BY IncomingIds, MsgFields
<1>i. /\ R \/ m \in up => Asked(n) /\ m \notin down /\ ~Copied(m) /\ ~X
      /\ m \in down \/ Copied(m) \/ X => Asked(n) /\ registered
      /\ ~(R /\ m \in up)
  BY DEF RegInv
<1>a. Asked(n) => Asked(n)'
  BY AskedStays
<1>r. registered => registered'
  BY Zenon DEF Next, Interface, User, WorkerStep, Look, InitClientInfoToServer, LastLook, Menu, SendLine, Quit,
     RecvServerMsg, TakeTask, SendMsgBufToServer, ProcessServerMsg, ServerTake, Lose, Arrive, OtherSends
<1>b. /\ \A k : Buf("reg", n) # Buf("rx", k) /\ Buf("copy", k) # Buf("reg", n) /\ Buf("copy", k) # Buf("rx", n)
      /\ TxBuf # Buf("rx", n) /\ TxBuf # Buf("reg", n) /\ \A k : Buf("reg", k) # Buf("rx", n)
      /\ \A k : Buf("reg", k) = Buf("reg", n) => k = n
  BY BufNames
<1>c. Copied(m) <=> Buf("rx", n) \in DOMAIN mem
  BY <1>m DEF Copied
<1>d. Copied(m)' <=> Buf("rx", n) \in DOMAIN mem'
  BY <1>m DEF Copied
<1> HIDE DEF m
<1>1. ASSUME R' => R, m \in up' => m \in up, m \in down' => m \in down, Copied(m)' => Copied(m), X' => X
      PROVE  Goal
  BY <1>1, <1>i, <1>a, <1>r
<1>2. CASE Look \/ LastLook
  <2>1. UNCHANGED <<mem, up, down, rx>>
    BY <1>2 DEF Look, LastLook
  <2> QED
    BY <1>1, <1>c, <1>d, <2>1
<1>3. CASE User
  <2>1. UNCHANGED <<up, down, rx>>
    BY <1>3 DEF User, Menu, SendLine, Quit
  <2>2. /\ Buf("reg", n) \in DOMAIN mem' => Buf("reg", n) \in DOMAIN mem
        /\ Buf("rx", n) \in DOMAIN mem' => Buf("rx", n) \in DOMAIN mem
    BY <1>3, <1>b DEF User, Menu, SendLine, Quit, malloc, free
  <2> QED
    BY <1>1, <1>c, <1>d, <2>1, <2>2
<1>4. ASSUME NEW w \in Worker, TakeTask(w) \/ ProcessServerMsg(w) PROVE Goal
  <2>1. UNCHANGED <<up, down, rx>> /\ DOMAIN mem' \subseteq DOMAIN mem
    BY <1>4 DEF TakeTask, ProcessServerMsg, free
  <2> QED
    BY <1>1, <1>c, <1>d, <2>1
<1>5. ASSUME NEW k \in up \cup down, Lose(k) PROVE Goal
  <2>1. UNCHANGED <<mem, rx>> /\ up' \subseteq up /\ down' \subseteq down
    BY <1>5 DEF Lose
  <2> QED
    BY <1>1, <1>c, <1>d, <2>1
<1>6. ASSUME NEW k \in Note, OtherSends(k) PROVE Goal
  <2>1. UNCHANGED <<mem, rx, up>> /\ down' = down \cup {Msg("DataMsg", k, None)}
    BY <1>6 DEF OtherSends
  <2>2. m # Msg("DataMsg", k, None)
    BY <1>m, MsgFields
  <2> QED
    BY <1>1, <1>c, <1>d, <2>1, <2>2
<1>7. CASE InitClientInfoToServer
  <2>1. /\ UNCHANGED <<up, down, rx, Index>> /\ DOMAIN mem' = DOMAIN mem \cup {Buf("reg", Index)}
        /\ pc = "init" /\ pc' = "look"
    BY <1>7 DEF InitClientInfoToServer, malloc
  <2>2. Copied(m)' <=> Copied(m)
    BY <1>b, <1>c, <1>d, <2>1
  <2>3. CASE n # Index
    <3>1. R' => R
      BY <1>b, <2>1, <2>3
    <3> QED
      BY <1>1, <2>1, <2>2, <3>1
  <2>4. CASE n = Index
    <3>1. ~Asked(n) /\ Asked(n)'
      BY <2>1, <2>4, NamesAssumption DEF Asked
    <3> QED
      BY <1>i, <2>1, <2>2, <3>1
  <2> QED
    BY <2>3, <2>4
<1>8. CASE RecvServerMsg
  <2>1. /\ rx # << >> /\ rx' = Tail(rx) /\ UNCHANGED <<up, down>>
        /\ DOMAIN mem' = DOMAIN mem \cup {Buf("rx", Head(rx).id)}
    BY <1>8 DEF RecvServerMsg, malloc
  <2>2. /\ Head(rx) \in Incoming /\ Head(rx) = rx[1] /\ 1 \in DOMAIN rx
        /\ \A p \in DOMAIN rx' : p + 1 \in DOMAIN rx /\ rx'[p] = rx[p + 1] /\ p \in Nat \ {0}
    BY <2>1, Heads DEF TypeOK
  <2>3. Copied(m)' => Copied(m) \/ m = Head(rx)
    BY <1>m, <2>1, <2>2, BufNames, IncomingIds DEF Copied
  <2>4. (Copied(m)' => Copied(m) \/ X) /\ (X' => X) /\ (R' => R)
    BY <1>b, <2>1, <2>2, <2>3
  <2> QED
    BY <1>i, <1>a, <1>r, <2>1, <2>4
<1>9. ASSUME NEW w \in Worker, SendMsgBufToServer(w) PROVE Goal
  <2>1. /\ UNCHANGED <<down, rx>> /\ up' = up \cup {mem[wk[w].arg]}
        /\ DOMAIN mem' = DOMAIN mem \ {wk[w].arg}
        /\ wk[w] # None /\ wk[w].Handler = "SendMsgBufToServer"
    BY <1>9 DEF SendMsgBufToServer, free
  <2>2. (Copied(m)' => Copied(m)) /\ (R' => R)
    BY <1>c, <1>d, <2>1
  <2>3. m = mem[wk[w].arg] => R /\ ~R'
    <3>1. /\ wk[w].arg \in DOMAIN mem
          /\ \/ \E k \in 1..Tries : wk[w].arg = Buf("reg", k) /\ mem[wk[w].arg] = Msg("SaveCliInfo", k, None)
             \/ mem[wk[w].arg] \in typed
      BY <2>1, Loaded
    <3>2. m \notin typed
      BY <1>m, IncomingIds DEF TypeOK
    <3>3. ASSUME NEW k \in 1..Tries, wk[w].arg = Buf("reg", k), m = Msg("SaveCliInfo", k, None)
          PROVE  wk[w].arg = Buf("reg", n)
      BY <1>m, <3>3, MsgFields
    <3> QED
      BY <2>1, <3>1, <3>2, <3>3
  <2>4. CASE m # mem[wk[w].arg]
    BY <1>1, <2>1, <2>2, <2>4
  <2>5. CASE m = mem[wk[w].arg]
    BY <1>i, <1>a, <1>r, <2>1, <2>2, <2>3, <2>5
  <2> QED
    BY <2>4, <2>5
<1>10. ASSUME NEW k \in up \cup down, ServerTake(k) PROVE Goal
  <2>1. UNCHANGED <<mem, rx>> /\ k \in up /\ up' = up \ {k}
    BY <1>10 DEF ServerTake
  <2>2. CASE k # m
    <3>1. m \in down' => m \in down
      BY <1>10, <2>2 DEF ServerTake
    <3> QED
      BY <1>1, <1>c, <1>d, <2>1, <3>1
  <2>3. CASE k = m
    <3>1. down' = down \cup {m} /\ registered'
      BY <1>10, <1>m, <2>3, Zenon DEF ServerTake
    <3> QED
      BY <1>i, <1>a, <1>c, <1>d, <2>1, <2>3, <3>1
  <2> QED
    BY <2>2, <2>3
<1>11. ASSUME NEW k \in up \cup down, Arrive(k) PROVE Goal
  <2>1. UNCHANGED <<mem, up>> /\ k \in down /\ down' = down \ {k} /\ rx' = Append(rx, k) /\ k \in Incoming
    BY <1>11 DEF Arrive, TypeOK
  <2>2. X' => X \/ k = m
    <3>1. \A p \in DOMAIN rx' : (p \in DOMAIN rx /\ rx'[p] = rx[p]) \/ rx'[p] = k
      BY <2>1, Appended DEF TypeOK
    <3> QED
      BY <3>1
  <2>3. X' => X \/ m \in down
    BY <2>1, <2>2
  <2> QED
    BY <1>i, <1>a, <1>r, <1>c, <1>d, <2>1, <2>3
<1> QED
  BY <1>2, <1>3, <1>4, <1>5, <1>6, <1>7, <1>8, <1>9, <1>10, <1>11 DEF Next, Interface, WorkerStep


\* A line is sent from its copy, once, and the copy is gone then.
LEMMA SentStep ==
    TypeOK /\ OwnedInv /\ ContentInv /\ SentInv /\ Next => SentInv'
<1> SUFFICES ASSUME TypeOK, OwnedInv, ContentInv, SentInv, Next PROVE SentInv'
  OBVIOUS
<1>0. \A k \in DOMAIN sent : sent[k].type = "DataMsg" => sent[k] \in typed /\ sent[k].id \in Line
  BY IncomingIds DEF SentInv, TypeOK
<1>b. \A l, k : Buf("reg", k) # Buf("copy", l) /\ Buf("rx", k) # Buf("copy", l) /\ TxBuf # Buf("copy", l)
  BY BufNames
<1>1. ASSUME sent' = sent, typed \subseteq typed',
             \A k \in DOMAIN sent : sent[k].type = "DataMsg" /\ Buf("copy", sent[k].id) \in DOMAIN mem'
               => Buf("copy", sent[k].id) \in DOMAIN mem
      PROVE  SentInv'
  BY <1>1 DEF SentInv, LinesAsTyped
<1>2. CASE Interface \/ (\E e \in End : Menu(e)) \/ Quit \/ RecvServerMsg
  <2>1. sent' = sent /\ typed' = typed
    BY <1>2 DEF Interface, Look, InitClientInfoToServer, LastLook, Menu, Quit, RecvServerMsg
  <2>2. \A l : Buf("copy", l) \in DOMAIN mem' => Buf("copy", l) \in DOMAIN mem
    BY <1>2, <1>b DEF Interface, Look, InitClientInfoToServer, LastLook, Menu, Quit, RecvServerMsg, malloc, free
  <2> QED
    BY <1>1, <2>1, <2>2
<1>3. ASSUME NEW w \in Worker, TakeTask(w) \/ ProcessServerMsg(w) PROVE SentInv'
  <2>1. sent' = sent /\ typed' = typed /\ DOMAIN mem' \subseteq DOMAIN mem
    BY <1>3 DEF TakeTask, ProcessServerMsg, free
  <2> QED
    BY <1>1, <2>1
<1>4. CASE (\E m \in up \cup down : ServerTake(m) \/ Lose(m) \/ Arrive(m)) \/ \E n \in Note : OtherSends(n)
  BY <1>1, <1>4 DEF ServerTake, Lose, Arrive, OtherSends
<1>5. ASSUME NEW l \in Line, SendLine(l) PROVE SentInv'
  <2>1. /\ sent' = sent /\ DOMAIN mem' = DOMAIN mem \cup {Buf("copy", l)} /\ \A m \in typed : m.id # l
        /\ typed \subseteq typed'
    BY <1>5 DEF SendLine
  <2>2. \A k \in DOMAIN sent : sent[k].type = "DataMsg" => Buf("copy", sent[k].id) # Buf("copy", l)
    BY <1>0, <2>1, BufNames
  <2> QED
    BY <1>1, <2>1, <2>2
<1>6. ASSUME NEW w \in Worker, SendMsgBufToServer(w) PROVE SentInv'
  <2> DEFINE m == mem[wk[w].arg]
             b == wk[w].arg
  <2>1. /\ sent' = Append(sent, m) /\ typed' = typed /\ DOMAIN mem' = DOMAIN mem \ {b}
        /\ wk[w] # None /\ wk[w].Handler = "SendMsgBufToServer"
    BY <1>6 DEF SendMsgBufToServer, free
  <2>2. /\ b \in DOMAIN mem
        /\ \/ \E n \in 1..Tries : m = Msg("SaveCliInfo", n, None)
           \/ b = Buf("copy", m.id) /\ m \in typed
    BY <2>1, Loaded
  <2>3. m \in Regs \cup Typing /\ (m.type = "DataMsg" => b = Buf("copy", m.id) /\ m \in typed)
    BY <2>2, IncomingIds, MsgFields DEF TypeOK
  <2> HIDE DEF m, b
  <2>4. /\ \A p \in DOMAIN sent : p \in DOMAIN sent' /\ sent'[p] = sent[p] /\ p # Len(sent) + 1
        /\ Len(sent) + 1 \in DOMAIN sent' /\ sent'[Len(sent) + 1] = m
        /\ \A p \in DOMAIN sent' : p \in DOMAIN sent \/ p = Len(sent) + 1
    BY <2>1, <2>3, Appended DEF TypeOK
  <2>5. \A k \in DOMAIN sent : sent[k].type = "DataMsg" => m # sent[k]
    BY <2>2, <2>3 DEF SentInv
  <2>6. \A k \in DOMAIN sent' : sent'[k].type = "DataMsg" =>
           sent'[k] \in typed' /\ Buf("copy", sent'[k].id) \notin DOMAIN mem'
    BY <2>1, <2>3, <2>4 DEF SentInv
  <2>7. LinesAsTyped'
    BY <2>1, <2>3, <2>4, <2>5 DEF SentInv, LinesAsTyped
  <2> QED
    BY <2>6, <2>7 DEF SentInv
<1> QED
  BY <1>2, <1>3, <1>4, <1>5, <1>6 DEF Next, User, WorkerStep

\* The flag is set, and the menu opened, by an answer of the server only.
LEMMA RegisteredStep ==
    TypeOK /\ OwnedInv /\ ContentInv /\ RegInv /\ RegisteredInv /\ Next => RegisteredInv'
<1> SUFFICES ASSUME TypeOK, OwnedInv, ContentInv, RegInv, RegisteredInv, Next PROVE RegisteredInv'
  OBVIOUS
<1>r. registered => registered'
  BY Zenon DEF Next, Interface, User, WorkerStep, Look, InitClientInfoToServer, LastLook, Menu, SendLine, Quit,
     RecvServerMsg, TakeTask, SendMsgBufToServer, ProcessServerMsg, ServerTake, Lose, Arrive, OtherSends
<1>1. ASSUME NEW w \in Worker, ProcessServerMsg(w) PROVE RegisteredInv'
  <2>1. PICK m \in Incoming : wk[w].arg = Buf("rx", m.id) /\ mem[wk[w].arg] = m
    BY <1>1, Loaded DEF ProcessServerMsg
  <2>2. wk[w].arg \in DOMAIN mem
    BY <1>1, Loaded DEF ProcessServerMsg
  <2>3. CASE m.type = "SaveCliInfo"
    <3>1. m.id \in 1..Tries /\ m = Msg("SaveCliInfo", m.id, None) /\ Copied(m)
      BY <2>1, <2>2, <2>3, IncomingIds DEF Copied
    <3>2. registered
      BY <3>1 DEF RegInv
    <3> QED
      BY <1>r, <3>2 DEF RegisteredInv
  <2>4. CASE m.type # "SaveCliInfo"
    <3>1. boolInitCliInfo' = boolInitCliInfo /\ pc' = pc
      BY <1>1, <2>1, <2>4, Zenon DEF ProcessServerMsg
    <3> QED
      BY <1>r, <3>1 DEF RegisteredInv
  <2> QED
    BY <2>3, <2>4
<1>2. CASE LastLook
  <2>1. pc' = "menu" => boolInitCliInfo
    BY <1>2, Zenon DEF LastLook
  <2>2. boolInitCliInfo' = boolInitCliInfo /\ pc' \in {"menu", "error"}
    BY <1>2 DEF LastLook
  <2> QED
    BY <1>r, <2>1, <2>2 DEF RegisteredInv
<1>3. CASE boolInitCliInfo' = boolInitCliInfo /\ (pc' \in {"menu", "talk"} => pc \in {"menu", "talk"})
  BY <1>r, <1>3 DEF RegisteredInv
<1>4. CASE Look \/ InitClientInfoToServer
  <2>1. boolInitCliInfo' = boolInitCliInfo /\ pc' \in {"look", "init"}
    BY <1>4 DEF Look, InitClientInfoToServer
  <2> QED
    BY <1>3, <2>1
<1>5. CASE User
  BY <1>3, <1>5 DEF User, Menu, SendLine, Quit
<1> QED
  BY <1>1, <1>2, <1>3, <1>4, <1>5 DEF Next, Interface, WorkerStep, RecvServerMsg, TakeTask, SendMsgBufToServer,
     ServerTake, Lose, Arrive, OtherSends

-----------------------------------------------------------------------------
(* The theorems                                                            *)

LEMMA InitInd == Init => IndInv
<1> SUFFICES ASSUME Init PROVE IndInv
  OBVIOUS
<1> USE NamesAssumption
<1>1. /\ DOMAIN mem = {} /\ taskq = << >> /\ rx = << >> /\ sent = << >> /\ up = {} /\ down = {}
      /\ Busy = {} /\ pc = "look" /\ boolInitCliInfo = FALSE
  BY DEF Init, Busy
<1>2. TypeOK
  <2>1. boolInitCliInfo \in BOOLEAN /\ registered \in BOOLEAN
    BY Zenon DEF Init
  <2>2. mem \in [DOMAIN mem -> Incoming \cup Typing \cup {None}] /\ wk \in [Worker -> Task \cup {None}]
    BY DEF Init
  <2> QED
    BY <2>1, <2>2 DEF Init, TypeOK
<1>3. Args = {}
  <2>1. DOMAIN taskq = {}
    BY <1>1
  <2> QED
    BY <1>1, <2>1, ArgsWhere
<1>4. OwnedInv
  BY <1>1, <1>3, FS_EmptySet DEF OwnedInv
<1>5. CountInv /\ UniqueInv /\ ContentInv /\ InInv /\ RegInv
  BY <1>1 DEF CountInv, UniqueInv, ContentInv, InInv, RegInv, Copied
<1>6. SentInv /\ RegisteredInv
  BY <1>1 DEF SentInv, LinesAsTyped, RegisteredInv
<1> QED
  BY <1>2, <1>4, <1>5, <1>6 DEF IndInv

LEMMA Stutter == IndInv /\ UNCHANGED vars => IndInv'
<1> SUFFICES ASSUME IndInv, UNCHANGED vars PROVE IndInv'
  OBVIOUS
<1>1. Args' = Args /\ Busy' = Busy
  BY DEF vars, Args, Tasks, Busy
<1>2. TypeOK' /\ CountInv' /\ UniqueInv' /\ OwnedInv'
  BY <1>1 DEF vars, IndInv, TypeOK, CountInv, UniqueInv, OwnedInv
<1>3. ContentInv' /\ InInv' /\ RegInv' /\ SentInv' /\ RegisteredInv'
  BY DEF vars, IndInv, ContentInv, Copied, InInv, RegInv, Asked, SentInv, LinesAsTyped, RegisteredInv
<1> QED
  BY <1>2, <1>3 DEF IndInv

\* The parts of the invariant are kept together by every step of the client, its
\* user, the server and the network.  (client_interface.c:20-60, client_udp.c:60-219)
THEOREM Invariance == Spec => []IndInv
<1>1. IndInv /\ [Next]_vars => IndInv'
  <2>1. IndInv /\ Next => IndInv'
    BY TypeStep, OwnedStep, ContentStep, InStep, RegStep, SentStep, RegisteredStep DEF IndInv
  <2> QED
    BY <2>1, Stutter
<1> QED
  BY <1>1, InitInd, PTL DEF Spec

\* Every buffer is allocated while its one task refers to it, and none leaks.
\* (client_udp.c:78, 102, 133, 161, 165, 216)
THEOREM BuffersAccounted == Spec => []BuffersOwned
<1>1. IndInv => BuffersOwned
  BY DEF IndInv, OwnedInv, BuffersOwned, Args, Busy
<1> QED
  BY <1>1, Invariance, PTL

\* Lines are sent as typed, to the end chosen then, once at most.
\* (client_udp.c:159-161, 196-198)
THEOREM LinesSentAsTyped == Spec => []LinesAsTyped
<1>1. IndInv => LinesAsTyped
  BY DEF IndInv, SentInv
<1> QED
  BY <1>1, Invariance, PTL

\* The menu opens only to a client the server has registered.
\* (client_interface.c:37-47, client_udp.c:70-73)
THEOREM MenuOnlyRegistered == Spec => []MenuMeansRegistered
<1>1. IndInv => MenuMeansRegistered
  BY DEF IndInv, RegisteredInv, MenuMeansRegistered
<1> QED
  BY <1>1, Invariance, PTL

=============================================================================
