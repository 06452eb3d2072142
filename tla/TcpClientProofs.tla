-------------------------- MODULE TcpClientProofs ---------------------------
(***************************************************************************)
(* The list of LinkQueue, shared without a lock, is the queue LinkFifo for *)
(* every set of values, however long it gets and however the two threads   *)
(* interleave.  The client of socket_tcp uses it so, and with it shows the *)
(* messages in the order in which they came and sends what was typed,      *)
(* however many messages, lines and ends there are.                        *)
(***************************************************************************)
EXTENDS TcpClient, FiniteSetTheorems, SequenceTheorems, TLAPS

-----------------------------------------------------------------------------
(* The list by itself                                                      *)

Cell == Value \cup {Null, Junk}

\* The nodes that are allocated: DeLinkQueue has freed the first one before it
\* advances front, EnLinkQueue has made the last one before it advances rear.
FirstNode == IF de.pc = "advance" THEN front + 1 ELSE front
LastNode == IF en.pc = "idle" THEN rear ELSE rear + 1

NodesInv ==
    /\ front <= rear
    /\ de.pc # "idle" => front < rear /\ de.tmp = front + 1
    /\ Nodes = FirstNode..LastNode

\* Behind the last element is a node without data, which EnLinkQueue fills.
RearInv ==
    /\ en.pc = "idle" => data[rear] = Null
    /\ en.pc \in {"load", "copy"} => data[rear] = Junk
    /\ en.pc \in {"link", "publish"} => data[rear] # Null
    /\ en.pc # "idle" => data[rear + 1] = Null
    /\ en.pc = "publish" => next[rear] = rear + 1

\* Every element has data and is linked to the next, but the one being freed.
ListInv ==
    \A n \in FirstNode..(rear - 1) :
        (de.pc = "free" /\ n = front) \/ (data[n] # Null /\ next[n] = n + 1)

\* Why a stale front misleads EnLinkQueue only as LinkFifo says: unless it is
\* still the front, its node is gone.
LoadedInv ==
    en.pc = "copy" => en.at \in 1..front /\ (en.at # front => en.at \notin Nodes)

\* A node that is about to be freed has no data any more.
FreeInv == de.pc = "free" => data[front] = Null

LinkInv == LinkTypeOK /\ NodesInv /\ RearInv /\ ListInv /\ LoadedInv /\ FreeInv

-----------------------------------------------------------------------------
(* Elements as a sequence                                                  *)

LEMMA ElementsType ==
    ASSUME NEW f \in Nat, NEW r \in Nat, f <= r, NEW d,
           \A n \in f..(r - 1) : d[n] \in Cell
    PROVE  /\ Elements(f, r, d) \in Seq(Cell)
           /\ Len(Elements(f, r, d)) = r - f
           /\ \A k \in 1..(r - f) : Elements(f, r, d)[k] = d[f + k - 1]
<1>1. ASSUME NEW k \in 1..(r - f) PROVE d[f + k - 1] \in Cell
  <2>1. f + k - 1 \in f..(r - 1)
    OBVIOUS
  <2> QED
    BY <2>1
<1>2. Elements(f, r, d) \in [1..(r - f) -> Cell]
  BY <1>1 DEF Elements
<1>3. r - f \in Nat
  OBVIOUS
<1> QED
  BY <1>2, <1>3 DEF Elements

\* Only the data between the two nodes matters.
LEMMA ElementsSame ==
    ASSUME NEW f \in Nat, NEW r \in Nat, NEW d, NEW e,
           \A n \in f..(r - 1) : d[n] = e[n]
    PROVE  Elements(f, r, d) = Elements(f, r, e)
<1>1. ASSUME NEW k \in 1..(r - f) PROVE d[f + k - 1] = e[f + k - 1]
  <2>1. f + k - 1 \in f..(r - 1)
    OBVIOUS
  <2> QED
    BY <2>1
<1> QED
  BY <1>1 DEF Elements

\* Advancing front takes the first element away.
LEMMA ElementsTail ==
    ASSUME NEW f \in Nat, NEW r \in Nat, f < r, NEW d,
           \A n \in f..(r - 1) : d[n] \in Cell
    PROVE  /\ Elements(f, r, d) # << >>
           /\ Head(Elements(f, r, d)) = d[f]
           /\ Tail(Elements(f, r, d)) = Elements(f + 1, r, d)
<1> DEFINE old == Elements(f, r, d)
           new == Elements(f + 1, r, d)
<1>1. old \in Seq(Cell) /\ Len(old) = r - f /\ \A k \in 1..(r - f) : old[k] = d[f + k - 1]
  BY ElementsType
<1>2. /\ new \in Seq(Cell) /\ Len(new) = r - (f + 1)
      /\ \A k \in 1..(r - (f + 1)) : new[k] = d[f + 1 + k - 1]
  BY ElementsType
<1> HIDE DEF old, new
<1>3. old # << >> /\ Head(old) = d[f]
  BY <1>1
<1>4. /\ Tail(old) \in Seq(Cell) /\ Len(Tail(old)) = Len(old) - 1
      /\ \A k \in 1..Len(Tail(old)) : Tail(old)[k] = old[k + 1]
  BY <1>1, <1>3
<1>5. ASSUME NEW k \in 1..Len(new) PROVE Tail(old)[k] = new[k]
  BY <1>1, <1>2, <1>4
<1>6. Tail(old) = new
  BY <1>1, <1>2, <1>4, <1>5, SeqEqual, SMTT(30)
<1> QED
  BY <1>3, <1>6 DEF old, new

\* Advancing rear adds the data of the node that was the last.
LEMMA ElementsAppend ==
    ASSUME NEW f \in Nat, NEW r \in Nat, f <= r, NEW d,
           \A n \in f..r : d[n] \in Cell
    PROVE  Elements(f, r + 1, d) = Elements(f, r, d) \o <<d[r]>>
<1> DEFINE old == Elements(f, r, d)
           new == Elements(f, r + 1, d)
<1>1. old \in Seq(Cell) /\ Len(old) = r - f /\ \A k \in 1..(r - f) : old[k] = d[f + k - 1]
  BY ElementsType
<1>2. /\ new \in Seq(Cell) /\ Len(new) = r + 1 - f
      /\ \A k \in 1..(r + 1 - f) : new[k] = d[f + k - 1]
  BY ElementsType
<1>3. d[r] \in Cell /\ new[r + 1 - f] = d[r]
  BY <1>2
<1> DEFINE cat == old \o <<d[r]>>
<1> HIDE DEF old, new
<1>4. cat \in Seq(Cell) /\ Len(cat) = Len(old) + 1
  BY <1>1, <1>3
<1>5. ASSUME NEW k \in 1..Len(new) PROVE cat[k] = new[k]
  BY <1>1, <1>2, <1>3
<1> HIDE DEF cat
<1>6. Len(cat) = Len(new)
  BY <1>1, <1>2, <1>4
<1>7. cat = new
  BY <1>2, <1>4, <1>5, <1>6, SeqEqual
<1> QED
  BY <1>7 DEF cat, old, new

-----------------------------------------------------------------------------
(* The inductive invariant                                                 *)

LEMMA InitLink == LinkInit => LinkInv
<1> SUFFICES ASSUME LinkInit PROVE LinkInv
  OBVIOUS
<1> USE DataAssumption DEF LinkInit
<1>1. LinkTypeOK
  BY DEF LinkTypeOK, Nodes
<1>2. NodesInv
  BY DEF NodesInv, Nodes, FirstNode, LastNode
<1>3. RearInv /\ ListInv /\ LoadedInv /\ FreeInv
  BY DEF RearInv, ListInv, LoadedInv, FreeInv, FirstNode
<1> QED
  BY <1>1, <1>2, <1>3 DEF LinkInv

\* Each step of the producer, and each of the consumer, preserves it.
LEMMA NextLink == LinkInv /\ [LinkNext]_linkVars => LinkInv'
<1> SUFFICES ASSUME LinkInv, [LinkNext]_linkVars PROVE LinkInv'
  OBVIOUS
<1> USE DataAssumption DEF LinkInv
<1>1. CASE EnAlloc
  <2> USE <1>1 DEF EnAlloc
  <2>1. LinkTypeOK'
    BY DEF LinkTypeOK, Nodes
  <2>2. NodesInv'
    BY DEF NodesInv, Nodes, FirstNode, LastNode, LinkTypeOK
  <2>3. RearInv'
    BY DEF RearInv, NodesInv, Nodes, FirstNode, LastNode, LinkTypeOK
  <2>4. ListInv' /\ LoadedInv' /\ FreeInv'
    BY DEF FreeInv, ListInv, LoadedInv, NodesInv, Nodes, FirstNode, LastNode, LinkTypeOK
  <2> QED
    BY <2>1, <2>2, <2>3, <2>4
<1>2. CASE EnLoadFront
  <2> USE <1>2 DEF EnLoadFront
  <2>1. LinkTypeOK'
    BY DEF LinkTypeOK, Nodes
  <2>2. NodesInv' /\ RearInv' /\ ListInv'
    BY DEF NodesInv, RearInv, ListInv, Nodes, FirstNode, LastNode, LinkTypeOK
  <2>3. LoadedInv' /\ FreeInv'
    BY DEF FreeInv, LoadedInv, LinkTypeOK
  <2> QED
    BY <2>1, <2>2, <2>3
<1>3. CASE \E v \in Value : EnCopy(v)
  <2>0. PICK v \in Value : EnCopy(v)
    BY <1>3
  <2> USE <2>0 DEF EnCopy
  <2>1. LinkTypeOK'
    BY DEF LinkTypeOK, Nodes
  <2>2. NodesInv'
    BY DEF NodesInv, Nodes, FirstNode, LastNode, LinkTypeOK
  <2>3. RearInv'
    BY SMTT(30) DEF RearInv, NodesInv, Nodes, FirstNode, LastNode, LinkTypeOK
  <2>4. ListInv' /\ LoadedInv' /\ FreeInv'
    BY SMTT(30) DEF FreeInv, ListInv, LoadedInv, NodesInv, Nodes, FirstNode, LastNode, LinkTypeOK
  <2> QED
    BY <2>1, <2>2, <2>3, <2>4
<1>4. CASE EnLink
  <2> USE <1>4 DEF EnLink
  <2>0. next' \in [Nodes -> Nat]
    <3>1. rear + 1 \in Nat /\ next \in [Nodes -> Nat]
      BY DEF LinkTypeOK
    <3>2. next' = [next EXCEPT ![rear] = rear + 1]
      OBVIOUS
    <3> HIDE DEF EnLink
    <3> QED
      BY ONLY <3>1, <3>2
  <2>1. LinkTypeOK'
    BY <2>0 DEF LinkTypeOK, Nodes
  <2>2. NodesInv'
    BY DEF NodesInv, Nodes, FirstNode, LastNode, LinkTypeOK
  <2>3. RearInv'
    BY DEF RearInv, NodesInv, Nodes, FirstNode, LastNode, LinkTypeOK
  <2>4. ListInv' /\ LoadedInv' /\ FreeInv'
    BY DEF FreeInv, ListInv, LoadedInv, NodesInv, Nodes, FirstNode, LastNode, LinkTypeOK
  <2> QED
    BY <2>1, <2>2, <2>3, <2>4
<1>5. CASE EnPublish
  <2> USE <1>5 DEF EnPublish
  <2>1. LinkTypeOK'
    BY DEF LinkTypeOK, Nodes
  <2>2. NodesInv'
    BY DEF NodesInv, Nodes, FirstNode, LastNode, LinkTypeOK
  <2>3. RearInv'
    BY DEF RearInv, NodesInv, LinkTypeOK
  <2>4. ListInv' /\ LoadedInv' /\ FreeInv'
    BY DEF FreeInv, ListInv, LoadedInv, RearInv, NodesInv, Nodes, FirstNode, LastNode, LinkTypeOK
  <2> QED
    BY <2>1, <2>2, <2>3, <2>4
<1>6. CASE DeTest
  <2> USE <1>6 DEF DeTest
  <2>1. de'.tmp = front + 1
    BY DEF ListInv, NodesInv, FirstNode, LinkTypeOK
  <2>2. LinkTypeOK'
    BY <2>1 DEF LinkTypeOK, Nodes
  <2>3. NodesInv'
    BY <2>1 DEF NodesInv, Nodes, FirstNode, LastNode, LinkTypeOK
  <2>4. RearInv' /\ ListInv' /\ LoadedInv' /\ FreeInv'
    BY DEF FreeInv, RearInv, ListInv, LoadedInv, Nodes, FirstNode, LinkTypeOK
  <2> QED
    BY <2>2, <2>3, <2>4
<1>7. CASE DeCopy
  <2> USE <1>7 DEF DeCopy
  <2>1. data[front] \in Cell /\ data[front] # Null
    BY DEF ListInv, NodesInv, Nodes, FirstNode, LastNode, LinkTypeOK, Cell
  <2>2. LinkTypeOK'
    BY <2>1 DEF LinkTypeOK, Nodes, Cell
  <2>3. NodesInv'
    BY DEF NodesInv, Nodes, FirstNode, LastNode, LinkTypeOK
  <2>4. RearInv' /\ ListInv' /\ LoadedInv' /\ FreeInv'
    BY DEF FreeInv, RearInv, ListInv, LoadedInv, Nodes, FirstNode, LinkTypeOK
  <2> QED
    BY <2>2, <2>3, <2>4
<1>8. CASE DeNull
  <2> USE <1>8 DEF DeNull
  <2>1. LinkTypeOK'
    BY DEF LinkTypeOK, Nodes
  <2>2. NodesInv'
    BY DEF NodesInv, Nodes, FirstNode, LastNode, LinkTypeOK
  <2>3. RearInv'
    BY DEF RearInv, NodesInv, Nodes, FirstNode, LastNode, LinkTypeOK
  <2>4. ListInv' /\ LoadedInv' /\ FreeInv'
    BY DEF FreeInv, ListInv, LoadedInv, NodesInv, Nodes, FirstNode, LastNode, LinkTypeOK
  <2> QED
    BY <2>1, <2>2, <2>3, <2>4
<1>9. CASE DeFree
  <2> USE <1>9 DEF DeFree
  <2>1. LinkTypeOK'
    BY DEF LinkTypeOK, Nodes
  <2>2. NodesInv'
    BY DEF NodesInv, Nodes, FirstNode, LastNode, LinkTypeOK
  <2>3. RearInv'
    BY DEF RearInv, NodesInv, Nodes, FirstNode, LastNode, LinkTypeOK
  <2>4. ListInv' /\ LoadedInv' /\ FreeInv'
    BY DEF FreeInv, ListInv, LoadedInv, NodesInv, Nodes, FirstNode, LastNode, LinkTypeOK
  <2> QED
    BY <2>1, <2>2, <2>3, <2>4
<1>10. CASE DeAdvance
  <2> USE <1>10 DEF DeAdvance
  <2>1. LinkTypeOK'
    BY DEF LinkTypeOK, NodesInv, Nodes
  <2>2. NodesInv'
    BY DEF NodesInv, Nodes, FirstNode, LastNode, LinkTypeOK
  <2>3. RearInv'
    BY DEF RearInv, LinkTypeOK
  <2>4. ListInv' /\ LoadedInv' /\ FreeInv'
    BY DEF FreeInv, ListInv, LoadedInv, NodesInv, Nodes, FirstNode, LastNode, LinkTypeOK
  <2> QED
    BY <2>1, <2>2, <2>3, <2>4
<1>11. CASE UNCHANGED linkVars
  BY <1>11 DEF linkVars, LinkTypeOK, NodesInv, RearInv, ListInv, LoadedInv, FreeInv,
               Nodes, FirstNode, LastNode
<1> QED
  BY <1>1, <1>2, <1>3, <1>4, <1>5, <1>6, <1>7, <1>8, <1>9, <1>10, <1>11 DEF LinkNext

\* The list is well formed in every reachable state: front never passes rear,
\* exactly the nodes between them are allocated, and each is linked to the next.
\* (link_queue.c:47-67, 81-95)
THEOREM LinkInvariant == LinkSpec => []LinkInv
<1>1. LinkInit => LinkInv
  BY InitLink
<1>2. LinkInv /\ [LinkNext]_linkVars => LinkInv'
  BY NextLink
<1> QED
  BY <1>1, <1>2, PTL DEF LinkSpec

-----------------------------------------------------------------------------
(* The refinement                                                          *)

\* What LinkFifo calls overlapped.
Overlapped == en.pc = "copy" /\ (en.at \in Nodes => data[en.at] = Null)

\* The elements that are not taken have data, and lie before the last node.
LEMMA OldestFacts ==
    ASSUME LinkInv
    PROVE  /\ Oldest \in Nat /\ rear \in Nat /\ front \in Nat
           /\ front <= Oldest /\ Oldest <= front + 1 /\ Oldest <= rear
           /\ (de.pc = "free" => Oldest = front + 1)
           /\ FirstNode <= Oldest /\ LastNode \in {rear, rear + 1}
           /\ \A n \in Oldest..rear : n \in Nodes /\ data[n] \in Cell
<1> USE DEF LinkInv, LinkTypeOK, NodesInv
<1>1. /\ Oldest \in Nat /\ rear \in Nat /\ front \in Nat
      /\ front <= Oldest /\ Oldest <= front + 1 /\ Oldest <= rear
      /\ (de.pc = "free" => Oldest = front + 1)
      /\ FirstNode <= Oldest /\ LastNode \in {rear, rear + 1}
  BY DEF Oldest, FirstNode, LastNode
<1>2. ASSUME NEW n \in Oldest..rear PROVE n \in Nodes /\ data[n] \in Cell
  <2>1. n \in Nodes
    BY <1>1 DEF FirstNode, LastNode
  <2> QED
    BY <2>1 DEF Cell
<1> QED
  BY <1>1, <1>2

LEMMA InitRefines == LinkInit => Fifo!FifoInit
<1> SUFFICES ASSUME LinkInit PROVE Fifo!FifoInit
  OBVIOUS
<1>1. Elements(Oldest, rear, data) = << >>
  BY DEF LinkInit, Oldest, Elements
<1> QED
  BY <1>1 DEF LinkInit, Fifo!FifoInit

\* Every step of the two threads is a step of LinkFifo or none: the load of
\* front begins a put, the copy fixes its value, the new rear ends it; the
\* copy out is the get, and the clean-up is from the NULLs to the new front.
LEMMA NextRefines ==
    LinkInv /\ LinkInv' /\ [LinkNext]_linkVars => [Fifo!FifoNext]_(Fifo!fifoVars)
<1> SUFFICES ASSUME LinkInv, LinkInv', [LinkNext]_linkVars
             PROVE  Fifo!FifoNext \/ UNCHANGED Fifo!fifoVars
  OBVIOUS
<1> DEFINE items == Elements(Oldest, rear, data)
<1>0. /\ Oldest \in Nat /\ rear \in Nat /\ front \in Nat
      /\ front <= Oldest /\ Oldest <= front + 1 /\ Oldest <= rear
      /\ (de.pc = "free" => Oldest = front + 1)
      /\ \A n \in Oldest..rear : n \in Nodes /\ data[n] \in Cell
  BY OldestFacts
<1>1. CASE EnAlloc
  <2>1. Oldest' = Oldest /\ rear' = rear
    BY <1>1 DEF EnAlloc, Oldest
  <2>2. \A n \in Oldest..(rear - 1) : data[n] = data'[n]
    BY <1>0, <1>1 DEF EnAlloc
  <2>3. items' = items
    BY <1>0, <2>1, <2>2, ElementsSame
  <2>4. en.pc = "idle" /\ en'.pc = "load" /\ de' = de /\ buf' = buf
    BY <1>1 DEF EnAlloc, LinkInv, LinkTypeOK
  <2> QED
    BY <2>3, <2>4 DEF Fifo!fifoVars
<1>2. CASE EnLoadFront
  <2>1. items' = items
    BY <1>2 DEF EnLoadFront, Oldest
  <2>2. /\ en.pc = "load" /\ en' = [pc |-> "copy", at |-> front]
        /\ UNCHANGED <<front, rear, data, next, de, buf>>
    BY <1>2 DEF EnLoadFront
  <2>3. (front \in Nodes => data[front] = Null) <=> de.pc \in {"free", "advance"}
    <3>1. CASE de.pc = "advance"
      BY <3>1 DEF LinkInv, NodesInv, LinkTypeOK, FirstNode, LastNode
    <3>2. CASE de.pc = "free"
      BY <3>2 DEF LinkInv, FreeInv
    <3>3. CASE de.pc \notin {"free", "advance"}
      BY <2>2, <3>3, DataAssumption
      DEF LinkInv, NodesInv, ListInv, RearInv, LinkTypeOK, FirstNode, LastNode
    <3> QED
      BY <3>1, <3>2, <3>3
  <2>4. Fifo!BeginPut
    BY <2>1, <2>2, <2>3 DEF Fifo!BeginPut, Nodes
  <2> QED
    BY <2>4 DEF Fifo!FifoNext
<1>3. CASE \E v \in Value : EnCopy(v)
  <2>0. PICK v \in Value : EnCopy(v)
    BY <1>3
  <2>1. Oldest' = Oldest /\ rear' = rear
    BY <2>0 DEF EnCopy, Oldest
  <2>2. \A n \in Oldest..(rear - 1) : data[n] = data'[n]
    BY <1>0, <2>0 DEF EnCopy, LinkInv, LinkTypeOK
  <2>3. items' = items
    BY <1>0, <2>1, <2>2, ElementsSame
  <2>4. rear \in Nodes /\ data[rear] = Junk
    BY <1>0, <2>0 DEF EnCopy, LinkInv, RearInv
  <2>5. data'[rear] = v \/ (Overlapped /\ data'[rear] = Junk)
    BY <2>0, <2>4 DEF EnCopy, Overlapped, LinkInv, LinkTypeOK
  <2>6. /\ en.pc = "copy" /\ en'.pc = "link" /\ UNCHANGED <<de, buf>>
    BY <2>0 DEF EnCopy
  <2>7. Fifo!Fill(v)
    BY <2>1, <2>3, <2>5, <2>6 DEF Fifo!Fill, Overlapped
  <2> QED
    BY <2>7 DEF Fifo!FifoNext
<1>4. CASE EnLink
  <2>1. items' = items
    BY <1>4 DEF EnLink, Oldest
  <2>2. en.pc = "link" /\ en'.pc = "publish" /\ UNCHANGED <<rear, data, de, buf>>
    BY <1>4 DEF EnLink, LinkInv, LinkTypeOK
  <2> QED
    BY <2>1, <2>2 DEF Fifo!fifoVars
<1>5. CASE EnPublish
  <2>1. Oldest' = Oldest /\ rear' = rear + 1 /\ data' = data
    BY <1>5 DEF EnPublish, Oldest
  <2>2. items' = items \o <<data[rear]>>
    BY <1>0, <2>1, ElementsAppend
  <2>3. en.pc = "publish" /\ en'.pc = "idle" /\ UNCHANGED <<de, buf>>
    BY <1>5 DEF EnPublish, LinkInv, LinkTypeOK
  <2>4. Fifo!EndPut
    BY <2>2, <2>3 DEF Fifo!EndPut
  <2> QED
    BY <2>4 DEF Fifo!FifoNext
<1>6. CASE DeTest
  <2>1. Oldest' = Oldest
    BY <1>6 DEF DeTest, Oldest
  <2>2. items' = items
    BY <1>6, <2>1 DEF DeTest
  <2>3. de.pc = "idle" /\ de'.pc = "copy" /\ UNCHANGED <<rear, data, en, buf>>
    BY <1>6 DEF DeTest
  <2> QED
    BY <2>2, <2>3 DEF Fifo!fifoVars, Nodes
<1>7. CASE DeCopy
  <2>1. /\ de.pc = "copy" /\ de'.pc = "null" /\ de'.tmp = de.tmp
        /\ UNCHANGED <<front, rear, data, next, en>>
    BY <1>7 DEF DeCopy, LinkInv, LinkTypeOK
  <2>2. Oldest = front /\ front < rear /\ Oldest' = front + 1
    BY <2>1 DEF Oldest, LinkInv, NodesInv
  <2>3. items # << >> /\ Head(items) = data[front] /\ Tail(items) = items'
    BY <1>0, <2>1, <2>2, ElementsTail
  <2>4. buf' = data[front]
    BY <1>7, <2>2 DEF DeCopy, LinkInv, ListInv, FirstNode, LinkTypeOK
  <2>5. Fifo!Get
    BY <2>1, <2>3, <2>4 DEF Fifo!Get, Nodes
  <2> QED
    BY <2>5 DEF Fifo!FifoNext
<1>8. CASE DeNull
  <2>1. /\ de.pc = "null" /\ de'.pc = "free" /\ de'.tmp = de.tmp
        /\ UNCHANGED <<front, rear, en, buf>>
    BY <1>8 DEF DeNull, LinkInv, LinkTypeOK
  <2>2. Oldest = front + 1 /\ Oldest' = Oldest /\ front < rear
    BY <2>1 DEF Oldest, LinkInv, NodesInv
  <2>3. /\ DOMAIN data' = Nodes
        /\ \A n \in Nodes : data'[n] = IF n = front THEN Null ELSE data[n]
    BY <1>8 DEF DeNull, LinkInv, LinkTypeOK, Nodes
  <2>4. items' = items
    <3>1. \A n \in Oldest..(rear - 1) : data[n] = data'[n]
      BY <1>0, <2>2, <2>3
    <3> QED
      BY <1>0, <2>1, <2>2, <3>1, ElementsSame
  <2>5. Overlapped' <=> en.pc = "copy"
    BY <2>1, <2>3 DEF Overlapped, LinkInv, LoadedInv, Nodes
  <2>6. (en.pc \in {"link", "publish"} => data'[rear] = data[rear])
    BY <1>0, <2>2, <2>3
  <2>7. Fifo!Clear
    BY <2>1, <2>4, <2>5, <2>6 DEF Fifo!Clear, Overlapped, Nodes
  <2> QED
    BY <2>7 DEF Fifo!FifoNext
<1>9. CASE DeFree
  <2>1. /\ de.pc = "free" /\ de'.pc = "advance" /\ de'.tmp = de.tmp
        /\ UNCHANGED <<front, rear, en, buf>>
    BY <1>9 DEF DeFree, LinkInv, LinkTypeOK
  <2>2. Oldest = front + 1 /\ Oldest' = Oldest /\ front < rear
    BY <2>1 DEF Oldest, LinkInv, NodesInv
  <2>3. DOMAIN data' = Nodes \ {front} /\ \A n \in Nodes \ {front} : data'[n] = data[n]
    BY <1>9 DEF DeFree
  <2>4. items' = items
    <3>1. \A n \in Oldest..(rear - 1) : data[n] = data'[n]
      BY <1>0, <2>2, <2>3
    <3> QED
      BY <1>0, <2>1, <2>2, <3>1, ElementsSame
  <2>5. Overlapped' <=> Overlapped
    BY <2>1, <2>3 DEF Overlapped, LinkInv, LoadedInv, FreeInv, Nodes
  <2>6. (en.pc \in {"link", "publish"} => data'[rear] = data[rear])
    BY <1>0, <2>2, <2>3
  <2> QED
    BY <2>1, <2>4, <2>5, <2>6 DEF Fifo!fifoVars, Overlapped, Nodes
<1>10. CASE DeAdvance
  <2>1. /\ de.pc = "advance" /\ de'.pc = "idle" /\ front' = de.tmp
        /\ UNCHANGED <<rear, data, next, en, buf>>
    BY <1>10 DEF DeAdvance
  <2>2. Oldest' = Oldest
    BY <2>1 DEF Oldest
  <2>3. items' = items
    BY <2>1, <2>2
  <2>4. Fifo!EndGet
    BY <2>1, <2>3 DEF Fifo!EndGet, Nodes
  <2> QED
    BY <2>4 DEF Fifo!FifoNext
<1>11. CASE UNCHANGED linkVars
  BY <1>11 DEF linkVars, Fifo!fifoVars, Oldest, Nodes
<1> QED
  BY <1>1, <1>2, <1>3, <1>4, <1>5, <1>6, <1>7, <1>8, <1>9, <1>10, <1>11 DEF LinkNext

\* Without a lock the list still is the queue LinkFifo: every element comes out
\* once and in order, and only a put that meets the clean-up of a node can leave
\* uninitialised memory in place of its value.  (link_queue.c:55-67, 81-95)
THEOREM LinkRefines == LinkSpec => ImplementsLinkFifo
<1>1. LinkInit => Fifo!FifoInit
  BY InitRefines
<1>2. LinkInv /\ LinkInv' /\ [LinkNext]_linkVars => [Fifo!FifoNext]_(Fifo!fifoVars)
  BY NextRefines
<1> QED
  BY <1>1, <1>2, LinkInvariant, PTL DEF LinkSpec, ImplementsLinkFifo, Fifo!FifoSpec

-----------------------------------------------------------------------------
(* The client's inductive invariant                                        *)

\* What is in the socket are the messages that follow those received, in the
\* order of their numbers, and acknowledgements anywhere among them.
InboxInv ==
    /\ Forwarded \in Nat /\ Forwarded <= MaxNote
    /\ Range(inbox) \ {0} = (arrived + 1)..Forwarded
    /\ \A i, j \in DOMAIN inbox :
         i < j /\ inbox[i] # 0 /\ inbox[j] # 0 => inbox[i] < inbox[j]

\* Node n of the list is that of message n: CliRecv is busy with the message
\* received last until rear is behind it.
PutInv ==
    /\ rear = IF rv = "put" THEN arrived ELSE arrived + 1
    /\ rv # "put" => en.pc = "idle"
    /\ rv = "put" => rxbuf.hdr = arrived
    /\ RxHeldByRecv /\ "rx" \notin met => rxbuf.body.by = "recv"

\* m is message n as it was received, but for what the queue and CliUI do to it.
IsMessage(m, n) == m = Junk \/ (m.hdr = n /\ ("rx" \notin met => m.own))

DataInv ==
    /\ \A n \in Nodes : data[n] = Null \/ IsMessage(data[n], n)
    /\ de.pc \in {"null", "free", "advance"} => IsMessage(buf, front)

ShownInv ==
    /\ Len(shown) = front - 1
    /\ \A i \in DOMAIN shown : IsMessage(shown[i], i)

\* Who fills TX_BUF finds its own header in it again, unless the other came.
TxInv ==
    "tx" \notin met =>
        /\ rv = "send" => txbuf.type = "SAVE_CLI_INFO"
        /\ ui.pc = "send" => txbuf.type = "PROCESS_MSG"

\* The line goes from RX_BUF, which was clear when it was read, to TX_BUF.
LineInv ==
    /\ ui.pc = "read" /\ rv \notin {"put", "clear"} => rxbuf.body.by = "memset"
    /\ ui.pc \in {"quit", "fill"} /\ met = {} =>
         rxbuf.body = [by |-> ui.read, clean |-> TRUE]
    /\ ui.pc \in {"fill", "send"} /\ met = {} => ui.read = "line"
    /\ ui.pc = "send" /\ met = {} => txbuf.line /\ txbuf.dest = ui.dest

IndInv ==
    /\ LinkInv /\ TypeOK
    /\ InboxInv /\ PutInv /\ DataInv /\ ShownInv
    /\ TxInv /\ LineInv /\ LinesAsTyped


\* The client touches the list only by the steps of EnLinkQueue and DeLinkQueue,
\* and what it puts in is a MsgBuf.
LEMMA ListSteps == TypeOK /\ [Next]_vars => [LinkNext]_linkVars
<1> SUFFICES ASSUME TypeOK, [Next]_vars PROVE LinkNext \/ UNCHANGED linkVars
  OBVIOUS
<1>1. [hdr |-> rxbuf.hdr, own |-> rxbuf.body.by = "recv"] \in Value
  BY ElementsAssumption DEF TypeOK, Message
<1>2. CASE RxPut
  BY <1>1, <1>2 DEF RxPut, LinkNext
<1>3. CASE RxPutEnd \/ ProMsg \/ ProMsgDisplay
  BY <1>3 DEF RxPutEnd, ProMsg, ProMsgDisplay, LinkNext
<1>4. CASE Network \/ UiRun \/ UiUser
  BY <1>4 DEF Network, ServerAck, ServerMsg, ServerClose, UiRun, UiQuit, UiFill, UiSend,
              UiUser, UiMenu, UiRead
<1>5. CASE InitCliInfoHeader \/ InitCliInfoSend \/ RxClear \/ RxRecv \/ RxNothing
  BY <1>5 DEF InitCliInfoHeader, InitCliInfoSend, RxClear, RxRecv, RxNothing
<1>6. CASE UNCHANGED vars
  BY <1>6 DEF vars
<1> QED
  BY <1>2, <1>3, <1>4, <1>5, <1>6 DEF Next, Recv

LEMMA SendTypes == TypeOK /\ Send => saves' \in Nat /\ lines' \in Nat /\ asTyped' \in BOOLEAN
<1> SUFFICES ASSUME TypeOK, Send PROVE saves' \in Nat /\ lines' \in Nat /\ asTyped' \in BOOLEAN
  OBVIOUS
<1>1. saves' \in Nat /\ lines' \in Nat
  BY DEF TypeOK, Send
<1>2. CASE txbuf.type = "SAVE_CLI_INFO"
  BY <1>1, <1>2 DEF TypeOK, Send
<1>3. CASE txbuf.type # "SAVE_CLI_INFO"
  <2>1. asTyped' = (asTyped /\ txbuf.line /\ txbuf.dest = ui.dest)
    BY <1>3 DEF Send
  <2> QED
    BY <1>1, <2>1, Zenon
<1> QED
  BY <1>2, <1>3

\* The types: numbers of messages stay in their range because the server numbers
\* them without a gap.
LEMMA TypeNext == IndInv /\ [Next]_vars => TypeOK'
<1> SUFFICES ASSUME IndInv, [Next]_vars PROVE TypeOK'
  OBVIOUS
<1>0. LinkTypeOK'
  BY ListSteps, NextLink DEF IndInv, LinkInv
<1> USE ClientAssumption, <1>0 DEF IndInv, TypeOK
<1>1. CASE ServerAck
  BY <1>1 DEF ServerAck, recvVars, uiVars, sentVars
<1>2. CASE ServerMsg
  <2>1. Forwarded + 1 \in 0..MaxNote
    BY <1>2 DEF ServerMsg, InboxInv
  <2> QED
    BY <1>2, <2>1 DEF ServerMsg, recvVars, uiVars, sentVars
<1>3. CASE ServerClose
  BY <1>3 DEF ServerClose, recvVars, uiVars, sentVars
<1>4. CASE InitCliInfoHeader
  BY <1>4, ZenonT(60) DEF InitCliInfoHeader, Meet, netVars, uiVars, sentVars
<1>5. CASE InitCliInfoSend
  <2>1. saves' \in Nat /\ lines' \in Nat /\ asTyped' \in BOOLEAN
    BY <1>5, SendTypes DEF InitCliInfoSend
  <2> QED
    BY <1>5, <2>1 DEF InitCliInfoSend, netVars, uiVars
<1>6. CASE RxClear
  BY <1>6, ZenonT(60) DEF RxClear, Zeros, Meet, netVars, uiVars, sentVars
<1>7. CASE RxRecv
  <2>1. Head(inbox) \in 0..MaxNote /\ Tail(inbox) \in Seq(0..MaxNote)
    BY <1>7 DEF RxRecv
  <2>2. Head(inbox) # 0 => arrived + 1 \in 0..MaxNote
    <3> SUFFICES ASSUME Head(inbox) # 0 PROVE arrived + 1 <= MaxNote
      OBVIOUS
    <3>1. Head(inbox) \in Range(inbox) \ {0}
      BY <1>7 DEF RxRecv, Range
    <3> QED
      BY <3>1 DEF InboxInv
  <2>3. /\ rxbuf' \in [hdr : 0..MaxNote, body : [by : {"memset", "recv", "line", "!!quit"}, clean : BOOLEAN]]
        /\ rv' \in {"clear", "put"} /\ initCliInfo' \in BOOLEAN /\ arrived' \in 0..MaxNote
        /\ met' \subseteq {"rx", "tx"}
    BY <1>7, <2>1, <2>2 DEF RxRecv, Meet
  <2> QED
    BY <1>7, <2>1, <2>3 DEF RxRecv, uiVars, sentVars
<1>8. CASE RxNothing \/ RxPut \/ RxPutEnd \/ ProMsg
  BY <1>8, ZenonT(60) DEF RxNothing, RxPut, RxPutEnd, ProMsg, netVars, recvVars, uiVars, sentVars
<1>9. CASE ProMsgDisplay
  BY <1>9, ElementsAssumption DEF ProMsgDisplay, LinkTypeOK, netVars, recvVars, uiVars, sentVars
<1>10. CASE UiRun
  <2>1. CASE UiQuit
    BY <2>1 DEF UiQuit, netVars, recvVars, sentVars
  <2>2. CASE UiFill
    <3>1. txbuf' \in [type : {"PROCESS_MSG", "SAVE_CLI_INFO"}, dest : Other \cup {Server}, line : BOOLEAN]
      BY <2>2 DEF UiFill
    <3> QED
      BY <2>2, <3>1 DEF UiFill, Meet, netVars, recvVars, sentVars
  <2>3. CASE UiSend
    <3>1. saves' \in Nat /\ lines' \in Nat /\ asTyped' \in BOOLEAN
      BY <2>3, SendTypes DEF UiSend
    <3>2. /\ rxbuf' \in [hdr : 0..MaxNote, body : [by : {"memset", "recv", "line", "!!quit"}, clean : BOOLEAN]]
          /\ met' \subseteq {"rx", "tx"}
      BY <2>3 DEF UiSend, UiPrompt, Zeros, Meet
    <3> QED
      BY <2>3, <3>1, <3>2 DEF UiSend, netVars, recvVars
  <2> QED
    BY <1>10, <2>1, <2>2, <2>3 DEF UiRun
<1>11. CASE UiUser
  <2>1. ASSUME NEW d \in Other \cup {Server}, UiMenu(d) PROVE TypeOK'
    BY <2>1 DEF UiMenu, UiPrompt, Zeros, Meet, netVars, recvVars, sentVars
  <2>2. ASSUME NEW l \in {"line", "!!quit"}, UiRead(l) PROVE TypeOK'
    <3>1. /\ rxbuf' \in [hdr : 0..MaxNote, body : [by : {"memset", "recv", "line", "!!quit"}, clean : BOOLEAN]]
          /\ met' \subseteq {"rx", "tx"}
      BY <2>2 DEF UiRead, Meet
    <3>2. quits' \in 0..MaxQuit /\ typed' \in 0..MaxLine
      BY <2>2 DEF UiRead
    <3> QED
      BY <2>2, <3>1, <3>2 DEF UiRead, netVars, recvVars, sentVars
  <2> QED
    BY <1>11, <2>1, <2>2 DEF UiUser
<1>12. CASE UNCHANGED vars
  BY <1>12 DEF vars, netVars, recvVars, uiVars, sentVars
<1> QED
  BY <1>1, <1>2, <1>3, <1>4, <1>5, <1>6, <1>7, <1>8, <1>9, <1>10, <1>11, <1>12
  DEF Next, Network, Recv

LEMMA IntervalSize ==
    ASSUME NEW a \in Nat, NEW b \in Nat
    PROVE  Cardinality(a..b) \in Nat /\ (a <= b + 1 => Cardinality(a..b) = b + 1 - a)
<1>0. a \in Int /\ b \in Int
  OBVIOUS
<1>1. IsFiniteSet(a..b) /\ Cardinality(a..b) = IF a > b THEN 0 ELSE b - a + 1
  BY <1>0, FS_Interval, Zenon
<1> QED
  BY <1>1

\* Behind acknowledgements, the first message in the socket is the next one.
LEMMA FirstIsNext ==
    ASSUME IndInv, inbox # << >>, Head(inbox) # 0
    PROVE  Head(inbox) = arrived + 1 /\ Head(inbox) <= Forwarded
<1>0. /\ inbox \in Seq(0..MaxNote) /\ arrived \in 0..MaxNote /\ MaxNote \in Nat
      /\ InboxInv
  BY ClientAssumption DEF IndInv, TypeOK
<1>1. Head(inbox) = inbox[1] /\ inbox[1] \in Range(inbox) \ {0}
  BY <1>0 DEF Range
<1>2. arrived + 1 \in Range(inbox) \ {0}
  BY <1>0, <1>1 DEF InboxInv
<1>3. PICK k \in DOMAIN inbox : inbox[k] = arrived + 1
  BY <1>2 DEF Range
<1>4. k # 1 => inbox[1] < inbox[k]
  BY <1>0, <1>1, <1>2, <1>3 DEF InboxInv
<1> QED
  BY <1>0, <1>1, <1>3, <1>4 DEF InboxInv

\* Only the server and recv() change what is in the socket.
LEMMA InboxNext == IndInv /\ [Next]_vars => InboxInv'
<1> SUFFICES ASSUME IndInv, [Next]_vars PROVE InboxInv'
  OBVIOUS
<1>0. /\ inbox \in Seq(0..MaxNote) /\ arrived \in 0..MaxNote /\ MaxNote \in Nat
      /\ InboxInv
  BY ClientAssumption DEF IndInv, TypeOK
<1>1. Range(inbox) = {inbox[i] : i \in DOMAIN inbox}
  BY DEF Range
<1>2. CASE ServerAck
  <2>1. inbox' = Append(inbox, 0) /\ arrived' = arrived
    BY <1>2 DEF ServerAck, recvVars
  <2>2. Range(inbox)' \ {0} = Range(inbox) \ {0}
    BY <1>0, <2>1 DEF Range
  <2>3. Forwarded' = Forwarded
    BY <2>1, <2>2 DEF Forwarded
  <2> QED
    BY <1>0, <2>1, <2>2, <2>3 DEF InboxInv
<1>3. CASE ServerMsg
  <2>1. inbox' = Append(inbox, Forwarded + 1) /\ arrived' = arrived /\ Forwarded < MaxNote
    BY <1>3 DEF ServerMsg, recvVars
  <2>2. Forwarded \in Nat /\ arrived <= Forwarded
    <3>1. Range(inbox) \ {0} = (arrived + 1)..Forwarded /\ Forwarded \in Nat
      BY <1>0 DEF InboxInv
    <3>2. Cardinality((arrived + 1)..Forwarded) \in Nat
      <4>1. arrived + 1 \in Nat
        BY <1>0
      <4> QED
        BY <3>1, <4>1, IntervalSize
    <3>3. Forwarded = arrived + Cardinality((arrived + 1)..Forwarded)
      BY <3>1 DEF Forwarded
    <3> QED
      BY <1>0, <3>1, <3>2, <3>3
  <2>3. Range(inbox)' \ {0} = (arrived + 1)..(Forwarded + 1)
    <3>1. Range(inbox)' = Range(inbox) \cup {Forwarded + 1}
      <4>1. /\ DOMAIN inbox' = 1..(Len(inbox) + 1) /\ DOMAIN inbox = 1..Len(inbox)
            /\ inbox'[Len(inbox) + 1] = Forwarded + 1
            /\ \A i \in DOMAIN inbox : inbox'[i] = inbox[i]
        BY <1>0, <2>1, <2>2
      <4>2. DOMAIN inbox' = DOMAIN inbox \cup {Len(inbox) + 1}
        BY <1>0, <4>1
      <4> QED
        BY <4>1, <4>2, ZenonT(60) DEF Range
    <3> QED
      BY <1>0, <2>2, <3>1 DEF InboxInv
  <2>4. Forwarded' = Forwarded + 1
    <3>1. Cardinality((arrived + 1)..(Forwarded + 1)) = Forwarded + 1 - arrived
      <4>1. arrived + 1 \in Nat /\ Forwarded + 1 \in Nat /\ arrived + 1 <= Forwarded + 1 + 1
        BY <1>0, <2>2
      <4>2. Cardinality((arrived + 1)..(Forwarded + 1)) = Forwarded + 1 + 1 - (arrived + 1)
        BY <4>1, IntervalSize
      <4> QED
        BY <1>0, <2>2, <4>2
    <3>2. Forwarded' = arrived + Cardinality((arrived + 1)..(Forwarded + 1))
      BY <2>1, <2>3 DEF Forwarded
    <3> QED
      BY <1>0, <2>2, <3>1, <3>2
  <2>5. ASSUME NEW i \in DOMAIN inbox', NEW j \in DOMAIN inbox',
               i < j, inbox'[i] # 0, inbox'[j] # 0
        PROVE  inbox'[i] < inbox'[j]
    <3>1. i \in DOMAIN inbox /\ inbox'[i] = inbox[i]
      BY <1>0, <2>1, <2>5
    <3>2. CASE j \in DOMAIN inbox
      BY <1>0, <2>1, <2>2, <2>5, <3>1, <3>2 DEF InboxInv
    <3>3. CASE j \notin DOMAIN inbox
      <4>1. inbox'[j] = Forwarded + 1
        BY <1>0, <2>1, <2>2, <2>5, <3>3
      <4>2. inbox[i] \in Range(inbox) \ {0}
        BY <2>5, <3>1 DEF Range
      <4> QED
        BY <1>0, <2>2, <3>1, <4>1, <4>2 DEF InboxInv
    <3> QED
      BY <3>2, <3>3
  <2> QED
    BY <1>0, <2>1, <2>2, <2>3, <2>4, <2>5 DEF InboxInv
<1>4. CASE RxRecv
  <2>1. inbox # << >> /\ inbox' = Tail(inbox)
    BY <1>4 DEF RxRecv
  <2>2. /\ Len(inbox') = Len(inbox) - 1 /\ DOMAIN inbox' = 1..(Len(inbox) - 1)
        /\ \A i \in DOMAIN inbox' : i + 1 \in DOMAIN inbox /\ inbox'[i] = inbox[i + 1]
    BY <1>0, <2>1
  <2>3. \A i, j \in DOMAIN inbox' :
           i < j /\ inbox'[i] # 0 /\ inbox'[j] # 0 => inbox'[i] < inbox'[j]
    BY <1>0, <2>2 DEF InboxInv
  <2>4. Range(inbox) = {Head(inbox)} \cup Range(inbox)'
    <3>1. ASSUME NEW k \in DOMAIN inbox, k # 1 PROVE inbox[k] \in Range(inbox)'
      <4>1. k - 1 \in DOMAIN inbox' /\ inbox'[k - 1] = inbox[k]
        BY <1>0, <2>2, <3>1
      <4> QED
        BY <4>1 DEF Range
    <3>2. Range(inbox) \subseteq {Head(inbox)} \cup Range(inbox)'
      <4>1. Head(inbox) = inbox[1]
        BY <1>0, <2>1
      <4> QED
        BY <3>1, <4>1, Zenon DEF Range
    <3>3. Head(inbox) \in Range(inbox)
      BY <1>0, <2>1 DEF Range
    <3>4. Range(inbox)' \subseteq Range(inbox)
      BY <2>2 DEF Range
    <3> QED
      BY <3>2, <3>3, <3>4
  <2>5. CASE Head(inbox) = 0
    <3>1. arrived' = arrived /\ Range(inbox)' \ {0} = Range(inbox) \ {0}
      BY <1>4, <2>4, <2>5 DEF RxRecv
    <3>2. Forwarded' = Forwarded
      BY <3>1 DEF Forwarded
    <3> QED
      BY <1>0, <2>3, <3>1, <3>2 DEF InboxInv
  <2>6. CASE Head(inbox) # 0
    <3>1. arrived' = arrived + 1
      BY <1>4, <2>6 DEF RxRecv
    <3>2. ASSUME NEW k \in DOMAIN inbox, k # 1, inbox[k] # 0 PROVE inbox[1] < inbox[k]
      <4>1. 1 \in DOMAIN inbox /\ 1 < k /\ inbox[1] # 0
        BY <1>0, <2>1, <2>6, <3>2
      <4> QED
        BY <1>0, <3>2, <4>1 DEF InboxInv
    <3>3. Head(inbox) = inbox[1] /\ inbox[1] \in Range(inbox) \ {0}
      BY <1>0, <2>1, <2>6 DEF Range
    <3>4. \A x \in Range(inbox)' \ {0} : Head(inbox) < x
      BY <1>0, <2>2, <3>2, <3>3 DEF Range
    <3>5. /\ Range(inbox) \ {0} = (arrived + 1)..Forwarded
          /\ Forwarded \in Nat /\ Forwarded <= MaxNote
      BY <1>0 DEF InboxInv
    <3>6. Head(inbox) = arrived + 1 /\ Head(inbox) <= Forwarded
      BY <2>1, <2>6, FirstIsNext
    <3>7. Range(inbox)' \ {0} = (arrived + 2)..Forwarded
      BY <1>0, <2>4, <3>4, <3>5, <3>6
    <3>8. Forwarded' = Forwarded
      <4>1. Cardinality((arrived + 2)..Forwarded) = Forwarded - (arrived + 1)
        <5>1. arrived + 2 \in Nat /\ Forwarded \in Nat /\ arrived + 2 <= Forwarded + 1
          BY <1>0, <3>5, <3>6
        <5>2. Cardinality((arrived + 2)..Forwarded) = Forwarded + 1 - (arrived + 2)
          BY <5>1, IntervalSize
        <5> QED
          BY <1>0, <3>5, <5>2
      <4>2. Forwarded' = arrived + 1 + Cardinality((arrived + 2)..Forwarded)
        BY <3>1, <3>7 DEF Forwarded
      <4> QED
        BY <1>0, <3>5, <4>1, <4>2
    <3> QED
      BY <1>0, <2>3, <3>1, <3>5, <3>7, <3>8 DEF InboxInv
  <2> QED
    BY <2>5, <2>6
<1>5. CASE UNCHANGED <<inbox, arrived>>
  BY <1>0, <1>5 DEF InboxInv, Forwarded
<1> QED
  BY <1>2, <1>3, <1>4, <1>5
  DEF Next, Network, ServerClose, Recv, InitCliInfoHeader, InitCliInfoSend, RxClear, RxNothing,
      RxPut, RxPutEnd, ProMsg, ProMsgDisplay, UiRun, UiQuit, UiFill, UiSend, UiUser, UiMenu, UiRead,
      vars, netVars, recvVars


\* CliRecv is in the middle of one put at a time; CliUI cannot use RX_BUF
\* meanwhile without being noticed.
LEMMA PutNext == IndInv /\ [Next]_vars => PutInv'
<1> SUFFICES ASSUME IndInv, [Next]_vars PROVE PutInv'
  OBVIOUS
<1> USE DEF IndInv, PutInv, TypeOK, LinkTypeOK, RxHeldByRecv, Meet
<1>1. CASE Network
  BY <1>1 DEF Network, ServerAck, ServerMsg, ServerClose, linkVars, recvVars
<1>2. CASE InitCliInfoHeader \/ InitCliInfoSend \/ RxClear \/ RxNothing
  BY <1>2 DEF InitCliInfoHeader, InitCliInfoSend, RxClear, RxNothing, linkVars
<1>3. CASE RxRecv
  <2>1. Head(inbox) # 0 => Head(inbox) = arrived + 1
    BY <1>3, FirstIsNext DEF RxRecv
  <2> QED
    BY <1>3, <2>1 DEF RxRecv, linkVars
<1>4. CASE RxPut
  BY <1>4 DEF RxPut, EnAlloc, EnLoadFront, EnLink, EnCopy, recvVars
<1>5. CASE RxPutEnd
  BY <1>5 DEF RxPutEnd, EnPublish
<1>6. CASE ProMsg \/ ProMsgDisplay
  BY <1>6 DEF ProMsg, ProMsgDisplay, DeTest, DeCopy, DeNull, DeFree, DeAdvance, recvVars
<1>7. CASE UiRun
  BY <1>7 DEF UiRun, UiQuit, UiFill, UiSend, UiPrompt, linkVars, recvVars
<1>8. CASE UiUser
  BY <1>8, ZenonT(60) DEF UiUser, UiMenu, UiRead, UiPrompt, linkVars, recvVars
<1>9. CASE UNCHANGED vars
  BY <1>9 DEF vars, linkVars, recvVars
<1> QED
  BY <1>1, <1>2, <1>3, <1>4, <1>5, <1>6, <1>7, <1>8, <1>9 DEF Next, Recv

\* met only grows.
LEMMA MetGrows == [Next]_vars => met \subseteq met'
BY DEF Next, Network, ServerAck, ServerMsg, ServerClose, Recv, InitCliInfoHeader, InitCliInfoSend,
       RxClear, RxRecv, RxNothing, RxPut, RxPutEnd, ProMsg, ProMsgDisplay, UiRun, UiQuit, UiFill,
       UiSend, UiPrompt, UiUser, UiMenu, UiRead, Meet, vars

\* What was a message stays one.
LEMMA MessageStays ==
    ASSUME met \subseteq met', NEW m, NEW n, IsMessage(m, n)
    PROVE  IsMessage(m, n)'
BY DEF IsMessage

LEMMA DataNext == IndInv /\ [Next]_vars => DataInv'
<1> SUFFICES ASSUME IndInv, [Next]_vars PROVE DataInv'
  OBVIOUS
<1>0. met \subseteq met'
  BY MetGrows
<1> USE DEF IndInv, DataInv
<1>1. CASE UNCHANGED <<data, de, buf, front>>
  BY <1>0, <1>1, MessageStays DEF Nodes
<1>2. CASE RxPut
  <2>1. met' = met
    BY <1>2 DEF RxPut
  <2>2. CASE EnAlloc
    BY <2>1, <2>2 DEF EnAlloc, IsMessage, Nodes
  <2>3. CASE EnCopy([hdr |-> rxbuf.hdr, own |-> rxbuf.body.by = "recv"])
    <3> DEFINE m == [hdr |-> rxbuf.hdr, own |-> rxbuf.body.by = "recv"]
    <3>1. rv = "put" /\ en.pc = "copy" /\ UNCHANGED <<front, de, buf>>
      BY <1>2, <2>3 DEF RxPut, EnCopy
    <3>2. rear = arrived /\ rxbuf.hdr = arrived /\ ("rx" \notin met => rxbuf.body.by = "recv")
      BY <3>1 DEF PutInv, RxHeldByRecv
    <3>3. IsMessage(m, rear)
      BY <3>2 DEF IsMessage
    <3>4. data' = [data EXCEPT ![rear] = m] \/ data' = data
      BY <2>3 DEF EnCopy
    <3> HIDE DEF m
    <3>5. ASSUME NEW n \in Nodes' PROVE (data[n] = Null \/ IsMessage(data[n], n))'
      <4>1. n \in Nodes
        BY <3>4 DEF Nodes
      <4>2. CASE data' = data
        BY <2>1, <4>1, <4>2 DEF IsMessage
      <4>3. CASE data' = [data EXCEPT ![rear] = m]
        <5>1. data'[n] = IF n = rear THEN m ELSE data[n]
          BY <4>1, <4>3 DEF LinkInv, LinkTypeOK, Nodes
        <5> QED
          BY <2>1, <3>3, <4>1, <5>1 DEF IsMessage
      <4> QED
        BY <3>4, <4>2, <4>3
    <3> QED
      BY <2>1, <3>1, <3>5 DEF IsMessage
  <2>4. CASE EnLoadFront \/ EnLink
    BY <1>1, <2>4 DEF EnLoadFront, EnLink
  <2> QED
    BY <1>2, <2>2, <2>3, <2>4 DEF RxPut
<1>3. CASE ProMsg
  <2>1. met' = met
    BY <1>3 DEF ProMsg
  <2>2. CASE DeTest
    BY <2>1, <2>2 DEF DeTest, IsMessage, Nodes
  <2>3. CASE DeCopy
    <3>1. front \in Nodes /\ data[front] # Null
      BY <2>3 DEF DeCopy, LinkInv, LinkTypeOK, NodesInv, ListInv, FirstNode, LastNode
    <3>2. buf' = data[front] /\ UNCHANGED <<front, data>>
      BY <2>3, <3>1 DEF DeCopy
    <3> QED
      BY <2>1, <3>1, <3>2 DEF IsMessage, Nodes
  <2>4. CASE DeNull
    <3>1. /\ \A n \in Nodes : data'[n] = IF n = front THEN Null ELSE data[n]
          /\ Nodes' = Nodes
      BY <2>4 DEF DeNull, LinkInv, LinkTypeOK, Nodes
    <3>2. de.pc = "null" /\ UNCHANGED <<front, buf>>
      BY <2>4 DEF DeNull
    <3> QED
      BY <2>1, <3>1, <3>2 DEF IsMessage
  <2>5. CASE DeFree
    <3>1. \A n \in Nodes' : n \in Nodes /\ data'[n] = data[n]
      BY <2>5 DEF DeFree, Nodes
    <3>2. de.pc = "free" /\ UNCHANGED <<front, buf>>
      BY <2>5 DEF DeFree
    <3> QED
      BY <2>1, <3>1, <3>2 DEF IsMessage
  <2> QED
    BY <1>3, <2>2, <2>3, <2>4, <2>5 DEF ProMsg
<1>4. CASE ProMsgDisplay
  BY <1>4 DEF ProMsgDisplay, DeAdvance, IsMessage, Nodes
<1> QED
  BY <1>1, <1>2, <1>3, <1>4
  DEF Next, Network, ServerAck, ServerMsg, ServerClose, Recv, InitCliInfoHeader, InitCliInfoSend,
      RxClear, RxRecv, RxNothing, RxPutEnd, EnPublish, UiRun, UiQuit, UiFill, UiSend, UiUser,
      UiMenu, UiRead, vars, linkVars

LEMMA ShownNext == IndInv /\ [Next]_vars => ShownInv'
<1> SUFFICES ASSUME IndInv, [Next]_vars PROVE ShownInv'
  OBVIOUS
<1>0. met \subseteq met'
  BY MetGrows
<1>1. CASE UNCHANGED <<shown, front>>
  BY <1>0, <1>1, MessageStays DEF IndInv, ShownInv
<1>2. CASE ProMsgDisplay
  <2>1. /\ shown' = Append(shown, buf) /\ met' = met
        /\ de.pc = "advance" /\ front' = de.tmp
    BY <1>2 DEF ProMsgDisplay, DeAdvance
  <2>2. front' = front + 1 /\ front \in Nat \ {0} /\ IsMessage(buf, front)
    BY <2>1 DEF IndInv, LinkInv, LinkTypeOK, NodesInv, DataInv
  <2>3. /\ shown \in Seq(Message \cup {Junk}) /\ buf \in Message \cup {Junk}
        /\ Len(shown) = front - 1 /\ \A i \in DOMAIN shown : IsMessage(shown[i], i)
    BY ElementsAssumption DEF IndInv, TypeOK, LinkTypeOK, ShownInv
  <2>4. /\ Len(shown') = front' - 1 /\ DOMAIN shown' = 1..front
        /\ shown'[front] = buf /\ \A i \in 1..(front - 1) : i \in DOMAIN shown /\ shown'[i] = shown[i]
    BY <2>1, <2>2, <2>3
  <2>5. ASSUME NEW i \in DOMAIN shown' PROVE IsMessage(shown[i], i)'
    <3>1. CASE i = front
      BY <2>1, <2>2, <2>4, <3>1 DEF IsMessage
    <3>2. CASE i # front
      <4>1. i \in 1..(front - 1)
        BY <2>2, <2>4, <3>2
      <4> QED
        BY <2>1, <2>3, <2>4, <4>1 DEF IsMessage
    <3> QED
      BY <3>1, <3>2
  <2> QED
    BY <2>4, <2>5 DEF ShownInv
<1> QED
  BY <1>1, <1>2
  DEF Next, Network, ServerAck, ServerMsg, ServerClose, Recv, InitCliInfoHeader, InitCliInfoSend,
      RxClear, RxRecv, RxNothing, RxPut, RxPutEnd, EnAlloc, EnLoadFront, EnCopy, EnLink, EnPublish,
      ProMsg, DeTest, DeCopy, DeNull, DeFree, UiRun, UiQuit, UiFill, UiSend, UiUser,
      UiMenu, UiRead, vars, linkVars

LEMMA TxNext == IndInv /\ [Next]_vars => TxInv'
<1> SUFFICES ASSUME IndInv, [Next]_vars PROVE TxInv'
  OBVIOUS
<1>0. met \subseteq met'
  BY MetGrows
<1> USE DEF IndInv, TypeOK, TxInv
<1>1. CASE UNCHANGED <<txbuf, rv, ui>>
  BY <1>0, <1>1
<1>2. CASE InitCliInfoHeader
  BY <1>2 DEF InitCliInfoHeader, Meet, TxHeldByUi, uiVars
<1>3. CASE UiFill
  BY <1>3 DEF UiFill, Meet, TxHeldByRecv, recvVars
<1>4. CASE UNCHANGED <<txbuf, ui>> /\ rv' # "send"
  BY <1>0, <1>4
<1>5. CASE UNCHANGED <<txbuf, rv>> /\ ui'.pc # "send"
  BY <1>0, <1>5
<1> QED
  BY <1>1, <1>2, <1>3, <1>4, <1>5
  DEF Next, Network, ServerAck, ServerMsg, ServerClose, Recv, InitCliInfoSend,
      RxClear, RxRecv, RxNothing, RxPut, RxPutEnd, ProMsg, ProMsgDisplay,
      UiRun, UiQuit, UiSend, UiUser, UiMenu, UiRead, vars, recvVars, uiVars


LEMMA LineNext == IndInv /\ [Next]_vars => LineInv'
<1> SUFFICES ASSUME IndInv, [Next]_vars PROVE LineInv'
  OBVIOUS
<1>0. met \subseteq met' /\ (met' = {} => met = {})
  BY MetGrows
<1> USE DEF IndInv, TypeOK, LineInv
<1>1. CASE UNCHANGED <<rxbuf, txbuf, rv, ui>>
  BY <1>0, <1>1
<1>2. CASE InitCliInfoHeader
  BY <1>0, <1>2 DEF InitCliInfoHeader, Meet, TxHeldByUi, uiVars
<1>3. CASE InitCliInfoSend \/ RxNothing \/ RxPut \/ RxPutEnd
  BY <1>0, <1>3 DEF InitCliInfoSend, RxNothing, RxPut, RxPutEnd, recvVars, uiVars
<1>4. CASE RxClear
  BY <1>0, <1>4 DEF RxClear, Zeros, Meet, RxHeldByUi, uiVars
<1>5. CASE RxRecv
  BY <1>0, <1>5 DEF RxRecv, Meet, RxHeldByUi, uiVars
<1>6. CASE \E d \in Other \cup {Server} : UiMenu(d)
  BY <1>0, <1>6 DEF UiMenu, UiPrompt, Zeros, recvVars
<1>7. CASE \E l \in {"line", "!!quit"} : UiRead(l)
  <2>0. PICK l \in {"line", "!!quit"} : UiRead(l)
    BY <1>7
  <2>1. /\ ui.pc = "read" /\ ui'.pc = "quit" /\ ui'.read = l /\ rv' = rv
        /\ rxbuf'.body = [by |-> l, clean |-> rxbuf.body.by = "memset"]
        /\ met' = IF RxHeldByRecv \/ rv \in {"put", "clear"} THEN met \cup {"rx"} ELSE met
    BY <2>0 DEF UiRead, Meet, recvVars
  <2>2. met' = {} => rxbuf.body.by = "memset"
    BY <2>1
  <2>3. met' = {} => rxbuf'.body = [by |-> l, clean |-> TRUE]
    BY <2>1, <2>2
  <2> QED
    BY <2>1, <2>3
<1>8. CASE UiQuit
  BY <1>0, <1>8 DEF UiQuit, recvVars
<1>9. CASE UiFill
  BY <1>0, <1>9 DEF UiFill, recvVars
<1>10. CASE UiSend
  BY <1>0, <1>10 DEF UiSend, UiPrompt, Zeros, recvVars
<1> QED
  BY <1>1, <1>2, <1>3, <1>4, <1>5, <1>6, <1>7, <1>8, <1>9, <1>10
  DEF Next, Network, ServerAck, ServerMsg, ServerClose, Recv, ProMsg, ProMsgDisplay,
      UiRun, UiUser, vars, recvVars, uiVars

\* A send() counts what TX_BUF says it is.
LEMMA LinesNext == IndInv /\ [Next]_vars => LinesAsTyped'
<1> SUFFICES ASSUME IndInv, [Next]_vars PROVE LinesAsTyped'
  OBVIOUS
<1>0. met \subseteq met' /\ (met' = {} => met = {})
  BY MetGrows
<1> USE DEF IndInv, TypeOK, LinesAsTyped
<1>1. CASE UNCHANGED <<saves, rv, lines, asTyped, typed, ui>>
  BY <1>0, <1>1
<1>2. CASE InitCliInfoHeader \/ RxClear \/ RxRecv \/ RxNothing \/ RxPut \/ RxPutEnd
  BY <1>0, <1>2 DEF InitCliInfoHeader, RxClear, RxRecv, RxNothing, RxPut, RxPutEnd,
                    recvVars, uiVars, sentVars
<1>3. CASE InitCliInfoSend
  <2>1. rv = "send" /\ rv' = "clear" /\ met' = met /\ UNCHANGED <<ui, typed>> /\ Send
    BY <1>3 DEF InitCliInfoSend, uiVars
  <2>2. "tx" \notin met => saves' = saves + 1 /\ UNCHANGED <<lines, asTyped>>
    BY <2>1 DEF Send, TxInv
  <2> QED
    BY <2>1, <2>2
<1>4. CASE UiSend
  <2>1. ui.pc = "send" /\ ui'.pc = "read" /\ UNCHANGED <<rv, typed>> /\ Send
    BY <1>4 DEF UiSend, recvVars
  <2>2. "tx" \notin met => saves' = saves /\ lines' = lines + 1
    BY <2>1 DEF Send, TxInv
  <2>3. "tx" \notin met => asTyped' = (asTyped /\ txbuf.line /\ txbuf.dest = ui.dest)
    BY <2>1 DEF Send, TxInv
  <2>4. met = {} => asTyped'
    BY <2>1, <2>3 DEF LineInv
  <2>5. met = {} => ui.read = "line"
    BY <2>1 DEF LineInv
  <2> QED
    BY <1>0, <2>1, <2>2, <2>4, <2>5
<1>5. CASE \E d \in Other \cup {Server} : UiMenu(d)
  BY <1>0, <1>5 DEF UiMenu, recvVars, sentVars
<1>6. CASE \E l \in {"line", "!!quit"} : UiRead(l)
  BY <1>0, <1>6 DEF UiRead, recvVars, sentVars
<1>7. CASE UiQuit
  <2>1. /\ ui.pc = "quit" /\ UNCHANGED <<rv, typed, saves, lines, asTyped, met>>
        /\ ui' = [ui EXCEPT !.pc = IF rxbuf.body.by = "!!quit" THEN "menu" ELSE "fill"]
    BY <1>7 DEF UiQuit, recvVars, sentVars
  <2>2. met = {} => rxbuf.body.by = ui.read
    BY <2>1 DEF LineInv
  <2> QED
    BY <2>1, <2>2
<1>8. CASE UiFill
  BY <1>0, <1>8 DEF UiFill, recvVars, sentVars
<1> QED
  BY <1>1, <1>2, <1>3, <1>4, <1>5, <1>6, <1>7, <1>8
  DEF Next, Network, ServerAck, ServerMsg, ServerClose, Recv, ProMsg, ProMsgDisplay,
      UiRun, UiUser, vars, recvVars, uiVars, sentVars

LEMMA InitInd == Init => IndInv
<1> SUFFICES ASSUME Init PROVE IndInv
  OBVIOUS
<1> USE ClientAssumption DEF Init
<1>1. LinkInv
  BY InitLink
<1>2. TypeOK
  <2>1. LinkTypeOK
    BY <1>1 DEF LinkInv
  <2>2. inbox \in Seq(0..MaxNote) /\ shown \in Seq(Message \cup {Junk})
    OBVIOUS
  <2>3. 0 \in 0..MaxNote /\ 0 \in 0..MaxLine /\ 0 \in 0..MaxQuit
    OBVIOUS
  <2> QED
    BY <2>1, <2>2, <2>3 DEF TypeOK, Zeros
<1>3. InboxInv
  <2>1. Range(inbox) \ {0} = {}
    BY DEF Range
  <2>2. Forwarded = 0
    <3>1. Cardinality(Range(inbox) \ {0}) = 0
      BY <2>1, FS_EmptySet, Zenon
    <3> QED
      BY <3>1 DEF Forwarded
  <2> QED
    BY <2>1, <2>2 DEF InboxInv
<1>4. PutInv /\ DataInv /\ ShownInv
  BY DEF PutInv, DataInv, ShownInv, RxHeldByRecv, LinkInit, Nodes
<1>5. TxInv /\ LineInv /\ LinesAsTyped
  BY DEF TxInv, LineInv, LinesAsTyped
<1> QED
  BY <1>1, <1>2, <1>3, <1>4, <1>5 DEF IndInv

LEMMA NextInd == IndInv /\ [Next]_vars => IndInv'
<1> SUFFICES ASSUME IndInv, [Next]_vars PROVE IndInv'
  OBVIOUS
<1>1. LinkInv'
  BY ListSteps, NextLink DEF IndInv
<1> QED
  BY <1>1, TypeNext, InboxNext, PutNext, DataNext, ShownNext, TxNext, LineNext, LinesNext
  DEF IndInv

-----------------------------------------------------------------------------
(* What the client promises                                                *)

\* For any number of messages, lines and ends: node n of the list holds message
\* n, what is in the socket follows what was received, and each buffer is as its
\* last user left it unless the two threads met there.
\* (client_socket.c:62-116, 121-172, 215-233)
THEOREM Invariance == Spec => []IndInv
<1>1. Init => IndInv
  BY InitInd
<1>2. IndInv /\ [Next]_vars => IndInv'
  BY NextInd
<1> QED
  BY <1>1, <1>2, PTL DEF Spec

\* CliRecv and CliProMsg use the list as one producer and one consumer, so that
\* what LinkRefines says holds in the program.  (client_socket.c:147, 219)
THEOREM QueueInClient == Spec => ImplementsLinkFifo
<1>1. Init => LinkInit
  BY DEF Init
<1>2. IndInv /\ [Next]_vars => [LinkNext]_linkVars
  BY ListSteps DEF IndInv
<1>3. Spec => LinkSpec
  BY <1>1, <1>2, Invariance, PTL DEF Spec, LinkSpec
<1> QED
  BY <1>3, LinkRefines

\* Messages are displayed once, in order and with their headers, whatever CliUI
\* does to the buffer they lay in; their bodies too, unless CliUI used the buffer
\* meanwhile.  (client_socket.c:130-151, 215-224)
THEOREM InOrderShown == Spec => []ShownAsReceived
<1>1. IndInv => ShownAsReceived
  <2> SUFFICES ASSUME IndInv PROVE ShownAsReceived
    OBVIOUS
  <2>1. Len(shown) <= arrived
    BY DEF IndInv, TypeOK, LinkTypeOK, LinkInv, NodesInv, PutInv, ShownInv
  <2>2. \A i \in DOMAIN shown : IsMessage(shown[i], i)
    BY DEF IndInv, ShownInv
  <2> QED
    BY <2>1, <2>2 DEF IndInv, ShownAsReceived, IsMessage
<1> QED
  BY <1>1, Invariance, PTL

\* The client registers once and sends every line once, as typed and to the end
\* chosen, unless the threads met in a buffer.
\* (client_socket.c:67-81, 102-116, 130, 270-273)
THEOREM SentAsTyped == Spec => []LinesAsTyped
BY Invariance, PTL DEF IndInv


=============================================================================
