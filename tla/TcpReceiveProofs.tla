--------------------------- MODULE TcpReceiveProofs ---------------------------
(***************************************************************************)
(* Proofs about FdBridge, for every size of a node and every number of     *)
(* nodes the constructor may be given, and about TcpReceive, for every     *)
(* size of a node, of a head and of _pData.  What is shown here of a       *)
(* connection with any consumer (FdBridge) is used for the one readData()  *)
(* is (TcpReceive).                                                        *)
(***************************************************************************)
EXTENDS TcpReceive, SequenceTheorems, TLAPS

-----------------------------------------------------------------------------
(* The stream: n of its bytes, the first of them number a + 1.             *)

Stretch(a, n) == [i \in 1 .. n |-> a + i]

\* These keep the provers from expanding what they stand for.
Cat(s, t) == s \o t
Behind(s, i) == SubSeq(s, i + 1, Len(s))

LEMMA StretchType ==
  ASSUME NEW a \in Nat, NEW n \in Nat
  PROVE  Stretch(a, n) \in Seq(Nat) /\ Len(Stretch(a, n)) = n
BY DEF Stretch

LEMMA StretchElements ==
  ASSUME NEW n \in Nat, NEW m \in Nat, n <= m
  PROVE  Stretch(0, n) \in Seq(1 .. m)
BY DEF Stretch

\* Two stretches that meet are one.
LEMMA StretchJoin ==
  ASSUME NEW a \in Nat, NEW n \in Nat, NEW m \in Nat
  PROVE  Stretch(a, n) \o Stretch(a + n, m) = Stretch(a, n + m)
<1> DEFINE s == Stretch(a, n)
           t == Stretch(a + n, m)
<1>1. /\ s \in Seq(Nat) /\ Len(s) = n /\ t \in Seq(Nat) /\ Len(t) = m
      /\ \A i \in 1 .. n : s[i] = a + i
      /\ \A i \in 1 .. m : t[i] = a + n + i
  BY DEF Stretch
<1> DEFINE w == s \o t
           u == Stretch(a, n + m)
<1>2. u \in Seq(Nat) /\ Len(u) = n + m /\ \A i \in 1 .. n + m : u[i] = a + i
  BY DEF Stretch
<1> HIDE DEF s, t, u
<1>3. /\ w \in Seq(Nat) /\ Len(w) = n + m
      /\ \A i \in 1 .. n + m : w[i] = IF i <= n THEN s[i] ELSE t[i - n]
  BY <1>1, ConcatProperties
<1> HIDE DEF w
<1>4. ASSUME NEW i \in 1 .. n + m PROVE w[i] = u[i]
  <2>1. CASE i <= n
    BY <2>1, <1>1, <1>2, <1>3
  <2>2. CASE i > n
    <3>1. i - n \in 1 .. m
      BY <2>2
    <3> QED BY <2>2, <3>1, <1>1, <1>2, <1>3
  <2> QED BY <2>1, <2>2
<1>5. w = u
  BY <1>2, <1>3, <1>4, SeqEqual
<1> QED BY <1>5 DEF w, s, t, u

\* An unsigned short has room for the nodes of the largest buffer.
LEMMA WidthValue == Width \in Nat /\ Width > 255
BY SMTT(40) DEF Width

\* The same without sums in the terms the provers have to match.
LEMMA StretchMeet ==
  ASSUME NEW a \in Nat, NEW n \in Nat, NEW b \in Nat, NEW m \in Nat, NEW t \in Nat,
         b = a + n, t = n + m
  PROVE  Cat(Stretch(a, n), Stretch(b, m)) = Stretch(a, t)
<1>1. Stretch(a, n) \o Stretch(a + n, m) = Stretch(a, n + m)
  BY ONLY a \in Nat, n \in Nat, m \in Nat, StretchJoin, Zenon
<1>2. Stretch(a + n, m) = Stretch(b, m) /\ Stretch(a, n + m) = Stretch(a, t)
  OBVIOUS
<1> QED BY ONLY <1>1, <1>2 DEF Cat

LEMMA StretchPart ==
  ASSUME NEW a \in Nat, NEW n \in Nat, NEW i \in 0 .. n, NEW j \in i .. n
  PROVE  SubSeq(Stretch(a, n), i + 1, j) = Stretch(a + i, j - i)
<1> DEFINE s == Stretch(a, n)
<1>1. s \in Seq(Nat) /\ Len(s) = n /\ \A k \in 1 .. n : s[k] = a + k
  BY DEF Stretch
<1> HIDE DEF s
<1>2. SubSeq(s, i + 1, j) = [k \in 1 .. j - i |-> s[i + k]]
  BY <1>1
<1>3. \A k \in 1 .. j - i : s[i + k] = (a + i) + k
  BY <1>1
<1> QED BY <1>2, <1>3 DEF s, Stretch

\* What is left of a stretch, and its beginning, are stretches.
LEMMA StretchBehind ==
  ASSUME NEW a \in Nat, NEW n \in Nat, NEW i \in Nat, NEW b \in Nat, NEW m \in Nat,
         b = a + i, n = i + m
  PROVE  Behind(Stretch(a, n), i) = Stretch(b, m)
<1>1. Len(Stretch(a, n)) = n
  BY StretchType
<1>2. i \in 0 .. n /\ n \in i .. n /\ a + i = b /\ n - i = m
  OBVIOUS
<1>3. SubSeq(Stretch(a, n), i + 1, n) = Stretch(a + i, n - i)
  BY <1>2, StretchPart
<1> QED BY <1>1, <1>2, <1>3 DEF Behind

LEMMA StretchFirst ==
  ASSUME NEW a \in Nat, NEW n \in Nat, NEW k \in 0 .. n
  PROVE  SubSeq(Stretch(a, n), 1, k) = Stretch(a, k)
<1>1. 0 \in 0 .. n /\ k \in 0 .. n /\ a + 0 = a /\ k - 0 = k /\ 0 + 1 = 1
  OBVIOUS
<1>2. SubSeq(Stretch(a, n), 0 + 1, k) = Stretch(a + 0, k - 0)
  BY <1>1, StretchPart
<1> QED BY <1>1, <1>2

-----------------------------------------------------------------------------
(* The inductive invariant.  Only the first node and the one linked to it  *)
(* are ever used, so a connection goes through at most three phases and    *)
(* ends when the writer has filled the last linked node.                   *)

Node == [data : Seq(Nat), read : Nat, next : Nat]
Buff == [heap : UNION {[D -> Node] : D \in SUBSET (1 .. InitialNodes)},
         tail : Nat, read : Nat, write : Nat, freeCount : 0 .. Width - 1]

Second == IF InitialNodes = 1 THEN Null ELSE InitialNodes

States == {"idle", "reading", "notified", "closed", "dead"}

\* Node n holds len bytes of the stream behind the first a, and the consumer
\* has taken all before its mark.
Holds(n, a, len) ==
  /\ n \in DOMAIN mb.heap
  /\ mb.heap[n].data = Stretch(a, len)

Taken(n, a) == handed = Stretch(0, a + mb.heap[n].read)

\* The writer is in node n until the stream has filled it.
WritesIn(n) ==
  /\ mb.write = IF received = Lifetime THEN Null ELSE n
  /\ received = Lifetime => pc \in {"reading", "dead"}

\* The reader is in the first node and the writer too, or it was the only one.
InFirst ==
  /\ received <= Cap
  /\ mb.read = 1 /\ mb.tail = 1
  /\ Holds(1, 0, received) /\ Taken(1, 0)
  /\ mb.heap[1].read <= received /\ mb.heap[1].read < Cap
  /\ mb.heap[1].next = Second
  /\ WritesIn(1)
  /\ Second # Null => /\ received < Cap
                     /\ Second \in DOMAIN mb.heap /\ mb.heap[Second] = FreshNode

\* The first node is full, the writer is in the second.
InBoth ==
  /\ Second # Null
  /\ Cap <= received
  /\ mb.read = 1 /\ mb.tail = 1
  /\ Holds(1, 0, Cap) /\ Taken(1, 0) /\ mb.heap[1].read < Cap
  /\ mb.heap[1].next = Second
  /\ Holds(Second, Cap, received - Cap)
  /\ mb.heap[Second].read = 0 /\ mb.heap[Second].next = Null
  /\ WritesIn(Second)

\* The first node has been drained.
InSecond ==
  /\ Second # Null
  /\ Cap <= received
  /\ mb.read = Second
  /\ Holds(Second, Cap, received - Cap) /\ Taken(Second, Cap)
  /\ mb.heap[Second].read <= received - Cap /\ mb.heap[Second].read < Cap
  /\ mb.heap[Second].next = Null
  /\ WritesIn(Second)

NodesWithin(b) ==
  \A n \in DOMAIN b.heap : /\ Len(b.heap[n].data) <= Cap
                           /\ b.heap[n].read <= Len(b.heap[n].data)

IInv ==
  /\ mb \in Buff /\ pc \in States /\ received \in 0 .. Lifetime
  /\ NodesWithin(mb)
  /\ InFirst \/ InBoth \/ InSecond

-----------------------------------------------------------------------------
(* The invariant implies the properties.                                   *)

LEMMA LifetimeValue ==
  /\ Lifetime \in Nat /\ Cap \in Nat /\ Cap > 0 /\ Cap <= Lifetime
  /\ Second = Null => Lifetime = Cap
  /\ Second # Null => Lifetime = 2 * Cap /\ Second \in 2 .. InitialNodes
BY BuffAssumption DEF Lifetime, Second, Null

LEMMA NodeTypes ==
  ASSUME mb \in Buff, NEW n \in DOMAIN mb.heap
  PROVE  mb.heap[n].read \in Nat /\ mb.heap[n].data \in Seq(Nat) /\ mb.heap[n].next \in Nat
BY DEF Buff, Node

\* What is unread, in each phase.
LEMMA UnreadValue ==
  ASSUME IInv, NEW r \in Nat, NEW m \in Nat, received = r + m
  PROVE  /\ (InFirst \/ InBoth) /\ r = mb.heap[1].read => Unread = Stretch(r, m)
         /\ InSecond /\ r = Cap + mb.heap[Second].read => Unread = Stretch(r, m)
<1>1. ASSUME InFirst, r = mb.heap[1].read
      PROVE  Unread = Stretch(r, m)
  <2>1. ReadBuff(mb) = Behind(Stretch(0, received), r)
    BY <1>1 DEF InFirst, Holds, ReadBuff, Reader, Behind
  <2>2. received \in Nat /\ 0 \in Nat /\ r = 0 + r
    OBVIOUS
  <2>3. ReadBuff(mb) = Stretch(r, m)
    BY <2>1, <2>2, StretchBehind
  <2>4. Stretch(r, m) \o <<>> = Stretch(r, m)
    BY StretchType, ConcatEmptySeq
  <2>5. (IF Second = Null THEN <<>> ELSE mb.heap[Second].data) = <<>>
    BY <1>1 DEF InFirst, FreshNode
  <2>6. Reader(mb).next = Second /\ mb.read # Null
    BY <1>1 DEF InFirst, Reader, Null
  <2>7. Unread = ReadBuff(mb) \o <<>>
    BY <2>5, <2>6 DEF Unread
  <2> QED BY <2>3, <2>4, <2>7
<1>2. ASSUME InBoth, r = mb.heap[1].read
      PROVE  Unread = Stretch(r, m)
  <2> DEFINE c == Cap - r
             d == received - Cap
  <2>1. c \in Nat /\ d \in Nat /\ Cap \in Nat
    BY <1>2, LifetimeValue DEF InBoth
  <2>2. Cap = r + c /\ m = c + d /\ r = 0 + r
    BY <2>1
  <2>3. ReadBuff(mb) = Behind(Stretch(0, Cap), r)
    BY <1>2 DEF InBoth, Holds, ReadBuff, Reader, Behind
  <2>4. Unread = Cat(ReadBuff(mb), Stretch(Cap, d))
    BY <1>2 DEF InBoth, Holds, Unread, Reader, Cat, Null
  <2> HIDE DEF c, d
  <2>5. ReadBuff(mb) = Stretch(r, c)
    BY <2>1, <2>2, <2>3, StretchBehind
  <2>6. Cat(Stretch(r, c), Stretch(Cap, d)) = Stretch(r, m)
    BY <2>1, <2>2, StretchMeet
  <2> QED BY <2>4, <2>5, <2>6
<1>3. ASSUME InSecond, r = Cap + mb.heap[Second].read
      PROVE  Unread = Stretch(r, m)
  <2> DEFINE k == mb.heap[Second].read
             d == received - Cap
  <2>0. k \in Nat
    BY <1>3, NodeTypes DEF IInv, InSecond, Holds
  <2>1. k \in Nat /\ d \in Nat /\ Cap \in Nat /\ d = k + m
    BY <1>3, <2>0, LifetimeValue DEF InSecond
  <2>2. ReadBuff(mb) = Behind(Stretch(Cap, d), k)
    BY <1>3 DEF InSecond, Holds, ReadBuff, Reader, Behind
  <2>3. Unread = ReadBuff(mb) \o <<>>
    BY <1>3, LifetimeValue DEF InSecond, Unread, Reader, Null
  <2>4. r = Cap + k
    BY <1>3
  <2> HIDE DEF k, d
  <2>5. ReadBuff(mb) = Stretch(r, m)
    BY <2>1, <2>2, <2>4, StretchBehind
  <2>6. Stretch(r, m) \o <<>> = Stretch(r, m)
    BY StretchType, ConcatEmptySeq
  <2> QED BY <2>3, <2>5, <2>6
<1> QED BY <1>1, <1>2, <1>3

\* The reader is behind the first r bytes of the stream.
ReadUpTo(r) ==
  \/ (InFirst \/ InBoth) /\ r = mb.heap[1].read
  \/ InSecond /\ r = Cap + mb.heap[Second].read

\* How much the consumer has taken, in each phase.
LEMMA TakenValue ==
  ASSUME IInv
  PROVE  \E r \in 0 .. received :
           /\ handed = Stretch(0, r)
           /\ ReadUpTo(r)
           /\ r < Lifetime
<1>1. CASE InFirst \/ InBoth
  <2>1. mb.heap[1].read \in 0 .. received /\ mb.heap[1].read < Cap
    BY <1>1, NodeTypes, LifetimeValue DEF IInv, InFirst, InBoth, Holds
  <2>2. handed = Stretch(0, mb.heap[1].read)
    BY <1>1, <2>1 DEF InFirst, InBoth, Taken
  <2> QED BY <1>1, <2>1, <2>2, LifetimeValue DEF ReadUpTo
<1>2. CASE InSecond
  <2>1. Cap + mb.heap[Second].read \in 0 .. received /\ mb.heap[Second].read < Cap
    BY <1>2, NodeTypes, LifetimeValue DEF IInv, InSecond, Holds
  <2>2. handed = Stretch(0, Cap + mb.heap[Second].read)
    BY <1>2 DEF InSecond, Taken
  <2>3. Cap + mb.heap[Second].read < Lifetime
    BY <1>2, <2>1, LifetimeValue, NodeTypes DEF InSecond, Holds, IInv
  <2> QED BY <1>2, <2>1, <2>2, <2>3 DEF ReadUpTo
<1> QED BY <1>1, <1>2 DEF IInv

LEMMA InvReadInOrder ==
  ASSUME IInv
  PROVE  ReadInOrder
<1>1. PICK r \in 0 .. received :
         handed = Stretch(0, r) /\ ReadUpTo(r)
  BY TakenValue
<1> DEFINE m == received - r
<1>2. received \in Nat /\ r \in Nat /\ m \in Nat /\ received = r + m /\ r = 0 + r
  BY DEF IInv
<1> HIDE DEF m
<1>3. Unread = Stretch(r, m)
  BY <1>1, <1>2, UnreadValue DEF ReadUpTo
<1>4. Cat(Stretch(0, r), Stretch(r, m)) = Stretch(0, received)
  BY <1>2, StretchMeet
<1>5. Stretch(0, received) = [i \in 1 .. received |-> i]
  BY <1>2 DEF Stretch
<1> QED BY <1>1, <1>3, <1>4, <1>5 DEF ReadInOrder, Cat


LEMMA InvTypeOK ==
  ASSUME IInv
  PROVE  TypeOK
<1>1. handed \in Seq(1 .. Lifetime)
  <2>1. PICK r \in 0 .. received : handed = Stretch(0, r)
    BY TakenValue
  <2>2. r \in Nat /\ Lifetime \in Nat /\ r <= Lifetime
    BY LifetimeValue DEF IInv
  <2> QED BY <2>1, <2>2, StretchElements
<1>2. mb.read \in DOMAIN mb.heap /\ mb.write \in DOMAIN mb.heap \cup {Null}
  BY DEF IInv, InFirst, InBoth, InSecond, Holds, WritesIn
<1>3. \A n \in DOMAIN mb.heap : /\ mb.heap[n].read \in 0 .. Len(mb.heap[n].data)
                                /\ Len(mb.heap[n].data) <= Cap
  <2> TAKE n \in DOMAIN mb.heap
  <2>1. mb.heap[n].read \in Nat /\ Len(mb.heap[n].data) \in Nat
    BY NodeTypes, LenProperties DEF IInv
  <2> QED BY <2>1 DEF IInv, NodesWithin
<1>4. mb.freeCount \in 0 .. Width - 1
  BY DEF IInv, Buff
<1> QED BY <1>1, <1>2, <1>3, <1>4 DEF TypeOK, IInv, States

LEMMA InvUnreadIsVisible ==
  ASSUME IInv
  PROVE  UnreadIsVisible
<1>0. mb.read # Null
  BY LifetimeValue DEF IInv, InFirst, InBoth, InSecond, Null
<1>1. PICK r \in 0 .. received : handed = Stretch(0, r) /\ ReadUpTo(r)
  BY TakenValue
<1>2. received \in Nat /\ r \in Nat /\ Cap \in Nat
  BY LifetimeValue DEF IInv
<1>3. ASSUME Readable(mb) = 0, InFirst PROVE received = r
  <2>1. Len(mb.heap[1].data) = received
    BY <1>2, <1>3, StretchType DEF InFirst, Holds
  <2>2. mb.heap[1].read \in Nat /\ mb.read = 1
    BY <1>3, NodeTypes DEF InFirst, Holds, IInv
  <2>3. received = mb.heap[1].read
    BY <1>2, <1>3, <2>1, <2>2 DEF Readable, Reader
  <2>4. Second = Null \/ Second # 1
    BY LifetimeValue
  <2> QED BY <1>1, <1>2, <1>3, <2>2, <2>3, LifetimeValue DEF ReadUpTo, InFirst, InSecond, Null
<1>4. ASSUME Readable(mb) = 0, InBoth PROVE FALSE
  <2>1. Len(mb.heap[1].data) = Cap
    <3>1. 0 \in Nat
      OBVIOUS
    <3>2. mb.heap[1].data = Stretch(0, Cap)
      BY <1>4 DEF InBoth, Holds
    <3> QED BY <1>2, <3>1, <3>2, StretchType
  <2>2. mb.heap[1].read \in Nat /\ mb.read = 1 /\ mb.heap[1].read < Cap
    BY <1>4, NodeTypes DEF InBoth, Holds, IInv
  <2> QED BY <1>2, <1>4, <2>1, <2>2 DEF Readable, Reader
<1>5. ASSUME Readable(mb) = 0, InSecond PROVE received = r
  <2>0. received - Cap \in Nat
    BY <1>2, <1>5 DEF InSecond
  <2>1. Len(mb.heap[Second].data) = received - Cap
    <3>1. mb.heap[Second].data = Stretch(Cap, received - Cap)
      BY <1>5 DEF InSecond, Holds
    <3> QED BY ONLY <1>2, <2>0, <3>1, StretchType
  <2>2. mb.heap[Second].read \in Nat /\ mb.read = Second
    BY <1>5, NodeTypes DEF InSecond, Holds, IInv
  <2>3. received = Cap + mb.heap[Second].read
    <3>1. Len(mb.heap[Second].data) - mb.heap[Second].read = 0
      BY <1>5, <2>2 DEF Readable, Reader
    <3> QED BY ONLY <1>2, <2>0, <2>1, <2>2, <3>1
  <2> QED BY <1>1, <1>2, <1>5, <2>2, <2>3, LifetimeValue DEF ReadUpTo, InFirst, InBoth, InSecond, Null
<1>6. ASSUME Readable(mb) = 0 PROVE Unread = <<>>
  <2>1. received = r
    BY <1>3, <1>4, <1>5, <1>6 DEF IInv
  <2>2. r \in Nat /\ 0 \in Nat /\ received = r + 0
    BY <1>2, <2>1
  <2>3. Unread = Stretch(r, 0)
    BY <1>1, <2>2, UnreadValue DEF ReadUpTo
  <2> QED BY <2>3 DEF Stretch
<1> QED BY <1>0, <1>6 DEF UnreadIsVisible

-----------------------------------------------------------------------------
(* The initial states satisfy the invariant.                               *)

LEMMA InitInv ==
  ASSUME Init
  PROVE  IInv
<1>1. /\ DOMAIN mb.heap = 1 .. InitialNodes
      /\ \A n \in 1 .. InitialNodes :
           mb.heap[n] = [data |-> <<>>, read |-> 0, next |-> IF n = 1 THEN Second ELSE Null]
  <2>1. \A n \in 1 .. InitialNodes :
          (IF n = 1 /\ InitialNodes > 1 THEN InitialNodes ELSE Null) = IF n = 1 THEN Second ELSE Null
    BY BuffAssumption DEF Second
  <2>2. mb.heap = [n \in 1 .. InitialNodes |->
                     [data |-> <<>>, read |-> 0,
                      next |-> IF n = 1 /\ InitialNodes > 1 THEN InitialNodes ELSE Null]]
    BY DEF Init, NewBuff, FreshNode
  <2> QED BY <2>1, <2>2
<1>2. mb.tail = 1 /\ mb.read = 1 /\ mb.write = 1 /\ mb.freeCount = InitialNodes - 1
  BY DEF Init, NewBuff
<1>3. <<>> \in Seq(Nat) /\ Second \in Nat
  BY LifetimeValue DEF Second, Null
<1>4. \A n \in 1 .. InitialNodes : mb.heap[n] \in Node
  <2> TAKE n \in 1 .. InitialNodes
  <2> DEFINE next == IF n = 1 THEN Second ELSE Null
  <2>1. mb.heap[n] = [data |-> <<>>, read |-> 0, next |-> next]
    BY <1>1
  <2>2. next \in Nat /\ 0 \in Nat
    BY <1>3 DEF Null
  <2> HIDE DEF next
  <2> QED BY <1>3, <2>1, <2>2 DEF Node
<1>5. mb.heap \in [1 .. InitialNodes -> Node] /\ DOMAIN mb.heap = 1 .. InitialNodes
  <2> DEFINE h == mb.heap
  <2>1. h = [n \in 1 .. InitialNodes |-> h[n]]
    BY DEF Init, NewBuff
  <2>2. \A n \in 1 .. InitialNodes : h[n] \in Node
    BY <1>4
  <2> HIDE DEF h
  <2>3. h \in [1 .. InitialNodes -> Node] /\ DOMAIN h = 1 .. InitialNodes
    BY ONLY <2>1, <2>2
  <2> QED BY <2>3 DEF h
<1>6. mb.heap \in UNION {[D -> Node] : D \in SUBSET (1 .. InitialNodes)}
  BY <1>5
<1>7. mb \in Buff
  <2> DEFINE h == mb.heap
             c == InitialNodes - 1
  <2>1. mb = [heap |-> h, tail |-> 1, read |-> 1, write |-> 1, freeCount |-> c]
    BY DEF Init, NewBuff
  <2>2. c \in 0 .. Width - 1 /\ 1 \in Nat
    BY BuffAssumption, WidthValue
  <2>3. h \in UNION {[D -> Node] : D \in SUBSET (1 .. InitialNodes)}
    BY <1>6
  <2> HIDE DEF h, c
  <2> QED BY ONLY <2>1, <2>2, <2>3 DEF Buff
<1>8. Stretch(0, 0) = <<>>
  BY DEF Stretch
<1>9. NodesWithin(mb)
  <2>1. Len(<<>>) = 0 /\ 0 <= Cap
    BY LifetimeValue
  <2>2. \A n \in DOMAIN mb.heap : mb.heap[n].data = <<>> /\ mb.heap[n].read = 0
    <3> TAKE n \in DOMAIN mb.heap
    <3> DEFINE next == IF n = 1 THEN Second ELSE Null
    <3>1. mb.heap[n] = [data |-> <<>>, read |-> 0, next |-> next]
      BY <1>1
    <3> HIDE DEF next
    <3> QED BY <3>1
  <2> QED BY <2>1, <2>2 DEF NodesWithin
<1>10. 1 \in 1 .. InitialNodes /\ (Second # Null => Second \in 2 .. InitialNodes)
  BY LifetimeValue, BuffAssumption
<1>11. InFirst
  <2>1. mb.heap[1] = [data |-> <<>>, read |-> 0, next |-> Second]
    BY <1>1, <1>10
  <2>2. Second # Null => Second \in DOMAIN mb.heap /\ mb.heap[Second] = FreshNode
    BY <1>1, <1>10 DEF FreshNode, Null
  <2>3. received = 0 /\ handed = <<>> /\ pc = "idle"
    BY DEF Init
  <2> QED
    BY <1>2, <1>5, <1>8, <1>10, <2>1, <2>2, <2>3, LifetimeValue
    DEF InFirst, Holds, Taken, WritesIn
<1> QED BY <1>7, <1>9, <1>11, LifetimeValue DEF Init, IInv, States

-----------------------------------------------------------------------------
(* Every step preserves it.                                                *)

\* Wherever the writer stands there is room: no node is added.
LEMMA WriterHasRoom ==
  ASSUME IInv, mb.write # Null
  PROVE  /\ mb.write \in DOMAIN mb.heap
         /\ Room(mb) \in Nat \ {0}
         /\ received + Room(mb) = IF InFirst THEN Cap ELSE Lifetime
         /\ GetWriteBuff(mb) = mb
<1>0. received \in Nat /\ Cap \in Nat /\ Lifetime \in Nat /\ received <= Lifetime /\ received # Lifetime
  BY LifetimeValue DEF IInv, InFirst, InBoth, InSecond, WritesIn
<1>1. CASE InFirst
  <2>1. mb.write = 1 /\ 1 \in DOMAIN mb.heap
    BY <1>0, <1>1 DEF InFirst, Holds, WritesIn
  <2>2. Len(mb.heap[1].data) = received
    BY <1>0, <1>1, StretchType DEF InFirst, Holds
  <2>3. received < Cap
    BY <1>0, <1>1, LifetimeValue DEF InFirst
  <2>4. Room(mb) = Cap - received
    BY <2>1, <2>2 DEF Room, Writer
  <2> QED BY <1>0, <1>1, <2>1, <2>3, <2>4 DEF GetWriteBuff
<1>2. CASE ~ InFirst /\ (InBoth \/ InSecond)
  <2>1. mb.write = Second /\ Second \in DOMAIN mb.heap /\ Cap <= received /\ Lifetime = 2 * Cap
    BY <1>0, <1>2, LifetimeValue DEF InBoth, InSecond, Holds, WritesIn
  <2>2. received - Cap \in Nat /\ Cap \in Nat
    BY <1>0, <2>1
  <2>3. Len(mb.heap[Second].data) = received - Cap
    BY <1>2, <2>2, StretchType DEF InBoth, InSecond, Holds
  <2>4. Room(mb) = Cap - (received - Cap)
    BY <2>1, <2>3 DEF Room, Writer
  <2> QED BY <1>0, <1>2, <2>1, <2>4 DEF GetWriteBuff
<1> QED BY <1>1, <1>2 DEF IInv

LEMMA InvRoomForLifetime ==
  ASSUME IInv
  PROVE  RoomForLifetime
<1>1. received < Lifetime => mb.write # Null
  BY LifetimeValue DEF IInv, InFirst, InBoth, InSecond, WritesIn, Null
<1>2. mb.write # Null => Room(mb) > 0
  BY WriterHasRoom
<1> QED BY <1>1, <1>2 DEF RoomForLifetime

\* An unsigned short that goes below 0 or above its limit wraps.
LEMMA Wraps ==
  ASSUME NEW c \in Int
  PROVE  c % Width \in 0 .. Width - 1
BY WidthValue

LEMMA CountWraps ==
  ASSUME mb \in Buff
  PROVE  /\ (mb.freeCount - 1) % Width \in 0 .. Width - 1
         /\ (mb.freeCount + 1) % Width \in 0 .. Width - 1
<1>1. mb.freeCount \in 0 .. Width - 1
  BY DEF Buff
<1>2. \A c \in 0 .. Width - 1 : c \in Int
  BY WidthValue
<1>3. mb.freeCount - 1 \in Int /\ mb.freeCount + 1 \in Int
  BY <1>1, <1>2
<1> QED BY <1>3, Wraps

\* What a call of recv() leaves of the buffer.
LEMMA FillValue ==
  ASSUME mb \in Buff, NodesWithin(mb), NEW n \in DOMAIN mb.heap, mb.write = n,
         NEW a \in Nat, NEW l \in Nat, Holds(n, a, l), received = a + l,
         NEW k \in Nat \ {0}, NEW t \in Nat, t = l + k, t <= Cap, NEW f, f = Fill(mb, Stretch(received, k))
  PROVE  /\ f \in Buff /\ NodesWithin(f) /\ DOMAIN f.heap = DOMAIN mb.heap
         /\ \A m \in DOMAIN mb.heap \ {n} : f.heap[m] = mb.heap[m]
         /\ f.heap[n] = [mb.heap[n] EXCEPT !.data = Stretch(a, t)]
         /\ f.read = mb.read /\ f.tail = mb.tail
         /\ f.write = IF t = Cap THEN mb.heap[n].next ELSE n
<1>0. received \in Nat /\ k \in Nat
  OBVIOUS
<1>1. Cat(Stretch(a, l), Stretch(received, k)) = Stretch(a, t)
  BY <1>0, StretchMeet
<1> DEFINE s == Stretch(received, k)
           h == [mb.heap EXCEPT ![n] = [mb.heap[n] EXCEPT !.data = Stretch(a, t)]]
<1>2. mb.heap[n].data \o s = Stretch(a, t)
  BY <1>1 DEF Holds, Cat
<1>3. Len(Stretch(a, t)) = t /\ Stretch(a, t) \in Seq(Nat)
  BY StretchType
<1> HIDE DEF s
<1>4. \E D \in SUBSET (1 .. InitialNodes) : mb.heap \in [D -> Node]
  BY DEF Buff
<1>5. DOMAIN h = DOMAIN mb.heap /\ h[n] = [mb.heap[n] EXCEPT !.data = Stretch(a, t)]
      /\ \A m \in DOMAIN mb.heap \ {n} : h[m] = mb.heap[m]
  BY <1>4
<1>6. h \in UNION {[D -> Node] : D \in SUBSET (1 .. InitialNodes)}
  <2>1. PICK D \in SUBSET (1 .. InitialNodes) : mb.heap \in [D -> Node]
    BY <1>4
  <2>2. mb.heap[n] \in Node
    BY <2>1
  <2>3. [mb.heap[n] EXCEPT !.data = Stretch(a, t)] \in Node
    BY <2>2, <1>3 DEF Node
  <2>4. h \in [D -> Node]
    BY <2>1, <2>3
  <2> QED BY <2>4
<1>7. mb.heap[n].next \in Nat /\ n \in Nat
  BY NodeTypes DEF Buff
<1>8. f = IF t < Cap
          THEN [mb EXCEPT !.heap = h]
          ELSE [mb EXCEPT !.heap = h, !.freeCount = (@ - 1) % Width, !.write = mb.heap[n].next]
  <2>1. [mb EXCEPT !.heap[mb.write].data = @ \o s] = [mb EXCEPT !.heap = h]
    BY <1>2 DEF Buff
  <2> DEFINE filled == [mb EXCEPT !.heap = h]
  <2>2. filled.heap = h /\ filled.write = n
    BY DEF Buff
  <2>3. Len(Writer(filled).data) = t
    <3>1. Writer(filled) = h[n]
      BY <2>2 DEF Writer
    <3>2. mb.heap[n] \in Node
      BY <1>4
    <3> QED BY <1>3, <1>5, <3>1, <3>2 DEF Node
  <2>4. Writer(mb).next = mb.heap[n].next
    BY DEF Writer
  <2> HIDE DEF h
  <2>5. f = IF Len(Writer(filled).data) < Cap THEN filled
            ELSE [filled EXCEPT !.freeCount = (@ - 1) % Width, !.write = Writer(mb).next]
    BY <2>1 DEF Fill, s
  <2>6. [filled EXCEPT !.freeCount = (@ - 1) % Width, !.write = mb.heap[n].next]
        = [mb EXCEPT !.heap = h, !.freeCount = (@ - 1) % Width, !.write = mb.heap[n].next]
    BY DEF Buff
  <2> QED BY <2>3, <2>4, <2>5, <2>6
<1> HIDE DEF h
<1>9. f \in Buff
  <2>2. (mb.freeCount - 1) % Width \in 0 .. Width - 1
    BY CountWraps
  <2> QED BY <1>6, <1>7, <1>8, <2>2 DEF Buff
<1>10. f.heap = h /\ f.read = mb.read /\ f.tail = mb.tail
       /\ f.write = IF t < Cap THEN n ELSE mb.heap[n].next
  BY <1>8 DEF Buff
<1>11. t < Cap <=> t # Cap
  BY LifetimeValue
<1>12. NodesWithin(f)
  <2>1. mb.heap[n] \in Node
    BY <1>4
  <2>2. f.heap[n].data = Stretch(a, t) /\ f.heap[n].read = mb.heap[n].read
    BY <1>5, <1>10, <2>1 DEF Node
  <2>3. mb.heap[n].read <= l /\ mb.heap[n].read \in Nat
    <3>1. Len(mb.heap[n].data) = l
      BY StretchType DEF Holds
    <3>2. mb.heap[n].read \in Nat
      BY <2>1 DEF Node
    <3> QED BY <3>1, <3>2 DEF NodesWithin
  <2>4. Len(f.heap[n].data) <= Cap /\ f.heap[n].read <= Len(f.heap[n].data)
    <3>1. l <= t
      OBVIOUS
    <3>2. mb.heap[n].read <= t
      BY <2>3, <3>1
    <3> QED BY <1>3, <2>2, <3>2
  <2> QED BY <1>5, <1>10, <2>4 DEF NodesWithin
<1> QED BY <1>5, <1>9, <1>10, <1>11, <1>12

LEMMA RecvStep ==
  ASSUME IInv, Recv
  PROVE  IInv'
<1>0. /\ received \in Nat /\ Cap \in Nat /\ Lifetime \in Nat /\ 0 \in Nat
      /\ mb \in Buff /\ NodesWithin(mb) /\ mb.write # Null /\ handed' = handed
  BY LifetimeValue DEF IInv, Recv
<1>1. Room(mb) \in Nat /\ GetWriteBuff(mb) = mb
  BY <1>0, WriterHasRoom
<1>2. PICK k \in 1 .. Room(mb) :
        /\ mb' = Fill(mb, Stretch(received, k))
        /\ received' = received + k
        /\ pc' = IF k < Room(mb) THEN "notified" ELSE "reading"
  BY <1>1 DEF Recv, Stretch
<1>3. k \in Nat \ {0} /\ pc' \in States
  BY <1>1, <1>2 DEF States
<1>4. CASE InFirst
  <2> DEFINE t == received + k
  <2>1. 1 \in DOMAIN mb.heap /\ mb.write = 1 /\ Holds(1, 0, received)
    BY <1>0, <1>4 DEF InFirst, Holds, WritesIn
  <2>2. received + Room(mb) = Cap
    BY <1>0, <1>4, WriterHasRoom DEF IInv
  <2>3. t \in Nat /\ t = received + k /\ t <= Cap /\ received = 0 + received
        /\ (k < Room(mb) <=> t # Cap) /\ received' = t
    BY <1>0, <1>1, <1>2, <1>3, <2>2
  <2> HIDE DEF t
  <2>4. /\ mb' \in Buff /\ NodesWithin(mb') /\ DOMAIN mb'.heap = DOMAIN mb.heap
        /\ \A m \in DOMAIN mb.heap \ {1} : mb'.heap[m] = mb.heap[m]
        /\ mb'.heap[1] = [mb.heap[1] EXCEPT !.data = Stretch(0, t)]
        /\ mb'.read = mb.read /\ mb'.tail = mb.tail
        /\ mb'.write = IF t = Cap THEN mb.heap[1].next ELSE 1
    BY <1>0, <1>2, <1>3, <2>1, <2>3, FillValue
  <2>5. mb.heap[1] \in Node
    BY <2>1 DEF IInv, Buff
  <2>6. /\ mb'.heap[1].data = Stretch(0, t) /\ mb'.heap[1].read = mb.heap[1].read
        /\ mb'.heap[1].next = Second /\ mb.heap[1].next = Second /\ mb.heap[1].read \in Nat
    BY <1>4, <2>4, <2>5 DEF Node, InFirst
  <2>7. Second # Null => /\ Second \in DOMAIN mb'.heap /\ mb'.heap[Second] = FreshNode
    BY <1>4, <2>4, LifetimeValue DEF InFirst
  <2>8. /\ mb'.read = 1 /\ mb'.tail = 1 /\ Holds(1, 0, received)' /\ Taken(1, 0)'
        /\ mb'.heap[1].read <= t /\ mb'.heap[1].read < Cap
    <3>1. mb.heap[1].read <= t
      BY <1>0, <1>3, <1>4, <2>3, <2>6 DEF InFirst
    <3> QED BY <1>0, <1>4, <2>1, <2>3, <2>4, <2>6, <3>1 DEF InFirst, Holds, Taken
  <2>9. received' \in 0 .. Lifetime
    BY <1>0, <2>3, LifetimeValue
  <2>10. CASE t # Cap \/ Second = Null
    <3>1. WritesIn(1)'
      BY <1>2, <2>3, <2>4, <2>6, <2>10, LifetimeValue DEF WritesIn
    <3>2. Second # Null => received' < Cap
      BY <1>0, <2>3, <2>10
    <3>3. InFirst'
      BY <2>3, <2>6, <2>7, <2>8, <3>1, <3>2 DEF InFirst
    <3> QED BY <1>3, <2>4, <2>9, <3>3 DEF IInv
  <2>11. CASE t = Cap /\ Second # Null
    <3>1. Holds(Second, Cap, received - Cap)'
      <4>1. mb'.heap[Second].data = <<>> /\ Second \in DOMAIN mb'.heap
        BY <2>7, <2>11 DEF FreshNode
      <4>2. received' - Cap = 0
        BY <1>0, <2>3, <2>11
      <4>3. Stretch(Cap, 0) = <<>>
        BY DEF Stretch
      <4>4. mb'.heap[Second].data = Stretch(Cap, received' - Cap)
        BY <4>1, <4>2, <4>3
      <4> QED BY <4>1, <4>4 DEF Holds
    <3>2. mb'.heap[Second].read = 0 /\ mb'.heap[Second].next = Null
      BY <2>7, <2>11 DEF FreshNode
    <3>3. WritesIn(Second)'
      BY <1>0, <2>3, <2>4, <2>6, <2>11, LifetimeValue DEF WritesIn
    <3>4. InBoth'
      BY <1>0, <2>3, <2>6, <2>8, <2>11, <3>1, <3>2, <3>3 DEF InBoth
    <3> QED BY <1>3, <2>4, <2>9, <3>4 DEF IInv
  <2> QED BY <2>10, <2>11
<1>5. CASE ~ InFirst /\ (InBoth \/ InSecond)
  <2> DEFINE l == received - Cap
             t == l + k
  <2>1. /\ Second \in DOMAIN mb.heap /\ mb.write = Second /\ Holds(Second, Cap, received - Cap)
        /\ Second # Null /\ Cap <= received /\ mb.heap[Second].next = Null
    BY <1>0, <1>5 DEF InBoth, InSecond, Holds, WritesIn
  <2>2. received + Room(mb) = Lifetime /\ Lifetime = 2 * Cap
    BY <1>0, <1>5, <2>1, WriterHasRoom, LifetimeValue DEF IInv
  <2>3. /\ l \in Nat /\ t \in Nat /\ t = l + k /\ t <= Cap /\ received = Cap + l
        /\ (k < Room(mb) <=> t # Cap) /\ received' - Cap = t
        /\ received' \in 0 .. Lifetime /\ (received' = Lifetime <=> t = Cap)
        /\ Cap <= received' /\ Holds(Second, Cap, l)
    <3> DEFINE room == Room(mb)
               r1 == received'
    <3>1. Holds(Second, Cap, l)
      BY <2>1
    <3>2. /\ room \in Nat /\ k \in 1 .. room /\ r1 = received + k /\ Cap <= received
          /\ received + room = Lifetime /\ Lifetime = 2 * Cap
      BY <1>1, <1>2, <2>1, <2>2
    <3> HIDE DEF room, r1
    <3>3. /\ l \in Nat /\ t \in Nat /\ t = l + k /\ t <= Cap /\ received = Cap + l
          /\ (k < room <=> t # Cap) /\ r1 - Cap = t
          /\ r1 \in 0 .. Lifetime /\ (r1 = Lifetime <=> t = Cap) /\ Cap <= r1
      BY ONLY <1>0, <3>2
    <3> QED BY <3>1, <3>3 DEF room, r1
  <2> HIDE DEF l, t
  <2>4. /\ mb' \in Buff /\ NodesWithin(mb') /\ DOMAIN mb'.heap = DOMAIN mb.heap
        /\ \A m \in DOMAIN mb.heap \ {Second} : mb'.heap[m] = mb.heap[m]
        /\ mb'.heap[Second] = [mb.heap[Second] EXCEPT !.data = Stretch(Cap, t)]
        /\ mb'.read = mb.read /\ mb'.tail = mb.tail
        /\ mb'.write = IF t = Cap THEN mb.heap[Second].next ELSE Second
    <3>1. /\ mb \in Buff /\ NodesWithin(mb) /\ Second \in DOMAIN mb.heap /\ mb.write = Second
          /\ Holds(Second, Cap, l) /\ mb' = Fill(mb, Stretch(received, k))
      BY <1>0, <1>2, <2>1, <2>3
    <3>2. /\ Cap \in Nat /\ l \in Nat /\ t \in Nat /\ k \in Nat \ {0}
          /\ received = Cap + l /\ t = l + k /\ t <= Cap
      BY <1>0, <1>3, <2>3
    <3> QED BY ONLY <3>1, <3>2, FillValue
  <2>5. mb.heap[Second] \in Node
    BY <2>1 DEF IInv, Buff
  <2>6. /\ mb'.heap[Second].data = Stretch(Cap, t) /\ mb'.heap[Second].read = mb.heap[Second].read
        /\ mb'.heap[Second].next = Null /\ mb.heap[Second].read \in Nat
    BY <2>1, <2>4, <2>5 DEF Node
  <2>7. Holds(Second, Cap, received - Cap)'
    BY <2>1, <2>3, <2>4, <2>6 DEF Holds
  <2>8. WritesIn(Second)'
    BY <1>2, <2>1, <2>2, <2>3, <2>4 DEF WritesIn
  <2>9. CASE InBoth
    <3>1. 1 # Second /\ 1 \in DOMAIN mb.heap
      BY <2>1, <2>9, LifetimeValue DEF InBoth, Holds
    <3>2. mb'.heap[1] = mb.heap[1]
      BY <2>4, <3>1
    <3>3. Holds(1, 0, Cap)' /\ Taken(1, 0)' /\ mb'.heap[1].read < Cap /\ mb'.heap[1].next = Second
      BY <1>0, <2>4, <2>9, <3>1, <3>2 DEF InBoth, Holds, Taken
    <3>4. InBoth'
      BY <2>1, <2>3, <2>4, <2>6, <2>7, <2>8, <2>9, <3>3 DEF InBoth
    <3> QED BY <1>3, <2>3, <2>4, <3>4 DEF IInv
  <2>10. CASE InSecond
    <3>1. mb'.heap[Second].read <= received' - Cap /\ mb'.heap[Second].read < Cap
      <4>1. l <= t /\ received - Cap = l
        BY <1>0, <1>3, <2>3
      <4>2. mb.heap[Second].read <= l /\ mb.heap[Second].read < Cap
        BY <2>10, <4>1 DEF InSecond
      <4>3. mb.heap[Second].read <= t
        BY <2>3, <2>6, <4>1, <4>2
      <4> QED BY <2>3, <2>6, <4>2, <4>3
    <3>2. Taken(Second, Cap)'
      BY <1>0, <2>6, <2>10 DEF InSecond, Taken
    <3>3. InSecond'
      BY <2>1, <2>3, <2>4, <2>6, <2>7, <2>8, <2>10, <3>1, <3>2 DEF InSecond
    <3> QED BY <1>3, <2>3, <2>4, <3>3 DEF IInv
  <2> QED BY <1>5, <2>9, <2>10
<1> QED BY <1>4, <1>5 DEF IInv

\* Taking k more bytes leaves the consumer with all before the new mark.
TakenWith(n, a, k) ==
  handed \o SubSeq(ReadBuff(mb), 1, k) = Stretch(0, a + (mb.heap[n].read + k))

LEMMA TakeValue ==
  ASSUME NEW n, mb.read = n, NEW a \in Nat, NEW l \in Nat, Holds(n, a, l), Taken(n, a),
         mb.heap[n].read \in Nat, mb.heap[n].read <= l, NEW k \in 0 .. Readable(mb)
  PROVE  k \in Nat /\ mb.heap[n].read + k <= l /\ TakenWith(n, a, k)
<1> DEFINE i == mb.heap[n].read
           b == a + i
           m == l - i
           c == a + (i + k)
<1>0. mb.heap[n].data = Stretch(a, l) /\ Len(Stretch(a, l)) = l
  BY StretchType DEF Holds
<1>1. Readable(mb) = l - i
  BY <1>0 DEF Readable, Reader
<1>2. /\ k \in Nat /\ k \in 0 .. m /\ i + k <= l /\ i \in Nat
      /\ b \in Nat /\ m \in Nat /\ c \in Nat /\ 0 \in Nat
      /\ b = a + i /\ l = i + m /\ b = 0 + b /\ c = b + k
  BY <1>1
<1>3. ReadBuff(mb) = Behind(Stretch(a, l), i) /\ handed = Stretch(0, b)
  BY <1>0 DEF Taken, ReadBuff, Reader, Behind
<1>4. i = mb.heap[n].read /\ c = a + (i + k)
  OBVIOUS
<1> HIDE DEF i, b, m, c
<1>5. Behind(Stretch(a, l), i) = Stretch(b, m)
  BY <1>2, StretchBehind
<1>6. SubSeq(Stretch(b, m), 1, k) = Stretch(b, k)
  BY ONLY <1>2, StretchFirst
<1>7. Cat(Stretch(0, b), Stretch(b, k)) = Stretch(0, c)
  BY ONLY <1>2, StretchMeet
<1>8. handed \o SubSeq(ReadBuff(mb), 1, k) = Stretch(0, c)
  BY <1>3, <1>5, <1>6, <1>7 DEF Cat
<1> QED BY <1>2, <1>4, <1>8 DEF TakenWith

\* The reader stays in a node it has not read to its end.
LEMMA StaysValue ==
  ASSUME mb \in Buff, NodesWithin(mb), NEW n \in DOMAIN mb.heap, mb.read = n,
         NEW i \in Nat, mb.heap[n].read = i, NEW k \in Nat, NEW j \in Nat, j = i + k,
         j < Cap, j <= Len(mb.heap[n].data), NEW f, f = AdjustReadSize(mb, k)
  PROVE  /\ f \in Buff /\ NodesWithin(f) /\ DOMAIN f.heap = DOMAIN mb.heap
         /\ \A m \in DOMAIN mb.heap \ {n} : f.heap[m] = mb.heap[m]
         /\ f.heap[n].read = j /\ f.heap[n].data = mb.heap[n].data
         /\ f.heap[n].next = mb.heap[n].next
         /\ f.read = mb.read /\ f.tail = mb.tail /\ f.write = mb.write
<1> DEFINE h == [mb.heap EXCEPT ![n] = [mb.heap[n] EXCEPT !.read = j]]
<1>1. PICK D \in SUBSET (1 .. InitialNodes) : mb.heap \in [D -> Node]
  BY DEF Buff
<1>2. mb.heap[n] \in Node
  BY <1>1
<1>3. [mb EXCEPT !.heap[mb.read].read = @ + k] = [mb EXCEPT !.heap = h]
  BY DEF Buff
<1>4. [mb.heap[n] EXCEPT !.read = j] \in Node
  BY <1>2 DEF Node
<1>5. h \in [D -> Node]
  BY <1>1, <1>4
<1>6. /\ DOMAIN h = DOMAIN mb.heap
      /\ \A m \in DOMAIN mb.heap \ {n} : h[m] = mb.heap[m]
      /\ h[n].read = j /\ h[n].data = mb.heap[n].data /\ h[n].next = mb.heap[n].next
  BY <1>1, <1>2 DEF Node
<1> HIDE DEF h
<1> DEFINE taken == [mb EXCEPT !.heap = h]
<1>7. taken.heap = h /\ taken.read = n /\ taken.tail = mb.tail /\ taken.write = mb.write
  BY DEF Buff
<1>8. Reader(taken).read = j
  BY <1>6, <1>7 DEF Reader
<1>9. f = taken
  BY <1>3, <1>8 DEF AdjustReadSize
<1>10. f \in Buff
  BY <1>5, <1>9 DEF Buff
<1>11. NodesWithin(f)
  BY <1>6, <1>7, <1>9 DEF NodesWithin
<1> QED BY <1>6, <1>7, <1>9, <1>10, <1>11

\* The reader leaves a node it has read to its end for the one linked to it.
LEMMA LeavesValue ==
  ASSUME mb \in Buff, NodesWithin(mb), 1 \in DOMAIN mb.heap, mb.read = 1, mb.tail = 1,
         NEW k \in Nat, mb.heap[1].read + k = Cap,
         NEW n \in DOMAIN mb.heap, mb.heap[1].next = n, n # 1,
         NEW f, f = AdjustReadSize(mb, k)
  PROVE  /\ f \in Buff /\ NodesWithin(f)
         /\ n \in DOMAIN f.heap /\ f.heap[n] = mb.heap[n]
         /\ f.read = n /\ f.write = mb.write
<1> DEFINE g == [mb.heap[1] EXCEPT !.read = @ + k]
           h1 == [mb.heap EXCEPT ![1] = g]
           h2 == [mb.heap EXCEPT ![1] = FreshNode]
           h3 == [mb.heap EXCEPT ![1] = [data |-> <<>>, read |-> 0, next |-> 1]]
           taken == [mb EXCEPT !.heap = h1]
           left == [mb EXCEPT !.heap = h2, !.read = n]
<1>1. PICK D \in SUBSET (1 .. InitialNodes) : mb.heap \in [D -> Node]
  BY DEF Buff
<1>2. FreshNode \in Node /\ [data |-> <<>>, read |-> 0, next |-> 1] \in Node
  <2>1. <<>> \in Seq(Nat) /\ 0 \in Nat /\ 1 \in Nat
    OBVIOUS
  <2> QED BY <2>1 DEF FreshNode, Node, Null
<1>3. mb.heap[1] \in Node /\ n \in Nat /\ DOMAIN mb.heap = D
  <2>1. 1 .. InitialNodes \subseteq Nat
    BY BuffAssumption
  <2> QED BY <1>1, <2>1
<1>4. g.read = Cap
  BY <1>3 DEF Node
<1>5. [mb EXCEPT !.heap[mb.read].read = @ + k] = taken
  BY DEF Buff
<1>6. Reader(taken).read = Cap
  BY <1>1, <1>4 DEF Reader, Buff
<1>7. [taken EXCEPT !.read = Reader(mb).next, !.heap[mb.read] = FreshNode] = left
  BY <1>1 DEF Reader, Buff
<1>8. f = IF mb.freeCount > MaxFree
          THEN [left EXCEPT !.heap = Without(@, 1)]
          ELSE [left EXCEPT !.freeCount = (@ + 1) % Width, !.heap[1].next = 1, !.tail = 1]
  <2>1. ~ (Reader(taken).read < Cap)
    BY <1>6, LifetimeValue
  <2>2. AdjustReadSize(mb, k) =
          IF mb.freeCount > MaxFree
          THEN [left EXCEPT !.heap = Without(@, mb.read)]
          ELSE [left EXCEPT !.freeCount = (@ + 1) % Width, !.heap[mb.tail].next = mb.read, !.tail = mb.read]
    <3> HIDE DEF taken, left
    <3> QED BY <1>5, <1>7, <2>1 DEF AdjustReadSize
  <2> HIDE DEF left
  <2> QED BY <2>2
<1>9. CASE mb.freeCount > MaxFree
  <2>1. f = [mb EXCEPT !.heap = Without(h2, 1), !.read = n]
    BY <1>8, <1>9 DEF Buff
  <2>2. Without(h2, 1) = [m \in D \ {1} |-> mb.heap[m]]
    BY <1>1 DEF Without
  <2>3. Without(h2, 1) \in [D \ {1} -> Node]
    BY <1>1, <2>2
  <2>4. f.heap = Without(h2, 1) /\ f.read = n /\ f.write = mb.write
    BY <2>1 DEF Buff
  <2>5. f \in Buff
    <3> DEFINE w == Without(h2, 1)
    <3>1. f = [mb EXCEPT !.heap = w, !.read = n]
      BY <2>1
    <3>2. w \in UNION {[E -> Node] : E \in SUBSET (1 .. InitialNodes)}
      BY <2>3
    <3> HIDE DEF w
    <3> QED BY <1>3, <3>1, <3>2 DEF Buff
  <2>6. DOMAIN f.heap = D \ {1} /\ \A m \in D \ {1} : f.heap[m] = mb.heap[m]
    BY <2>2, <2>4
  <2>7. NodesWithin(f)
    BY <1>1, <2>6 DEF NodesWithin
  <2> QED BY <1>1, <2>4, <2>5, <2>6, <2>7
<1>10. CASE ~ (mb.freeCount > MaxFree)
  <2>1. f = [mb EXCEPT !.heap = h3, !.read = n, !.freeCount = (@ + 1) % Width, !.tail = 1]
    <3>1. f = [left EXCEPT !.freeCount = (@ + 1) % Width, !.heap[1].next = 1, !.tail = 1]
      BY <1>8, <1>10
    <3>2. [h2 EXCEPT ![1].next = 1] = h3
      BY <1>1 DEF FreshNode
    <3>3. left.heap = h2 /\ left.freeCount = mb.freeCount
      BY DEF Buff
    <3>4. [left EXCEPT !.freeCount = (@ + 1) % Width, !.heap[1].next = 1, !.tail = 1]
          = [left EXCEPT !.freeCount = (mb.freeCount + 1) % Width, !.heap = h3, !.tail = 1]
      <4> HIDE DEF left, h2, h3
      <4>1. (left.freeCount + 1) % Width = (mb.freeCount + 1) % Width
            /\ [left.heap EXCEPT ![1].next = 1] = h3
        BY ONLY <3>2, <3>3
      <4> QED BY ONLY <4>1, Zenon
    <3> DEFINE c == (mb.freeCount + 1) % Width
    <3>5. f = [left EXCEPT !.freeCount = c, !.heap = h3, !.tail = 1]
      BY ONLY <3>1, <3>4
    <3> HIDE DEF c, h2, h3
    <3>6. f = [mb EXCEPT !.heap = h3, !.read = n, !.freeCount = c, !.tail = 1]
      BY ONLY <3>5, mb \in Buff DEF Buff
    <3> QED BY ONLY <3>6 DEF c
  <2>2. h3 \in [D -> Node]
    BY <1>1, <1>2
  <2>3. f.heap = h3 /\ f.read = n /\ f.write = mb.write
    BY <2>1 DEF Buff
  <2>4. f \in Buff
    <3> DEFINE c == (mb.freeCount + 1) % Width
    <3>1. c \in 0 .. Width - 1
      BY CountWraps
    <3>2. f = [mb EXCEPT !.heap = h3, !.read = n, !.freeCount = c, !.tail = 1]
      BY <2>1
    <3>3. h3 \in UNION {[E -> Node] : E \in SUBSET (1 .. InitialNodes)}
      BY <2>2
    <3> HIDE DEF h3, c
    <3> QED BY <1>3, <3>1, <3>2, <3>3 DEF Buff
  <2>5. /\ DOMAIN f.heap = D /\ \A m \in D \ {1} : f.heap[m] = mb.heap[m]
        /\ f.heap[1].data = <<>> /\ f.heap[1].read = 0
    BY <1>1, <2>3
  <2>6. NodesWithin(f)
    <3>1. Len(<<>>) = 0 /\ 0 <= Cap
      BY LifetimeValue
    <3>2. ASSUME NEW m \in D
          PROVE  Len(f.heap[m].data) <= Cap /\ f.heap[m].read <= Len(f.heap[m].data)
      <4>1. CASE m = 1
        BY <2>5, <3>1, <4>1
      <4>2. CASE m # 1
        <5>1. f.heap[m] = mb.heap[m]
          BY <2>5, <4>2
        <5> QED BY <1>3, <5>1 DEF NodesWithin
      <4> QED BY <4>1, <4>2
    <3> QED BY <2>5, <3>2 DEF NodesWithin
  <2> QED BY <1>1, <2>3, <2>4, <2>5, <2>6
<1> QED BY <1>9, <1>10

LEMMA ConsumeStep ==
  ASSUME IInv, Consume
  PROVE  IInv'
<1>0. /\ received \in Nat /\ Cap \in Nat /\ Lifetime \in Nat /\ 0 \in Nat
      /\ mb \in Buff /\ NodesWithin(mb) /\ pc = "notified" /\ pc' = pc /\ received' = received
      /\ received # Lifetime /\ received <= Lifetime
  BY LifetimeValue DEF IInv, Consume, InFirst, InBoth, InSecond, WritesIn
<1>1. PICK k \in 0 .. Readable(mb) :
        /\ handed' = handed \o SubSeq(ReadBuff(mb), 1, k)
        /\ mb' = AdjustReadSize(mb, k)
  BY DEF Consume
<1>2. pc' \in States /\ received' \in 0 .. Lifetime
  BY <1>0 DEF States
<1>3. CASE InFirst
  <2> DEFINE i == mb.heap[1].read
             j == i + k
  <2>1. /\ 1 \in DOMAIN mb.heap /\ mb.read = 1 /\ Holds(1, 0, received) /\ Taken(1, 0)
        /\ i \in Nat /\ i <= received
    BY <1>0, <1>3, NodeTypes DEF InFirst, Holds, Taken
  <2>2. k \in Nat /\ i + k <= received /\ TakenWith(1, 0, k)
    BY <1>0, <2>1, TakeValue
  <2>3. received < Cap
    BY <1>0, <1>3, LifetimeValue DEF InFirst
  <2>4. j \in Nat /\ j = i + k /\ j < Cap /\ j <= received
    BY <1>0, <2>1, <2>2, <2>3
  <2>5. Len(mb.heap[1].data) = received
    BY <1>0, <2>1, StretchType DEF Holds
  <2>6. mb.heap[1].read = i
    OBVIOUS
  <2> HIDE DEF i, j
  <2>7. /\ mb' \in Buff /\ NodesWithin(mb') /\ DOMAIN mb'.heap = DOMAIN mb.heap
        /\ \A m \in DOMAIN mb.heap \ {1} : mb'.heap[m] = mb.heap[m]
        /\ mb'.heap[1].read = j /\ mb'.heap[1].data = mb.heap[1].data
        /\ mb'.heap[1].next = mb.heap[1].next
        /\ mb'.read = mb.read /\ mb'.tail = mb.tail /\ mb'.write = mb.write
    BY <1>0, <1>1, <2>1, <2>2, <2>4, <2>5, <2>6, StaysValue
  <2>8. Holds(1, 0, received)' /\ Taken(1, 0)'
    <3>1. mb'.heap[1].read = mb.heap[1].read + k
      BY <2>4, <2>6, <2>7
    <3>2. Taken(1, 0)'
      BY <1>1, <2>2, <3>1 DEF Taken, TakenWith
    <3> QED BY <1>0, <2>1, <2>7, <3>2 DEF Holds
  <2>9. WritesIn(1)'
    BY <1>0, <1>3, <2>7 DEF InFirst, WritesIn
  <2>10. Second # Null => Second \in DOMAIN mb'.heap /\ mb'.heap[Second] = FreshNode
    BY <1>3, <2>7, LifetimeValue DEF InFirst
  <2>11. InFirst'
    BY <1>0, <1>3, <2>3, <2>4, <2>7, <2>8, <2>9, <2>10 DEF InFirst
  <2> QED BY <1>2, <2>7, <2>11 DEF IInv
<1>4. CASE InBoth
  <2> DEFINE i == mb.heap[1].read
             j == i + k
  <2>1. /\ 1 \in DOMAIN mb.heap /\ mb.read = 1 /\ Holds(1, 0, Cap) /\ Taken(1, 0)
        /\ i \in Nat /\ i < Cap /\ i <= Cap
        /\ Second \in DOMAIN mb.heap /\ Second # 1 /\ mb.tail = 1 /\ mb.heap[1].next = Second
    BY <1>0, <1>4, NodeTypes, LifetimeValue DEF InBoth, Holds, Taken
  <2>2. k \in Nat /\ i + k <= Cap /\ TakenWith(1, 0, k)
    BY <1>0, <2>1, TakeValue
  <2>3. j \in Nat /\ j = i + k /\ j <= Cap
    BY <1>0, <2>1, <2>2
  <2>4. Len(mb.heap[1].data) = Cap
    BY <1>0, <2>1, StretchType DEF Holds
  <2>5. mb.heap[1].read = i
    OBVIOUS
  <2> HIDE DEF i, j
  <2>6. CASE j < Cap
    <3>1. /\ mb' \in Buff /\ NodesWithin(mb') /\ DOMAIN mb'.heap = DOMAIN mb.heap
          /\ \A m \in DOMAIN mb.heap \ {1} : mb'.heap[m] = mb.heap[m]
          /\ mb'.heap[1].read = j /\ mb'.heap[1].data = mb.heap[1].data
          /\ mb'.heap[1].next = mb.heap[1].next
          /\ mb'.read = mb.read /\ mb'.tail = mb.tail /\ mb'.write = mb.write
      BY <1>0, <1>1, <2>1, <2>2, <2>3, <2>4, <2>5, <2>6, StaysValue
    <3>2. Holds(1, 0, Cap)' /\ Taken(1, 0)'
      <4>1. mb'.heap[1].read = mb.heap[1].read + k
        BY <2>3, <2>5, <3>1
      <4>2. Taken(1, 0)'
        BY <1>1, <2>2, <4>1 DEF Taken, TakenWith
      <4> QED BY <1>0, <2>1, <3>1, <4>2 DEF Holds
    <3>3. mb'.heap[Second] = mb.heap[Second] /\ Second \in DOMAIN mb'.heap
      BY <2>1, <3>1
    <3>4. Holds(Second, Cap, received - Cap)' /\ WritesIn(Second)'
      BY <1>0, <1>4, <3>1, <3>3 DEF InBoth, Holds, WritesIn
    <3>5. InBoth'
      BY <1>0, <1>4, <2>6, <3>1, <3>2, <3>3, <3>4 DEF InBoth
    <3> QED BY <1>2, <3>1, <3>5 DEF IInv
  <2>7. CASE j = Cap
    <3>1. /\ mb' \in Buff /\ NodesWithin(mb')
          /\ Second \in DOMAIN mb'.heap /\ mb'.heap[Second] = mb.heap[Second]
          /\ mb'.read = Second /\ mb'.write = mb.write
      BY <1>0, <1>1, <2>1, <2>2, <2>3, <2>5, <2>7, LeavesValue
    <3>2. Holds(Second, Cap, received - Cap)' /\ WritesIn(Second)'
      BY <1>0, <1>4, <3>1 DEF InBoth, Holds, WritesIn
    <3>3. mb'.heap[Second].read = 0 /\ mb'.heap[Second].next = Null
      BY <1>4, <3>1 DEF InBoth
    <3>4. handed' = Stretch(0, Cap)
      <4>1. 0 + (mb.heap[1].read + k) = Cap
        BY <1>0, <2>3, <2>5, <2>7
      <4> QED BY <1>1, <2>2, <4>1 DEF TakenWith
    <3>5. Taken(Second, Cap)'
      BY <1>0, <3>3, <3>4 DEF Taken
    <3>6. 0 <= received - Cap /\ 0 < Cap /\ Cap <= received /\ Second # Null
      BY <1>0, <1>4, LifetimeValue DEF InBoth
    <3>7. InSecond'
      BY <1>0, <3>1, <3>2, <3>3, <3>5, <3>6 DEF InSecond
    <3> QED BY <1>2, <3>1, <3>7 DEF IInv
  <2> QED BY <1>0, <2>3, <2>6, <2>7
<1>5. CASE InSecond
  <2> DEFINE i == mb.heap[Second].read
             j == i + k
             l == received - Cap
  <2>1. /\ Second \in DOMAIN mb.heap /\ mb.read = Second /\ Holds(Second, Cap, l) /\ Taken(Second, Cap)
        /\ i \in Nat /\ l \in Nat /\ i <= l /\ Second # Null /\ Cap <= received
    BY <1>0, <1>5, NodeTypes DEF InSecond, Holds
  <2>2. mb.heap[Second].read = i /\ j = i + k /\ received - Cap = l
    OBVIOUS
  <2>3. l < Cap
    BY <1>0, <2>1, LifetimeValue
  <2> HIDE DEF l
  <2>4. k \in Nat /\ i + k <= l /\ TakenWith(Second, Cap, k)
    BY <1>0, <2>1, TakeValue
  <2> HIDE DEF i, j
  <2>5. j \in Nat /\ j < Cap /\ j <= l
    BY <1>0, <2>1, <2>2, <2>3, <2>4
  <2>6. Len(mb.heap[Second].data) = l
    <3>1. mb.heap[Second].data = Stretch(Cap, l)
      BY <2>1 DEF Holds
    <3> QED BY <1>0, <2>1, <3>1, StretchType
  <2>7. /\ mb' \in Buff /\ NodesWithin(mb') /\ DOMAIN mb'.heap = DOMAIN mb.heap
        /\ mb'.heap[Second].read = j /\ mb'.heap[Second].data = mb.heap[Second].data
        /\ mb'.heap[Second].next = mb.heap[Second].next
        /\ mb'.read = mb.read /\ mb'.write = mb.write
    BY <1>0, <1>1, <2>1, <2>2, <2>4, <2>5, <2>6, StaysValue
  <2>8. Holds(Second, Cap, received - Cap)' /\ Taken(Second, Cap)'
    <3>1. mb'.heap[Second].read = mb.heap[Second].read + k
      BY <2>2, <2>7
    <3>2. Taken(Second, Cap)'
      BY <1>1, <2>4, <3>1 DEF Taken, TakenWith
    <3> QED BY <1>0, <2>1, <2>2, <2>7, <3>2 DEF Holds
  <2>9. WritesIn(Second)'
    BY <1>0, <1>5, <2>7 DEF InSecond, WritesIn
  <2>10. InSecond'
    BY <1>0, <1>5, <2>1, <2>2, <2>5, <2>7, <2>8, <2>9 DEF InSecond
  <2> QED BY <1>2, <2>7, <2>10 DEF IInv
<1> QED BY <1>3, <1>4, <1>5 DEF IInv

\* The steps that leave the bytes where they are.
LEMMA StillStep ==
  ASSUME IInv, mb' = mb, received' = received, handed' = handed, pc' \in States,
         received = Lifetime => pc' \in {"reading", "dead"}
  PROVE  IInv'
<1>1. InFirst => InFirst'
  BY DEF InFirst, Holds, Taken, WritesIn
<1>2. InBoth => InBoth'
  BY DEF InBoth, Holds, Taken, WritesIn
<1>3. InSecond => InSecond'
  BY DEF InSecond, Holds, Taken, WritesIn
<1> QED BY <1>1, <1>2, <1>3 DEF IInv, NodesWithin

LEMMA NextInv ==
  ASSUME IInv, [Next]_vars
  PROVE  IInv'
<1>0. received = Lifetime => pc \in {"reading", "dead"} /\ mb.write = Null
  BY DEF IInv, InFirst, InBoth, InSecond, WritesIn
<1>1. CASE Callback
  BY <1>0, <1>1, StillStep DEF Callback, States
<1>2. CASE FollowNull
  BY <1>2, StillStep DEF FollowNull, States
<1>3. CASE Recv
  BY <1>3, RecvStep
<1>4. CASE RecvNothing
  BY <1>0, <1>4, WriterHasRoom, StillStep DEF RecvNothing, States
<1>5. CASE RecvEnd
  BY <1>0, <1>5, WriterHasRoom, StillStep DEF RecvEnd, States
<1>6. CASE Consume
  BY <1>6, ConsumeStep
<1>7. CASE Notified
  BY <1>0, <1>7, StillStep DEF Notified, States
<1>8. CASE UNCHANGED vars
  BY <1>0, <1>8, StillStep DEF vars, IInv
<1> QED BY <1>1, <1>2, <1>3, <1>4, <1>5, <1>6, <1>7, <1>8 DEF Next

LEMMA Invariant == Spec => []IInv
<1>1. Init => IInv
  BY InitInv
<1>2. IInv /\ [Next]_vars => IInv'
  BY NextInv
<1> QED BY <1>1, <1>2, PTL DEF Spec

-----------------------------------------------------------------------------

\* Types of the state of one connection: the pointers of memoryBuff point to
\* allocated nodes, and no node is read or written past its end.
THEOREM TypeCorrect == Spec => []TypeOK
<1>1. IInv => TypeOK
  BY InvTypeOK
<1> QED BY <1>1, Invariant, PTL

\* What FdBridge::read() received comes out of the nodes in order, whatever
\* the node size, the number of nodes and the sizes of the calls.
THEOREM BytesArriveInOrder == Spec => []ReadInOrder
<1>1. IInv => ReadInOrder
  BY InvReadInOrder
<1> QED BY <1>1, Invariant, PTL

\* GetReadBuff() never hides bytes behind a drained node.
THEOREM ShowsWhatIsThere == Spec => []UnreadIsVisible
<1>1. IInv => UnreadIsVisible
  BY InvUnreadIsVisible
<1> QED BY <1>1, Invariant, PTL

\* read() has room for its first two nodes of bytes (one, if the constructor is
\* asked for one), for every node size, however recv() cuts them and however
\* much the consumer drains and appends meanwhile.
THEOREM RoomUntilNodesAreFull == Spec => []RoomForLifetime
<1>1. IInv => RoomForLifetime
  BY InvRoomForLifetime
<1> QED BY <1>1, Invariant, PTL

-----------------------------------------------------------------------------
(* One iteration of readData(): how much it takes of what there is.        *)

LEMMA ReadableIsLength ==
  ASSUME IInv
  PROVE  Readable(mb) \in Nat /\ mb.read \in DOMAIN mb.heap
<1>1. mb.read \in DOMAIN mb.heap
  BY DEF IInv, InFirst, InBoth, InSecond, Holds
<1>2. mb.heap[mb.read].read \in Nat /\ Len(mb.heap[mb.read].data) \in Nat
  BY <1>1, NodeTypes, LenProperties DEF IInv
<1>3. mb.heap[mb.read].read <= Len(mb.heap[mb.read].data)
  BY <1>1 DEF IInv, NodesWithin
<1> QED BY <1>1, <1>2, <1>3 DEF Readable, Reader

LEMMA PartsFit ==
  ASSUME Readable(mb) \in Nat, size \in 0 .. PackCap, NEW L \in Lengths,
         (size + HeadPart >= HeadSize) => ~TooLong(L), BodyRoom(L) >= 0
  PROVE  /\ HeadPart \in 0 .. Readable(mb)
         /\ BodyPart(L) \in 0 .. Readable(mb) - HeadPart
         /\ Readlen(L) \in 0 .. Readable(mb)
         /\ size + Readlen(L) \in 0 .. PackCap
<1> DEFINE r == Readable(mb)
           h == HeadPart
           b == BodyPart(L)
<1>0. r \in Nat /\ size \in Nat /\ L \in Nat /\ HeadSize \in Nat /\ PackCap \in Nat
      /\ HeadSize <= PackCap /\ size <= PackCap
  BY TcpAssumption DEF Lengths
<1>1. h \in 0 .. r /\ (size < HeadSize => size + h <= HeadSize)
      /\ (size + h < HeadSize => h = r) /\ (size >= HeadSize => h = 0)
  BY <1>0 DEF HeadPart, SmallerOf
<1>2. b = IF L - (size + h) < r - h THEN L - (size + h) ELSE r - h
  BY DEF BodyPart, BodyRoom, SmallerOf
<1>3. L - (size + h) >= 0
  BY DEF BodyRoom
<1>4. (size + h >= HeadSize) => L <= PackCap
  BY <1>0 DEF TooLong
<1>5. Readlen(L) = h + b
  BY DEF Readlen
<1> HIDE DEF r, h, b
<1>6. b \in 0 .. r - h
  BY <1>0, <1>1, <1>2, <1>3
<1>7. CASE size + h >= HeadSize
  <2>1. size + (h + b) <= L
    BY <1>0, <1>1, <1>2, <1>3
  <2> QED BY <1>0, <1>1, <1>4, <1>5, <1>6, <1>7, <2>1 DEF r, h, b
<1>8. CASE size + h < HeadSize
  <2>1. h = r /\ b = 0
    BY <1>0, <1>1, <1>6, <1>8
  <2> QED BY <1>0, <1>1, <1>5, <1>6, <1>8, <2>1 DEF r, h, b
<1> QED BY <1>0, <1>1, <1>7, <1>8

-----------------------------------------------------------------------------
(* The inductive invariant: that of the bridge, the fill of _pData, and    *)
(* what an iteration that has looked at all there was leaves behind.       *)

Drained == Unread # <<>> => mb.read # 1 /\ Reader(mb).read = 0

TcpInv ==
  /\ IInv
  /\ size \in 0 .. PackCap
  /\ again \in BOOLEAN /\ crashed \in BOOLEAN
  /\ pc \in {"idle", "reading"} => again
  /\ pc = "idle" \/ ~again => Drained

LEMMA TakeConsumes ==
  ASSUME TcpInv, Take
  PROVE  Consume /\ size' \in 0 .. PackCap
<1>1. PICK L \in Lengths :
        /\ (size + HeadPart >= HeadSize) => ~TooLong(L)
        /\ BodyRoom(L) >= 0
        /\ mb' = AdjustReadSize(mb, Readlen(L))
        /\ handed' = handed \o SubSeq(ReadBuff(mb), 1, Readlen(L))
        /\ size' = IF size + Readlen(L) > HeadSize /\ size + Readlen(L) = L
                   THEN 0 ELSE size + Readlen(L)
  BY DEF Take, Readlen
<1>2. Readable(mb) \in Nat /\ size \in 0 .. PackCap
  BY ReadableIsLength DEF TcpInv
<1>3. Readlen(L) \in 0 .. Readable(mb) /\ size + Readlen(L) \in 0 .. PackCap
  BY <1>1, <1>2, PartsFit
<1>4. pc = "notified" /\ UNCHANGED <<pc, received>>
  BY DEF Take, Looking
<1>5. Consume
  BY <1>1, <1>3, <1>4 DEF Consume
<1>6. size' \in 0 .. PackCap
  BY <1>1, <1>3, TcpAssumption
<1> QED BY <1>5, <1>6

\* Every step of a TCP connection is one of a connection or leaves it alone.
LEMMA TcpStepIsBridgeStep ==
  ASSUME TcpInv, [TcpNext]_tcpVars
  PROVE  [Next]_vars
<1>1. CASE Callback \/ FollowNull \/ Recv \/ RecvNothing \/ RecvEnd
  BY <1>1 DEF Next
<1>2. CASE Refuse
  BY <1>2 DEF Refuse, Looking, Notified, Next
<1>3. CASE Crash
  BY <1>3 DEF Crash
<1>4. CASE Take
  BY <1>4, TakeConsumes DEF Next
<1>5. CASE Return
  BY <1>5 DEF Return, Notified, Next
<1>6. CASE UNCHANGED tcpVars
  BY <1>6 DEF tcpVars
<1> QED BY <1>1, <1>2, <1>3, <1>4, <1>5, <1>6 DEF TcpNext

\* A node taken to its end is empty, or left for the one behind it.
LEMMA TakesAll ==
  ASSUME IInv, pc = "notified", mb' = AdjustReadSize(mb, Readable(mb))
  PROVE  Drained'
<1> DEFINE k == Readable(mb)
<1>0. /\ received \in Nat /\ Cap \in Nat /\ Lifetime \in Nat /\ 0 \in Nat /\ k \in Nat
      /\ mb \in Buff /\ NodesWithin(mb) /\ received # Lifetime /\ received <= Lifetime
  BY LifetimeValue, ReadableIsLength DEF IInv, InFirst, InBoth, InSecond, WritesIn
<1>1. ASSUME NEW n \in DOMAIN mb.heap, mb.read = n, NEW l \in Nat, Len(mb.heap[n].data) = l
      PROVE  mb.heap[n].read \in Nat /\ mb.heap[n].read + k = l
  <2>1. mb.heap[n].read \in Nat
    BY <1>0, NodeTypes
  <2> QED BY <1>1, <2>1 DEF Readable, Reader
<1> HIDE DEF k
<1>2. CASE InFirst
  <2>1. 1 \in DOMAIN mb.heap /\ mb.read = 1 /\ Len(mb.heap[1].data) = received
    BY <1>0, <1>2, StretchType DEF InFirst, Holds
  <2>2. mb.heap[1].read \in Nat /\ received = mb.heap[1].read + k
    BY <1>0, <1>1, <2>1
  <2>3. received < Cap
    BY <1>0, <1>2, LifetimeValue DEF InFirst
  <2>4. /\ DOMAIN mb'.heap = DOMAIN mb.heap /\ mb'.read = 1
        /\ \A m \in DOMAIN mb.heap \ {1} : mb'.heap[m] = mb.heap[m]
        /\ mb'.heap[1].read = received /\ mb'.heap[1].data = mb.heap[1].data
        /\ mb'.heap[1].next = Second
    <3>1. mb' = AdjustReadSize(mb, k)
      BY DEF k
    <3>2. received <= Len(mb.heap[1].data)
      BY <1>0, <2>1
    <3>3. mb.heap[1].next = Second
      BY <1>2 DEF InFirst
    <3> QED BY <1>0, <2>1, <2>2, <2>3, <3>1, <3>2, <3>3, StaysValue
  <2>5. ReadBuff(mb)' = <<>>
    BY <1>0, <2>1, <2>4 DEF ReadBuff, Reader
  <2>6. Second # Null => mb'.heap[Second].data = <<>>
    BY <1>2, <2>4, LifetimeValue DEF InFirst, FreshNode
  <2>7. Unread' = <<>>
    BY <2>4, <2>5, <2>6 DEF Unread, Reader, Null
  <2> QED BY <2>7 DEF Drained
<1>3. CASE InBoth
  <2>1. /\ 1 \in DOMAIN mb.heap /\ mb.read = 1 /\ Len(mb.heap[1].data) = Cap
        /\ Second \in DOMAIN mb.heap /\ Second # 1 /\ mb.tail = 1 /\ mb.heap[1].next = Second
    BY <1>0, <1>3, StretchType, LifetimeValue DEF InBoth, Holds
  <2>2. mb.heap[1].read + k = Cap
    BY <1>0, <1>1, <2>1
  <2>3. mb'.read = Second /\ mb'.heap[Second] = mb.heap[Second]
    <3>1. mb' = AdjustReadSize(mb, k)
      BY DEF k
    <3> QED BY <1>0, <2>1, <2>2, <3>1, LeavesValue
  <2> QED BY <1>3, <2>1, <2>3 DEF InBoth, Drained, Reader
<1>4. CASE InSecond
  <2> DEFINE l == received - Cap
  <2>0. l \in Nat /\ l < Cap /\ mb.heap[Second].data = Stretch(Cap, l)
    BY <1>0, <1>4, LifetimeValue DEF InSecond, Holds
  <2> HIDE DEF l
  <2>1. /\ Second \in DOMAIN mb.heap /\ mb.read = Second /\ Len(mb.heap[Second].data) = l
        /\ mb.heap[Second].next = Null
    BY <1>0, <1>4, <2>0, StretchType DEF InSecond, Holds
  <2>2. mb.heap[Second].read \in Nat /\ l = mb.heap[Second].read + k
    BY <1>0, <1>1, <2>0, <2>1
  <2>3. /\ DOMAIN mb'.heap = DOMAIN mb.heap /\ mb'.read = Second
        /\ mb'.heap[Second].read = l /\ mb'.heap[Second].data = mb.heap[Second].data
        /\ mb'.heap[Second].next = Null
    <3>1. mb' = AdjustReadSize(mb, k)
      BY DEF k
    <3>2. l <= Len(mb.heap[Second].data)
      BY <2>0, <2>1
    <3> QED BY <1>0, <2>0, <2>1, <2>2, <3>1, <3>2, StaysValue
  <2>4. ReadBuff(mb)' = <<>>
    BY <2>0, <2>1, <2>3 DEF ReadBuff, Reader
  <2>5. Unread' = <<>>
    BY <2>3, <2>4 DEF Unread, Reader
  <2> QED BY <2>5 DEF Drained
<1> QED BY <1>2, <1>3, <1>4 DEF IInv

LEMMA TcpInitInv ==
  ASSUME TcpInit
  PROVE  TcpInv
<1>1. IInv
  BY InitInv DEF TcpInit
<1>2. size \in 0 .. PackCap
  BY TcpAssumption DEF TcpInit
<1>3. Unread = <<>>
  <2>1. received = 0 /\ handed = <<>> /\ ReadInOrder
    BY <1>1, InvReadInOrder DEF TcpInit, Init
  <2>2. Unread = handed \o Unread
    <3>1. PICK r \in 0 .. received : ReadUpTo(r)
      BY <1>1, TakenValue
    <3>2. r \in Nat /\ 0 \in Nat /\ received \in Nat /\ received = r + 0
      BY <2>1, <3>1
    <3>3. Unread = Stretch(r, 0)
      BY <1>1, <3>1, <3>2, UnreadValue DEF ReadUpTo
    <3> QED BY <2>1, <3>3 DEF Stretch
  <2>3. [i \in 1 .. 0 |-> i] = <<>>
    OBVIOUS
  <2> QED BY <2>1, <2>2, <2>3 DEF ReadInOrder
<1> QED BY <1>1, <1>2, <1>3 DEF TcpInit, TcpInv, Drained

LEMMA TcpNextInv ==
  ASSUME TcpInv, [TcpNext]_tcpVars
  PROVE  TcpInv'
<1>1. IInv'
  BY TcpStepIsBridgeStep, NextInv DEF TcpInv
<1>2. ASSUME Callback \/ FollowNull \/ Recv \/ RecvNothing \/ RecvEnd,
             UNCHANGED <<size, again, crashed>>
      PROVE  TcpInv'
  <2>1. pc = "idle" \/ pc = "reading"
    BY <1>2 DEF Callback, FollowNull, Recv, RecvNothing, RecvEnd
  <2>2. pc' # "idle" /\ again
    <3>1. CASE pc = "reading"
      BY <1>2, <3>1 DEF Callback, FollowNull, Recv, RecvNothing, RecvEnd, TcpInv
    <3>2. CASE pc = "idle"
      BY <1>2, <3>2 DEF Callback, FollowNull, Recv, RecvNothing, RecvEnd, TcpInv
    <3> QED BY <2>1, <3>1, <3>2
  <2> QED BY <1>1, <1>2, <2>2 DEF TcpInv
<1>3. CASE Refuse
  <2>1. again /\ pc' = "closed" /\ UNCHANGED <<size, again, crashed>>
    BY <1>3 DEF Refuse, Looking
  <2> QED BY <1>1, <2>1 DEF TcpInv
<1>4. CASE Crash
  <2>1. UNCHANGED <<mb, pc, received, handed, size, again>> /\ crashed' \in BOOLEAN
    BY <1>4 DEF Crash, vars
  <2>2. Drained => Drained'
    BY <2>1 DEF Drained, Unread, Reader, ReadBuff
  <2> QED BY <1>1, <2>1, <2>2 DEF TcpInv
<1>5. CASE Take
  <2>1. size' \in 0 .. PackCap
    BY <1>5, TakeConsumes
  <2>2. PICK L \in Lengths : /\ mb' = AdjustReadSize(mb, Readlen(L))
                             /\ again' = ~LookedAtAll(Readlen(L))
    BY <1>5 DEF Take
  <2>3. pc = "notified" /\ pc' = "notified" /\ crashed' = crashed
    BY <1>5 DEF Take, Looking
  <2>4. ~again' => Drained'
    <3>1. ~again' => Readlen(L) = Readable(mb)
      BY <2>2 DEF LookedAtAll
    <3> QED BY <2>2, <2>3, <3>1, TakesAll DEF TcpInv
  <2> QED BY <1>1, <2>1, <2>2, <2>3, <2>4 DEF TcpInv
<1>6. CASE Return
  <2>1. ~again /\ again' = TRUE /\ pc' = "idle" /\ UNCHANGED <<mb, received, handed, size, crashed>>
    BY <1>6 DEF Return
  <2>2. Drained'
    BY <2>1 DEF TcpInv, Drained, Unread, Reader, ReadBuff
  <2> QED BY <1>1, <2>1, <2>2 DEF TcpInv
<1>7. CASE UNCHANGED tcpVars
  <2>1. UNCHANGED <<mb, pc, received, handed, size, again, crashed>>
    BY <1>7 DEF tcpVars, vars
  <2>2. Drained => Drained'
    BY <2>1 DEF Drained, Unread, Reader, ReadBuff
  <2> QED BY <1>1, <2>1, <2>2 DEF TcpInv
<1> QED BY <1>2, <1>3, <1>4, <1>5, <1>6, <1>7 DEF TcpNext

LEMMA TcpInvariant == TcpSpec => []TcpInv
<1>1. TcpInit => TcpInv
  BY TcpInitInv
<1>2. TcpInv /\ [TcpNext]_tcpVars => TcpInv'
  BY TcpNextInv
<1> QED BY <1>1, <1>2, PTL DEF TcpSpec

-----------------------------------------------------------------------------

\* A TCP connection is a connection of FdBridge: TcpStickyWrap::readData()
\* never takes more than GetReadBuff() shows, whatever length it reads
\* through _head.
THEOREM TcpIsABridge == TcpSpec => ImplementsBridge
<1>1. TcpInit => Init
  BY DEF TcpInit
<1>2. TcpInv /\ [TcpNext]_tcpVars => [Next]_vars
  BY TcpStepIsBridgeStep
<1> QED BY <1>1, <1>2, TcpInvariant, PTL DEF TcpSpec, Spec, ImplementsBridge

\* _pData is never written past its end, however the lengths of successive
\* iterations contradict each other.
THEOREM PackNeverOverflows == TcpSpec => []PackFits
<1>1. TcpInv => PackFits
  BY TcpAssumption DEF TcpInv, PackFits
<1> QED BY <1>1, TcpInvariant, PTL

\* The only bytes client_read_cb() leaves behind are those of a node readData()
\* has not looked at: the one it moved to when it drained the node before.
THEOREM WaitsBehindDrained == TcpSpec => []WaitsOnlyBehindDrained
<1>1. TcpInv => WaitsOnlyBehindDrained
  BY DEF TcpInv, Drained, WaitsOnlyBehindDrained
<1> QED BY <1>1, TcpInvariant, PTL

\* The stream of a TCP connection leaves the receive buffer in order: what
\* FdBridge promises any consumer holds for readData().
THEOREM TcpBytesArriveInOrder == TcpSpec => []ReadInOrder
<1>1. TcpInv => ReadInOrder
  BY InvReadInOrder DEF TcpInv
<1> QED BY <1>1, TcpInvariant, PTL

=============================================================================
