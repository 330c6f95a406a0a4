--------------------------- MODULE HandlerProofs ---------------------------
(***************************************************************************)
(* Proofs about Handler, for every amount of data, every size of the       *)
(* chunks and of the send queue.                                           *)
(***************************************************************************)
EXTENDS Handler, SequenceTheorems, TLAPS

Byte == 1 .. MaxBytes

-----------------------------------------------------------------------------
(* Sequences.  Cat keeps the provers from expanding concatenations.        *)

Cat(s, t) == s \o t

LEMMA CatType ==
  ASSUME NEW S, NEW s \in Seq(S), NEW t \in Seq(S)
  PROVE  Cat(s, t) \in Seq(S) /\ Len(Cat(s, t)) = Len(s) + Len(t)
BY ConcatProperties DEF Cat

LEMMA CatAssociative ==
  ASSUME NEW S, NEW s \in Seq(S), NEW t \in Seq(S), NEW u \in Seq(S)
  PROVE  Cat(Cat(s, t), u) = Cat(s, Cat(t, u))
BY ConcatAssociative DEF Cat

\* What recv() and write() take from the head of a queue, and what they leave.
LEMMA Split ==
  ASSUME NEW S, NEW s \in Seq(S), NEW n \in 0 .. Len(s)
  PROVE  /\ First(s, n) \in Seq(S) /\ Len(First(s, n)) = n
         /\ Rest(s, n) \in Seq(S)
         /\ Cat(First(s, n), Rest(s, n)) = s
<1>1. Len(s) \in Nat
  BY LenProperties
<1>2. SubSeq(s, 1, n) \in Seq(S) /\ Len(SubSeq(s, 1, n)) = n
  <2>1. \A i \in 1 .. n : s[i] \in S
    BY <1>1, ElementOfSeq
  <2> QED BY <2>1, SubSeqProperties
<1>3. SubSeq(s, n + 1, Len(s)) \in Seq(S)
  <2>1. \A i \in n + 1 .. Len(s) : s[i] \in S
    BY <1>1, ElementOfSeq
  <2> QED BY <1>1, <2>1, SubSeqProperties
<1>4. SubSeq(s, 1, n) \o SubSeq(s, n + 1, Len(s)) = SubSeq(s, 1, Len(s))
  <2>1. /\ 1 \in 1 .. Len(s) + 1 /\ n \in 1 - 1 .. Len(s) /\ Len(s) \in n .. Len(s)
    BY <1>1
  <2> QED BY <2>1, ConcatAdjacentSubSeq
<1>5. SubSeq(s, 1, Len(s)) = s
  BY SubSeqFull
<1> QED BY <1>2, <1>3, <1>4, <1>5 DEF First, Rest, Cat

\* Moving bytes from the head of one queue to the end of the queue before it.
LEMMA Move ==
  ASSUME NEW S, NEW a \in Seq(S), NEW b \in Seq(S), NEW x \in Seq(S), NEW n \in 0 .. Len(b)
  PROVE  /\ Cat(Cat(a, First(b, n)), Cat(Rest(b, n), x)) = Cat(a, Cat(b, x))
         /\ Cat(Cat(a, First(b, n)), Rest(b, n)) = Cat(a, b)
<1> DEFINE f == First(b, n)
           r == Rest(b, n)
<1>1. f \in Seq(S) /\ r \in Seq(S) /\ Cat(f, r) = b
  BY Split
<1> HIDE DEF f, r
<1>2. Cat(r, x) \in Seq(S)
  BY <1>1, CatType
<1>3. Cat(Cat(a, f), Cat(r, x)) = Cat(a, Cat(f, Cat(r, x)))
  BY <1>1, <1>2, CatAssociative
<1>4. Cat(f, Cat(r, x)) = Cat(Cat(f, r), x)
  BY <1>1, CatAssociative
<1>5. Cat(Cat(a, f), r) = Cat(a, Cat(f, r))
  BY <1>1, CatAssociative
<1> QED BY <1>1, <1>3, <1>4, <1>5 DEF f, r

\* The end of the last queue is the end of all of them.
LEMMA AtTheEnd ==
  ASSUME NEW S, NEW a \in Seq(S), NEW b \in Seq(S), NEW c \in S
  PROVE  Cat(a, Append(b, c)) = Append(Cat(a, b), c)
<1> DEFINE u == <<c>>
           ab == Cat(a, b)
<1>1. u \in Seq(S)
  OBVIOUS
<1>2. Append(b, c) = Cat(b, u)
  BY AppendIsConcat DEF Cat
<1>3. ab \in Seq(S)
  BY CatType
<1>4. Append(ab, c) = Cat(ab, u)
  <2> HIDE DEF ab
  <2> QED BY <1>3, AppendIsConcat DEF Cat
<1>5. Cat(a, Cat(b, u)) = Cat(ab, u)
  <2> HIDE DEF u
  <2> QED BY <1>1, CatAssociative
<1>6. Cat(a, Append(b, c)) = Append(ab, c)
  <2> HIDE DEF u, ab
  <2> QED BY <1>2, <1>4, <1>5
<1> QED BY <1>6

-----------------------------------------------------------------------------
(* The inductive invariant.                                                *)

InOrder == arrived = Cat(echoed, Cat(outbox, Cat(write_buf_, Cat(read_buf_, inbox))))

IInv == /\ TypeOK
        /\ InOrder
        /\ ReadsOnlyWhenWritten
        /\ NothingLeftToEcho
        /\ PendingFits

LEMMA InOrderIsEchoInOrder == InOrder <=> EchoInOrder
BY DEF InOrder, EchoInOrder, Cat

-----------------------------------------------------------------------------

\* The initial state satisfies the invariant.
LEMMA InitIInv == Init => IInv
<1> SUFFICES ASSUME Init PROVE IInv
  OBVIOUS
<1>1. <<>> \in Seq(Byte) /\ Len(<<>>) = 0 /\ Cat(<<>>, <<>>) = <<>>
  BY EmptySeq, ConcatEmptySeq DEF Cat
<1>2. TypeOK
  BY <1>1, HandlerAssumption DEF Init, TypeOK, Byte
<1>3. InOrder
  BY <1>1 DEF Init, InOrder
<1> QED BY <1>2, <1>3 DEF Init, IInv, ReadsOnlyWhenWritten, NothingLeftToEcho, PendingFits

\* A byte of the peer's goes to the end of the kernel's queue.
LEMMA PeerSendsIInv ==
  ASSUME IInv, PeerSends
  PROVE  IInv'
<1> DEFINE c == Len(arrived) + 1
           q1 == Cat(read_buf_, inbox)
           q2 == Cat(write_buf_, q1)
           q3 == Cat(outbox, q2)
<1>1. /\ c \in Byte /\ arrived \in Seq(Byte) /\ inbox \in Seq(Byte) /\ read_buf_ \in Seq(Byte)
      /\ write_buf_ \in Seq(Byte) /\ outbox \in Seq(Byte) /\ echoed \in Seq(Byte)
  BY HandlerAssumption DEF IInv, TypeOK, PeerSends, Byte
<1>2. arrived' = Append(arrived, c) /\ inbox' = Append(inbox, c)
  BY DEF PeerSends
<1>3. q1 \in Seq(Byte) /\ q2 \in Seq(Byte) /\ q3 \in Seq(Byte)
  BY <1>1, CatType
<1>4. arrived = Cat(echoed, q3)
  BY DEF IInv, InOrder
<1> HIDE DEF c
<1>5. Cat(read_buf_, Append(inbox, c)) = Append(q1, c)
  BY <1>1, AtTheEnd
<1> HIDE DEF q1
<1>6. Cat(write_buf_, Append(q1, c)) = Append(q2, c)
  BY <1>1, <1>3, AtTheEnd
<1> HIDE DEF q2
<1>7. Cat(outbox, Append(q2, c)) = Append(q3, c)
  BY <1>1, <1>3, AtTheEnd
<1> HIDE DEF q3
<1>8. Cat(echoed, Append(q3, c)) = Append(Cat(echoed, q3), c)
  BY <1>1, <1>3, AtTheEnd
<1>9. InOrder'
  BY <1>2, <1>4, <1>5, <1>6, <1>7, <1>8 DEF InOrder, PeerSends
<1>10. TypeOK'
  <2>1. Append(arrived, c) \in Seq(Byte) /\ Append(inbox, c) \in Seq(Byte)
    BY <1>1, AppendProperties
  <2> QED BY <1>2, <2>1 DEF IInv, TypeOK, PeerSends, Byte
<1> QED BY <1>9, <1>10
        DEF IInv, PeerSends, ReadsOnlyWhenWritten, NothingLeftToEcho, PendingFits

\* The peer receives the oldest written byte.
LEMMA PeerReceivesIInv ==
  ASSUME IInv, PeerReceives
  PROVE  IInv'
<1> DEFINE q2 == Cat(write_buf_, Cat(read_buf_, inbox))
<1>1. /\ inbox \in Seq(Byte) /\ read_buf_ \in Seq(Byte) /\ write_buf_ \in Seq(Byte)
      /\ outbox \in Seq(Byte) /\ echoed \in Seq(Byte) /\ outbox # <<>>
  BY DEF IInv, TypeOK, PeerReceives, Byte
<1>2. q2 \in Seq(Byte)
  BY <1>1, CatType
<1>3. Len(outbox) \in Nat /\ 1 \in 0 .. Len(outbox)
  BY <1>1, EmptySeq
<1>4. First(outbox, 1) = <<Head(outbox)>> /\ Rest(outbox, 1) = Tail(outbox)
  <2>1. SubSeq(outbox, 1, 1) = <<outbox[1]>> /\ outbox[1] = Head(outbox)
    <3>1. 1 \in 1 .. Len(outbox) /\ 1 \in 1 .. 1
      BY <1>3, <1>1, EmptySeq
    <3>2. SubSeq(outbox, 1, 1) = <<outbox[1]>> \o SubSeq(outbox, 2, 1)
      BY <3>1, <1>1, SubSeqRecursiveFirst
    <3>3. SubSeq(outbox, 2, 1) = <<>> /\ <<outbox[1]>> \in Seq(Byte)
      BY <3>1, <1>1, ElementOfSeq, SubSeqEmpty
    <3> DEFINE u == <<outbox[1]>>
    <3>4. u \o <<>> = u
      <4> HIDE DEF u
      <4> QED BY <3>3, ConcatEmptySeq DEF u
    <3>5. outbox[1] = Head(outbox)
      BY ONLY <1>1, HeadTailProperties
    <3> QED BY ONLY <3>2, <3>3, <3>4, <3>5
  <2> QED BY <1>1, <2>1, TailIsSubSeq DEF First, Rest
<1>5. Head(outbox) \in Byte /\ Tail(outbox) \in Seq(Byte) /\ Len(Tail(outbox)) = Len(outbox) - 1
  BY <1>1, HeadTailProperties
<1>6. /\ echoed' = Append(echoed, Head(outbox)) /\ outbox' = Tail(outbox)
      /\ Append(echoed, Head(outbox)) = Cat(echoed, <<Head(outbox)>>)
  BY <1>1, <1>5, AppendIsConcat DEF PeerReceives, Cat
<1>7. InOrder'
  <2> HIDE DEF q2
  <2>1. Cat(Cat(echoed, First(outbox, 1)), Cat(Rest(outbox, 1), q2)) = Cat(echoed, Cat(outbox, q2))
    BY <1>1, <1>2, <1>3, Move
  <2>2. Cat(echoed', Cat(outbox', q2)) = Cat(echoed, Cat(outbox, q2))
    BY ONLY <2>1, <1>4, <1>6
  <2>3. q2' = q2 /\ arrived' = arrived
    BY DEF q2, PeerReceives
  <2> QED BY <2>2, <2>3 DEF IInv, InOrder, q2
<1>8. TypeOK'
  <2>1. Append(echoed, Head(outbox)) \in Seq(Byte) /\ Len(outbox') <= SendRoom
    BY <1>1, <1>3, <1>5, <1>6, AppendProperties, HandlerAssumption DEF IInv, TypeOK
  <2> QED BY <1>5, <1>6, <2>1 DEF IInv, TypeOK, PeerReceives, Byte
<1> QED BY <1>7, <1>8
        DEF IInv, PeerReceives, ReadsOnlyWhenWritten, NothingLeftToEcho, PendingFits

\* recv() moves bytes from the kernel's queue to the end of read_buf_.
LEMMA RecvIInv ==
  ASSUME IInv, Recv
  PROVE  IInv'
<1>1. inbox \in Seq(Byte) /\ read_buf_ \in Seq(Byte) /\ Len(inbox) \in Nat
  BY LenProperties DEF IInv, TypeOK, Byte
<1>2. PICK room \in 1 .. MaxRoom :
        LET n == AtMost(room, Len(inbox))
        IN  /\ read_buf_' = read_buf_ \o First(inbox, n)
            /\ inbox' = Rest(inbox, n)
            /\ pc' = IF n < room THEN "echo" ELSE "recv"
  BY DEF Recv
<1> DEFINE n == AtMost(room, Len(inbox))
<1>3. n \in 0 .. Len(inbox)
  BY <1>1, HandlerAssumption DEF AtMost
<1>4. /\ read_buf_' = Cat(read_buf_, First(inbox, n)) /\ inbox' = Rest(inbox, n)
      /\ pc' \in {"echo", "recv"}
  BY <1>2 DEF Cat
<1> HIDE DEF n
<1>5. First(inbox, n) \in Seq(Byte) /\ Rest(inbox, n) \in Seq(Byte)
  BY <1>1, <1>3, Split
<1>6. Cat(read_buf_', inbox') = Cat(read_buf_, inbox)
  BY <1>1, <1>3, <1>4, Move
<1>7. InOrder'
  BY <1>6 DEF IInv, InOrder, Recv, history
<1>8. TypeOK'
  BY <1>1, <1>4, <1>5, CatType DEF IInv, TypeOK, Recv, history, Byte
<1> QED BY <1>4, <1>7, <1>8
        DEF IInv, Recv, ReadsOnlyWhenWritten, NothingLeftToEcho, PendingFits

\* "echo back" moves all of read_buf_ to the end of write_buf_.
LEMMA EchoBackIInv ==
  ASSUME IInv, EchoBack
  PROVE  IInv'
<1>1. inbox \in Seq(Byte) /\ read_buf_ \in Seq(Byte) /\ write_buf_ \in Seq(Byte)
  BY DEF IInv, TypeOK, Byte
<1>2. write_buf_' = Cat(write_buf_, read_buf_) /\ read_buf_' = <<>> /\ inbox' = inbox
  BY DEF EchoBack, Cat, kernel
<1>3. Cat(<<>>, inbox) = inbox
  BY <1>1, ConcatEmptySeq DEF Cat
<1>4. Cat(write_buf_', Cat(read_buf_', inbox')) = Cat(write_buf_, Cat(read_buf_, inbox))
  BY <1>1, <1>2, <1>3, CatAssociative
<1>5. InOrder'
  BY <1>4 DEF IInv, InOrder, EchoBack, kernel, history
<1>6. TypeOK'
  BY <1>1, <1>2, CatType, EmptySeq DEF IInv, TypeOK, EchoBack, Rearm, kernel, history, Byte
<1> QED BY <1>5, <1>6
        DEF IInv, EchoBack, Rearm, ReadsOnlyWhenWritten, NothingLeftToEcho, PendingFits

\* write() moves bytes from write_buf_ to the end of the kernel's queue.
LEMMA WriteIInv ==
  ASSUME IInv, Write
  PROVE  IInv'
<1> DEFINE q1 == Cat(read_buf_, inbox)
<1>1. /\ inbox \in Seq(Byte) /\ read_buf_ \in Seq(Byte) /\ write_buf_ \in Seq(Byte)
      /\ outbox \in Seq(Byte) /\ Len(outbox) \in Nat /\ Len(write_buf_) \in Nat
      /\ SendRoom \in Nat /\ Len(outbox) < SendRoom
  BY LenProperties, HandlerAssumption DEF IInv, TypeOK, Write, Byte
<1>2. q1 \in Seq(Byte)
  BY <1>1, CatType
<1>3. PICK len \in 1 .. Len(write_buf_) :
        LET n == AtMost(len, SendRoom - Len(outbox))
        IN  /\ outbox' = outbox \o First(write_buf_, n)
            /\ write_buf_' = Rest(write_buf_, n)
  BY DEF Write
<1> DEFINE n == AtMost(len, SendRoom - Len(outbox))
<1>4. n \in 0 .. Len(write_buf_) /\ n <= SendRoom - Len(outbox)
  BY <1>1 DEF AtMost
<1>5. outbox' = Cat(outbox, First(write_buf_, n)) /\ write_buf_' = Rest(write_buf_, n)
  BY <1>3 DEF Cat
<1> HIDE DEF n
<1>6. /\ First(write_buf_, n) \in Seq(Byte) /\ Len(First(write_buf_, n)) = n
      /\ Rest(write_buf_, n) \in Seq(Byte)
  BY <1>1, <1>4, Split
<1>7. outbox' \in Seq(Byte) /\ Len(outbox') <= SendRoom
  <2>1. outbox' \in Seq(Byte) /\ Len(outbox') = Len(outbox) + n
    BY <1>1, <1>5, <1>6, CatType
  <2> QED BY <2>1, <1>1, <1>4
<1>8. InOrder'
  <2> HIDE DEF q1
  <2>1. Cat(outbox', Cat(write_buf_', q1)) = Cat(outbox, Cat(write_buf_, q1))
    BY <1>1, <1>2, <1>4, <1>5, Move
  <2>2. q1' = q1 /\ arrived' = arrived /\ echoed' = echoed
    BY DEF q1, Write, history
  <2> QED BY <2>1, <2>2 DEF IInv, InOrder, q1
<1>9. TypeOK'
  BY <1>5, <1>6, <1>7 DEF IInv, TypeOK, Write, history, Byte
<1> QED BY <1>8, <1>9
        DEF IInv, Write, ReadsOnlyWhenWritten, NothingLeftToEcho, PendingFits

\* The steps that move no byte.
Quiet == \/ PeerLeaves \/ FireRead \/ FireWrite \/ FireTimeout
         \/ RecvWouldBlock \/ RecvFails \/ WriteWouldBlock \/ WriteFails \/ AllWritten

LEMMA QuietIInv ==
  ASSUME IInv, Quiet
  PROVE  IInv'
<1> USE DEF Quiet, kernel, history
<1>1. UNCHANGED <<read_buf_, write_buf_, kernel, history>>
  BY DEF PeerLeaves, FireRead, FireWrite, FireTimeout, RecvWouldBlock, RecvFails,
         WriteWouldBlock, WriteFails, AllWritten
<1>2. InOrder'
  BY <1>1 DEF IInv, InOrder
<1>3. TypeOK'
  <2>1. /\ pc' \in {"loop", "recv", "echo", "write", "deleted"}
        /\ pending' \in {"read", "write", "nothing"}
        /\ peer' \in {"open", "shut", "reset"}
    BY DEF IInv, TypeOK, PeerLeaves, FireRead, FireWrite, FireTimeout, RecvWouldBlock,
           RecvFails, WriteWouldBlock, WriteFails, AllWritten, Delete, Rearm, AfterWouldBlock
  <2> QED BY <1>1, <2>1 DEF IInv, TypeOK
<1>4. ReadsOnlyWhenWritten'
  BY <1>1 DEF IInv, ReadsOnlyWhenWritten, PeerLeaves, FireRead, FireWrite, FireTimeout,
              RecvWouldBlock, RecvFails, WriteWouldBlock, WriteFails, AllWritten, Delete,
              Rearm, AfterWouldBlock, PendingFits
<1>5. NothingLeftToEcho'
  BY <1>1 DEF IInv, NothingLeftToEcho, PeerLeaves, FireRead, FireWrite, FireTimeout,
              RecvWouldBlock, RecvFails, WriteWouldBlock, WriteFails, AllWritten, Delete
<1>6. PendingFits'
  BY <1>1 DEF IInv, PendingFits, PeerLeaves, FireRead, FireWrite, FireTimeout,
              RecvWouldBlock, RecvFails, WriteWouldBlock, WriteFails, AllWritten, Delete,
              Rearm, AfterWouldBlock
<1> QED BY <1>2, <1>3, <1>4, <1>5, <1>6 DEF IInv

THEOREM Inductive == Spec => []IInv
<1>1. ASSUME IInv, Next PROVE IInv'
  BY <1>1, PeerSendsIInv, PeerReceivesIInv, RecvIInv, EchoBackIInv, WriteIInv, QuietIInv
     DEF Next, Peer, Callback, Quiet
<1>2. ASSUME IInv, UNCHANGED vars PROVE IInv'
  BY <1>2 DEF vars, kernel, history, IInv, TypeOK, InOrder, ReadsOnlyWhenWritten,
              NothingLeftToEcho, PendingFits
<1> QED BY <1>1, <1>2, InitIInv, PTL DEF Spec

-----------------------------------------------------------------------------

\* The types, and that the kernel's send queue is never overfilled.
THEOREM TypeCorrect == Spec => []TypeOK
<1>1. IInv => TypeOK
  BY DEF IInv
<1> QED BY <1>1, Inductive, PTL

\* The echo keeps every byte and their order, whatever recv() returns and
\* write() accepts, until the handler is deleted.
THEOREM BytesAreEchoedInOrder == Spec => []EchoInOrder
<1>1. IInv => EchoInOrder
  BY InOrderIsEchoInOrder DEF IInv
<1> QED BY <1>1, Inductive, PTL

\* The handler reads only when everything read before is written.
THEOREM WritesBeforeReading == Spec => []ReadsOnlyWhenWritten
<1>1. IInv => ReadsOnlyWhenWritten
  BY DEF IInv
<1> QED BY <1>1, Inductive, PTL

\* Between callbacks no byte is in read_buf_, and the event waits for room
\* exactly while there are bytes to write.
THEOREM EventFits == Spec => [](NothingLeftToEcho /\ PendingFits)
<1>1. IInv => NothingLeftToEcho /\ PendingFits
  BY DEF IInv
<1> QED BY <1>1, Inductive, PTL
=============================================================================
