------------------------------ MODULE FdBridge ------------------------------
(***************************************************************************)
(* One connection of ExtNet receiving: FdBridge::read() (FdBridge.cpp) on  *)
(* its memoryBuff, called by the read callback of the connection's event.  *)
(* The kernel is external: recv() gives some of what has arrived.          *)
(* notifyred() is left open: the consumer takes what it likes of what      *)
(* GetReadBuff() shows, as often as it likes, and accepts or refuses it    *)
(* (TcpStickyWrap::readData takes part of a node, WsConnect::readData all  *)
(* of several).  The i-th byte of the stream is the number i.              *)
(***************************************************************************)
EXTENDS MemoryBuff

VARIABLES
  mb,        \* _buff
  pc,        \* idle: no callback; reading: in the loop of read(), before
             \* GetWriteBuff(); notified: in notifyred(); closed: the
             \* connection is deleted; dead: a null pointer was followed
  received,  \* how many bytes recv() has given
  handed     \* the bytes the consumer has taken

vars == <<mb, pc, received, handed>>

Init == mb = NewBuff /\ pc = "idle" /\ received = 0 /\ handed = <<>>

\* client_read_cb() with EV_READ: the socket has bytes, its end or an error.
Callback ==
  /\ pc = "idle"
  /\ pc' = "reading"
  /\ UNCHANGED <<mb, received, handed>>

\* GetWriteBuff() follows _pWrite, null once the last node is full.
FollowNull ==
  /\ pc = "reading" /\ mb.write = Null
  /\ pc' = "dead"
  /\ UNCHANGED <<mb, received, handed>>

\* recv() gives k bytes; the loop goes on if they fill what was offered.
Recv ==
  /\ pc = "reading" /\ mb.write # Null
  /\ LET offered == GetWriteBuff(mb)
     IN  \E k \in 1 .. Room(offered) :
           /\ mb' = Fill(offered, [i \in 1 .. k |-> received + i])
           /\ received' = received + k
           /\ pc' = IF k < Room(offered) THEN "notified" ELSE "reading"
  /\ UNCHANGED handed

\* EAGAIN, EWOULDBLOCK or EINTR.
RecvNothing ==
  /\ pc = "reading" /\ mb.write # Null
  /\ mb' = GetWriteBuff(mb)
  /\ pc' = "notified"
  /\ UNCHANGED <<received, handed>>

\* End of stream or an error: read() returns -1, notifyred() is not called
\* and the callback deletes the connection.
RecvEnd ==
  /\ pc = "reading" /\ mb.write # Null
  /\ mb' = GetWriteBuff(mb)
  /\ pc' = "closed"
  /\ UNCHANGED <<received, handed>>

\* The consumer looks with GetReadBuff() and takes k bytes.
Consume ==
  /\ pc = "notified"
  /\ \E k \in 0 .. Readable(mb) :
       /\ handed' = handed \o SubSeq(ReadBuff(mb), 1, k)
       /\ mb' = AdjustReadSize(mb, k)
  /\ UNCHANGED <<pc, received>>

\* notifyred() returns: less than 0 closes the connection.
Notified ==
  /\ pc = "notified"
  /\ pc' \in {"idle", "closed"}
  /\ UNCHANGED <<mb, received, handed>>

Next ==
  \/ Callback \/ FollowNull \/ Recv \/ RecvNothing \/ RecvEnd
  \/ Consume \/ Notified

Spec == Init /\ [][Next]_vars

-----------------------------------------------------------------------------

\* The bytes the nodes that the constructor has linked have room for.
Lifetime == IF InitialNodes = 1 THEN Cap ELSE 2 * Cap

\* What has been written and not taken: the rest of the node being read and,
\* behind it, the node that follows.
Unread ==
  IF mb.read = Null THEN <<>>
  ELSE ReadBuff(mb) \o (IF Reader(mb).next = Null THEN <<>>
                        ELSE mb.heap[Reader(mb).next].data)

\* Types of the state of one connection.
TypeOK ==
  /\ pc \in {"idle", "reading", "notified", "closed", "dead"}
  /\ received \in 0 .. Lifetime
  /\ handed \in Seq(1 .. Lifetime)
  /\ mb.read \in DOMAIN mb.heap \cup {Null}
  /\ mb.write \in DOMAIN mb.heap \cup {Null}
  /\ mb.freeCount \in 0 .. Width - 1
  /\ \A n \in DOMAIN mb.heap :
       /\ mb.heap[n].read \in 0 .. Len(mb.heap[n].data)
       /\ Len(mb.heap[n].data) <= Cap

\* Nothing recv() gave is lost, doubled or overtaken on its way through the
\* nodes: what the consumer took and what it can still take is the stream.
ReadInOrder == handed \o Unread = [i \in 1 .. received |-> i]

\* GetReadBuff() shows bytes whenever there are bytes: the reader leaves each
\* node as soon as it has drained it.
UnreadIsVisible ==
  pc = "notified" => mb.read # Null /\ (Readable(mb) = 0 => Unread = <<>>)

\* Until the linked nodes are full, the writer stands in one of them that has
\* room, however the bytes are cut and whichever nodes have been drained and
\* appended meanwhile: read() neither follows null nor finds "not buff" before
\* it has received Lifetime bytes.
RoomForLifetime == received < Lifetime => mb.write # Null /\ Room(mb) > 0

\* What memoryBuff.h says of GetWriteBuff(), "get write buff addr and buff
\* size": each call of it in read() finds a node to write to.
WriteBuffIsThere == pc = "reading" => mb.write # Null
=============================================================================
