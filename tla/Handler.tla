------------------------------ MODULE Handler ------------------------------
(***************************************************************************)
(* tl::Handler (handler.h, handler.cc): one connection of the echo server, *)
(* run by the thread of its dispatcher.  The handler owns one libevent     *)
(* event, not persistent: when it fires it is no longer pending, and each  *)
(* path of its callback has to add it again or delete the handler.         *)
(*                                                                         *)
(* The two tl::buffer members are sequences of bytes, which is what module *)
(* BufferUse shows them to be; spaceChunk() lends some free space and      *)
(* dataChunk() shows some prefix.  The kernel's two socket queues and the  *)
(* peer are external.                                                      *)
(***************************************************************************)
EXTENDS Integers, Sequences

CONSTANTS MaxBytes,    \* bound: bytes the peer sends
          MaxRoom,     \* the most free space spaceChunk() lends (4096)
          SendRoom,    \* size of the kernel's send queue
          Interrupts   \* may a signal interrupt recv() and write()?

ASSUME HandlerAssumption ==
  /\ MaxBytes \in Nat
  /\ MaxRoom \in Nat \ {0}
  /\ SendRoom \in Nat \ {0}
  /\ Interrupts \in BOOLEAN

VARIABLES
  pc,          \* "loop": in libevent; where in the callback; "deleted"
  pending,     \* what ev_ waits for: "read", "write" or "nothing"
  read_buf_,
  write_buf_,
  inbox,       \* received by the kernel, not read
  outbox,      \* written, not received by the peer
  peer,        \* "open", "shut" (sends no more) or "reset"
  arrived,     \* history: all bytes that entered inbox
  echoed       \* history: all bytes the peer got back

kernel == <<inbox, outbox>>
history == <<arrived, echoed>>
vars == <<pc, pending, read_buf_, write_buf_, kernel, peer, history>>

Init ==
  /\ pc = "loop"
  /\ pending = "read"
  /\ read_buf_ = <<>>
  /\ write_buf_ = <<>>
  /\ inbox = <<>>
  /\ outbox = <<>>
  /\ peer = "open"
  /\ arrived = <<>>
  /\ echoed = <<>>

\* Seeded fault: the last byte taken stays.
RestAndOne(s, n) == SubSeq(s, n, Len(s))

Rest(s, n) == SubSeq(s, n + 1, Len(s))
First(s, n) == SubSeq(s, 1, n)
AtMost(m, n) == IF m < n THEN m ELSE n

-----------------------------------------------------------------------------
(* The peer and the network.                                               *)

PeerSends ==
  /\ peer = "open"
  /\ Len(arrived) < MaxBytes
  /\ arrived' = Append(arrived, Len(arrived) + 1)
  /\ inbox' = Append(inbox, Len(arrived) + 1)
  /\ UNCHANGED <<pc, pending, read_buf_, write_buf_, outbox, peer, echoed>>

PeerReceives ==
  /\ peer # "reset"
  /\ outbox # <<>>
  /\ echoed' = Append(echoed, Head(outbox))
  /\ outbox' = Tail(outbox)
  /\ UNCHANGED <<pc, pending, read_buf_, write_buf_, inbox, peer, arrived>>

PeerLeaves ==
  /\ \/ peer = "open" /\ peer' \in {"shut", "reset"}
     \/ peer = "shut" /\ peer' = "reset"
  /\ UNCHANGED <<pc, pending, read_buf_, write_buf_, kernel, history>>

-----------------------------------------------------------------------------
(* The event.                                                              *)

Readable == inbox # <<>> \/ peer # "open"
Writable == Len(outbox) < SendRoom \/ peer = "reset"

FireRead ==
  /\ pc = "loop" /\ pending = "read" /\ Readable
  /\ pc' = "recv"
  /\ pending' = "nothing"
  /\ UNCHANGED <<read_buf_, write_buf_, kernel, peer, history>>

FireWrite ==
  /\ pc = "loop" /\ pending = "write" /\ Writable
  /\ pc' = "write"
  /\ pending' = "nothing"
  /\ UNCHANGED <<read_buf_, write_buf_, kernel, peer, history>>

\* ~Handler()
Delete == pc' = "deleted" /\ pending' = "nothing"

\* Whatever else the event was active for, a timeout deletes the handler.
FireTimeout ==
  /\ pc = "loop" /\ pending # "nothing"
  /\ Delete
  /\ UNCHANGED <<read_buf_, write_buf_, kernel, peer, history>>

\* Seeded fault: always wait for more to read.
RearmToRead == pending' = "read"

Rearm == pending' = IF write_buf_' # <<>> THEN "write" ELSE "read"

-----------------------------------------------------------------------------
(* handleRead().                                                           *)

\* recv() into all the room that was lent; a short count ends the loop.
Recv ==
  /\ pc = "recv" /\ inbox # <<>>
  /\ \E room \in 1 .. MaxRoom :
       LET n == AtMost(room, Len(inbox))
       IN  /\ read_buf_' = read_buf_ \o First(inbox, n)
           /\ inbox' = Rest(inbox, n)
           /\ pc' = IF n < room THEN "echo" ELSE "recv"
  /\ UNCHANGED <<pending, write_buf_, outbox, peer, history>>

RecvWouldBlock ==
  /\ pc = "recv"
  /\ Interrupts \/ ~Readable
  /\ pc' = "echo"
  /\ UNCHANGED <<pending, read_buf_, write_buf_, kernel, peer, history>>

\* End of file, or an error: -1, and the callback deletes the handler.
RecvFails ==
  /\ pc = "recv"
  /\ (peer = "shut" /\ inbox = <<>>) \/ peer = "reset"
  /\ Delete
  /\ UNCHANGED <<read_buf_, write_buf_, kernel, peer, history>>

\* Chunk after chunk moves from read_buf_ to write_buf_.
EchoBack ==
  /\ pc = "echo"
  /\ write_buf_' = write_buf_ \o read_buf_
  /\ read_buf_' = <<>>
  /\ Rearm
  /\ pc' = "loop"
  /\ UNCHANGED <<kernel, peer, history>>

-----------------------------------------------------------------------------
(* handleWrite().                                                          *)

Write ==
  /\ pc = "write" /\ write_buf_ # <<>>
  /\ peer # "reset" /\ Len(outbox) < SendRoom
  /\ \E len \in 1 .. Len(write_buf_) :
       LET n == AtMost(len, SendRoom - Len(outbox))
       IN  /\ outbox' = outbox \o First(write_buf_, n)
           /\ write_buf_' = Rest(write_buf_, n)
  /\ UNCHANGED <<pc, pending, read_buf_, inbox, peer, history>>

\* Seeded fault: the event is added for the wrong thing.
WaitToRead == "read"

\* EAGAIN or EINTR: handleWrite() returns 0 and has not added the event.
AfterWouldBlock == "nothing"

WriteWouldBlock ==
  /\ pc = "write" /\ write_buf_ # <<>>
  /\ Interrupts \/ ~Writable
  /\ pc' = "loop"
  /\ pending' = AfterWouldBlock
  /\ UNCHANGED <<read_buf_, write_buf_, kernel, peer, history>>

WriteFails ==
  /\ pc = "write" /\ write_buf_ # <<>>
  /\ peer = "reset"
  /\ Delete
  /\ UNCHANGED <<read_buf_, write_buf_, kernel, peer, history>>

AllWritten ==
  /\ pc = "write" /\ write_buf_ = <<>>
  /\ pc' = "loop"
  /\ UNCHANGED write_buf_
  /\ Rearm
  /\ UNCHANGED <<read_buf_, kernel, peer, history>>

-----------------------------------------------------------------------------

Peer == PeerSends \/ PeerReceives \/ PeerLeaves

Callback == \/ FireRead \/ Recv \/ RecvWouldBlock \/ RecvFails \/ EchoBack
            \/ FireWrite \/ Write \/ WriteWouldBlock \/ WriteFails \/ AllWritten

Next == Peer \/ Callback \/ FireTimeout

Spec == Init /\ [][Next]_vars

\* The dispatcher's thread goes on, the network delivers what was written, and
\* signals do not interrupt recv() for ever.  The event's timeout need not come.
FairSpec == /\ Spec
            /\ WF_vars(Callback) /\ SF_vars(Recv)
            /\ WF_vars(PeerReceives)

-----------------------------------------------------------------------------

TypeOK ==
  /\ pc \in {"loop", "recv", "echo", "write", "deleted"}
  /\ pending \in {"read", "write", "nothing"}
  /\ read_buf_ \in Seq(1 .. MaxBytes)
  /\ write_buf_ \in Seq(1 .. MaxBytes)
  /\ inbox \in Seq(1 .. MaxBytes)
  /\ outbox \in Seq(1 .. MaxBytes)
  /\ Len(outbox) <= SendRoom
  /\ peer \in {"open", "shut", "reset"}
  /\ arrived \in Seq(1 .. MaxBytes)
  /\ echoed \in Seq(1 .. MaxBytes)

\* Through every split of recv() and write() the five places a byte can be
\* in hold, in this order, exactly what the peer sent.
EchoInOrder ==
  arrived = echoed \o (outbox \o (write_buf_ \o (read_buf_ \o inbox)))

\* The handler reads only when all it has read before is written, so one
\* slow peer cannot grow write_buf_ beyond what one callback reads, and an
\* end of file or a read error discards nothing an earlier callback read.
ReadsOnlyWhenWritten ==
  pc = "recv" \/ pending = "read" => write_buf_ = <<>>

\* No byte is forgotten in read_buf_ when handleRead() is over: nothing but
\* further input would ever move it.
NothingLeftToEcho == pc \in {"loop", "write"} => read_buf_ = <<>>

\* The event waits for the right thing: the handler in the loop with bytes to
\* write does not wait for more to read, and one with none not for room.
PendingFits == pending # "nothing" =>
                 pc = "loop" /\ (pending = "write" <=> write_buf_ # <<>>)

Echoed(n) == Len(echoed) >= n
Ended == pc = "deleted" \/ peer # "open"

\* The handler is alive and nothing will call it again.
Forgotten == pc = "loop" /\ pending = "nothing"

\* "echo back": what arrives is echoed, unless the connection ends, as far as the
\* code keeps it: the only living handler that does not echo is one that
\* handleWrite() left without a pending event.
EchoedUnlessForgotten ==
  \A n \in 1 .. MaxBytes : Len(arrived) >= n ~> Echoed(n) \/ Ended \/ Forgotten
=============================================================================
