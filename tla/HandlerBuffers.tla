--------------------------- MODULE HandlerBuffers ---------------------------
(***************************************************************************)
(* tl::Handler on its two tl::buffer members: the loops of handleRead()    *)
(* and handleWrite() chunk by chunk, with the calls they make.  Shown to   *)
(* implement module Handler, where the buffers are plain sequences.  The   *)
(* event, the peer and the kernel are as described there.                  *)
(***************************************************************************)
EXTENDS Buffer

CONSTANTS MaxBytes,    \* bound: bytes the peer sends
          ChunkSize,   \* default_chunk_size_ (4096)
          SendRoom,    \* size of the kernel's send queue
          Interrupts   \* may a signal interrupt recv() and write()?

VARIABLES pc, pending,
          rbuf, wbuf,  \* read_buf_, write_buf_
          inbox, outbox, peer, arrived, echoed

bufs == <<rbuf, wbuf>>
kernel == <<inbox, outbox>>
history == <<arrived, echoed>>
vars == <<pc, pending, bufs, kernel, peer, history>>

Init ==
  /\ pc = "loop" /\ pending = "read"
  /\ rbuf = EmptyBuffer(ChunkSize) /\ wbuf = EmptyBuffer(ChunkSize)
  /\ inbox = <<>> /\ outbox = <<>> /\ peer = "open"
  /\ arrived = <<>> /\ echoed = <<>>

-----------------------------------------------------------------------------
(* While the echo loop runs, its bytes count as still being in read_buf_.  *)

Echoing == pc = "echo"

Abstract == INSTANCE Handler WITH
  MaxRoom <- ChunkSize,
  read_buf_ <- IF Echoing THEN Contents(wbuf) \o Contents(rbuf) ELSE Contents(rbuf),
  write_buf_ <- IF Echoing THEN <<>> ELSE Contents(wbuf)

-----------------------------------------------------------------------------

PeerSends ==
  /\ peer = "open" /\ Len(arrived) < MaxBytes
  /\ arrived' = Append(arrived, Len(arrived) + 1)
  /\ inbox' = Append(inbox, Len(arrived) + 1)
  /\ UNCHANGED <<pc, pending, bufs, outbox, peer, echoed>>

PeerReceives ==
  /\ peer # "reset" /\ outbox # <<>>
  /\ echoed' = Append(echoed, Head(outbox))
  /\ outbox' = Tail(outbox)
  /\ UNCHANGED <<pc, pending, bufs, inbox, peer, arrived>>

PeerLeaves ==
  /\ \/ peer = "open" /\ peer' \in {"shut", "reset"}
     \/ peer = "shut" /\ peer' = "reset"
  /\ UNCHANGED <<pc, pending, bufs, kernel, history>>

Readable == inbox # <<>> \/ peer # "open"
Writable == Len(outbox) < SendRoom \/ peer = "reset"

Fire ==
  /\ pc = "loop"
  /\ \/ pending = "read" /\ Readable /\ pc' = "recv"
     \/ pending = "write" /\ Writable /\ pc' = "write"
  /\ pending' = "nothing"
  /\ UNCHANGED <<bufs, kernel, peer, history>>

Delete == pc' = "deleted" /\ pending' = "nothing"

FireTimeout ==
  /\ pc = "loop" /\ pending # "nothing"
  /\ Delete
  /\ UNCHANGED <<bufs, kernel, peer, history>>

Rearm == /\ pending' = IF wbuf.size_ > 0 THEN "write" ELSE "read"
         /\ pc' = "loop"

\* spaceChunk(), recv(), spaceHaveSeted()
Recv ==
  /\ pc = "recv" /\ inbox # <<>>
  /\ LET lent == SpaceChunk(rbuf)
         n == IF Room(lent) < Len(inbox) THEN Room(lent) ELSE Len(inbox)
     IN  /\ rbuf' = SpaceHaveSeted(lent, SubSeq(inbox, 1, n))
         /\ inbox' = SubSeq(inbox, n + 1, Len(inbox))
         /\ pc' = IF n < Room(lent) THEN "echo" ELSE "recv"
  /\ UNCHANGED <<pending, wbuf, outbox, peer, history>>

\* spaceChunk() may have added a chunk that stays empty.
RecvWouldBlock ==
  /\ pc = "recv"
  /\ Interrupts \/ ~Readable
  /\ rbuf' = SpaceChunk(rbuf)
  /\ pc' = "echo"
  /\ UNCHANGED <<pending, wbuf, kernel, peer, history>>

RecvFails ==
  /\ pc = "recv"
  /\ (peer = "shut" /\ inbox = <<>>) \/ peer = "reset"
  /\ Delete
  /\ rbuf' = SpaceChunk(rbuf)
  /\ UNCHANGED <<wbuf, kernel, peer, history>>

\* One round of "echo back": dataChunk(), push(), drain().
EchoChunk ==
  /\ pc = "echo" /\ rbuf.size_ > 0
  /\ LET chunk == DataChunk(rbuf)
     IN  /\ wbuf' = Push(wbuf, chunk)
         /\ rbuf' = Drain(rbuf, Len(chunk))
  /\ UNCHANGED <<pc, pending, kernel, peer, history>>

EchoDone ==
  /\ pc = "echo" /\ rbuf.size_ = 0
  /\ Rearm
  /\ UNCHANGED <<bufs, kernel, peer, history>>

\* Seeded fault: a short write() drains the whole chunk.
WriteLosesRest ==
  /\ pc = "write" /\ wbuf.size_ > 0
  /\ peer # "reset" /\ Len(outbox) < SendRoom
  /\ LET chunk == DataChunk(wbuf)
         free == SendRoom - Len(outbox)
         n == IF Len(chunk) < free THEN Len(chunk) ELSE free
     IN  /\ outbox' = outbox \o SubSeq(chunk, 1, n)
         /\ wbuf' = Drain(wbuf, Len(chunk))
  /\ UNCHANGED <<pc, pending, rbuf, inbox, peer, history>>

\* One round of handleWrite(): dataChunk(), write(), drain().
Write ==
  /\ pc = "write" /\ wbuf.size_ > 0
  /\ peer # "reset" /\ Len(outbox) < SendRoom
  /\ LET chunk == DataChunk(wbuf)
         free == SendRoom - Len(outbox)
         n == IF Len(chunk) < free THEN Len(chunk) ELSE free
     IN  /\ outbox' = outbox \o SubSeq(chunk, 1, n)
         /\ wbuf' = Drain(wbuf, n)
  /\ UNCHANGED <<pc, pending, rbuf, inbox, peer, history>>

WriteWouldBlock ==
  /\ pc = "write" /\ wbuf.size_ > 0
  /\ Interrupts \/ ~Writable
  /\ pc' = "loop"
  /\ UNCHANGED <<pending, bufs, kernel, peer, history>>

WriteFails ==
  /\ pc = "write" /\ wbuf.size_ > 0
  /\ peer = "reset"
  /\ Delete
  /\ UNCHANGED <<bufs, kernel, peer, history>>

AllWritten ==
  /\ pc = "write" /\ wbuf.size_ = 0
  /\ Rearm
  /\ UNCHANGED <<bufs, kernel, peer, history>>

Callback == \/ Fire \/ Recv \/ RecvWouldBlock \/ RecvFails \/ EchoChunk \/ EchoDone
            \/ Write \/ WriteWouldBlock \/ WriteFails \/ AllWritten

Next == \/ PeerSends \/ PeerReceives \/ PeerLeaves
        \/ Callback
        \/ FireTimeout

Spec == Init /\ [][Next]_vars /\ WF_vars(Callback) /\ WF_vars(PeerReceives)

-----------------------------------------------------------------------------

\* Chunk by chunk the handler does what module Handler says, and the echo
\* loop ends: with bytes to move dataChunk() never shows an empty chunk.
ImplementsHandler == Abstract!Spec
EchoLoopEnds == Echoing ~> ~Echoing
=============================================================================
