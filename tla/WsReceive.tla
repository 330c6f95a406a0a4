----------------------------- MODULE WsReceive ------------------------------
(***************************************************************************)
(* A WebSocket connection receiving (WsConnect::readData, WsStickyWrap::   *)
(* readData): the handshake, then frames, cut into pieces by the network.  *)
(* The client is external; it waits for the answer to its handshake.       *)
(***************************************************************************)
EXTENDS WsFrames, FiniteSets

CONSTANTS Frames,      \* the frames a client may send
          MaxFrames    \* bound: frames per connection

\* The length of a text fits into the bytes LengthOf() writes it to; more than
\* two of them no client fills.
ASSUME FrameAssumption ==
  /\ Frames \subseteq [fin : BOOLEAN, op : 0 .. 15, wide : {0, 2, 8},
                       key : [1 .. 4 -> Byte], text : Seq(Byte)]
  /\ \A f \in Frames : Len(f.text) < (IF f.wide = 0 THEN 126 ELSE 256 * 256)
  /\ MaxFrames \in Nat

VARIABLES
  stream,    \* the frames of this connection
  pos,       \* how many of their bytes have arrived
  parser,    \* WsDealWith
  pc,        \* handshake; idle: no callback; parsing: in the do-while of
             \* readData(); closed: a callback returned less than 0;
             \* spinning: the do-while changes nothing any more; looping: in
             \* finishParse() for ever; dead: undefined behaviour
  handed,    \* the payloads given to finishParse()
  answered   \* the frames sent by sendFrame(): type and payload

vars == <<stream, pos, parser, pc, handed, answered>>

Bytes == FlattenSeq([i \in DOMAIN stream |-> Encoded(stream[i])])

Init ==
  /\ stream \in UNION {[1 .. n -> Frames] : n \in 1 .. MaxFrames}
  /\ pos = 0
  /\ parser = NewParser
  /\ pc = "handshake"
  /\ handed = <<>> /\ answered = <<>>

\* do_handshake() on the first piece: the request is there and answered, or
\* the connection is closed, also when the request comes in two pieces, or
\* memory is missing where nobody looks.
Handshake ==
  /\ pc = "handshake"
  /\ pc' \in {"idle", "closed", "dead"}
  /\ UNCHANGED <<stream, pos, parser, handed, answered>>

\* A piece of the stream is given to WsStickyWrap::readData().
Receive ==
  /\ pc = "idle"
  /\ \E k \in 1 .. Len(Bytes) - pos :
       LET piece == SubSeq(Bytes, pos + 1, pos + k)
       IN  /\ pos' = pos + k
           /\ IF Fits(parser, piece)
              THEN parser' = AppendChunk(parser, piece) /\ pc' = "parsing"
              ELSE pc' = "closed" /\ UNCHANGED parser
  /\ UNCHANGED <<stream, handed, answered>>

\* The end of an iteration of the do-while that leaves the parser as p.
Again(p) ==
  pc' = IF Ahead(p) = 0 THEN "idle" ELSE IF p = parser THEN "spinning" ELSE "parsing"

\* _head.wbs has not been set: it is followed all the same.
HeadUnset ==
  /\ pc = "parsing" /\ Parse(parser).wbs = 0
  /\ pc' \in {"dead", "spinning"}
  /\ UNCHANGED <<stream, pos, parser, handed, answered>>

\* A payload byte that reads as -1 ends the loop; readData() reports success.
GiveUp ==
  /\ pc = "parsing" /\ Ahead(parser) > 0 /\ GivesUp(parser)
  /\ parser' = Parse(parser)
  /\ pc' = "idle"
  /\ UNCHANGED <<stream, pos, handed, answered>>

\* One iteration has parsed up to p.
Parses(p) ==
  /\ pc = "parsing" /\ ~GivesUp(parser)
  /\ p = Parse(parser) /\ p.wbs # 0

ParseOn ==
  \E p \in {Parse(parser)} :
    /\ Parses(p) /\ ~Complete(p)
    /\ parser' = p
    /\ Again(p)
    /\ UNCHANGED <<stream, pos, handed, answered>>

\* CLSE and PING are answered with what lies behind the first head, and a
\* zero byte; a length below zero becomes a huge one.
Answer ==
  \E p \in {Parse(parser)} :
    LET n == p.size - FrameHeadSize(p)
    IN  /\ Parses(p) /\ Complete(p) /\ Opcode(p) \in {CLSE, PING}
        /\ parser' = p
        /\ IF n < 0
           THEN pc' = "dead" /\ UNCHANGED answered
           ELSE \/ pc' = "closed" /\ UNCHANGED answered
                \/ /\ answered' = Append(answered,
                            <<Opcode(p), Append(Stored(p, FrameHeadSize(p) + 1, n), 0)>>)
                   /\ Again(p)
        /\ UNCHANGED <<stream, pos, handed>>

\* A PONG "should need no handling": it stays in front of what follows.
Ignore ==
  \E p \in {Parse(parser)} :
    /\ Parses(p) /\ Complete(p) /\ Opcode(p) \in {PONG, UNSUPPORTED}
    /\ parser' = p
    /\ Again(p)
    /\ UNCHANGED <<stream, pos, handed, answered>>

\* A data frame must be all there is behind the first head, or the
\* connection is closed.  finishParse() follows _pack._head, which nothing
\* sets: the process dies, stays in its while (true), or a length above the
\* capacity is found there and it returns -1, which is ignored.
HandOver ==
  \E p \in {Parse(parser)} :
    LET head == FrameHeadSize(p)
        behind == p.size - head
    IN  /\ Parses(p) /\ Complete(p)
        /\ Opcode(p) \notin {CLSE, PING, PONG, UNSUPPORTED}
        /\ IF behind < 0 \/ p.len < behind
           THEN pc' = "closed" /\ parser' = p /\ UNCHANGED handed
           ELSE /\ handed' = Append(handed, Stored(p, head + 1, p.len))
                /\ \/ pc' \in {"dead", "looping"} /\ parser' = p
                   \/ p.len > behind /\ pc' = "dead" /\ parser' = p
                   \/ /\ p.len = behind
                      /\ parser' = Compact(p, head + p.len)
                      /\ Again(Compact(p, head + p.len))
        /\ UNCHANGED <<stream, pos, answered>>

Next ==
  \/ Handshake \/ Receive \/ HeadUnset \/ GiveUp
  \/ ParseOn \/ Answer \/ Ignore \/ HandOver

Spec == Init /\ [][Next]_vars

-----------------------------------------------------------------------------

\* Where frame i begins, and how many bytes precede its payload.
Before(i) == Len(FlattenSeq([j \in 1 .. i - 1 |-> Encoded(stream[j])]))
Arrived(i) == pos >= Before(i) + Len(Encoded(stream[i]))
InsideHead(i) == pos > Before(i) /\ pos < Before(i) + Len(HeadOf(stream[i]))

\* A frame no byte of which is misread for being a signed char: no byte of its
\* masked payload is 255 (line 126), and none of the two or eight bytes of its
\* length is 128 or more (lines 97 to 106).
IsClean(f) ==
  /\ \A j \in DOMAIN f.text : Masked(f)[j] # 255
  /\ f.wide # 0 => High(f) < 128 /\ Low(f) < 128

Clean == \A i \in DOMAIN stream : IsClean(stream[i])

IsData(f) == f.op \notin {CLSE, PING, PONG, UNSUPPORTED} /\ f.text # <<>>
IsAnswered(f) == f.op \in {CLSE, PING} /\ f.text # <<>>

\* Types, and that the parser stays inside its allocation.
TypeOK ==
  /\ pos \in 0 .. Len(Bytes)
  /\ pc \in {"handshake", "idle", "parsing", "closed", "spinning", "looping", "dead"}
  /\ parser.state \in {"head", "payload", "mask", "data"}
  /\ 0 <= parser.readAt /\ parser.readAt <= parser.size /\ parser.size <= DataCap
  /\ parser.wbs + 1 <= DataCap
  /\ parser.index <= parser.len

\* However the network cuts a clean stream, a payload given to finishParse() is
\* that of the next data frame, unmasked.
HandedIntact ==
  Clean => LET data == {i \in DOMAIN stream : IsData(stream[i])}
           IN  \A n \in DOMAIN handed : \E i \in data :
                 /\ handed[n] = stream[i].text
                 /\ Cardinality({j \in data : j < i}) = n - 1

\* While a connection with a clean stream waits for more, it has handed over as
\* many payloads as final data frames with a payload have arrived, and answered
\* as many frames as final CLSE and PING with one.  (Nothing is done for the
\* other frames: one that is not final, a PONG, one without payload.)
NothingSkipped ==
  Clean /\ pc = "idle" =>
    /\ Len(handed) = Cardinality({i \in DOMAIN stream :
                        Arrived(i) /\ IsData(stream[i]) /\ stream[i].fin})
    /\ Len(answered) = Cardinality({i \in DOMAIN stream :
                        Arrived(i) /\ IsAnswered(stream[i]) /\ stream[i].fin})

\* With a clean stream the do-while runs for ever only when the bytes end inside
\* a frame's head; a payload may be cut anywhere.
SpinsOnlyInsideHead ==
  Clean /\ pc = "spinning" => \E i \in DOMAIN stream : InsideHead(i)

=============================================================================
