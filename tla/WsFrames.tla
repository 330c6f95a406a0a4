------------------------------ MODULE WsFrames ------------------------------
(***************************************************************************)
(* The frame parser of a WebSocket connection (WsStickyWrap.cpp, the       *)
(* record WsDealWith of BaseType.h) as operators on parser records, and    *)
(* the frames a client sends.  Bytes are numbers; mem is the allocation    *)
(* _pData points to, of which the first size bytes (_Data_size) are in     *)
(* use and the first readAt (_Read_size) are parsed.  Positions count      *)
(* from 1.                                                                 *)
(***************************************************************************)
EXTENDS Integers, Sequences, SequencesExt

CONSTANT DataCap    \* _Data_cap (2 * 4096)

ASSUME CapAssumption == DataCap \in Nat \ {0}

Byte == 0 .. 255

BIN == 2
CLSE == 8
PING == 9
PONG == 10
UNSUPPORTED == 15

-----------------------------------------------------------------------------
(* What a client sends: frames with a mask, the length of the text in the  *)
(* second byte or in the two or eight bytes that follow it.                *)

\* wide: the bytes that hold the length beside the second one.
Frame(fin, op, wide, key, text) ==
  [fin |-> fin, op |-> op, wide |-> wide, key |-> key, text |-> text]

High(f) == Len(f.text) \div 256
Low(f) == Len(f.text) % 256

LengthOf(f) ==
  CASE f.wide = 0 -> <<128 + Len(f.text)>>
    [] f.wide = 2 -> <<128 + 126, High(f), Low(f)>>
    [] f.wide = 8 -> <<128 + 127, 0, 0, 0, 0, 0, 0, High(f), Low(f)>>

\* The operator ^ of C on two bytes, from the weights of the bits that differ.
ByteXor(a, b) ==
  LET d(w) == IF (a \div w) % 2 = (b \div w) % 2 THEN 0 ELSE w
  IN  d(1) + d(2) + d(4) + d(8) + d(16) + d(32) + d(64) + d(128)

Masked(f) == [i \in 1 .. Len(f.text) |-> ByteXor(f.text[i], f.key[((i - 1) % 4) + 1])]

HeadOf(f) ==
  <<(IF f.fin THEN 128 ELSE 0) + f.op>>
    \o LengthOf(f) \o f.key

Encoded(f) == HeadOf(f) \o Masked(f)

-----------------------------------------------------------------------------
(* The parser.                                                             *)

NewParser ==
  [mem |-> [i \in 1 .. DataCap |-> 0], size |-> 0, readAt |-> 0,
   state |-> "head",               \* _Op
   index |-> 0,                    \* _parse_Index
   wbs |-> 0,                      \* _head.wbs: where the head begins, 0: unset
   len |-> 0, masks |-> <<0, 0, 0, 0>>]

Ahead(p) == p.size - p.readAt
At(p, i) == p.mem[p.readAt + i]
Advance(p, n) == [p EXCEPT !.readAt = @ + n]

\* Bit fields of ws_base, read through the pointer.
Fin(p) == p.mem[p.wbs] >= 128
Opcode(p) == p.mem[p.wbs] % 16
PayLoad(p) == p.mem[p.wbs + 1] % 128

\* The n bytes of a length, read through a pointer to (signed) char: one from
\* 128 on, or one that counts for 65536 or more, makes the 64-bit sum a length
\* no frame reaches.
Endless == 1024 * 1024 * 1024
WideLength(p, n) ==
  IF \E i \in 1 .. n : At(p, i) >= 128 \/ (i < n - 1 /\ At(p, i) # 0)
  THEN Endless
  ELSE 256 * At(p, n - 1) + At(p, n)

ParseHead(p) ==
  IF Ahead(p) < 2 THEN p
  ELSE [Advance(p, 2) EXCEPT !.wbs = p.readAt + 1, !.len = 0, !.index = 0,
                             !.masks = <<0, 0, 0, 0>>, !.state = "payload"]

ParsePayload(p) ==
  CASE PayLoad(p) < 126 -> [p EXCEPT !.len = PayLoad(p), !.state = "mask"]
    [] PayLoad(p) = 126 /\ Ahead(p) >= 2 ->
         [Advance(p, 2) EXCEPT !.len = WideLength(p, 2), !.state = "mask"]
    [] PayLoad(p) = 127 /\ Ahead(p) >= 8 ->
         [Advance(p, 8) EXCEPT !.len = WideLength(p, 8), !.state = "mask"]
    [] OTHER -> p

ParseMask(p) ==
  IF Ahead(p) < 4 THEN p
  ELSE [Advance(p, 4) EXCEPT !.masks = [i \in 1 .. 4 |-> At(p, i)], !.state = "data"]

\* The bytes of the frame that are there, and the first of them that equals
\* (char)-1, if any: the parser gives up before it.
Turns(p) == IF p.len - p.index < Ahead(p) THEN p.len - p.index ELSE Ahead(p)
Barred(p) == {i \in 1 .. Turns(p) : At(p, i) = 255}
GivesUp(p) == p.state = "data" /\ Barred(p) # {}

\* Seeded fault: the mask starts anew with every piece of the payload.
UnmaskPiece(p, n) ==
  [p EXCEPT !.index = @ + n,
            !.mem = [j \in 1 .. DataCap |->
                       IF j - p.readAt \in 1 .. n
                       THEN ByteXor(p.mem[j], p.masks[((j - p.readAt - 1) % 4) + 1])
                       ELSE p.mem[j]]]

\* n bytes are unmasked in place.
Unmask(p, n) ==
  [p EXCEPT !.index = @ + n,
            !.mem = [j \in 1 .. DataCap |->
                       IF j - p.readAt \in 1 .. n
                       THEN ByteXor(p.mem[j], p.masks[((p.index + j - p.readAt - 1) % 4) + 1])
                       ELSE p.mem[j]]]

\* Seeded fault: after the payload no new head is expected.
ParseDataStays(p) == Advance(Unmask(p, Turns(p)), Turns(p))

ParseData(p) ==
  IF GivesUp(p)
  THEN Unmask(p, (CHOOSE i \in Barred(p) : \A j \in Barred(p) : i <= j) - 1)
  ELSE LET q == Advance(Unmask(p, Turns(p)), Turns(p))
       IN  IF q.index >= q.len THEN [q EXCEPT !.state = "head"] ELSE q

\* parseWsHead() and the addition to _Read_size.
Parse(p) ==
  IF Ahead(p) = 0 THEN p
  ELSE CASE p.state = "head" -> ParseHead(p)
         [] p.state = "payload" -> ParsePayload(p)
         [] p.state = "mask" -> ParseMask(p)
         [] p.state = "data" -> ParseData(p)

\* Seeded fault: a frame is complete one byte after its end.
CompleteLate(p) == Fin(p) /\ p.index # 0 /\ p.index > p.len

\* The test for a complete frame; it trusts the head the pointer shows.
Complete(p) == Fin(p) /\ p.index # 0 /\ p.index >= p.len

\* CalFrameHeadSize().
FrameHeadSize(p) == 6 + (IF PayLoad(p) = 126 THEN 2 ELSE IF PayLoad(p) = 127 THEN 8 ELSE 0)

Fits(p, s) == Len(s) < DataCap - p.size

\* memcpy of a chunk behind what is there.
AppendChunk(p, s) ==
  [p EXCEPT !.size = @ + Len(s),
            !.mem = [j \in 1 .. DataCap |->
                       IF j - p.size \in 1 .. Len(s) THEN s[j - p.size] ELSE p.mem[j]]]

\* Bytes from..from+n-1 of the allocation.
Stored(p, from, n) == [i \in 1 .. n |-> p.mem[from + i - 1]]

\* The first n bytes are dropped, the rest moved to the front.
Compact(p, n) ==
  [p EXCEPT !.size = @ - n, !.readAt = 0,
            !.mem = [j \in 1 .. DataCap |-> IF j <= p.size - n THEN p.mem[j + n] ELSE p.mem[j]]]

=============================================================================
