-------------------------------- MODULE Sha1 --------------------------------
(***************************************************************************)
(* sha1.c, sha1.h: SHA-1 on a context that takes a message piece by piece. *)
(* A 32-bit word is the pair of its halves, since TLC's integers have 32   *)
(* bits with a sign.  A context's block holds the bytes up to              *)
(* Message_Block_Index: those behind it are always written before they are *)
(* read.                                                                   *)
(***************************************************************************)
EXTENDS Naturals, Sequences, SequencesExt, Bitwise

Half == 65536
Zero == <<0, 0>>

\* Op(x), with x evaluated first, which keeps TLC's stack short.
Strictly(Op(_), x) == CHOOSE y \in {Op(v) : v \in {x}} : TRUE

\* x after Op(x, t) for every t of from + 1 .. from + n, in this order.
InTurn(Op(_, _), x, from, n) ==
  LET Turn[m \in 0 .. n] ==
        IF m = 0 THEN x ELSE Strictly(LAMBDA y : Op(y, from + m), Turn[m - 1])
  IN  Turn[n]

\* The same, eight turns at a time: TLC's stack grows with the turns left.
Repeat(Op(_, _), x, from, n) ==
  LET Row(y, k) == InTurn(Op, y, from + 8 * (k - 1), IF 8 * k <= n THEN 8 ELSE n % 8)
  IN  InTurn(Row, x, 0, (n + 7) \div 8)

-----------------------------------------------------------------------------
(* uint32_t.                                                               *)

Plus(x, y) ==
  LET low == x[2] + y[2]
  IN  <<(x[1] + y[1] + (low \div Half)) % Half, low % Half>>

WordAnd(x, y) == <<x[1] & y[1], x[2] & y[2]>>
WordOr(x, y) == <<x[1] | y[1], x[2] | y[2]>>
WordXor(x, y) == <<x[1] ^^ y[1], x[2] ^^ y[2]>>
WordNot(x) == <<Half - 1 - x[1], Half - 1 - x[2]>>

\* SHA1CircularShift(): by 16 the halves change places.
CircularShift(bits, x) ==
  LET n == bits % 16
      y == IF bits < 16 THEN x ELSE <<x[2], x[1]>>
      Shift(a, b) == ((a * 2 ^ n) % Half) + (b \div 2 ^ (16 - n))
  IN  <<Shift(y[1], y[2]), Shift(y[2], y[1])>>

\* Four bytes of a word, the most significant first.
BytesOf(x) == <<x[1] \div 256, x[1] % 256, x[2] \div 256, x[2] % 256>>

-----------------------------------------------------------------------------
(* SHA1ProcessMessageBlock().                                              *)

\* The word sequence W[80].
Schedule(block) ==
  LET first == [t \in 1 .. 16 |->
                  <<256 * block[4 * t - 3] + block[4 * t - 2],
                    256 * block[4 * t - 1] + block[4 * t]>>]
      Next(W, t) ==
        CircularShift(1, WordXor(WordXor(W[t - 3], W[t - 8]),
                                 WordXor(W[t - 14], W[t - 16])))
      Extend(W, t) == Append(W, Next(W, t))
  IN  Repeat(Extend, first, 16, 64)

Choose(B, C, D) == WordOr(WordAnd(B, C), WordAnd(WordNot(B), D))
Parity(B, C, D) == WordXor(WordXor(B, C), D)
Majority(B, C, D) == WordOr(WordOr(WordAnd(B, C), WordAnd(B, D)), WordAnd(C, D))

\* The function and the constant of round t, from 1.
Mixed(t, B, C, D) ==
  CASE t <= 20 -> Plus(Choose(B, C, D), <<23170, 31129>>)
    [] t \in 21 .. 40 -> Plus(Parity(B, C, D), <<28377, 60321>>)
    [] t \in 41 .. 60 -> Plus(Majority(B, C, D), <<36635, 48348>>)
    [] t > 60 -> Plus(Parity(B, C, D), <<51810, 49622>>)

ProcessMessageBlock(hash, block) ==
  LET W == Schedule(block)
      Round(r, t) ==
        <<Plus(Plus(CircularShift(5, r[1]), Mixed(t, r[2], r[3], r[4])),
               Plus(r[5], W[t])),
          r[1], CircularShift(30, r[2]), r[3], r[4]>>
      last == Repeat(Round, hash, 0, 80)
  IN  [n \in 1 .. 5 |-> Plus(hash[n], last[n])]

-----------------------------------------------------------------------------
(* The context.                                                            *)

shaSuccess == 0
shaNull == 1          \* also the value of Corrupted for a message too long
shaStateError == 3

InitialHash ==
  <<<<26437, 8961>>, <<61389, 43913>>, <<39098, 56574>>, <<4146, 21622>>,
    <<50130, 57840>>>>

\* SHA1Reset().
Reset ==
  [hash |-> InitialHash, low |-> Zero, high |-> Zero, block |-> <<>>,
   computed |-> FALSE, corrupted |-> shaSuccess]

\* One turn of the loop of SHA1Input().
InputByte(ctx, byte) ==
  LET low == Plus(ctx.low, <<0, 8>>)
      high == IF low = Zero THEN Plus(ctx.high, <<0, 1>>) ELSE ctx.high
      block == Append(ctx.block, byte)
      counted == [ctx EXCEPT !.low = low, !.high = high,
                    !.corrupted = IF low = Zero /\ high = Zero THEN 1 ELSE @]
  IN  IF ctx.corrupted # shaSuccess THEN ctx
      ELSE IF Len(block) < 64 THEN [counted EXCEPT !.block = block]
      ELSE [counted EXCEPT !.block = <<>>, !.hash = ProcessMessageBlock(@, block)]

\* Seeded fault: input after the result is refused, but leaves no trace.
Refused(ctx, message) ==
  LET Take(c, n) == InputByte(c, message[n])
  IN  IF ctx.computed THEN ctx ELSE Repeat(Take, ctx, 0, Len(message))

\* SHA1Input() as it leaves the context, and what it returns.
Input(ctx, message) ==
  IF message = <<>> THEN ctx
  ELSE IF ctx.computed THEN [ctx EXCEPT !.corrupted = shaStateError]
  ELSE LET Take(c, n) == InputByte(c, message[n])
       IN  Repeat(Take, ctx, 0, Len(message))

InputReturns(ctx, message) ==
  IF message = <<>> THEN shaSuccess
  ELSE IF ctx.computed THEN shaStateError
  ELSE ctx.corrupted

\* n zero bytes, at most a block of them.
Zeros(n) == SubSeq([m \in 1 .. 64 |-> 0], 1, n)

\* Seeded fault: the first byte of the length is overwritten.
TooLateForLength == 56

\* The last index at which 128 and the length fit into the same block.
LastInBlock == 55

\* SHA1PadMessage().
PadMessage(ctx) ==
  LET index == Len(ctx.block)
      one == Append(ctx.block, 128)
      length == BytesOf(ctx.high) \o BytesOf(ctx.low)
      alone == index > LastInBlock
      hash == IF alone THEN ProcessMessageBlock(ctx.hash, one \o Zeros(63 - index))
              ELSE ctx.hash
      start == IF alone THEN Zeros(56) ELSE one \o Zeros(55 - index)
  IN  [ctx EXCEPT !.hash = ProcessMessageBlock(hash, SubSeq(start, 1, 56) \o length),
                  !.block = <<>>]

\* SHA1Result() as it leaves the context, and what it returns.
Result(ctx) ==
  IF ctx.corrupted # shaSuccess \/ ctx.computed THEN ctx
  ELSE [PadMessage(ctx) EXCEPT !.low = Zero, !.high = Zero, !.computed = TRUE]

ResultReturns(ctx) == ctx.corrupted

\* Message_Digest as SHA1Result() fills it.
Digest(ctx) == FlattenSeq([n \in 1 .. 5 |-> BytesOf(ctx.hash[n])])
=============================================================================
