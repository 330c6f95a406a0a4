------------------------------- MODULE Base64 -------------------------------
(***************************************************************************)
(* base64.c: encoding in lines of 72 characters, and decoding that skips   *)
(* what is no character of the alphabet.  A character is its place in      *)
(* base64_table, or one of the three below.                                *)
(***************************************************************************)
EXTENDS Naturals, Sequences, SequencesExt

Pad == 64          \* '='
LineFeed == 65
Other == 66        \* any character that is neither
NULL == <<-1>>

Rest(src) == Len(src) % 3
Full(src) == Len(src) \div 3

\* The four characters for three bytes.
Quartet(a, b, c) ==
  <<a \div 4, (a % 4) * 16 + (b \div 16), (b % 16) * 4 + (c \div 64), c % 64>>

\* 18 quartets make a line.
QuartetsPerLine == 18

\* Seeded fault: the loop ends no line.
Unbroken(src) ==
  FlattenSeq([n \in 1 .. Full(src) |-> Quartet(src[3 * n - 2], src[3 * n - 1], src[3 * n])])

\* The quartets of the loop, each with the line feed it may be followed by.
Body(src) ==
  FlattenSeq([n \in 1 .. Full(src) |->
    Quartet(src[3 * n - 2], src[3 * n - 1], src[3 * n])
      \o (IF n % QuartetsPerLine = 0 THEN <<LineFeed>> ELSE <<>>)])

\* One or two bytes behind the last three.
Tail4(src) ==
  LET a == src[3 * Full(src) + 1]
      b == src[3 * Full(src) + 2]
  IN  CASE Rest(src) = 0 -> <<>>
        [] Rest(src) = 1 -> SubSeq(Quartet(a, 0, 0), 1, 2) \o <<Pad, Pad>>
        [] Rest(src) = 2 -> SubSeq(Quartet(a, b, 0), 1, 3) \o <<Pad>>

\* A line that has been begun is ended.
LineOpen(src) == Full(src) % QuartetsPerLine # 0 \/ Rest(src) # 0

Encode(src) ==
  Body(src) \o Tail4(src) \o (IF LineOpen(src) THEN <<LineFeed>> ELSE <<>>)

\* olen, the bytes encode() allocates for its answer and the nul behind it.
\* (That it overflows needs a length no caller has.)
Allocated(len) ==
  LET olen == (len * 4) \div 3 + 4 IN olen + (olen \div 72) + 1

-----------------------------------------------------------------------------

Known(c) == c <= Pad

Value(c) == IF c = Pad THEN 0 ELSE c

\* The three bytes for four characters.
Triple(w, x, y, z) ==
  <<(w * 4 + (x \div 16)) % 256, (x * 16 + (y \div 4)) % 256, (y * 64 + z) % 256>>

\* Decoding stops behind the first quartet with padding, of which it takes
\* two bytes or one; three or four padding characters are an error.
Decode(src) ==
  LET known == SelectSeq(src, Known)
      quartets == Len(known) \div 4
      At(n) == SubSeq(known, 4 * n - 3, 4 * n)
      pads(n) == Len(SelectSeq(At(n), LAMBDA c : c = Pad))
      Bytes(n) == Triple(Value(At(n)[1]), Value(At(n)[2]), Value(At(n)[3]), Value(At(n)[4]))
      last == CHOOSE n \in 1 .. quartets :
                /\ n = quartets \/ pads(n) > 0
                /\ \A m \in 1 .. n - 1 : pads(m) = 0
      bytes == FlattenSeq([n \in 1 .. last |-> Bytes(n)])
  IN  IF known = <<>> \/ Len(known) % 4 # 0 \/ pads(last) > 2
      THEN NULL
      ELSE SubSeq(bytes, 1, Len(bytes) - pads(last))
=============================================================================
