-------------------------------- MODULE Utf8 --------------------------------
(***************************************************************************)
(* utf8.c: a table-driven decoder, one byte at a time.                     *)
(***************************************************************************)
EXTENDS Naturals, Sequences

ACCEPT == 0
REJECT == 1

\* The first 256 entries of utf8d: the type of a byte.
TypeOf(byte) ==
  CASE byte < 128 -> 0
    [] byte \in 128 .. 143 -> 1
    [] byte \in 144 .. 159 -> 9
    [] byte \in 160 .. 191 -> 7
    [] byte \in {192, 193} \cup 245 .. 255 -> 8
    [] byte \in 194 .. 223 -> 2
    [] byte = 224 -> 10
    [] byte \in (225 .. 239) \ {237} -> 3
    [] byte = 237 -> 4
    [] byte = 240 -> 11
    [] byte \in 241 .. 243 -> 6
    [] byte = 244 -> 5

\* Seeded fault: surrogates are let through.
AnyBehindED == {1, 7, 9}

\* Behind ED a byte from A0 on would make a surrogate.
BehindED == {1, 9}

\* What states 2 to 8 wait for: the types that lead on, and where.
Leads == <<
  [types |-> {1, 7, 9}, to |-> 0],      \* s2: the last byte
  [types |-> {1, 7, 9}, to |-> 2],      \* s3: the last but one
  [types |-> {7},       to |-> 2],      \* s4: behind E0
  [types |-> BehindED,  to |-> 2],      \* s5
  [types |-> {7, 9},    to |-> 3],      \* s6: behind F0
  [types |-> {1, 7, 9}, to |-> 3],      \* s7: behind F1 to F3
  [types |-> {1},       to |-> 3]>>     \* s8: behind F4

\* Where a byte leads from the state in which no character is begun.
First == <<0, 1, 2, 3, 5, 8, 7, 1, 1, 1, 4, 6>>

\* The rest of utf8d: the next state.
Moves(state, type) ==
  CASE state = ACCEPT -> First[type + 1]
    [] state = REJECT -> REJECT
    [] state > 1 -> IF type \in Leads[state - 1].types THEN Leads[state - 1].to ELSE REJECT

\* decode(), of the state and the code point so far.
Decoded(state, codep, byte) ==
  [state |-> Moves(state, TypeOf(byte)),
   codep |-> IF state # ACCEPT THEN (codep * 64) + (byte % 64)
             ELSE IF TypeOf(byte) > 8 THEN 0 ELSE byte % 2 ^ (8 - TypeOf(byte))]
=============================================================================
