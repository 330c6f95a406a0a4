----------------------------- MODULE ByteQueue -----------------------------
(***************************************************************************)
(* What tl::buffer keeps of its promises: each buffer is one sequence of   *)
(* bytes, first in first out, whatever mixture of calls adds, removes and  *)
(* reads them.                                                             *)
(* Bytes are numbered in the order in which they enter any buffer.         *)
(***************************************************************************)
EXTENDS Naturals, Sequences

CONSTANTS Buffers, MaxBytes, Threw, MayThrow

VARIABLES content,  \* [Buffers -> Seq(1 .. MaxBytes)]
          next,     \* the next byte to enter
          out       \* what the last call that answers gave back

vars == <<content, next, out>>

Fresh(n) == [i \in 1 .. n |-> next + i - 1]

Init == content = [b \in Buffers |-> <<>>] /\ next = 1 /\ out = <<>>

Enter(b, n) == /\ next + n <= MaxBytes + 1
               /\ content' = [content EXCEPT ![b] = @ \o Fresh(n)]
               /\ next' = next + n

\* push() answers how many bytes it added, writing into lent space nothing.
Add(b, n) == Enter(b, n) /\ out' = <<n>>
Commit(b, n) == Enter(b, n) /\ UNCHANGED out

\* An allocation failed and the call threw: a push() has added what it found
\* room for and its caller does not learn how much, any other call has changed
\* nothing.  buffer.h promises an answer here (BufferUse!FailureIsAnswered);
\* this action says only that the bytes stay in order.
Fail(b, n) == MayThrow /\ Enter(b, n) /\ out' = Threw

Remove(b, n) ==
  LET gone == IF n < Len(content[b]) THEN n ELSE Len(content[b])
  IN  /\ content' = [content EXCEPT ![b] = SubSeq(@, gone + 1, Len(@))]
      /\ out' = <<gone>>
      /\ UNCHANGED next

\* The n oldest bytes, or none when there are not so many.
Look(b, n) == /\ out' = IF n <= Len(content[b]) THEN SubSeq(content[b], 1, n) ELSE <<>>
              /\ UNCHANGED <<content, next>>

\* As many of the oldest bytes as the queue likes, at least one if it has any.
LookAtSome(b) == \/ content[b] = <<>> /\ Look(b, 0)
                 \/ \E n \in 1 .. Len(content[b]) : Look(b, n)

LookAt(b, i) == /\ i < Len(content[b])
                /\ out' = <<content[b][i + 1]>>
                /\ UNCHANGED <<content, next>>

Exchange(b, c) == /\ content' = [content EXCEPT ![b] = content[c], ![c] = content[b]]
                  /\ UNCHANGED <<next, out>>

Next == \E b \in Buffers :
  \/ \E n \in 0 .. MaxBytes :
       Add(b, n) \/ Commit(b, n) \/ Fail(b, n) \/ Remove(b, n) \/ Look(b, n) \/ LookAt(b, n)
  \/ LookAtSome(b)
  \/ \E c \in Buffers \ {b} : Exchange(b, c)

Spec == Init /\ [][Next]_vars
=============================================================================
