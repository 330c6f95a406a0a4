----------------------------- MODULE BufferUse -----------------------------
(***************************************************************************)
(* Any legal sequence of calls on a few tl::buffer objects.  A caller that *)
(* asked for space writes there before it makes another changing call on   *)
(* that buffer, and does not read the back() of an empty list.  Memory may *)
(* run out, in a chunk's array or in a list node: operator new throws.     *)
(***************************************************************************)
EXTENDS Buffer

CONSTANTS Buffers,      \* the buffer objects
          ChunkSizes,   \* values given to default_chunk_size_
          Lengths,      \* values given to the len parameters
          MaxBytes,     \* bound: bytes that enter any buffer
          Failures      \* allocations that may fail: subset of {"chunk", "node"}

ASSUME BufferAssumption ==
  /\ ChunkSizes \subseteq Nat \ {0}
  /\ Lengths \subseteq Nat
  /\ MaxBytes \in Nat
  /\ Failures \subseteq {"chunk", "node"}

VARIABLES bufs,   \* the buffers
          lent,   \* bytes of space the caller may still fill, per buffer
          next,   \* the next byte to enter: bytes are numbered
          out,    \* what the last call that answers gave back
          stuck   \* data() spins or has left its list

vars == <<bufs, lent, next, out, stuck>>

Fresh(n) == [i \in 1 .. n |-> next + i - 1]
Threw == <<-1>>

Init ==
  /\ \E n \in ChunkSizes : bufs = [b \in Buffers |-> EmptyBuffer(n)]
  /\ lent = [b \in Buffers |-> 0]
  /\ next = 1
  /\ out = <<>>
  /\ stuck = FALSE

\* A call on b that changes it ends what was lent of it.
Become(b, new, space) == /\ bufs' = [bufs EXCEPT ![b] = new]
                         /\ lent' = [lent EXCEPT ![b] = space]

Answer(s) == out' = s
OnlyAnswers(s) == Answer(s) /\ UNCHANGED <<bufs, lent, next, stuck>>

-----------------------------------------------------------------------------

push(b, n) ==
  /\ next + n <= MaxBytes + 1
  /\ Become(b, Push(bufs[b], Fresh(n)), 0)
  /\ next' = next + n
  /\ Answer(<<n>>)
  /\ UNCHANGED stuck

\* What fitted in the newest chunk stays, the caller does not learn how much.
pushThrows(b, n) ==
  /\ Failures # {}
  /\ next + n <= MaxBytes + 1
  /\ ~PushFits(bufs[b], Fresh(n))
  /\ Become(b, PushHead(bufs[b], Fresh(n)), 0)
  /\ next' = next + Room(bufs[b])
  /\ Answer(Threw)
  /\ UNCHANGED stuck

drain(b, n) ==
  /\ Become(b, Drain(bufs[b], n), 0)
  /\ Answer(<<Drained(bufs[b], n)>>)
  /\ UNCHANGED <<next, stuck>>

HasBack(b) == bufs[b].chunk_list_ # <<>>

data(b, n) ==
  /\ n > 0
  /\ HasBack(b) \/ Missing(bufs[b], n)
  /\ IF DataStuck(bufs[b], n)
     THEN stuck' = TRUE /\ UNCHANGED <<bufs, lent, out>>
     ELSE /\ Become(b, Data(bufs[b], n), 0)
          /\ Answer(Pointed(bufs[b], n))
          /\ UNCHANGED stuck
  /\ UNCHANGED next

\* Seeded fault: the array is allocated when the bytes have left their chunks.
dataThrowsLate(b, n, what) ==
  /\ HasBack(b)
  /\ ~Missing(bufs[b], n) /\ ~AtHand(bufs[b], n) /\ ~DataStuck(bufs[b], n)
  /\ Become(b, [bufs[b] EXCEPT !.chunk_list_ = Without(bufs[b], n)], 0)
  /\ Answer(Threw)
  /\ UNCHANGED <<next, stuck>>

\* The array is allocated before a byte is moved, the list node after.
dataThrows(b, n, what) ==
  /\ HasBack(b)
  /\ ~Missing(bufs[b], n) /\ ~AtHand(bufs[b], n) /\ ~DataStuck(bufs[b], n)
  /\ IF what = "chunk" THEN UNCHANGED <<bufs, lent>>
     ELSE Become(b, [bufs[b] EXCEPT !.chunk_list_ = Without(bufs[b], n)], 0)
  /\ Answer(Threw)
  /\ UNCHANGED <<next, stuck>>

dataChunk(b) == HasBack(b) /\ OnlyAnswers(DataChunk(bufs[b]))

element(b, i) == i < bufs[b].size_ /\ OnlyAnswers(<<Element(bufs[b], i)>>)

space(b, n) ==
  /\ Become(b, Space(bufs[b], n), n)
  /\ UNCHANGED <<next, out, stuck>>

\* The empty chunks are gone by the time the allocation fails.
spaceThrows(b, n) ==
  /\ Failures # {}
  /\ ~SpaceFits(bufs[b], n)
  /\ Become(b, DropEmpty(bufs[b]), 0)
  /\ Answer(Threw)
  /\ UNCHANGED <<next, stuck>>

spaceChunk(b) ==
  LET new == SpaceChunk(bufs[b])
  IN  Become(b, new, Room(new)) /\ UNCHANGED <<next, out, stuck>>

spaceChunkThrows(b) ==
  /\ Failures # {}
  /\ Room(bufs[b]) = 0
  /\ OnlyAnswers(Threw)

spaceHaveSeted(b, n) ==
  /\ n > 0 /\ n <= lent[b]
  /\ next + n <= MaxBytes + 1
  /\ Become(b, SpaceHaveSeted(bufs[b], Fresh(n)), 0)
  /\ next' = next + n
  /\ UNCHANGED <<out, stuck>>

default_chunk_size(b, n) ==
  /\ bufs' = [bufs EXCEPT ![b].default_chunk_size_ = n]
  /\ UNCHANGED <<lent, next, out, stuck>>

\* Seeded fault: the lists change hands, the sizes do not.
swapLists(b, c) ==
  /\ bufs' = [bufs EXCEPT ![b].chunk_list_ = bufs[c].chunk_list_,
                          ![c].chunk_list_ = bufs[b].chunk_list_]
  /\ lent' = [lent EXCEPT ![b] = 0, ![c] = 0]
  /\ UNCHANGED <<next, out, stuck>>

swap(b, c) ==
  /\ bufs' = [bufs EXCEPT ![b] = bufs[c], ![c] = bufs[b]]
  /\ lent' = [lent EXCEPT ![b] = 0, ![c] = 0]
  /\ UNCHANGED <<next, out, stuck>>

Next ==
  /\ ~stuck
  /\ \E b \in Buffers :
       \/ \E n \in Lengths :
            \/ push(b, n) \/ pushThrows(b, n)
            \/ drain(b, n)
            \/ data(b, n)
            \/ \E what \in Failures : dataThrows(b, n, what)
            \/ element(b, n)
            \/ space(b, n) \/ spaceThrows(b, n)
            \/ spaceHaveSeted(b, n)
       \/ dataChunk(b)
       \/ spaceChunk(b) \/ spaceChunkThrows(b)
       \/ \E n \in ChunkSizes : default_chunk_size(b, n)
       \/ \E c \in Buffers \ {b} : swap(b, c)

Spec == Init /\ [][Next]_vars

-----------------------------------------------------------------------------

TypeOK ==
  /\ \A b \in Buffers :
       /\ bufs[b].size_ \in 0 .. MaxBytes
       /\ bufs[b].default_chunk_size_ \in ChunkSizes
       /\ \A i \in DOMAIN bufs[b].chunk_list_ :
            /\ bufs[b].chunk_list_[i].data \in Seq(1 .. MaxBytes)
            /\ bufs[b].chunk_list_[i].room \in Nat
       /\ lent[b] \in 0 .. Room(bufs[b])
  /\ next \in 1 .. MaxBytes + 1

\* size_ is what size() answers and what data() and the loops of the handler
\* trust: it must be the number of bytes in the chunks after every call.
SizeIsContent == \A b \in Buffers : bufs[b].size_ = Len(Contents(bufs[b]))

\* data()'s copying loop does nothing on a chunk with nothing to read and
\* never ends if it meets one: only the newest chunk may be empty, and
\* then it still has room.
OnlyNewestMayBeEmpty ==
  \A b \in Buffers : \A i \in DOMAIN bufs[b].chunk_list_ :
    bufs[b].chunk_list_[i].data = <<>> =>
      i = Len(bufs[b].chunk_list_) /\ bufs[b].chunk_list_[i].room > 0

\* The copying loop of data() ends, inside the list.
NeverStuck == ~stuck

\* What the calls rely on, whatever was called before and whichever allocation
\* has failed.
BuffersSound ==
  TypeOK /\ SizeIsContent /\ OnlyNewestMayBeEmpty /\ NeverStuck

Abstract == INSTANCE ByteQueue WITH
  content <- [b \in Buffers |-> Contents(bufs[b])],
  MayThrow <- Failures # {}

\* Through every mixture of the calls each buffer is a queue of bytes: each
\* answer is the one a plain sequence gives, and a chunk that cannot be
\* allocated costs no byte.  That such a call throws, and a push() does not say
\* how much it has added, is not a queue's promise but what the code does.
ImplementsQueue == Abstract!Spec

\* What buffer.h says instead of a failing allocation: push() returns how much
\* it has added, "smaller than len", and space() sets its pointer to nullptr,
\* so that no call leaves by an exception.
FailureIsAnswered == out # Threw
=============================================================================
