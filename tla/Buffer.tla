------------------------------- MODULE Buffer -------------------------------
(***************************************************************************)
(* tl::buffer (buffer.h, buffer.cc): a queue of bytes kept in a list of    *)
(* chunks.  Bytes enter the chunk at list.front() and leave the one at     *)
(* list.back(); chunk_list_ is written here oldest chunk first, so Head is *)
(* back() and the last element is front().                                 *)
(*                                                                         *)
(* A chunk is what can still be read and written of its allocation: data   *)
(* is p[offset .. end), room is cap - end.  Every operator returns the     *)
(* buffer after a call, or what the call gives back.                       *)
(***************************************************************************)
EXTENDS Integers, Sequences, SequencesExt

Larger(m, n) == IF m > n THEN m ELSE n
Smaller(m, n) == IF m < n THEN m ELSE n

Chunk(bytes, free) == [data |-> bytes, room |-> free]

EmptyBuffer(n) == [size_ |-> 0, default_chunk_size_ |-> n, chunk_list_ |-> <<>>]

Oldest(b) == Head(b.chunk_list_)
Newest(b) == Last(b.chunk_list_)

Room(b) == IF b.chunk_list_ = <<>> THEN 0 ELSE Newest(b).room

\* The bytes held by the first i chunks, and how many they are.
Bytes(b, i) == FlattenSeq([j \in 1 .. i |-> b.chunk_list_[j].data])
Behind(b, i) == Len(Bytes(b, i))
Contents(b) == Bytes(b, Len(b.chunk_list_))

AddChunk(b, c) == [b EXCEPT !.chunk_list_ = Append(@, c)]

-----------------------------------------------------------------------------
(* Adding bytes.                                                           *)

\* Write s into the newest chunk, where it has room.
WriteNewest(b, s) ==
  [b EXCEPT !.chunk_list_[Len(b.chunk_list_)] = Chunk(@.data \o s, @.room - Len(s)),
            !.size_ = @ + Len(s)]

PushFits(b, s) == Len(s) <= Room(b)

\* The part of push() before it allocates.
PushHead(b, s) ==
  IF Room(b) = 0 THEN b ELSE WriteNewest(b, SubSeq(s, 1, Smaller(Room(b), Len(s))))

\* Seeded fault: the new chunk is filled from the start of the data.
PushFromStart(b, s) ==
  LET rest == SubSeq(s, 1, Len(s) - Room(b))
      cap == Larger(b.default_chunk_size_, Len(rest))
  IN  IF PushFits(b, s)
      THEN PushHead(b, s)
      ELSE [AddChunk(PushHead(b, s), Chunk(rest, cap - Len(rest)))
              EXCEPT !.size_ = @ + Len(rest)]

Push(b, s) ==
  LET rest == SubSeq(s, Room(b) + 1, Len(s))
      cap == Larger(b.default_chunk_size_, Len(rest))
  IN  IF PushFits(b, s)
      THEN PushHead(b, s)
      ELSE [AddChunk(PushHead(b, s), Chunk(rest, cap - Len(rest)))
              EXCEPT !.size_ = @ + Len(rest)]

\* Seeded fault: empty chunks stay where they are.
KeepEmpty(b) == b

\* space() without its allocation: chunks with nothing to read are dropped
\* from the front of the list.
DropEmpty(b) ==
  LET full == {i \in DOMAIN b.chunk_list_ : b.chunk_list_[i].data # <<>>}
      keep == IF full = {} THEN 0 ELSE CHOOSE i \in full : \A j \in full : j <= i
  IN  [b EXCEPT !.chunk_list_ = SubSeq(@, 1, keep)]

SpaceFits(b, n) == b.chunk_list_ # <<>> /\ n <= Room(b)

Space(b, n) ==
  IF SpaceFits(b, n) THEN b
  ELSE AddChunk(DropEmpty(b), Chunk(<<>>, Larger(n, b.default_chunk_size_)))

SpaceChunk(b) ==
  IF Room(b) > 0 THEN b ELSE AddChunk(b, Chunk(<<>>, b.default_chunk_size_))

\* The caller has written s where space() or spaceChunk() pointed.
SpaceHaveSeted(b, s) == WriteNewest(b, s)

-----------------------------------------------------------------------------
(* Removing and reading bytes.                                             *)

\* The loops of drain() and data() pop a chunk from the back while bytes are
\* still wanted and the chunk has no more than that, then shorten the next.
Popped(b, n) ==
  Cardinality({i \in DOMAIN b.chunk_list_ : Behind(b, i - 1) < n /\ Behind(b, i) <= n})

Shorten(chunks, n) ==
  IF n = 0 \/ chunks = <<>> THEN chunks
  ELSE [chunks EXCEPT ![1].data = SubSeq(@, n + 1, Len(@))]

Without(b, n) ==
  Shorten(SubSeq(b.chunk_list_, Popped(b, n) + 1, Len(b.chunk_list_)),
          n - Behind(b, Popped(b, n)))

Drained(b, n) == Smaller(n, Len(Contents(b)))

Drain(b, n) == [b EXCEPT !.chunk_list_ = Without(b, n), !.size_ = @ - Drained(b, n)]

\* data() answers nullptr, points into the oldest chunk, or gathers n bytes in
\* a new chunk that replaces what it copied.
Missing(b, n) == b.size_ < n
AtHand(b, n) == n <= Len(Oldest(b).data)

Gather(b, n) ==
  [b EXCEPT !.chunk_list_ = <<Chunk(SubSeq(Contents(b), 1, n), 0)>> \o Without(b, n)]

Data(b, n) == IF Missing(b, n) \/ AtHand(b, n) THEN b ELSE Gather(b, n)

Pointed(b, n) ==
  IF Missing(b, n) THEN <<>> ELSE SubSeq(Oldest(Data(b, n)).data, 1, n)

\* The loop of data() does not get past a chunk with nothing to read, and
\* takes back() of an empty list when the chunks hold less than size_.
DataStuck(b, n) ==
  /\ ~Missing(b, n)
  /\ ~AtHand(b, n)
  /\ \/ Len(Contents(b)) < n
     \/ \E i \in DOMAIN b.chunk_list_ : b.chunk_list_[i].data = <<>> /\ Behind(b, i) < n

\* Seeded fault: the chunk at the wrong end of the list.
NewestChunk(b) == Newest(b).data

DataChunk(b) == Oldest(b).data

\* operator[]: the chunk that holds byte i (from 0), searched from the back.
Element(b, i) ==
  LET at == CHOOSE j \in DOMAIN b.chunk_list_ : Behind(b, j - 1) <= i /\ i < Behind(b, j)
  IN  b.chunk_list_[at].data[i - Behind(b, at - 1) + 1]
=============================================================================
