--------------------------- MODULE BufferUseProofs ---------------------------
(***************************************************************************)
(* Proofs about BufferUse, for every set of buffers, every size of a chunk *)
(* and every length of a call; and about HandlerBuffers, which uses two    *)
(* buffers.                                                                *)
(***************************************************************************)
EXTENDS BufferUse, FiniteSetTheorems, SequenceTheorems, WellFoundedInduction, TLAPS

-----------------------------------------------------------------------------
(* Induction on the natural numbers, as a fact about sets of them.         *)

Below == {p \in Nat \X Nat : p[1] < p[2]}

LEMMA BelowIsWellFounded == IsWellFoundedOn(Below, Nat)
<1>1. Below \cap (Nat \X Nat) \subseteq OpToRel(<, Nat)
  BY DEF OpToRel, Below
<1> QED BY <1>1, NatLessThanWellFounded, IsWellFoundedOnSubrelation

LEMMA LeastExists ==
  ASSUME NEW T, T \subseteq Nat, T # {}
  PROVE  \E x \in T : \A y \in T : x <= y
<1>1. PICK x \in T : \A y \in T : ~ (<<y, x>> \in Below)
  BY BelowIsWellFounded, WFMin
<1>2. \A y \in T : ~(y < x)
  BY <1>1 DEF Below
<1> QED BY <1>2

LEMMA InductionOnSet ==
  ASSUME NEW S \in SUBSET Nat, 0 \in S, \A n \in S : n + 1 \in S
  PROVE  S = Nat
<1> SUFFICES ASSUME S # Nat PROVE FALSE
  OBVIOUS
<1> DEFINE T == Nat \ S
<1>1. PICK x \in T : \A y \in T : x <= y
  BY LeastExists
<1>2. x # 0 /\ x - 1 \in Nat /\ x - 1 \notin T
  BY <1>1
<1> QED BY <1>1, <1>2

-----------------------------------------------------------------------------
(* The bytes of the first i chunks: FlattenSeq() step by step.             *)

\* f is the function FlattenSeq() builds from the first n of s.
Flattens(f, s, n) == f = [i \in 1 .. n |-> IF i = 1 THEN s[i] ELSE f[i - 1] \o s[i]]

LEMMA FlattenIsDefined ==
  ASSUME NEW s, NEW n \in Nat
  PROVE  \E f : Flattens(f, s, n)
<1> DEFINE S == {m \in Nat : \E f : Flattens(f, s, m)}
<1>1. 0 \in S
  <2>1. Flattens([i \in 1 .. 0 |-> 0], s, 0)
    BY DEF Flattens
  <2> QED BY <2>1
<1>2. ASSUME NEW m \in S PROVE m + 1 \in S
  <2>1. PICK f : Flattens(f, s, m)
    BY <1>2
  <2> DEFINE g == [i \in 1 .. m + 1 |-> IF i = 1 THEN s[i] ELSE f[i - 1] \o s[i]]
  <2>2. \A i \in 1 .. m : g[i] = f[i]
    <3> TAKE i \in 1 .. m
    <3>1. f[i] = IF i = 1 THEN s[i] ELSE f[i - 1] \o s[i]
      BY <2>1 DEF Flattens
    <3>2. i \in 1 .. m + 1
      OBVIOUS
    <3> QED BY <3>1, <3>2
  <2>3. \A i \in 1 .. m + 1 : i # 1 => g[i - 1] = f[i - 1]
    <3> TAKE i \in 1 .. m + 1
    <3>1. i # 1 => i - 1 \in 1 .. m
      OBVIOUS
    <3> HIDE DEF g
    <3> QED BY <2>2, <3>1
  <2>4. Flattens(g, s, m + 1)
    <3>1. g = [i \in 1 .. m + 1 |-> IF i = 1 THEN s[i] ELSE g[i - 1] \o s[i]]
      BY <2>3
    <3> QED BY <3>1 DEF Flattens
  <2> QED BY <2>4
<1>3. S = Nat
  <2> HIDE DEF S
  <2>1. S \subseteq Nat
    BY DEF S
  <2> QED BY <1>1, <1>2, <2>1, InductionOnSet
<1> QED BY <1>3

\* What such a function says of a place depends on what comes before it alone.
LEMMA FlattensAgree ==
  ASSUME NEW s, NEW f, NEW m \in Nat, Flattens(f, s, m),
         NEW t, NEW g, NEW n \in Nat, Flattens(g, t, n),
         NEW k \in Nat, k <= m, k <= n, \A i \in 1 .. k : s[i] = t[i]
  PROVE  \A i \in 1 .. k : f[i] = g[i]
<1> SUFFICES ASSUME NEW j \in 1 .. k, f[j] # g[j] PROVE FALSE
  OBVIOUS
<1> DEFINE T == {i \in 1 .. k : f[i] # g[i]}
<1>1. PICK x \in T : \A y \in T : x <= y
  <2>1. T \subseteq Nat /\ j \in T
    OBVIOUS
  <2> HIDE DEF T
  <2> QED BY <2>1, LeastExists
<1>2. x \in 1 .. m /\ x \in 1 .. n /\ s[x] = t[x]
  OBVIOUS
<1>3. f[x] = (IF x = 1 THEN s[x] ELSE f[x - 1] \o s[x])
  BY <1>2 DEF Flattens
<1>4. g[x] = (IF x = 1 THEN t[x] ELSE g[x - 1] \o t[x])
  BY <1>2 DEF Flattens
<1>5. x # 1 => f[x - 1] = g[x - 1]
  <2>1. ASSUME x # 1 PROVE x - 1 \in 1 .. k /\ ~(x <= x - 1)
    BY <2>1
  <2> QED BY <1>1, <2>1
<1> QED BY <1>2, <1>3, <1>4, <1>5

LEMMA FlattenValue ==
  ASSUME NEW n \in Nat \ {0}, NEW s, Len(s) = n
  PROVE  \E f : Flattens(f, s, n) /\ FlattenSeq(s) = f[n]
<1> DEFINE f == CHOOSE h : Flattens(h, s, n)
<1>1. Flattens(f, s, n)
  <2>1. \E h : Flattens(h, s, n)
    BY FlattenIsDefined
  <2> QED BY <2>1
<1>2. FlattenSeq(s) = f[n]
  BY DEF FlattenSeq, Flattens
<1> QED BY <1>1, <1>2

\* The bytes of the first i chunks of the list l, of which each holds bytes of
\* the set V.
Flat(l, i) == FlattenSeq([j \in 1 .. i |-> l[j].data])
Chunks(V) == Seq([data : Seq(V), room : Nat])

\* This keeps the provers from expanding what it stands for.
Cat(s, t) == s \o t

LEMMA ChunkTypes ==
  ASSUME NEW V, NEW l \in Chunks(V), NEW i \in 1 .. Len(l)
  PROVE  /\ l[i] \in [data : Seq(V), room : Nat]
         /\ l[i].data \in Seq(V) /\ l[i].room \in Nat /\ Len(l[i].data) \in Nat
<1>1. l[i] \in [data : Seq(V), room : Nat]
  BY ElementOfSeq DEF Chunks
<1>2. l[i].data \in Seq(V) /\ l[i].room \in Nat
  BY <1>1
<1> QED BY <1>1, <1>2, LenProperties

LEMMA FlatNone ==
  ASSUME NEW l
  PROVE  Flat(l, 0) = <<>>
<1>1. [j \in 1 .. 0 |-> l[j].data] = <<>>
  OBVIOUS
<1> QED BY <1>1 DEF Flat, FlattenSeq

LEMMA FlatSame ==
  ASSUME NEW l, NEW m, NEW i \in Nat, \A j \in 1 .. i : l[j].data = m[j].data
  PROVE  Flat(l, i) = Flat(m, i)
<1>1. [j \in 1 .. i |-> l[j].data] = [j \in 1 .. i |-> m[j].data]
  OBVIOUS
<1> QED BY <1>1 DEF Flat

LEMMA FlatStep ==
  ASSUME NEW V, NEW l \in Chunks(V), NEW i \in Nat, i + 1 <= Len(l)
  PROVE  Flat(l, i + 1) = Cat(Flat(l, i), l[i + 1].data)
<1> DEFINE s == [j \in 1 .. i + 1 |-> l[j].data]
           t == [j \in 1 .. i |-> l[j].data]
           n == i + 1
<1>0. n \in Nat \ {0} /\ Len(s) = n /\ Len(t) = i /\ n \in 1 .. n /\ Len(l) \in Nat
  BY LenProperties DEF Chunks
<1>1. s[n] = l[n].data /\ l[n].data \in Seq(V)
  BY ChunkTypes
<1>2. Flat(l, n) = FlattenSeq(s) /\ Flat(l, i) = FlattenSeq(t)
  BY DEF Flat
<1>3. \A j \in 1 .. i : s[j] = t[j]
  OBVIOUS
<1> HIDE DEF s, t
<1>4. PICK f : Flattens(f, s, n) /\ FlattenSeq(s) = f[n]
  BY <1>0, FlattenValue
<1>5. f[n] = IF n = 1 THEN s[n] ELSE f[n - 1] \o s[n]
  BY <1>0, <1>4 DEF Flattens
<1>6. CASE i = 0
  <2>1. FlattenSeq(s) = l[n].data /\ Flat(l, i) = <<>>
    BY <1>1, <1>4, <1>5, <1>6, FlatNone
  <2> QED BY <1>1, <1>2, <2>1, ConcatEmptySeq DEF Cat
<1>7. CASE i # 0
  <2>1. PICK g : Flattens(g, t, i) /\ FlattenSeq(t) = g[i]
    BY <1>0, <1>7, FlattenValue
  <2>2. i <= n /\ i <= i /\ i \in 1 .. i
    BY <1>7
  <2>3. f[i] = g[i]
    BY <1>0, <1>3, <1>4, <2>1, <2>2, FlattensAgree
  <2>4. FlattenSeq(s) = FlattenSeq(t) \o l[n].data
    <3>1. n # 1 /\ n - 1 = i
      BY <1>7
    <3> HIDE DEF n
    <3> QED BY <1>1, <1>4, <1>5, <2>1, <2>3, <3>1
  <2> QED BY <1>2, <2>4 DEF Cat
<1> QED BY <1>6, <1>7

LEMMA FlatType ==
  ASSUME NEW V, NEW l \in Chunks(V), NEW i \in 0 .. Len(l)
  PROVE  Flat(l, i) \in Seq(V) /\ Len(Flat(l, i)) \in Nat
<1> DEFINE S == {n \in Nat : n <= Len(l) => Flat(l, n) \in Seq(V)}
<1>0. Len(l) \in Nat
  BY LenProperties DEF Chunks
<1>1. 0 \in S
  BY FlatNone, EmptySeq
<1>2. ASSUME NEW n \in S PROVE n + 1 \in S
  <2>1. n \in Nat
    OBVIOUS
  <2>2. CASE n + 1 <= Len(l)
    <3>1. n + 1 \in 1 .. Len(l) /\ Flat(l, n) \in Seq(V)
      BY <1>0, <2>1, <2>2
    <3>2. l[n + 1].data \in Seq(V)
      BY <3>1, ChunkTypes
    <3>3. Flat(l, n + 1) \in Seq(V)
      BY <2>1, <2>2, <3>1, <3>2, FlatStep, ConcatProperties DEF Cat
    <3> QED BY <2>1, <3>3
  <2>3. CASE ~(n + 1 <= Len(l))
    BY <2>1, <2>3
  <2> QED BY <2>2, <2>3
<1>3. S = Nat
  <2>1. S \subseteq Nat
    OBVIOUS
  <2> HIDE DEF S
  <2> QED BY <1>1, <1>2, <2>1, InductionOnSet
<1>4. Flat(l, i) \in Seq(V)
  BY <1>0, <1>3
<1> QED BY <1>4, LenProperties

\* The list l without its first k chunks.
Rest(l, k) == SubSeq(l, k + 1, Len(l))

LEMMA CatElements ==
  ASSUME NEW V, NEW s \in Seq(V), NEW t \in Seq(V)
  PROVE  /\ \A i \in 1 .. Len(s) : Cat(s, t)[i] = s[i]
         /\ \A i \in 1 .. Len(t) : Cat(s, t)[Len(s) + i] = t[i]
<1>1. Len(s) \in Nat /\ Len(t) \in Nat
  BY LenProperties
<1>2. \A i \in 1 .. Len(s) + Len(t) : (s \o t)[i] = IF i <= Len(s) THEN s[i] ELSE t[i - Len(s)]
  BY ConcatProperties
<1>3. \A i \in 1 .. Len(s) : (s \o t)[i] = s[i]
  BY <1>1, <1>2
<1>4. ASSUME NEW i \in 1 .. Len(t) PROVE (s \o t)[Len(s) + i] = t[i]
  <2>1. Len(s) + i \in 1 .. Len(s) + Len(t) /\ ~(Len(s) + i <= Len(s))
        /\ (Len(s) + i) - Len(s) = i
    BY <1>1
  <2> QED BY <1>2, <2>1
<1> QED BY <1>3, <1>4 DEF Cat

LEMMA CatFacts ==
  ASSUME NEW V, NEW s \in Seq(V), NEW t \in Seq(V)
  PROVE  /\ Cat(s, t) \in Seq(V) /\ Len(s) \in Nat /\ Len(t) \in Nat
         /\ Len(Cat(s, t)) = Len(s) + Len(t)
         /\ Cat(s, <<>>) = s /\ Cat(<<>>, s) = s
         /\ \A u \in Seq(V) : Cat(Cat(s, t), u) = Cat(s, Cat(t, u))
<1>1. Len(s) \in Nat /\ Len(t) \in Nat
  BY LenProperties
<1>2. s \o t \in Seq(V) /\ Len(s \o t) = Len(s) + Len(t)
  BY ConcatProperties
<1>3. s \o <<>> = s /\ <<>> \o s = s
  BY ConcatEmptySeq
<1>4. \A u \in Seq(V) : (s \o t) \o u = s \o (t \o u)
  BY ConcatAssociative
<1> QED BY <1>1, <1>2, <1>3, <1>4 DEF Cat

\* What is needed of it when only the lengths matter.
LEMMA CatLength ==
  ASSUME NEW V, NEW s \in Seq(V), NEW t \in Seq(V)
  PROVE  Cat(s, t) \in Seq(V) /\ Len(Cat(s, t)) = Len(s) + Len(t)
BY CatFacts

LEMMA RestFacts ==
  ASSUME NEW V, NEW l \in Chunks(V), NEW k \in 0 .. Len(l)
  PROVE  /\ Len(l) \in Nat
         /\ Rest(l, k) \in Chunks(V) /\ Len(Rest(l, k)) = Len(l) - k
         /\ \A i \in 1 .. Len(l) - k : Rest(l, k)[i] = l[k + i]
<1> DEFINE R == [data : Seq(V), room : Nat]
           n == Len(l)
<1>1. n \in Nat /\ l \in Seq(R)
  BY LenProperties DEF Chunks
<1>2. \A i \in k + 1 .. n : l[i] \in R
  <2> TAKE i \in k + 1 .. n
  <2>1. i \in 1 .. Len(l)
    BY <1>1
  <2> HIDE DEF R
  <2> QED BY <1>1, <2>1, ElementOfSeq
<1>3. k + 1 \in Int /\ n \in Int
  BY <1>1
<1> HIDE DEF R, n
<1>4. /\ SubSeq(l, k + 1, n) \in Seq(R)
      /\ Len(SubSeq(l, k + 1, n)) = IF k + 1 <= n THEN n - (k + 1) + 1 ELSE 0
      /\ \A i \in 1 .. n - (k + 1) + 1 : SubSeq(l, k + 1, n)[i] = l[k + 1 + i - 1]
  BY <1>2, <1>3, SubSeqProperties
<1>5. k \in 0 .. n
  BY DEF n
<1>6. Len(SubSeq(l, k + 1, n)) = n - k
  BY <1>1, <1>4, <1>5
<1>7. \A i \in 1 .. n - k : SubSeq(l, k + 1, n)[i] = l[k + i]
  <2> TAKE i \in 1 .. n - k
  <2>1. i \in 1 .. n - (k + 1) + 1 /\ k + 1 + i - 1 = k + i
    BY <1>1, <1>5
  <2> QED BY <1>4, <2>1
<1> QED BY <1>1, <1>4, <1>6, <1>7 DEF Rest, Chunks, R, n

\* The bytes of a list are those of its beginning, then those of the rest.
LEMMA FlatJoin ==
  ASSUME NEW V, NEW l \in Chunks(V), NEW k \in 0 .. Len(l), NEW j \in 0 .. Len(l) - k
  PROVE  Flat(l, k + j) = Cat(Flat(l, k), Flat(Rest(l, k), j))
<1> DEFINE r == Rest(l, k)
           S == {n \in Nat : k + n <= Len(l) => Flat(l, k + n) = Cat(Flat(l, k), Flat(r, n))}
<1>0. /\ Len(l) \in Nat /\ k \in Nat /\ r \in Chunks(V) /\ Len(r) = Len(l) - k
      /\ \A i \in 1 .. Len(l) - k : r[i] = l[k + i]
  BY RestFacts
<1> HIDE DEF r
<1>1. 0 \in S
  <2>1. Flat(l, k) \in Seq(V) /\ Flat(r, 0) = <<>> /\ k + 0 = k
    BY <1>0, FlatType, FlatNone
  <2> QED BY <2>1, CatFacts
<1>2. ASSUME NEW n \in S PROVE n + 1 \in S
  <2>1. n \in Nat
    OBVIOUS
  <2>2. CASE k + (n + 1) <= Len(l)
    <3> DEFINE m == k + n
               d == l[m + 1].data
    <3>1. /\ m \in Nat /\ m + 1 <= Len(l) /\ m + 1 \in 1 .. Len(l) /\ k + (n + 1) = m + 1
          /\ n \in 0 .. Len(r) /\ n + 1 <= Len(r) /\ n + 1 \in 1 .. Len(l) - k
          /\ k + (n + 1) = m + 1
      BY <1>0, <2>1, <2>2
    <3>2. Flat(l, m) = Cat(Flat(l, k), Flat(r, n))
      BY <1>0, <2>1, <2>2
    <3>3. r[n + 1].data = d
      BY <1>0, <3>1
    <3>4. d \in Seq(V) /\ Flat(l, k) \in Seq(V) /\ Flat(r, n) \in Seq(V)
      BY <1>0, <3>1, ChunkTypes, FlatType
    <3> HIDE DEF S, d
    <3>5. Flat(l, m + 1) = Cat(Flat(l, m), d)
      <4> HIDE DEF m
      <4> QED BY <3>1, FlatStep DEF d
    <3>6. Flat(r, n + 1) = Cat(Flat(r, n), d)
      BY <1>0, <2>1, <3>1, <3>3, FlatStep
    <3>7. Flat(l, m + 1) = Cat(Flat(l, k), Flat(r, n + 1))
      <4> HIDE DEF m
      <4> QED BY <3>2, <3>4, <3>5, <3>6, CatFacts
    <3> QED BY <2>1, <3>1, <3>7 DEF S
  <2>3. CASE ~(k + (n + 1) <= Len(l))
    BY <2>1, <2>3
  <2> QED BY <2>2, <2>3
<1>3. S = Nat
  <2>1. S \subseteq Nat
    OBVIOUS
  <2> HIDE DEF S
  <2> QED BY <1>1, <1>2, <2>1, InductionOnSet
<1>4. j \in Nat /\ k + j <= Len(l)
  BY <1>0
<1> QED BY <1>3, <1>4 DEF r

\* The first i chunks hold no more than the first j do, and the beginning of
\* what those hold.
LEMMA FlatGrows ==
  ASSUME NEW V, NEW l \in Chunks(V), NEW j \in 0 .. Len(l), NEW i \in 0 .. j
  PROVE  /\ Len(Flat(l, i)) <= Len(Flat(l, j))
         /\ \A k \in 1 .. Len(Flat(l, i)) : Flat(l, j)[k] = Flat(l, i)[k]
<1> DEFINE r == Rest(l, i)
           c == j - i
<1>1. Len(l) \in Nat
  BY LenProperties DEF Chunks
<1>2. i \in 0 .. Len(l) /\ c \in 0 .. Len(l) - i /\ i + c = j
  BY <1>1
<1>3. r \in Chunks(V) /\ Len(r) = Len(l) - i
  BY <1>2, RestFacts
<1> HIDE DEF r, c
<1>4. Flat(l, i) \in Seq(V) /\ Flat(r, c) \in Seq(V)
  BY <1>2, <1>3, FlatType
<1>5. Flat(l, j) = Cat(Flat(l, i), Flat(r, c))
  BY <1>2, FlatJoin DEF r
<1> DEFINE a == Flat(l, i)
           b == Flat(r, c)
<1>6. /\ Len(a) \in Nat /\ Len(b) \in Nat /\ Len(Cat(a, b)) = Len(a) + Len(b)
      /\ \A k \in 1 .. Len(a) : Cat(a, b)[k] = a[k]
  <2> HIDE DEF a, b
  <2>1. a \in Seq(V) /\ b \in Seq(V)
    BY <1>4 DEF a, b
  <2> QED BY <2>1, CatFacts, CatElements
<1> QED BY <1>5, <1>6

-----------------------------------------------------------------------------
(* One buffer between two calls.                                           *)

Byte == 1 .. MaxBytes
BufferType == [size_ : Nat, default_chunk_size_ : ChunkSizes, chunk_list_ : Chunks(Byte)]

All(l) == Flat(l, Len(l))

\* No chunk of l is without bytes; the newest alone is, and has room.
AllFull(l) == \A i \in 1 .. Len(l) : l[i].data # <<>>
NewestOnly(l) == \A i \in 1 .. Len(l) : l[i].data = <<>> => i = Len(l) /\ l[i].room > 0

Sound(x) ==
  /\ x \in BufferType
  /\ x.size_ = Len(Contents(x))
  /\ NewestOnly(x.chunk_list_)

LEMMA BytesAreFlat ==
  ASSUME NEW x, NEW i
  PROVE  Bytes(x, i) = Flat(x.chunk_list_, i) /\ Contents(x) = All(x.chunk_list_)
BY DEF Bytes, Contents, Flat, All

LEMMA BufferFacts ==
  ASSUME NEW x \in BufferType
  PROVE  /\ x.chunk_list_ \in Chunks(Byte) /\ x.size_ \in Nat
         /\ x.default_chunk_size_ \in ChunkSizes /\ x.default_chunk_size_ \in Nat \ {0}
         /\ Len(x.chunk_list_) \in Nat
         /\ x.chunk_list_ # <<>> <=> Len(x.chunk_list_) > 0
         /\ Contents(x) \in Seq(Byte) /\ Len(Contents(x)) \in Nat
         /\ Room(x) \in Nat
         /\ x.chunk_list_ # <<>> => Room(x) = x.chunk_list_[Len(x.chunk_list_)].room
<1> DEFINE l == x.chunk_list_
<1>1. l \in Chunks(Byte) /\ x.size_ \in Nat /\ x.default_chunk_size_ \in ChunkSizes
  BY DEF BufferType
<1>2. x.default_chunk_size_ \in Nat \ {0}
  BY <1>1, BufferAssumption
<1>3. Len(l) \in Nat /\ (l # <<>> <=> Len(l) > 0)
  BY <1>1, EmptySeq, LenProperties DEF Chunks
<1>4. Contents(x) \in Seq(Byte) /\ Len(Contents(x)) \in Nat
  <2>1. Len(l) \in 0 .. Len(l)
    BY <1>3
  <2> HIDE DEF l
  <2>2. Flat(l, Len(l)) \in Seq(Byte) /\ Len(Flat(l, Len(l))) \in Nat
    BY <1>1, <2>1, FlatType
  <2>3. Contents(x) = Flat(l, Len(l))
    BY BytesAreFlat DEF All, l
  <2> QED BY <2>2, <2>3
<1>5. l # <<>> => Room(x) = l[Len(l)].room
  BY DEF Room, Newest, Last
<1>6. Room(x) \in Nat
  <2>1. CASE l = <<>>
    BY <2>1 DEF Room
  <2>2. CASE l # <<>>
    <3>1. Len(l) \in 1 .. Len(l)
      BY <1>3, <2>2
    <3> HIDE DEF l
    <3>2. l[Len(l)].room \in Nat
      BY <1>1, <3>1, ChunkTypes
    <3> QED BY <1>5, <2>2, <3>2 DEF l
  <2> QED BY <2>1, <2>2
<1> QED BY <1>1, <1>2, <1>3, <1>4, <1>5, <1>6

\* A chunk added behind the list, and the bytes counted.
Grown(x, c, n) == [AddChunk(x, c) EXCEPT !.size_ = n]

LEMMA AddValue ==
  ASSUME NEW x \in BufferType, NEW c \in [data : Seq(Byte), room : Nat],
         AllFull(x.chunk_list_), NEW n \in Nat, n = x.size_ + Len(c.data),
         c.data = <<>> => c.room > 0,
         NEW y, y = Grown(x, c, n)
  PROVE  /\ y \in BufferType /\ y.size_ = n /\ NewestOnly(y.chunk_list_)
         /\ y.chunk_list_ # <<>> /\ Room(y) = c.room
         /\ Contents(y) = Cat(Contents(x), c.data)
<1> DEFINE l == x.chunk_list_
           m == Append(l, c)
           k == Len(l)
<1>1. l \in Chunks(Byte) /\ k \in Nat
  BY BufferFacts
<1>2. y = [x EXCEPT !.chunk_list_ = m, !.size_ = n]
  BY DEF Grown, AddChunk, BufferType
<1>3. m \in Chunks(Byte) /\ Len(m) = k + 1 /\ (\A i \in 1 .. k : m[i] = l[i]) /\ m[k + 1] = c
      /\ m # <<>>
  <2> DEFINE R == [data : Seq(Byte), room : Nat]
  <2>1. l \in Seq(R) /\ c \in R
    BY <1>1 DEF Chunks
  <2> HIDE DEF l, R
  <2>2. /\ m \in Seq(R) /\ m # <<>> /\ Len(m) = k + 1
        /\ \A i \in 1 .. k : m[i] = l[i]
        /\ m[k + 1] = c
    BY <2>1, AppendProperties
  <2> QED BY <2>2 DEF Chunks, R
<1> HIDE DEF m, l, k
<1>4. y.chunk_list_ = m /\ y.size_ = n /\ y \in BufferType
  BY <1>2, <1>3 DEF BufferType
<1>5. NewestOnly(m)
  <2>1. \A i \in 1 .. k : m[i].data # <<>>
    BY <1>3 DEF AllFull, l, k
  <2> QED BY <1>1, <1>3, <2>1 DEF NewestOnly
<1>6. Room(y) = c.room
  BY <1>3, <1>4, BufferFacts
<1>7. Flat(m, k + 1) = Cat(Flat(l, k), c.data)
  <2>1. Flat(m, k + 1) = Cat(Flat(m, k), m[k + 1].data)
    BY <1>1, <1>3, FlatStep
  <2>2. Flat(m, k) = Flat(l, k)
    BY <1>1, <1>3, FlatSame
  <2> QED BY <1>3, <2>1, <2>2
<1>8. Contents(y) = Cat(Contents(x), c.data)
  <2>1. Contents(y) = Flat(m, Len(m)) /\ Contents(x) = Flat(l, k)
    BY <1>4, BytesAreFlat DEF All, l, k
  <2> QED BY <1>3, <1>7, <2>1
<1>9. y.chunk_list_ # <<>> /\ NewestOnly(y.chunk_list_)
  BY <1>3, <1>4, <1>5
<1> QED BY <1>4, <1>6, <1>8, <1>9

\* Bytes written where the newest chunk has room.
LEMMA WriteValue ==
  ASSUME NEW x \in BufferType, x.chunk_list_ # <<>>, NEW s \in Seq(Byte), Len(s) <= Room(x),
         NEW y, y = WriteNewest(x, s)
  PROVE  /\ y \in BufferType /\ y.size_ = x.size_ + Len(s)
         /\ Len(y.chunk_list_) = Len(x.chunk_list_) /\ y.chunk_list_ # <<>>
         /\ \A i \in 1 .. Len(x.chunk_list_) :
              i # Len(x.chunk_list_) => y.chunk_list_[i] = x.chunk_list_[i]
         /\ y.chunk_list_[Len(x.chunk_list_)].data = Cat(x.chunk_list_[Len(x.chunk_list_)].data, s)
         /\ Room(y) = Room(x) - Len(s)
         /\ Contents(y) = Cat(Contents(x), s)
         /\ y.default_chunk_size_ = x.default_chunk_size_
<1> DEFINE l == x.chunk_list_
           k == Len(l)
           d == l[k].data
           r == l[k].room
           n == Len(s)
           c == Chunk(d \o s, r - n)
           m == [l EXCEPT ![k] = c]
           z == x.size_ + n
<1>1. l \in Chunks(Byte) /\ k \in Nat /\ k \in 1 .. k /\ Room(x) = r /\ x.size_ \in Nat
  BY BufferFacts
<1>2. n \in Nat /\ z \in Nat /\ n <= r
  BY <1>1, LenProperties
<1>3. d \in Seq(Byte) /\ r \in Nat
  <2> HIDE DEF l
  <2> QED BY <1>1, ChunkTypes
<1>4. c.data = Cat(d, s) /\ c.room = r - n /\ c \in [data : Seq(Byte), room : Nat]
  <2>1. d \o s \in Seq(Byte)
    BY <1>3, ConcatProperties
  <2>2. r - n \in Nat
    BY <1>2, <1>3
  <2> HIDE DEF d, r, n
  <2> QED BY <2>1, <2>2 DEF Chunk, Cat
<1>5. y = [x EXCEPT !.chunk_list_ = m, !.size_ = z]
  BY DEF WriteNewest, BufferType
<1>6. /\ m \in Chunks(Byte) /\ Len(m) = k /\ m[k] = c
      /\ \A i \in 1 .. k : i # k => m[i] = l[i]
  <2>1. l \in Seq([data : Seq(Byte), room : Nat])
    BY <1>1 DEF Chunks
  <2> HIDE DEF l, c
  <2> QED BY <1>1, <1>4, <2>1, ExceptSeq DEF Chunks
<1> HIDE DEF m, z
<1>7. y.chunk_list_ = m /\ y.size_ = z /\ y \in BufferType /\ y.default_chunk_size_ = x.default_chunk_size_
  BY <1>2, <1>5, <1>6 DEF BufferType
<1>8. m # <<>> /\ Room(y) = r - n
  BY <1>1, <1>4, <1>6, <1>7, BufferFacts
<1> HIDE DEF l, d, r, c, n
<1>9. Flat(m, k) = Cat(Flat(l, k), s)
  <2> DEFINE j == k - 1
  <2>1. j \in Nat /\ j + 1 = k /\ j + 1 <= Len(l) /\ j + 1 <= Len(m) /\ j \in 0 .. Len(l)
    BY <1>1, <1>6 DEF k
  <2> HIDE DEF j, k
  <2>2. Flat(m, k) = Cat(Flat(m, j), c.data) /\ Flat(l, k) = Cat(Flat(l, j), d)
    <3>1. Flat(m, j + 1) = Cat(Flat(m, j), m[j + 1].data)
      BY <1>6, <2>1, FlatStep
    <3>2. Flat(l, j + 1) = Cat(Flat(l, j), l[j + 1].data)
      BY <1>1, <2>1, FlatStep
    <3> QED BY <1>6, <2>1, <3>1, <3>2 DEF d
  <2>3. Flat(m, j) = Flat(l, j)
    <3>1. \A i \in 1 .. j : m[i].data = l[i].data
      BY <1>1, <1>6, <2>1
    <3> QED BY <2>1, <3>1, FlatSame
  <2>4. Flat(l, j) \in Seq(Byte)
    BY <1>1, <2>1, FlatType
  <2> QED BY <1>3, <1>4, <2>2, <2>3, <2>4, CatFacts
<1>10. Contents(y) = Cat(Contents(x), s)
  BY <1>6, <1>7, <1>9, BytesAreFlat DEF All, l, k
<1>11. y.chunk_list_[k].data = Cat(d, s)
  BY <1>4, <1>6, <1>7
<1>12. \A i \in 1 .. k : i # k => y.chunk_list_[i] = l[i]
  BY <1>6, <1>7
<1>13. Len(y.chunk_list_) = k /\ y.chunk_list_ # <<>> /\ Room(y) = Room(x) - n
  BY <1>1, <1>6, <1>7, <1>8
<1> QED BY <1>7, <1>10, <1>11, <1>12, <1>13 DEF l, d, n, k, z

\* Any bytes written into a sound buffer leave it sound; all its chunks are
\* full once the newest has no room left.
LEMMA WriteSound ==
  ASSUME NEW x, Sound(x), x.chunk_list_ # <<>>, NEW s \in Seq(Byte), Len(s) <= Room(x)
  PROVE  /\ Sound(WriteNewest(x, s))
         /\ Contents(WriteNewest(x, s)) = Cat(Contents(x), s)
         /\ WriteNewest(x, s).size_ = x.size_ + Len(s)
         /\ WriteNewest(x, s).default_chunk_size_ = x.default_chunk_size_
         /\ s # <<>> => AllFull(WriteNewest(x, s).chunk_list_)
<1> DEFINE y == WriteNewest(x, s)
           l == x.chunk_list_
           m == y.chunk_list_
           k == Len(l)
<1>1. x \in BufferType /\ x.size_ = Len(Contents(x)) /\ NewestOnly(l)
  BY DEF Sound
<1>2. /\ y \in BufferType /\ y.size_ = x.size_ + Len(s) /\ Len(m) = k /\ m # <<>>
      /\ \A i \in 1 .. k : i # k => m[i] = l[i]
      /\ m[k].data = Cat(l[k].data, s) /\ Room(y) = Room(x) - Len(s)
      /\ Contents(y) = Cat(Contents(x), s) /\ y.default_chunk_size_ = x.default_chunk_size_
  <2>1. x \in BufferType /\ x.chunk_list_ # <<>> /\ s \in Seq(Byte) /\ Len(s) <= Room(x)
    BY <1>1
  <2> HIDE DEF y
  <2>2. y = WriteNewest(x, s)
    BY DEF y
  <2> QED BY ONLY <2>1, <2>2, WriteValue
<1> HIDE DEF y, l, m, k
<1>3. /\ k \in Nat /\ k \in 1 .. k /\ l \in Chunks(Byte) /\ l[k].data \in Seq(Byte)
      /\ Room(y) = m[k].room /\ Room(x) = l[k].room /\ l[k].room \in Nat /\ Contents(x) \in Seq(Byte)
  <2>1. k \in Nat /\ k \in 1 .. k /\ l \in Chunks(Byte) /\ Contents(x) \in Seq(Byte)
        /\ Room(x) = l[k].room
    BY <1>1, BufferFacts DEF l, k
  <2>2. Room(y) = m[k].room
    BY <1>2, BufferFacts DEF m
  <2> QED BY <2>1, <2>2, ChunkTypes DEF k
<1>4. y.size_ = Len(Contents(y))
  BY <1>1, <1>2, <1>3, CatFacts
<1>5. \A i \in 1 .. k : i # k => m[i].data # <<>>
  BY <1>1, <1>2 DEF NewestOnly, k
<1>6. m[k].data = <<>> => l[k].data = <<>> /\ s = <<>>
  <2> DEFINE d == l[k].data
  <2>1. d \in Seq(Byte) /\ m[k].data = d \o s
    BY <1>2, <1>3 DEF Cat
  <2> HIDE DEF d
  <2>2. d \o s = <<>> => d = <<>> /\ s = <<>>
    BY <2>1, ConcatEqualIffEmpty
  <2> QED BY <2>1, <2>2 DEF d
<1>7. m[k].data = <<>> => m[k].room > 0
  <2>1. ASSUME l[k].data = <<>> PROVE l[k].room > 0
    BY <1>1, <1>3, <2>1 DEF NewestOnly, k
  <2>2. s = <<>> => Len(s) = 0
    OBVIOUS
  <2> QED BY <1>2, <1>3, <1>6, <2>1, <2>2
<1>8. NewestOnly(m)
  BY <1>2, <1>5, <1>7 DEF NewestOnly
<1>9. s # <<>> => AllFull(m)
  BY <1>2, <1>5, <1>6 DEF AllFull
<1> QED BY <1>2, <1>4, <1>8, <1>9 DEF Sound, y, m

-----------------------------------------------------------------------------
(* push().                                                                 *)

LEMMA SplitFacts ==
  ASSUME NEW V, NEW s \in Seq(V), NEW n \in 0 .. Len(s)
  PROVE  /\ SubSeq(s, 1, n) \in Seq(V) /\ SubSeq(s, n + 1, Len(s)) \in Seq(V)
         /\ Len(SubSeq(s, 1, n)) = n /\ Len(SubSeq(s, n + 1, Len(s))) = Len(s) - n
         /\ Cat(SubSeq(s, 1, n), SubSeq(s, n + 1, Len(s))) = s
         /\ n = Len(s) => SubSeq(s, 1, n) = s
         /\ n = 0 => SubSeq(s, 1, n) = <<>> /\ SubSeq(s, n + 1, Len(s)) = s
<1> DEFINE m == Len(s)
<1>0. m \in Nat /\ n \in 0 .. m
  BY LenProperties
<1>1. SubSeq(s, 1, m) = s
  BY SubSeqFull
<1>2. \A i \in 1 .. m : s[i] \in V
  BY ElementOfSeq
<1> HIDE DEF m
<1>3. SubSeq(s, 1, n) \in Seq(V) /\ Len(SubSeq(s, 1, n)) = n
  <2>1. 1 \in Int /\ n \in Int /\ \A i \in 1 .. n : s[i] \in V
    BY <1>0, <1>2
  <2>2. /\ SubSeq(s, 1, n) \in Seq(V)
        /\ Len(SubSeq(s, 1, n)) = IF 1 <= n THEN n - 1 + 1 ELSE 0
    BY <2>1, SubSeqProperties
  <2> QED BY <1>0, <2>2
<1>4. SubSeq(s, n + 1, m) \in Seq(V) /\ Len(SubSeq(s, n + 1, m)) = m - n
  <2>1. n + 1 \in Int /\ m \in Int /\ \A i \in n + 1 .. m : s[i] \in V
    BY <1>0, <1>2
  <2>2. /\ SubSeq(s, n + 1, m) \in Seq(V)
        /\ Len(SubSeq(s, n + 1, m)) = IF n + 1 <= m THEN m - (n + 1) + 1 ELSE 0
    BY <2>1, SubSeqProperties
  <2> QED BY <1>0, <2>2
<1>5. SubSeq(s, 1, n) \o SubSeq(s, n + 1, m) = SubSeq(s, 1, m)
  <2>1. 1 \in 1 .. m + 1 /\ n \in 1 - 1 .. m /\ m \in n .. m
    BY <1>0
  <2> QED BY <2>1, ConcatAdjacentSubSeq DEF m
<1>6. n = 0 => SubSeq(s, 1, n) = <<>>
  BY SubSeqEmpty
<1>7. n = 0 => SubSeq(s, n + 1, m) = s
  BY <1>1
<1>8. n = m => SubSeq(s, 1, n) = s
  BY <1>1
<1> QED BY <1>1, <1>3, <1>4, <1>5, <1>6, <1>7, <1>8 DEF m, Cat

LEMMA NoRoomIsFull ==
  ASSUME NEW x, Sound(x), Room(x) = 0
  PROVE  AllFull(x.chunk_list_)
<1> SUFFICES ASSUME NEW i \in 1 .. Len(x.chunk_list_), x.chunk_list_[i].data = <<>>
             PROVE  FALSE
  BY DEF AllFull
<1>1. i = Len(x.chunk_list_) /\ x.chunk_list_[i].room > 0
  BY DEF Sound, NewestOnly
<1>2. x.chunk_list_ # <<>> => Room(x) = x.chunk_list_[Len(x.chunk_list_)].room
  BY BufferFacts DEF Sound
<1>3. x.chunk_list_ # <<>>
  OBVIOUS
<1> QED BY <1>1, <1>2, <1>3

\* What push() writes before it allocates: as much as the newest chunk takes.
LEMMA PushHeadSound ==
  ASSUME NEW x, Sound(x), NEW s \in Seq(Byte)
  PROVE  LET w == Smaller(Room(x), Len(s))
             y == PushHead(x, s)
         IN  /\ w \in 0 .. Len(s) /\ Sound(y)
             /\ Contents(y) = Cat(Contents(x), SubSeq(s, 1, w))
             /\ y.size_ = x.size_ + w
             /\ y.default_chunk_size_ = x.default_chunk_size_
             /\ ~PushFits(x, s) => w = Room(x) /\ AllFull(y.chunk_list_)
<1> DEFINE w == Smaller(Room(x), Len(s))
           y == PushHead(x, s)
           h == SubSeq(s, 1, w)
<1>1. Room(x) \in Nat /\ Len(s) \in Nat /\ x \in BufferType /\ x.size_ \in Nat
      /\ Contents(x) \in Seq(Byte)
  BY LenProperties, BufferFacts DEF Sound
<1>2. w \in 0 .. Len(s) /\ w <= Room(x) /\ (~PushFits(x, s) => w = Room(x))
  BY <1>1 DEF Smaller, PushFits
<1>3. h \in Seq(Byte) /\ Len(h) = w /\ (w = 0 => h = <<>>) /\ (w > 0 => h # <<>>)
  <2> HIDE DEF w
  <2>1. h \in Seq(Byte) /\ Len(h) = w /\ (w = 0 => h = <<>>)
    BY <1>2, SplitFacts
  <2> QED BY <1>2, <2>1, EmptySeq
<1> HIDE DEF w, h
<1>4. CASE Room(x) = 0
  <2>1. y = x /\ w = 0
    BY <1>1, <1>2, <1>4 DEF PushHead
  <2>2. Contents(y) = Cat(Contents(x), h)
    BY <1>1, <1>3, <2>1, CatFacts
  <2>3. AllFull(x.chunk_list_)
    BY <1>4, NoRoomIsFull
  <2> QED BY <1>1, <1>2, <2>1, <2>2, <2>3 DEF w, h
<1>5. CASE Room(x) # 0
  <2>1. y = WriteNewest(x, h) /\ x.chunk_list_ # <<>>
    BY <1>5 DEF PushHead, Room, h, w
  <2>2. /\ Sound(y) /\ Contents(y) = Cat(Contents(x), h) /\ y.size_ = x.size_ + Len(h)
        /\ y.default_chunk_size_ = x.default_chunk_size_
        /\ h # <<>> => AllFull(y.chunk_list_)
    BY <1>2, <1>3, <2>1, WriteSound
  <2>3. ~PushFits(x, s) => h # <<>>
    BY <1>1, <1>2, <1>3, <1>5
  <2> HIDE DEF y
  <2> QED BY <1>2, <1>3, <2>2, <2>3 DEF w, h, y
<1> QED BY <1>4, <1>5

\* push() adds the bytes it is given, in their order.
LEMMA PushSound ==
  ASSUME NEW x, Sound(x), NEW s \in Seq(Byte)
  PROVE  LET y == Push(x, s)
         IN  /\ Sound(y) /\ y.size_ = x.size_ + Len(s)
             /\ Contents(y) = Cat(Contents(x), s)
             /\ y.default_chunk_size_ = x.default_chunk_size_
<1> DEFINE w == Smaller(Room(x), Len(s))
           z == PushHead(x, s)
           y == Push(x, s)
           h == SubSeq(s, 1, w)
<1>1. Room(x) \in Nat /\ Len(s) \in Nat /\ x \in BufferType /\ x.size_ \in Nat
      /\ Contents(x) \in Seq(Byte) /\ x.default_chunk_size_ \in Nat
  BY LenProperties, BufferFacts DEF Sound
<1>2. /\ w \in 0 .. Len(s) /\ Sound(z) /\ Contents(z) = Cat(Contents(x), h)
      /\ z.size_ = x.size_ + w
      /\ z.default_chunk_size_ = x.default_chunk_size_
      /\ ~PushFits(x, s) => w = Room(x) /\ AllFull(z.chunk_list_)
  BY PushHeadSound
<1> HIDE DEF z
<1>3. CASE PushFits(x, s)
  <2>1. y = z
    BY <1>3 DEF Push, z
  <2>2. w = Len(s)
    BY <1>1, <1>3 DEF PushFits, Smaller
  <2>3. h = s
    <3> HIDE DEF w
    <3> QED BY <1>2, <2>2, SplitFacts
  <2> QED BY <1>2, <2>1, <2>2, <2>3
<1>4. CASE ~PushFits(x, s)
  <2> DEFINE rest == SubSeq(s, w + 1, Len(s))
             n == Len(rest)
             cap == Larger(x.default_chunk_size_, n)
             c == Chunk(rest, cap - n)
             t == z.size_ + n
  <2>1. w = Room(x) /\ AllFull(z.chunk_list_) /\ w < Len(s)
    BY <1>1, <1>2, <1>4 DEF PushFits
  <2> HIDE DEF w
  <2>2. rest \in Seq(Byte) /\ h \in Seq(Byte) /\ n = Len(s) - w /\ n \in Nat /\ Cat(h, rest) = s
    BY <1>2, SplitFacts, <1>1
  <2>3. cap - n \in Nat
    BY <1>1, <2>2 DEF Larger
  <2>4. y = Grown(z, c, t)
    <3>1. y = [AddChunk(z, c) EXCEPT !.size_ = @ + n]
      BY <1>4, <2>1 DEF Push, z
    <3>2. AddChunk(z, c).size_ = z.size_
      BY <1>2 DEF AddChunk, Sound, BufferType
    <3> HIDE DEF c, n
    <3> QED BY <3>1, <3>2 DEF Grown
  <2> HIDE DEF rest, n, cap, y
  <2>5. c \in [data : Seq(Byte), room : Nat] /\ c.data = rest /\ c.data # <<>>
    <3>1. rest # <<>>
      BY <1>1, <1>2, <2>1, <2>2 DEF n
    <3> QED BY <2>2, <2>3, <3>1 DEF Chunk
  <2>6. t \in Nat /\ t = z.size_ + Len(c.data)
    BY <1>1, <1>2, <2>2, <2>5 DEF n
  <2>7. z \in BufferType
    BY <1>2 DEF Sound
  <2> HIDE DEF c, t
  <2>8. /\ y \in BufferType /\ y.size_ = t /\ NewestOnly(y.chunk_list_)
        /\ Contents(y) = Cat(Contents(z), c.data)
    BY <2>1, <2>4, <2>5, <2>6, <2>7, AddValue
  <2>9. Contents(y) = Cat(Contents(x), s)
    <3>1. Cat(Cat(Contents(x), h), rest) = Cat(Contents(x), Cat(h, rest))
      <4> HIDE DEF h
      <4>1. Contents(x) \in Seq(Byte) /\ h \in Seq(Byte) /\ rest \in Seq(Byte)
        BY <1>1, <2>2
      <4> QED BY <4>1, CatFacts
    <3>2. Contents(y) = Cat(Cat(Contents(x), h), rest)
      BY <1>2, <2>5, <2>8
    <3> QED BY <2>2, <3>1, <3>2
  <2>10. y.size_ = x.size_ + Len(s)
    <3>1. z.size_ = x.size_ + w /\ w \in Int
      BY <1>1, <1>2
    <3>2. y.size_ = z.size_ + n
      BY <2>8 DEF t
    <3>3. n = Len(s) - w /\ Len(s) \in Nat /\ x.size_ \in Nat
      BY <1>1, <2>2
    <3> QED BY ONLY <3>1, <3>2, <3>3
  <2>11. y.size_ = Len(Contents(y))
    BY <1>1, <2>9, <2>10, CatFacts DEF Sound
  <2>12. y.default_chunk_size_ = z.default_chunk_size_
    BY <2>4, <2>7 DEF Grown, AddChunk, BufferType
  <2> QED BY <1>2, <2>8, <2>9, <2>10, <2>11, <2>12 DEF Sound, y
<1> QED BY <1>3, <1>4

-----------------------------------------------------------------------------
(* space() and spaceChunk().                                               *)

\* The bytes and the counts of y are those of x.
SameBytes(x, y) ==
  /\ Contents(y) = Contents(x)
  /\ y.size_ = x.size_
  /\ y.default_chunk_size_ = x.default_chunk_size_

LEMMA AddEmptySound ==
  ASSUME NEW x, Sound(x), AllFull(x.chunk_list_), NEW r \in Nat \ {0},
         NEW y, y = AddChunk(x, Chunk(<<>>, r))
  PROVE  Sound(y) /\ SameBytes(x, y) /\ Room(y) = r
<1> DEFINE c == Chunk(<<>>, r)
           n == x.size_
<1>1. x \in BufferType /\ n \in Nat /\ Contents(x) \in Seq(Byte)
  BY BufferFacts DEF Sound
<1>2. c \in [data : Seq(Byte), room : Nat] /\ c.data = <<>> /\ c.room = r /\ Len(c.data) = 0
  BY EmptySeq DEF Chunk
<1>3. y = Grown(x, c, n) /\ y.default_chunk_size_ = x.default_chunk_size_
  BY <1>1 DEF Grown, AddChunk, BufferType
<1> HIDE DEF c
<1>4. /\ y \in BufferType /\ y.size_ = n /\ NewestOnly(y.chunk_list_)
      /\ Room(y) = c.room /\ Contents(y) = Cat(Contents(x), c.data)
  <2>1. n = x.size_ + Len(c.data)
    BY <1>1, <1>2
  <2>2. c.data = <<>> => c.room > 0
    BY <1>2
  <2> HIDE DEF n
  <2> QED BY <1>1, <1>2, <1>3, <2>1, <2>2, AddValue
<1>5. Contents(y) = Contents(x)
  BY <1>1, <1>2, <1>4, CatFacts
<1> QED BY <1>2, <1>3, <1>4, <1>5 DEF Sound, SameBytes

\* space() drops what has been drained: no byte and no other chunk goes.
LEMMA DropSound ==
  ASSUME NEW x, Sound(x)
  PROVE  Sound(DropEmpty(x)) /\ SameBytes(x, DropEmpty(x)) /\ AllFull(DropEmpty(x).chunk_list_)
<1> DEFINE l == x.chunk_list_
           k == Len(l)
           j == IF k > 0 /\ l[k].data = <<>> THEN k - 1 ELSE k
           full == {i \in DOMAIN l : l[i].data # <<>>}
           keep == IF full = {} THEN 0 ELSE CHOOSE i \in full : \A h \in full : h <= i
           m == SubSeq(l, 1, j)
           y == DropEmpty(x)
<1>1. x \in BufferType /\ l \in Chunks(Byte) /\ k \in Nat /\ DOMAIN l = 1 .. k
      /\ x.size_ = Len(Contents(x)) /\ (k = 0 => l = <<>>)
  <2>1. x \in BufferType /\ l \in Chunks(Byte) /\ k \in Nat /\ (k = 0 => l = <<>>)
    BY BufferFacts DEF Sound
  <2>2. DOMAIN l = 1 .. k
    BY <2>1, LenProperties DEF Chunks
  <2> QED BY <2>1, <2>2 DEF Sound
<1>2. j \in 0 .. k /\ (j = k \/ (k = j + 1 /\ l[k].data = <<>>))
  BY <1>1
<1>3. full = 1 .. j
  BY <1>1 DEF Sound, NewestOnly
<1>4. keep = j
  <2> HIDE DEF full, j
  <2>1. CASE j = 0
    BY <1>3, <2>1
  <2>2. CASE j # 0
    <3>1. j \in full /\ \A h \in full : h <= j
      BY <1>1, <1>2, <1>3, <2>2
    <3>2. \A i \in full : (\A h \in full : h <= i) => i = j
      BY <1>1, <1>2, <1>3, <2>2
    <3>3. (CHOOSE i \in full : \A h \in full : h <= i) = j
      BY <3>1, <3>2
    <3> QED BY <3>1, <3>3
  <2> QED BY <2>1, <2>2
<1>5. y = [x EXCEPT !.chunk_list_ = m]
  <2>1. y = [x EXCEPT !.chunk_list_ = SubSeq(@, 1, keep)]
    BY DEF DropEmpty
  <2> HIDE DEF keep, j
  <2> QED BY <1>4, <2>1
<1> HIDE DEF full, keep
<1>6. m \in Chunks(Byte) /\ Len(m) = j /\ \A i \in 1 .. j : m[i] = l[i]
  <2> DEFINE R == [data : Seq(Byte), room : Nat]
  <2>1. l \in Seq(R)
    BY <1>1 DEF Chunks
  <2>2. \A i \in 1 .. j : l[i] \in R
    BY <1>1, <1>2, ChunkTypes
  <2> HIDE DEF R, l, j
  <2>0. k \in Nat /\ j \in 0 .. k
    BY <1>1, <1>2
  <2> HIDE DEF k
  <2>3. 1 \in Int /\ j \in Int /\ (1 <= j => j - 1 + 1 = j) /\ (~(1 <= j) => j = 0)
    BY <2>0
  <2>4. /\ SubSeq(l, 1, j) \in Seq(R)
        /\ Len(SubSeq(l, 1, j)) = IF 1 <= j THEN j - 1 + 1 ELSE 0
        /\ \A i \in 1 .. j - 1 + 1 : SubSeq(l, 1, j)[i] = l[1 + i - 1]
    BY <2>2, <2>3, SubSeqProperties
  <2>5. \A i \in 1 .. j : i \in 1 .. j - 1 + 1 /\ 1 + i - 1 = i
    BY <2>3
  <2>6. \A i \in 1 .. j : m[i] = l[i]
    BY <2>4, <2>5
  <2>7. Len(m) = j
    BY <2>3, <2>4
  <2> QED BY <2>4, <2>6, <2>7 DEF Chunks, R
<1> HIDE DEF y, m
<1>7. y.chunk_list_ = m /\ y \in BufferType /\ y.size_ = x.size_
      /\ y.default_chunk_size_ = x.default_chunk_size_
  BY <1>1, <1>5, <1>6 DEF BufferType
<1>8. AllFull(m)
  BY <1>1, <1>2, <1>3, <1>6 DEF AllFull, full
<1>9. Flat(m, j) = Flat(l, j)
  <2>1. \A i \in 1 .. j : m[i].data = l[i].data
    BY <1>6
  <2> HIDE DEF j
  <2> QED BY <1>2, <2>1, FlatSame
<1>10. Flat(l, k) = Flat(l, j)
  <2>1. CASE j = k
    BY <2>1
  <2>2. CASE k = j + 1 /\ l[k].data = <<>>
    <3> HIDE DEF j, k, l
    <3>1. j \in Nat /\ j \in 0 .. Len(l) /\ j + 1 <= Len(l)
      BY <1>1, <1>2, <2>2 DEF k
    <3>2. Flat(l, j + 1) = Cat(Flat(l, j), l[j + 1].data)
      BY <1>1, <3>1, FlatStep
    <3>3. Flat(l, j) \in Seq(Byte)
      BY <1>1, <3>1, FlatType
    <3> QED BY <2>2, <3>2, <3>3, CatFacts
  <2> QED BY <1>2, <2>1, <2>2
<1>11. Contents(y) = Contents(x)
  BY <1>6, <1>7, <1>9, <1>10, BytesAreFlat DEF All
<1>12. NewestOnly(m)
  BY <1>8 DEF AllFull, NewestOnly
<1> QED BY <1>1, <1>7, <1>8, <1>11, <1>12 DEF Sound, SameBytes, y

LEMMA SpaceSound ==
  ASSUME NEW x, Sound(x), NEW n \in Nat
  PROVE  Sound(Space(x, n)) /\ SameBytes(x, Space(x, n)) /\ n <= Room(Space(x, n))
<1>1. CASE SpaceFits(x, n)
  BY <1>1 DEF Space, SpaceFits, SameBytes
<1>2. CASE ~SpaceFits(x, n)
  <2> DEFINE r == Larger(n, x.default_chunk_size_)
             z == DropEmpty(x)
             y == Space(x, n)
  <2>1. y = AddChunk(z, Chunk(<<>>, r))
    BY <1>2 DEF Space
  <2>2. r \in Nat \ {0} /\ n <= r
    BY BufferFacts DEF Sound, Larger
  <2>3. Sound(z) /\ SameBytes(x, z) /\ AllFull(z.chunk_list_)
    BY DropSound
  <2> HIDE DEF r, y, z
  <2>4. Sound(y) /\ SameBytes(z, y) /\ Room(y) = r
    BY <2>1, <2>2, <2>3, AddEmptySound
  <2> QED BY <2>2, <2>3, <2>4 DEF SameBytes, y
<1> QED BY <1>1, <1>2

LEMMA SpaceChunkSound ==
  ASSUME NEW x, Sound(x)
  PROVE  Sound(SpaceChunk(x)) /\ SameBytes(x, SpaceChunk(x))
<1>1. x.default_chunk_size_ \in Nat \ {0} /\ Room(x) \in Nat
  BY BufferFacts DEF Sound
<1>2. CASE Room(x) > 0
  BY <1>2 DEF SpaceChunk, SameBytes
<1>3. CASE Room(x) = 0
  <2>1. SpaceChunk(x) = AddChunk(x, Chunk(<<>>, x.default_chunk_size_))
    BY <1>3 DEF SpaceChunk
  <2> QED BY <1>1, <1>3, <2>1, NoRoomIsFull, AddEmptySound
<1> QED BY <1>1, <1>2, <1>3

-----------------------------------------------------------------------------
(* drain() and data().                                                     *)

\* The bytes of a list are those of its oldest chunk, then those of the others.
LEMMA BehindFirst ==
  ASSUME NEW V, NEW l \in Chunks(V), NEW n \in Nat, Len(l) = n + 1
  PROVE  Len(Rest(l, 1)) = n /\ \A i \in 1 .. n : Rest(l, 1)[i] = l[1 + i]
<1>1. 1 \in 0 .. Len(l) /\ Len(l) - 1 = n
  OBVIOUS
<1> QED BY ONLY l \in Chunks(V), <1>1, RestFacts

LEMMA FlatFirst ==
  ASSUME NEW V, NEW l \in Chunks(V), NEW n \in Nat, Len(l) = n + 1
  PROVE  /\ All(l) = Cat(l[1].data, All(Rest(l, 1)))
         /\ Rest(l, 1) \in Chunks(V) /\ Len(Rest(l, 1)) = n
         /\ l[1].data \in Seq(V) /\ All(Rest(l, 1)) \in Seq(V)
<1> DEFINE r == Rest(l, 1)
<1>1. 1 \in 0 .. Len(l) /\ n \in 0 .. Len(l) - 1 /\ 1 + n = n + 1 /\ 1 \in 1 .. Len(l)
      /\ (n + 1) - 1 = n /\ 0 \in Nat /\ 0 + 1 = 1 /\ 1 <= n + 1 /\ n \in 0 .. n
  OBVIOUS
<1>2. r \in Chunks(V) /\ Len(r) = n /\ l[1].data \in Seq(V)
  BY <1>1, RestFacts, ChunkTypes
<1> HIDE DEF r
<1>3. Flat(l, n + 1) = Cat(Flat(l, 1), Flat(r, n))
  BY <1>1, FlatJoin DEF r
<1>4. Flat(l, 1) = l[1].data
  <2>1. Flat(l, 0 + 1) = Cat(Flat(l, 0), l[0 + 1].data)
    BY <1>1, FlatStep
  <2>2. Cat(<<>>, l[1].data) = l[1].data
    BY <1>2, CatFacts
  <2> QED BY <1>1, <2>1, <2>2, FlatNone
<1>5. Flat(r, n) \in Seq(V)
  BY <1>1, <1>2, FlatType
<1> QED BY <1>2, <1>3, <1>4, <1>5 DEF All, r

\* How many chunks the loops pop: those that end within the first n bytes.
LEMMA PoppedValue ==
  ASSUME NEW x, Sound(x), NEW n \in Nat
  PROVE  LET l == x.chunk_list_
             k == Popped(x, n)
         IN  /\ k \in 0 .. Len(l)
             /\ Behind(x, k) = Len(Flat(l, k)) /\ Len(Flat(l, k)) \in 0 .. n
             /\ k < Len(l) => Len(Flat(l, k)) = n \/ n < Len(Flat(l, k + 1))
<1> DEFINE l == x.chunk_list_
           len[i \in 0 .. Len(l)] == Len(Flat(l, i))
           D == {i \in 1 .. Len(l) : len[i - 1] < n /\ len[i] <= n}
           T == {i \in Nat : i + 1 \notin D}
<1>1. l \in Chunks(Byte) /\ Len(l) \in Nat /\ DOMAIN l = 1 .. Len(l)
  <2>1. l \in Chunks(Byte)
    BY BufferFacts DEF Sound
  <2> HIDE DEF l
  <2> QED BY <2>1, LenProperties DEF Chunks
<1>2. /\ \A i \in 0 .. Len(l) : len[i] \in Nat /\ Behind(x, i) = len[i]
      /\ \A j \in 0 .. Len(l) : \A i \in 0 .. j : len[i] <= len[j]
      /\ len[0] = 0
  <2>1. \A i \in 0 .. Len(l) : Behind(x, i) = Len(Flat(l, i))
    BY BytesAreFlat DEF Behind
  <2> HIDE DEF l
  <2>2. \A i \in 0 .. Len(l) : Len(Flat(l, i)) \in Nat
    BY <1>1, FlatType
  <2>3. \A j \in 0 .. Len(l) : \A i \in 0 .. j : Len(Flat(l, i)) <= Len(Flat(l, j))
    BY <1>1, FlatGrows
  <2>4. Len(Flat(l, 0)) = 0
    BY FlatNone, EmptySeq
  <2>5. \A j \in 0 .. Len(l) : \A i \in 0 .. j : i \in 0 .. Len(l)
    BY <1>1
  <2> QED BY <1>1, <2>1, <2>2, <2>3, <2>4, <2>5
<1>3. Popped(x, n) = Cardinality(D)
  <2>1. \A i \in 1 .. Len(l) : i \in 0 .. Len(l) /\ i - 1 \in 0 .. Len(l)
    BY <1>1
  <2>2. D = {i \in DOMAIN l : Behind(x, i - 1) < n /\ Behind(x, i) <= n}
    <3> HIDE DEF len, l
    <3> QED BY <1>1, <1>2, <2>1
  <2> QED BY <2>2 DEF Popped
<1> HIDE DEF len, l
<1>4. PICK k \in T : \A j \in T : k <= j
  <2>1. T \subseteq Nat /\ Len(l) \in T
    BY <1>1
  <2> HIDE DEF T
  <2> QED BY <2>1, LeastExists
<1>5. k \in 0 .. Len(l)
  <2>1. Len(l) \in T
    BY <1>1
  <2> QED BY <1>1, <1>4, <2>1
<1>6. D = 1 .. k
  <2>1. ASSUME NEW i \in 1 .. k PROVE i \in D
    <3>1. i - 1 \in Nat /\ ~(k <= i - 1) /\ (i - 1) + 1 = i
      BY <1>5
    <3>2. i - 1 \notin T
      BY <1>4, <3>1
    <3> QED BY <3>1, <3>2
  <2>2. ASSUME NEW i \in D, ~(i <= k) PROVE FALSE
    <3>1. /\ k + 1 \in 1 .. Len(l) /\ k \in 0 .. i - 1 /\ k + 1 \in 0 .. i
          /\ i - 1 \in 0 .. Len(l) /\ i \in 0 .. Len(l) /\ (k + 1) - 1 = k
          /\ k \in 0 .. Len(l) /\ k + 1 \in 0 .. Len(l)
      BY <1>1, <1>5, <2>2
    <3>2. len[k] <= len[i - 1] /\ len[k + 1] <= len[i]
      BY <1>2, <3>1
    <3>3. len[k] < n /\ len[k + 1] <= n
      BY <1>2, <3>1, <3>2
    <3>4. k + 1 \in D
      BY <3>1, <3>3
    <3> QED BY <1>4, <3>4
  <2>3. \A i \in D : i \in 1 .. k
    BY <1>1, <1>5, <2>2
  <2> QED BY <2>1, <2>3
<1>7. Popped(x, n) = k
  <2>1. Cardinality(1 .. k) = k
    <3>1. Cardinality(1 .. k) = IF 1 > k THEN 0 ELSE k - 1 + 1
      BY <1>5, FS_Interval
    <3> QED BY <1>5, <3>1
  <2> QED BY <1>3, <1>6, <2>1
<1>8. len[k] <= n
  <2>1. k # 0 => k \in D
    BY <1>5, <1>6
  <2> QED BY <1>2, <2>1
<1>9. k < Len(l) => len[k] = n \/ n < len[k + 1]
  <2>1. ASSUME k < Len(l) PROVE ~(len[k] < n /\ len[k + 1] <= n)
    <3>1. k + 1 \in 1 .. Len(l) /\ (k + 1) - 1 = k /\ k + 1 \notin D
      BY <1>1, <1>4, <1>5, <2>1
    <3> QED BY <3>1
  <2>2. k < Len(l) => k + 1 \in 0 .. Len(l)
    BY <1>1, <1>5
  <2> QED BY <1>2, <1>5, <1>8, <2>1, <2>2
<1>10. len[k] = Len(Flat(l, k)) /\ (k < Len(l) => len[k + 1] = Len(Flat(l, k + 1)))
  <2>1. k < Len(l) => k + 1 \in 0 .. Len(l)
    BY <1>1, <1>5
  <2> QED BY <1>5, <2>1 DEF len
<1> QED BY <1>2, <1>5, <1>7, <1>8, <1>9, <1>10 DEF l

\* The oldest chunk without its first m bytes.
LEMMA ShortenValue ==
  ASSUME NEW r \in Chunks(Byte), NewestOnly(r), NEW n \in Nat, Len(r) = n + 1,
         NEW m \in Nat \ {0}, m < Len(r[1].data), NEW w, w = Shorten(r, m)
  PROVE  /\ w \in Chunks(Byte) /\ NewestOnly(w)
         /\ All(r) = Cat(SubSeq(r[1].data, 1, m), All(w))
         /\ All(w) \in Seq(Byte)
<1> DEFINE d == r[1].data
           e == SubSeq(d, m + 1, Len(d))
           c == [r[1] EXCEPT !.data = e]
           v == [r EXCEPT ![1] = c]
           R == [data : Seq(Byte), room : Nat]
<1>1. 1 \in 1 .. Len(r) /\ r # <<>> /\ r \in Seq(R) /\ Len(r) \in Nat
  BY EmptySeq DEF Chunks
<1>2. d \in Seq(Byte) /\ Len(d) \in Nat /\ r[1] \in R
  BY <1>1, ChunkTypes
<1>3. /\ e \in Seq(Byte) /\ Len(e) = Len(d) - m /\ Cat(SubSeq(d, 1, m), e) = d
      /\ SubSeq(d, 1, m) \in Seq(Byte)
  <2>1. m \in 0 .. Len(d)
    BY <1>2
  <2> HIDE DEF d
  <2> QED BY <1>2, <2>1, SplitFacts
<1> HIDE DEF d, e
<1>4. c \in R /\ c.data = e /\ c.room = r[1].room
  BY <1>2, <1>3
<1>5. w = v
  BY <1>1 DEF Shorten, d, e
<1> HIDE DEF c, R
<1>6. v \in Seq(R) /\ Len(v) = n + 1 /\ v[1] = c /\ \A i \in 1 .. n + 1 : i # 1 => v[i] = r[i]
  BY <1>1, <1>4, ExceptSeq
<1> HIDE DEF v
<1>7. v \in Chunks(Byte)
  BY <1>6 DEF Chunks, R
<1>8. NewestOnly(v)
  <2>1. e # <<>>
    BY <1>2, <1>3, EmptySeq DEF d
  <2> QED BY <1>4, <1>6, <2>1 DEF NewestOnly
<1>9. All(Rest(v, 1)) = All(Rest(r, 1))
  <2>1. /\ Len(Rest(v, 1)) = n /\ Len(Rest(r, 1)) = n
        /\ \A i \in 1 .. n : Rest(v, 1)[i] = v[1 + i] /\ Rest(r, 1)[i] = r[1 + i]
    <3>1. Len(v) = n + 1
      BY <1>6
    <3>2. Len(Rest(v, 1)) = n /\ \A i \in 1 .. n : Rest(v, 1)[i] = v[1 + i]
      BY ONLY n \in Nat, <1>7, <3>1, BehindFirst
    <3>3. Len(Rest(r, 1)) = n /\ \A i \in 1 .. n : Rest(r, 1)[i] = r[1 + i]
      BY ONLY n \in Nat, r \in Chunks(Byte), Len(r) = n + 1, BehindFirst
    <3> QED BY ONLY <3>2, <3>3
  <2> DEFINE p == Rest(v, 1)
             q == Rest(r, 1)
  <2>2. \A i \in 1 .. n : p[i].data = q[i].data
    <3> TAKE i \in 1 .. n
    <3>1. 1 + i \in 1 .. n + 1 /\ 1 + i # 1
      OBVIOUS
    <3>2. v[1 + i] = r[1 + i]
      BY ONLY <1>6, <3>1
    <3>3. Rest(v, 1)[i] = v[1 + i] /\ Rest(r, 1)[i] = r[1 + i]
      BY ONLY <2>1, i \in 1 .. n
    <3> QED BY ONLY <3>2, <3>3
  <2>3. Len(p) = n /\ Len(q) = n
    BY <2>1
  <2> HIDE DEF p, q
  <2>4. Flat(p, n) = Flat(q, n)
    BY ONLY n \in Nat, <2>2, FlatSame, Zenon
  <2> QED BY ONLY <2>3, <2>4 DEF All, p, q
<1> DEFINE t == All(Rest(r, 1))
<1>10. All(r) = Cat(d, t) /\ All(v) = Cat(e, t) /\ t \in Seq(Byte)
  <2>1. All(r) = Cat(r[1].data, All(Rest(r, 1))) /\ All(Rest(r, 1)) \in Seq(Byte)
    BY FlatFirst
  <2>2. All(v) = Cat(v[1].data, All(Rest(v, 1)))
    BY <1>6, <1>7, FlatFirst
  <2> QED BY <1>4, <1>6, <1>9, <2>1, <2>2 DEF d
<1> HIDE DEF t
<1> DEFINE f == SubSeq(d, 1, m)
<1>11. f \in Seq(Byte) /\ Cat(f, e) = d
  BY <1>3
<1> HIDE DEF f
<1>12. Cat(d, t) = Cat(f, Cat(e, t)) /\ Cat(e, t) \in Seq(Byte)
  BY <1>3, <1>10, <1>11, CatFacts
<1> QED BY <1>5, <1>7, <1>8, <1>10, <1>12 DEF f, d

\* What the loops of drain() and data() leave: the bytes behind the first n,
\* or none when there are not so many.
LEMMA WithoutValue ==
  ASSUME NEW x, Sound(x), NEW n \in Nat
  PROVE  LET w == Without(x, n)
         IN  /\ w \in Chunks(Byte) /\ NewestOnly(w)
             /\ \E p \in Seq(Byte) : Len(p) = Drained(x, n) /\ Contents(x) = Cat(p, All(w))
<1> DEFINE l == x.chunk_list_
           k == Popped(x, n)
           a == Len(Flat(l, k))
           m == n - a
           r == Rest(l, k)
           w == Without(x, n)
<1> SUFFICES /\ w \in Chunks(Byte) /\ NewestOnly(w)
             /\ \E p \in Seq(Byte) : Len(p) = Drained(x, n) /\ Contents(x) = Cat(p, All(w))
  OBVIOUS
<1>1. x \in BufferType /\ l \in Chunks(Byte) /\ Len(l) \in Nat /\ NewestOnly(l)
  BY BufferFacts DEF Sound
<1>2. /\ k \in 0 .. Len(l) /\ Behind(x, k) = a /\ a \in 0 .. n
      /\ k < Len(l) => a = n \/ n < Len(Flat(l, k + 1))
  BY PoppedValue
<1>3. w = Shorten(r, m)
  BY <1>2 DEF Without, Rest
<1> HIDE DEF k, w
<1>4. /\ r \in Chunks(Byte) /\ Len(r) = Len(l) - k
      /\ \A i \in 1 .. Len(l) - k : r[i] = l[k + i]
  BY <1>1, <1>2, RestFacts
<1>5. NewestOnly(r)
  <2> SUFFICES ASSUME NEW i \in 1 .. Len(r), r[i].data = <<>>
               PROVE  i = Len(r) /\ r[i].room > 0
    BY DEF NewestOnly
  <2>1. k + i \in 1 .. Len(l) /\ r[i] = l[k + i]
    BY <1>1, <1>2, <1>4
  <2>2. k + i = Len(l) /\ l[k + i].room > 0
    BY <1>1, <2>1 DEF NewestOnly
  <2> QED BY <1>1, <1>2, <1>4, <2>1, <2>2
<1>6. Contents(x) = Cat(Flat(l, k), All(r)) /\ Flat(l, k) \in Seq(Byte) /\ All(r) \in Seq(Byte)
  <2> DEFINE c == Len(l) - k
  <2>1. c \in 0 .. Len(l) - k /\ k + c = Len(l) /\ c \in 0 .. Len(r)
    BY <1>1, <1>2, <1>4
  <2> HIDE DEF c
  <2>2. Flat(l, Len(l)) = Cat(Flat(l, k), Flat(r, c))
    <3>1. Flat(l, k + c) = Cat(Flat(l, k), Flat(Rest(l, k), c))
      BY <1>1, <1>2, <2>1, FlatJoin
    <3> QED BY <2>1, <3>1
  <2>3. Contents(x) = Flat(l, Len(l)) /\ All(r) = Flat(r, c)
    BY <1>4, BytesAreFlat DEF All, c
  <2> QED BY <1>1, <1>2, <1>4, <2>1, <2>2, <2>3, FlatType
<1> HIDE DEF r
<1>7. m \in Nat /\ a \in Nat /\ n = a + m
  BY <1>2
<1> HIDE DEF m
<1>8. Len(Contents(x)) = a + Len(All(r)) /\ Len(All(r)) \in Nat
  BY <1>6, CatFacts
<1>9. CASE r = <<>>
  <2>1. w = r /\ All(r) = <<>>
    BY <1>3, <1>9, FlatNone, EmptySeq DEF Shorten, All
  <2>2. Drained(x, n) = a
    BY <1>7, <1>8, <2>1, EmptySeq DEF Drained, Smaller
  <2> QED BY <1>4, <1>5, <1>6, <2>1, <2>2
<1>10. CASE r # <<>> /\ m = 0
  <2>1. w = r
    BY <1>3, <1>10 DEF Shorten
  <2>2. Drained(x, n) = a
    BY <1>7, <1>8, <1>10 DEF Drained, Smaller
  <2> QED BY <1>4, <1>5, <1>6, <2>1, <2>2
<1>11. CASE r # <<>> /\ m # 0
  <2> DEFINE c == Len(r) - 1
             d == r[1].data
             f == SubSeq(d, 1, m)
  <2>1. Len(r) \in Nat \ {0} /\ c \in Nat /\ Len(r) = c + 1 /\ 1 \in 1 .. Len(r) /\ k < Len(l)
    <3>1. Len(r) # 0
      BY <1>4, <1>11, EmptySeq DEF Chunks
    <3>2. Len(r) = Len(l) - k /\ Len(l) \in Nat /\ k \in 0 .. Len(l)
      BY <1>1, <1>2, <1>4
    <3> QED BY ONLY <3>1, <3>2
  <2>2. d \in Seq(Byte) /\ Len(d) \in Nat
    BY <1>4, <2>1, ChunkTypes
  <2>3. Len(Flat(l, k + 1)) = a + Len(d)
    <3>1. k \in Nat /\ k + 1 <= Len(l) /\ r[1] = l[k + 1]
      BY <1>1, <1>2, <1>4, <2>1
    <3>2. Flat(l, k + 1) = Cat(Flat(l, k), d)
      BY <1>1, <3>1, FlatStep
    <3> HIDE DEF d
    <3> QED BY <1>6, <2>2, <3>2, CatFacts
  <2>4. m < Len(d)
    <3>1. a = n \/ n < a + Len(d)
      BY <1>2, <2>1, <2>3
    <3> HIDE DEF a, d
    <3> QED BY <1>7, <1>11, <2>2, <3>1
  <2> HIDE DEF c
  <2>5. /\ w \in Chunks(Byte) /\ NewestOnly(w)
        /\ All(r) = Cat(f, All(w)) /\ All(w) \in Seq(Byte)
    BY <1>3, <1>4, <1>5, <1>7, <1>11, <2>1, <2>4, ShortenValue
  <2>6. f \in Seq(Byte) /\ Len(f) = m
    <3>1. m \in 0 .. Len(d)
      BY <1>7, <2>2, <2>4
    <3> HIDE DEF d
    <3> QED BY <2>2, <3>1, SplitFacts
  <2> HIDE DEF f, d
  <2> DEFINE p == Cat(Flat(l, k), f)
  <2>7. p \in Seq(Byte) /\ Len(p) = n /\ Contents(x) = Cat(p, All(w))
    <3>1. p \in Seq(Byte) /\ Len(p) = a + Len(f)
      <4> DEFINE q == Flat(l, k)
      <4>1. q \in Seq(Byte) /\ f \in Seq(Byte)
        BY <1>6, <2>6
      <4> HIDE DEF q
      <4>2. Cat(q, f) \in Seq(Byte) /\ Len(Cat(q, f)) = Len(q) + Len(f)
        BY ONLY <4>1, CatLength, Zenon
      <4> QED BY <4>2 DEF q
    <3>2. Cat(p, All(w)) = Cat(Flat(l, k), Cat(f, All(w)))
      BY <1>6, <2>5, <2>6, CatFacts
    <3> QED BY <1>6, <1>7, <2>5, <2>6, <3>1, <3>2
  <2>8. Drained(x, n) = n
    <3>1. Len(All(r)) = Len(f) + Len(All(w)) /\ Len(All(w)) \in Nat
      <4> DEFINE t == All(w)
      <4>1. t \in Seq(Byte) /\ f \in Seq(Byte) /\ All(r) = Cat(f, t)
        BY <2>5, <2>6
      <4> HIDE DEF t
      <4>2. Len(Cat(f, t)) = Len(f) + Len(t)
        BY ONLY <4>1, CatLength, Zenon
      <4>3. Len(t) \in Nat
        BY ONLY <4>1, LenProperties, Zenon
      <4> QED BY <4>1, <4>2, <4>3 DEF t
    <3> QED BY <1>7, <1>8, <2>6, <3>1 DEF Drained, Smaller
  <2> QED BY <2>5, <2>7, <2>8
<1> QED BY <1>9, <1>10, <1>11

LEMMA CatParts ==
  ASSUME NEW V, NEW p \in Seq(V), NEW q \in Seq(V)
  PROVE  /\ SubSeq(Cat(p, q), 1, Len(p)) = p
         /\ SubSeq(Cat(p, q), Len(p) + 1, Len(Cat(p, q))) = q
<1> DEFINE t == Cat(p, q)
<1>0. /\ t \in Seq(V) /\ Len(p) \in Nat /\ Len(q) \in Nat /\ Len(t) = Len(p) + Len(q)
      /\ \A i \in 1 .. Len(p) : t[i] = p[i]
      /\ \A i \in 1 .. Len(q) : t[Len(p) + i] = q[i]
  <2>1. /\ Cat(p, q) \in Seq(V) /\ Len(p) \in Nat /\ Len(q) \in Nat
        /\ Len(Cat(p, q)) = Len(p) + Len(q)
    BY CatFacts
  <2>2. \A i \in 1 .. Len(p) : Cat(p, q)[i] = p[i]
    BY CatElements
  <2>3. \A i \in 1 .. Len(q) : Cat(p, q)[Len(p) + i] = q[i]
    BY CatElements
  <2> QED BY <2>1, <2>2, <2>3
<1> DEFINE m == Len(p)
           n == Len(t)
<1>1. /\ t \in Seq(V) /\ m \in Nat /\ Len(q) \in Nat /\ n = m + Len(q)
      /\ \A i \in 1 .. m : t[i] = p[i]
      /\ \A i \in 1 .. Len(q) : t[m + i] = q[i]
  BY <1>0
<1>2. \A i \in 1 .. n : t[i] \in V
  BY <1>1, ElementOfSeq
<1> HIDE DEF m, n, t
<1>3. SubSeq(t, 1, m) = p
  <2>1. \A i \in 1 .. m : t[i] \in V
    BY <1>1, <1>2
  <2>2. 1 \in Int /\ m \in Int /\ (1 <= m => m - 1 + 1 = m) /\ (~(1 <= m) => m = 0)
        /\ \A i \in 1 .. m : i \in 1 .. m - 1 + 1 /\ 1 + i - 1 = i
    BY <1>1
  <2>3. /\ SubSeq(t, 1, m) \in Seq(V)
        /\ Len(SubSeq(t, 1, m)) = IF 1 <= m THEN m - 1 + 1 ELSE 0
        /\ \A i \in 1 .. m - 1 + 1 : SubSeq(t, 1, m)[i] = t[1 + i - 1]
    BY <2>1, <2>2, SubSeqProperties
  <2>4. Len(SubSeq(t, 1, m)) = m
    BY <2>2, <2>3
  <2>5. \A i \in 1 .. m : SubSeq(t, 1, m)[i] = p[i]
    BY <1>1, <2>2, <2>3
  <2> QED BY <2>3, <2>4, <2>5, SeqEqual DEF m
<1>4. SubSeq(t, m + 1, n) = q
  <2> DEFINE k == Len(q)
  <2>0. k \in Nat /\ n = m + k
    BY <1>1
  <2> HIDE DEF k
  <2>1. \A i \in m + 1 .. n : t[i] \in V
    BY <1>1, <1>2
  <2>2. m + 1 \in Int /\ n \in Int /\ n - (m + 1) + 1 = k /\ (~(m + 1 <= n) => k = 0)
        /\ \A i \in 1 .. k : (m + 1) + i - 1 = m + i
    BY <1>1, <2>0
  <2>3. /\ SubSeq(t, m + 1, n) \in Seq(V)
        /\ Len(SubSeq(t, m + 1, n)) = IF m + 1 <= n THEN n - (m + 1) + 1 ELSE 0
        /\ \A i \in 1 .. n - (m + 1) + 1 : SubSeq(t, m + 1, n)[i] = t[(m + 1) + i - 1]
    BY <2>1, <2>2, SubSeqProperties
  <2>4. Len(SubSeq(t, m + 1, n)) = k
    BY <2>2, <2>3
  <2>5. \A i \in 1 .. k : SubSeq(t, m + 1, n)[i] = q[i]
    BY <1>1, <2>2, <2>3 DEF k
  <2> QED BY <2>3, <2>4, <2>5, SeqEqual DEF k
<1> QED BY <1>3, <1>4 DEF m, n, t

\* drain() removes the oldest bytes, as many as it answers.
LEMMA DrainSound ==
  ASSUME NEW x, Sound(x), NEW n \in Nat
  PROVE  LET y == Drain(x, n)
             g == Drained(x, n)
         IN  /\ Sound(y) /\ g \in 0 .. x.size_ /\ y.size_ = x.size_ - g
             /\ Contents(y) = SubSeq(Contents(x), g + 1, Len(Contents(x)))
             /\ y.default_chunk_size_ = x.default_chunk_size_
<1> DEFINE w == Without(x, n)
           g == Drained(x, n)
           z == x.size_ - g
           y == Drain(x, n)
           C == Contents(x)
<1>1. x \in BufferType /\ x.size_ \in Nat /\ C \in Seq(Byte) /\ Len(C) = x.size_
  BY BufferFacts DEF Sound
<1>2. w \in Chunks(Byte) /\ NewestOnly(w)
  BY WithoutValue
<1>3. PICK p \in Seq(Byte) : Len(p) = g /\ C = Cat(p, All(w))
  BY WithoutValue
<1>4. g \in 0 .. x.size_ /\ z \in Nat
  BY <1>1 DEF Drained, Smaller
<1>5. y = [x EXCEPT !.chunk_list_ = w, !.size_ = z]
  BY DEF Drain
<1> HIDE DEF w, z, g, y, C
<1>6. /\ y \in BufferType /\ y.chunk_list_ = w /\ y.size_ = z
      /\ y.default_chunk_size_ = x.default_chunk_size_
  BY <1>1, <1>2, <1>4, <1>5 DEF BufferType
<1>7. Contents(y) = All(w) /\ Contents(y) \in Seq(Byte)
  BY <1>6, BytesAreFlat, BufferFacts
<1>8. Contents(y) = SubSeq(C, g + 1, Len(C))
  <2> DEFINE t == All(w)
  <2>1. t \in Seq(Byte) /\ p \in Seq(Byte)
    BY <1>3, <1>7
  <2> HIDE DEF t
  <2>2. SubSeq(Cat(p, t), Len(p) + 1, Len(Cat(p, t))) = t
    BY ONLY <2>1, CatParts, Zenon
  <2> QED BY <1>3, <1>7, <2>2 DEF t
<1>9. Len(Contents(y)) = z
  <2>1. Len(C) = Len(p) + Len(Contents(y)) /\ Len(Contents(y)) \in Nat
    BY <1>3, <1>7, CatFacts
  <2> QED BY <1>1, <1>3, <1>4, <2>1 DEF z
<1> QED BY <1>2, <1>4, <1>6, <1>8, <1>9 DEF Sound, y, z, g, C

\* The oldest chunk shows the oldest bytes.
LEMMA OldestValue ==
  ASSUME NEW x, Sound(x), x.chunk_list_ # <<>>
  PROVE  LET d == Oldest(x).data
         IN  /\ d \in Seq(Byte) /\ Len(d) \in 0 .. Len(Contents(x))
             /\ \A n \in 0 .. Len(d) : SubSeq(d, 1, n) = SubSeq(Contents(x), 1, n)
             /\ d = <<>> => Contents(x) = <<>>
<1> DEFINE l == x.chunk_list_
           c == Len(l) - 1
           d == Oldest(x).data
           t == All(Rest(l, 1))
           C == Contents(x)
<1>1. l \in Chunks(Byte) /\ c \in Nat /\ Len(l) = c + 1 /\ 1 \in 1 .. Len(l) /\ C = All(l)
      /\ NewestOnly(l)
  <2>1. l \in Chunks(Byte) /\ Len(l) \in Nat /\ Len(l) > 0
    BY BufferFacts DEF Sound
  <2>2. C = All(l) /\ NewestOnly(l)
    BY BytesAreFlat DEF Sound
  <2> HIDE DEF C, l
  <2> QED BY <2>1, <2>2
<1>2. d = l[1].data
  BY DEF Oldest
<1> HIDE DEF c, d, l, C
<1>3. C = Cat(d, t) /\ d \in Seq(Byte) /\ t \in Seq(Byte) /\ Len(Rest(l, 1)) = c
  BY <1>1, <1>2, FlatFirst
<1>4. d = <<>> => C = <<>>
  <2> SUFFICES ASSUME d = <<>> PROVE C = <<>>
    OBVIOUS
  <2>1. c = 0
    BY <1>1, <1>2 DEF NewestOnly
  <2>2. t = <<>>
    BY <1>3, <2>1, FlatNone DEF All
  <2> HIDE DEF t
  <2> QED BY <1>3, <2>2, CatFacts
<1> HIDE DEF t
<1>5. Len(d) \in Nat /\ Len(t) \in Nat /\ Len(C) = Len(d) + Len(t)
  BY <1>3, CatFacts
<1>6. ASSUME NEW n \in 0 .. Len(d) PROVE SubSeq(d, 1, n) = SubSeq(C, 1, n)
  <2> DEFINE e == SubSeq(d, 1, n)
             f == SubSeq(d, n + 1, Len(d))
  <2>1. e \in Seq(Byte) /\ f \in Seq(Byte) /\ Len(e) = n /\ Cat(e, f) = d
    BY <1>3, SplitFacts
  <2> HIDE DEF e, f
  <2>2. C = Cat(e, Cat(f, t)) /\ Cat(f, t) \in Seq(Byte)
    BY <1>3, <2>1, CatFacts
  <2>3. SubSeq(C, 1, n) = e
    <3> DEFINE u == Cat(f, t)
    <3>1. e \in Seq(Byte) /\ u \in Seq(Byte) /\ C = Cat(e, u)
      BY <2>1, <2>2
    <3> HIDE DEF u
    <3>2. SubSeq(Cat(e, u), 1, Len(e)) = e
      BY ONLY <3>1, CatParts, Zenon
    <3> QED BY <2>1, <3>1, <3>2
  <2> QED BY <2>3 DEF e
<1> QED BY <1>3, <1>4, <1>5, <1>6 DEF d, C

\* The copying loop of data() meets no chunk without bytes before it is done.
LEMMA NotStuck ==
  ASSUME NEW x, Sound(x), NEW n \in Nat
  PROVE  ~DataStuck(x, n)
<1> SUFFICES ASSUME DataStuck(x, n) PROVE FALSE
  OBVIOUS
<1>1. x.size_ \in Nat /\ x.size_ = Len(Contents(x)) /\ n <= x.size_
  BY BufferFacts DEF Sound, DataStuck, Missing
<1>2. PICK i \in DOMAIN x.chunk_list_ : x.chunk_list_[i].data = <<>> /\ Behind(x, i) < n
  BY <1>1 DEF DataStuck
<1>3. DOMAIN x.chunk_list_ = 1 .. Len(x.chunk_list_)
  <2>1. x.chunk_list_ \in Chunks(Byte)
    BY BufferFacts DEF Sound
  <2> QED BY <2>1, LenProperties DEF Chunks
<1>4. i = Len(x.chunk_list_)
  BY <1>2, <1>3 DEF Sound, NewestOnly
<1>5. Behind(x, i) = x.size_
  BY <1>1, <1>4 DEF Behind, Contents
<1> QED BY <1>1, <1>2, <1>5

\* What data() points to is the n oldest bytes, and gathering them in a chunk
\* of their own moves no byte.
LEMMA GatherSound ==
  ASSUME NEW x, Sound(x), NEW n \in Nat \ {0}, ~Missing(x, n),
         NEW y, y = Gather(x, n)
  PROVE  /\ Sound(y) /\ SameBytes(x, y)
         /\ SubSeq(Oldest(y).data, 1, n) = SubSeq(Contents(x), 1, n)
<1> DEFINE C == Contents(x)
           h == SubSeq(C, 1, n)
           c == Chunk(h, 0)
           w == Without(x, n)
           m == <<c>> \o w
           R == [data : Seq(Byte), room : Nat]
<1>1. /\ x \in BufferType /\ x.size_ \in Nat /\ C \in Seq(Byte) /\ Len(C) = x.size_
      /\ n \in 0 .. Len(C)
  BY BufferFacts DEF Sound, Missing
<1>2. w \in Chunks(Byte) /\ NewestOnly(w)
  BY WithoutValue
<1>3. Drained(x, n) = n
  BY <1>1 DEF Drained, Smaller
<1>4. PICK p \in Seq(Byte) : Len(p) = n /\ C = Cat(p, All(w))
  BY <1>3, WithoutValue
<1>5. y = [x EXCEPT !.chunk_list_ = m]
  BY DEF Gather
<1> HIDE DEF C, h, w
<1>6. All(w) \in Seq(Byte)
  <2>1. Len(w) \in 0 .. Len(w)
    BY <1>2, LenProperties DEF Chunks
  <2> QED BY <1>2, <2>1, FlatType DEF All
<1>7. p = h /\ h \in Seq(Byte) /\ h # <<>>
  <2>1. p = h
    <3> DEFINE t == All(w)
    <3>1. t \in Seq(Byte) /\ p \in Seq(Byte)
      BY <1>4, <1>6
    <3> HIDE DEF t
    <3>2. SubSeq(Cat(p, t), 1, Len(p)) = p
      BY ONLY <3>1, CatParts, Zenon
    <3> QED BY <1>4, <3>2 DEF h, t
  <2>2. p # <<>>
    BY <1>4, EmptySeq
  <2> QED BY <2>1, <2>2
<1>8. c \in R /\ c.data = h
  BY <1>7 DEF Chunk
<1> HIDE DEF c, R
<1>9. /\ m \in Seq(R) /\ Len(m) = 1 + Len(w) /\ Len(w) \in Nat
      /\ m[1] = c /\ \A i \in 1 .. Len(w) : m[1 + i] = w[i]
  <2>1. w \in Seq(R) /\ <<c>> \in Seq(R) /\ Len(<<c>>) = 1 /\ <<c>>[1] = c /\ Len(w) \in Nat
    BY <1>2, <1>8, LenProperties DEF Chunks, R
  <2> DEFINE o == <<c>>
  <2> HIDE DEF o
  <2>2. /\ o \o w \in Seq(R) /\ Len(o \o w) = Len(o) + Len(w)
        /\ \A i \in 1 .. Len(o) + Len(w) : (o \o w)[i] = IF i <= Len(o) THEN o[i] ELSE w[i - Len(o)]
    BY <2>1, ConcatProperties DEF o
  <2>3. 1 \in 1 .. 1 + Len(w) /\ Len(o) = 1 /\ o[1] = c
    BY <2>1 DEF o
  <2>4. \A i \in 1 .. Len(w) : 1 + i \in 1 .. 1 + Len(w) /\ ~(1 + i <= 1) /\ (1 + i) - 1 = i
    BY <2>1
  <2>5. (o \o w)[1] = c /\ \A i \in 1 .. Len(w) : (o \o w)[1 + i] = w[i]
    BY <2>2, <2>3, <2>4
  <2> QED BY <2>1, <2>2, <2>3, <2>5 DEF o
<1> HIDE DEF m
<1>10. m \in Chunks(Byte) /\ m # <<>>
  BY <1>9, EmptySeq DEF Chunks, R
<1>11. /\ y.chunk_list_ = m /\ y \in BufferType /\ y.size_ = x.size_
       /\ y.default_chunk_size_ = x.default_chunk_size_
  BY <1>1, <1>5, <1>10 DEF BufferType
<1>12. NewestOnly(m)
  <2> SUFFICES ASSUME NEW i \in 1 .. Len(m), m[i].data = <<>>
               PROVE  i = Len(m) /\ m[i].room > 0
    BY DEF NewestOnly
  <2>1. i # 1
    BY <1>7, <1>8, <1>9
  <2>2. i - 1 \in 1 .. Len(w) /\ 1 + (i - 1) = i
    BY <1>9, <2>1
  <2>3. m[i] = w[i - 1]
    BY <1>9, <2>2
  <2>4. i - 1 = Len(w) /\ w[i - 1].room > 0
    BY <1>2, <2>2, <2>3 DEF NewestOnly
  <2> QED BY <1>9, <2>3, <2>4
<1>13. All(m) = C
  <2>1. Len(m) = Len(w) + 1
    BY <1>9
  <2>2. All(m) = Cat(m[1].data, All(Rest(m, 1))) /\ Rest(m, 1) \in Chunks(Byte)
        /\ Len(Rest(m, 1)) = Len(w)
    BY <1>9, <1>10, <2>1, FlatFirst
  <2>3. \A i \in 1 .. Len(w) : Rest(m, 1)[i].data = w[i].data
    <3>1. 1 \in 0 .. Len(m) /\ Len(m) - 1 = Len(w)
      BY <1>9
    <3>2. \A i \in 1 .. Len(m) - 1 : Rest(m, 1)[i] = m[1 + i]
      BY ONLY <1>10, <3>1, RestFacts
    <3> QED BY <1>9, <3>1, <3>2
  <2>4. All(Rest(m, 1)) = All(w)
    BY <1>9, <2>2, <2>3, FlatSame DEF All
  <2> QED BY <1>4, <1>7, <1>8, <1>9, <2>2, <2>4
<1>14. Contents(y) = C
  BY <1>11, <1>13, BytesAreFlat
<1>15. Oldest(y).data = h /\ SubSeq(h, 1, n) = h
  <2>1. Oldest(y) = m[1]
    BY <1>10, <1>11 DEF Oldest
  <2>2. SubSeq(h, 1, n) = h
    BY <1>4, <1>7, SubSeqFull
  <2> QED BY <1>8, <1>9, <2>1, <2>2
<1> QED BY <1>1, <1>11, <1>12, <1>14, <1>15 DEF Sound, SameBytes, C, h

\* operator[] finds the byte with the given number.
LEMMA ElementValue ==
  ASSUME NEW x, Sound(x), NEW i \in Nat, i < x.size_
  PROVE  Element(x, i) = Contents(x)[i + 1]
<1> DEFINE l == x.chunk_list_
           len[j \in 0 .. Len(l)] == Len(Flat(l, j))
           T == {j \in 0 .. Len(l) : i < len[j]}
           C == Contents(x)
           at == CHOOSE j \in DOMAIN l : Behind(x, j - 1) <= i /\ i < Behind(x, j)
<1>1. l \in Chunks(Byte) /\ Len(l) \in Nat /\ DOMAIN l = 1 .. Len(l) /\ x.size_ \in Nat
      /\ C = Flat(l, Len(l)) /\ Len(C) = x.size_
  <2>1. l \in Chunks(Byte) /\ Len(l) \in Nat /\ x.size_ \in Nat
    BY BufferFacts DEF Sound
  <2>2. DOMAIN l = 1 .. Len(l)
    BY <2>1, LenProperties DEF Chunks
  <2>3. C = Flat(l, Len(l)) /\ Len(C) = x.size_
    BY BytesAreFlat DEF Sound, All
  <2> QED BY <2>1, <2>2, <2>3
<1> HIDE DEF l
<1>2. /\ \A j \in 0 .. Len(l) : len[j] \in Nat /\ Behind(x, j) = len[j]
      /\ len[0] = 0 /\ Len(l) \in T
  <2>1. \A j \in 0 .. Len(l) : Behind(x, j) = Len(Flat(l, j))
    BY BytesAreFlat DEF Behind, l
  <2>2. \A j \in 0 .. Len(l) : Len(Flat(l, j)) \in Nat
    BY <1>1, FlatType
  <2>3. Len(Flat(l, 0)) = 0
    BY FlatNone, EmptySeq
  <2>4. len[Len(l)] = x.size_
    BY <1>1
  <2> QED BY <1>1, <2>1, <2>2, <2>3, <2>4
<1>3. \A j \in 0 .. Len(l) : len[j] = Len(Flat(l, j))
  OBVIOUS
<1> HIDE DEF len
<1>4. PICK k \in T : \A j \in T : k <= j
  <2>1. T \subseteq Nat
    OBVIOUS
  <2> HIDE DEF T
  <2> QED BY <1>2, <2>1, LeastExists
<1>5. k \in 1 .. Len(l) /\ k - 1 \in 0 .. Len(l)
  BY <1>1, <1>2, <1>4
<1>6. len[k - 1] <= i /\ i < len[k]
  <2>1. k - 1 \notin T
    BY <1>4, <1>5
  <2> QED BY <1>2, <1>5, <2>1
<1>7. at \in DOMAIN l /\ Behind(x, at - 1) <= i /\ i < Behind(x, at)
  <2>1. \E j \in DOMAIN l : Behind(x, j - 1) <= i /\ i < Behind(x, j)
    BY <1>1, <1>2, <1>5, <1>6
  <2> QED BY <2>1
<1> HIDE DEF at, T
<1> DEFINE f == Flat(l, at - 1)
           d == l[at].data
<1>8. /\ at \in 1 .. Len(l) /\ at - 1 \in Nat /\ at - 1 \in 0 .. Len(l) /\ at \in 0 .. Len(l)
      /\ (at - 1) + 1 = at /\ at <= Len(l)
  BY <1>1, <1>7
<1>9. f \in Seq(Byte) /\ d \in Seq(Byte) /\ Flat(l, at) = Cat(f, d)
  <2>1. Flat(l, (at - 1) + 1) = Cat(Flat(l, at - 1), l[(at - 1) + 1].data)
    BY <1>1, <1>8, FlatStep
  <2> QED BY <1>1, <1>8, <2>1, ChunkTypes, FlatType
<1> DEFINE e == i - Len(f) + 1
<1>10. Len(f) <= i /\ i < Len(f) + Len(d) /\ Len(f) \in Nat /\ Len(d) \in Nat
       /\ Behind(x, at - 1) = Len(f)
  <2>1. Behind(x, at - 1) = Len(f) /\ Behind(x, at) = Len(Flat(l, at))
    BY <1>2, <1>3, <1>8
  <2> HIDE DEF f, d
  <2>2. Len(Flat(l, at)) = Len(f) + Len(d) /\ Len(f) \in Nat /\ Len(d) \in Nat
    BY <1>9, CatFacts
  <2> QED BY <1>7, <2>1, <2>2
<1> HIDE DEF f, d
<1>11. e \in 1 .. Len(d) /\ Len(f) + e = i + 1 /\ i + 1 \in 1 .. Len(f) + Len(d)
  BY <1>10
<1>12. Flat(l, at)[i + 1] = d[e]
  <2> HIDE DEF e
  <2>1. Cat(f, d)[Len(f) + e] = d[e]
    BY <1>9, <1>11, CatElements
  <2> QED BY <1>9, <1>11, <2>1
<1>13. C[i + 1] = Flat(l, at)[i + 1]
  <2>1. i + 1 \in 1 .. Len(Flat(l, at))
    BY <1>9, <1>11, CatFacts
  <2>2. Len(l) \in 0 .. Len(l) /\ at \in 0 .. Len(l)
    BY <1>1, <1>8
  <2> HIDE DEF C
  <2> QED BY <1>1, <2>1, <2>2, FlatGrows
<1>14. Element(x, i) = l[at].data[i - Behind(x, at - 1) + 1]
  BY DEF Element, at, l
<1> QED BY <1>10, <1>12, <1>13, <1>14 DEF d

-----------------------------------------------------------------------------
(* The inductive invariant: every buffer is sound, holds fewer bytes than  *)
(* have been numbered, and lends no more room than it has.  The numbers of *)
(* the bytes are what bounds size_ across swap(): each buffer has at most  *)
(* the bytes that have entered any.                                        *)

IInv ==
  /\ bufs \in [Buffers -> BufferType]
  /\ lent \in [Buffers -> Nat]
  /\ next \in 1 .. MaxBytes + 1
  /\ ~stuck
  /\ \A b \in Buffers : /\ Sound(bufs[b])
                        /\ bufs[b].size_ < next
                        /\ lent[b] <= Room(bufs[b])

\* A buffer just constructed is sound and holds nothing.
LEMMA EmptyBufferHolds ==
  ASSUME NEW n \in ChunkSizes
  PROVE  /\ EmptyBuffer(n) \in BufferType
         /\ EmptyBuffer(n).chunk_list_ = <<>> /\ EmptyBuffer(n).size_ = 0
         /\ Contents(EmptyBuffer(n)) = <<>> /\ NewestOnly(EmptyBuffer(n).chunk_list_)
<1> DEFINE x == EmptyBuffer(n)
<1>1. x \in BufferType /\ x.chunk_list_ = <<>> /\ x.size_ = 0
  <2>1. <<>> \in Chunks(Byte)
    BY EmptySeq DEF Chunks
  <2> QED BY <2>1 DEF EmptyBuffer, BufferType
<1> HIDE DEF x
<1>2. Contents(x) = <<>> /\ NewestOnly(x.chunk_list_)
  <2>1. Len(<<>>) = 0 /\ Contents(x) = All(<<>>)
    BY <1>1, BytesAreFlat
  <2>2. All(<<>>) = <<>>
    BY <2>1, FlatNone DEF All
  <2>3. NewestOnly(<<>>)
    BY <2>1 DEF NewestOnly
  <2> QED BY <1>1, <2>1, <2>2, <2>3
<1> QED BY <1>1, <1>2 DEF x

LEMMA InitIInv ==
  ASSUME Init
  PROVE  IInv
<1>1. PICK n \in ChunkSizes : bufs = [b \in Buffers |-> EmptyBuffer(n)]
  BY DEF Init
<1> DEFINE x == EmptyBuffer(n)
<1>2. /\ x \in BufferType /\ x.chunk_list_ = <<>> /\ x.size_ = 0
      /\ Contents(x) = <<>> /\ NewestOnly(x.chunk_list_)
  BY EmptyBufferHolds
<1> HIDE DEF x
<1>4. Sound(x) /\ Room(x) = 0
  BY <1>2, EmptySeq DEF Sound, Room
<1>5. bufs = [b \in Buffers |-> x]
  BY <1>1 DEF x
<1>6. next \in 1 .. MaxBytes + 1 /\ next = 1 /\ ~stuck /\ lent = [b \in Buffers |-> 0]
  BY BufferAssumption DEF Init
<1> QED BY <1>2, <1>4, <1>5, <1>6 DEF IInv

\* The numbers of the next n bytes to enter.
LEMMA FreshBytes ==
  ASSUME IInv, NEW n \in Nat, next + n <= MaxBytes + 1
  PROVE  /\ Fresh(n) \in Seq(Byte) /\ Len(Fresh(n)) = n
         /\ \A k \in 0 .. n : SubSeq(Fresh(n), 1, k) = Fresh(k)
<1>1. next \in 1 .. MaxBytes + 1 /\ MaxBytes \in Nat
  BY BufferAssumption DEF IInv
<1>2. Fresh(n) \in Seq(Byte) /\ Len(Fresh(n)) = n /\ \A i \in 1 .. n : Fresh(n)[i] = next + i - 1
  BY <1>1 DEF Fresh, Byte
<1>3. ASSUME NEW k \in 0 .. n PROVE SubSeq(Fresh(n), 1, k) = Fresh(k)
  <2>1. SubSeq(Fresh(n), 1, k) \in Seq(Byte) /\ Len(SubSeq(Fresh(n), 1, k)) = k
    BY <1>2, SplitFacts
  <2>2. SubSeq(Fresh(n), 1, k) = [i \in 1 .. k |-> Fresh(n)[i]]
    BY <1>2
  <2>3. \A i \in 1 .. k : Fresh(n)[i] = next + i - 1
    BY <1>2
  <2> QED BY <2>2, <2>3 DEF Fresh
<1> QED BY <1>2, <1>3

LEMMA BecomeIInv ==
  ASSUME IInv, NEW b \in Buffers, NEW y, Sound(y), NEW n \in Nat, n <= Room(y),
         Become(b, y, n), ~stuck', next' \in 1 .. MaxBytes + 1,
         y.size_ < next', next <= next'
  PROVE  IInv'
<1>1. y \in BufferType
  BY DEF Sound
<1>2. bufs' = [bufs EXCEPT ![b] = y] /\ lent' = [lent EXCEPT ![b] = n]
  BY DEF Become
<1>3. bufs' \in [Buffers -> BufferType] /\ lent' \in [Buffers -> Nat]
  BY <1>1, <1>2 DEF IInv
<1>4. ASSUME NEW c \in Buffers
      PROVE  Sound(bufs'[c]) /\ bufs'[c].size_ < next' /\ lent'[c] <= Room(bufs'[c])
  <2>1. CASE c = b
    <3>1. bufs'[c] = y /\ lent'[c] = n
      BY <1>2, <2>1 DEF IInv
    <3> QED BY <3>1
  <2>2. CASE c # b
    <3>1. bufs'[c] = bufs[c] /\ lent'[c] = lent[c]
      BY <1>2, <2>2 DEF IInv
    <3>2. Sound(bufs[c]) /\ bufs[c].size_ < next /\ lent[c] <= Room(bufs[c])
      BY DEF IInv
    <3>3. bufs[c].size_ \in Nat /\ next \in Int /\ next' \in Int
      BY BufferFacts, BufferAssumption DEF IInv
    <3> QED BY <3>1, <3>2, <3>3
  <2> QED BY <2>1, <2>2
<1> QED BY <1>3, <1>4 DEF IInv

-----------------------------------------------------------------------------
(* Each call keeps the invariant and is a step of the queue of bytes.      *)

\* The refinement mapping of Abstract.
Content == [b \in Buffers |-> Contents(bufs[b])]

QueueStep == Abstract!Next \/ UNCHANGED <<Content, next, out>>

LEMMA ContentBecomes ==
  ASSUME IInv, NEW b \in Buffers, NEW y, NEW n, Become(b, y, n)
  PROVE  /\ Content' = [Content EXCEPT ![b] = Contents(y)]
         /\ Content[b] = Contents(bufs[b]) /\ Contents(bufs[b]) \in Seq(Byte)
         /\ Len(Contents(bufs[b])) \in Nat /\ Len(Contents(bufs[b])) = bufs[b].size_
<1>1. bufs \in [Buffers -> BufferType] /\ bufs' = [bufs EXCEPT ![b] = y]
  BY DEF IInv, Become
<1>2. \A c \in Buffers : bufs'[c] = IF c = b THEN y ELSE bufs[c]
  BY <1>1
<1>3. Content' = [c \in Buffers |-> Contents(bufs'[c])]
  BY DEF Content
<1>4. \A c \in Buffers : Contents(bufs'[c]) = IF c = b THEN Contents(y) ELSE Contents(bufs[c])
  BY <1>2
<1>5. Content' = [Content EXCEPT ![b] = Contents(y)]
  BY <1>3, <1>4 DEF Content
<1>6. Contents(bufs[b]) \in Seq(Byte) /\ Len(Contents(bufs[b])) \in Nat
      /\ Len(Contents(bufs[b])) = bufs[b].size_
  BY <1>1, BufferFacts DEF IInv, Sound
<1> QED BY <1>5, <1>6 DEF Content

\* k bytes enter the buffer b, which was x and becomes y.
LEMMA EnterStep ==
  ASSUME IInv, NEW b \in Buffers, NEW y, NEW n, Become(b, y, n),
         NEW k \in Nat, next + k <= MaxBytes + 1, next' = next + k,
         Contents(y) = Cat(Contents(bufs[b]), Fresh(k))
  PROVE  k \in 0 .. MaxBytes /\ Abstract!Enter(b, k)
<1>1. k \in 0 .. MaxBytes
  BY BufferAssumption DEF IInv
<1>2. Abstract!Fresh(k) = Fresh(k)
  BY DEF Abstract!Fresh, Fresh
<1>3. Content' = [Content EXCEPT ![b] = Content[b] \o Fresh(k)]
  BY ContentBecomes DEF Cat
<1> QED BY <1>1, <1>2, <1>3 DEF Abstract!Enter, Content

\* The buffer b becomes y, which holds the same bytes.
LEMMA KeepStep ==
  ASSUME IInv, NEW b \in Buffers, NEW y, NEW n \in Nat, Become(b, y, n),
         Sound(y), SameBytes(bufs[b], y), n <= Room(y), next' = next, ~stuck'
  PROVE  IInv' /\ Content' = Content
<1>1. IInv'
  <2>1. next' \in 1 .. MaxBytes + 1 /\ y.size_ < next' /\ next <= next'
    BY BufferAssumption DEF IInv, SameBytes
  <2> QED BY <2>1, BecomeIInv
<1>2. Content' = Content
  <2>1. Content' = [Content EXCEPT ![b] = Contents(y)] /\ Contents(y) = Content[b]
    BY ContentBecomes DEF SameBytes
  <2> QED BY <2>1 DEF Content
<1> QED BY <1>1, <1>2

LEMMA PushStep ==
  ASSUME IInv, NEW b \in Buffers, NEW n \in Nat, push(b, n)
  PROVE  IInv' /\ QueueStep
<1> DEFINE x == bufs[b]
           s == Fresh(n)
           y == Push(x, s)
<1>1. next + n <= MaxBytes + 1 /\ Become(b, y, 0) /\ next' = next + n /\ out' = <<n>> /\ ~stuck'
  BY DEF push, Answer, IInv
<1>2. Sound(x) /\ x.size_ \in Nat /\ x.size_ < next /\ next \in 1 .. MaxBytes + 1 /\ MaxBytes \in Nat
  BY BufferFacts, BufferAssumption DEF IInv
<1>3. s \in Seq(Byte) /\ Len(s) = n
  BY <1>1, FreshBytes
<1> HIDE DEF x, s
<1>4. Sound(y) /\ y.size_ = x.size_ + n /\ Contents(y) = Cat(Contents(x), s)
  BY <1>2, <1>3, PushSound
<1> HIDE DEF y
<1>5. IInv'
  <2>1. next' \in 1 .. MaxBytes + 1 /\ y.size_ < next' /\ next <= next'
    BY <1>1, <1>2, <1>4
  <2>2. 0 <= Room(y)
    BY <1>4, BufferFacts DEF Sound
  <2> QED BY <1>1, <1>4, <2>1, <2>2, BecomeIInv
<1>6. n \in 0 .. MaxBytes /\ Abstract!Enter(b, n)
  BY <1>1, <1>4, EnterStep DEF x, s
<1>7. Abstract!Add(b, n)
  BY <1>1, <1>6 DEF Abstract!Add
<1> QED BY <1>5, <1>6, <1>7 DEF QueueStep, Abstract!Next

LEMMA PushThrowsStep ==
  ASSUME IInv, NEW b \in Buffers, NEW n \in Nat, pushThrows(b, n)
  PROVE  IInv' /\ QueueStep
<1> DEFINE x == bufs[b]
           s == Fresh(n)
           y == PushHead(x, s)
           k == Room(x)
<1>1. /\ next + n <= MaxBytes + 1 /\ ~PushFits(x, s) /\ Become(b, y, 0) /\ next' = next + k
      /\ out' = Threw /\ ~stuck' /\ Failures # {}
  BY DEF pushThrows, Answer, IInv
<1>2. Sound(x) /\ x.size_ \in Nat /\ x.size_ < next /\ next \in 1 .. MaxBytes + 1 /\ MaxBytes \in Nat
      /\ k \in Nat
  BY BufferFacts, BufferAssumption DEF IInv
<1>3. s \in Seq(Byte) /\ Len(s) = n /\ \A i \in 0 .. n : SubSeq(s, 1, i) = Fresh(i)
  BY <1>1, FreshBytes
<1>4. k < n
  BY <1>1, <1>2, <1>3 DEF PushFits
<1> HIDE DEF x, s
<1>5. /\ Sound(y) /\ y.size_ = x.size_ + k /\ Contents(y) = Cat(Contents(x), SubSeq(s, 1, k))
  BY <1>1, <1>2, <1>3, PushHeadSound
<1> HIDE DEF y, k
<1>6. IInv'
  <2>1. next' \in 1 .. MaxBytes + 1 /\ y.size_ < next' /\ next <= next'
    BY <1>1, <1>2, <1>4, <1>5
  <2>2. 0 <= Room(y)
    BY <1>5, BufferFacts DEF Sound
  <2> QED BY <1>1, <1>5, <2>1, <2>2, BecomeIInv
<1>7. SubSeq(s, 1, k) = Fresh(k) /\ next + k <= MaxBytes + 1
  BY <1>1, <1>2, <1>3, <1>4
<1>8. k \in 0 .. MaxBytes /\ Abstract!Enter(b, k)
  BY <1>1, <1>2, <1>5, <1>7, EnterStep DEF x
<1>9. Abstract!Fail(b, k)
  BY <1>1, <1>8 DEF Abstract!Fail
<1> QED BY <1>6, <1>8, <1>9 DEF QueueStep, Abstract!Next

LEMMA HaveSetedStep ==
  ASSUME IInv, NEW b \in Buffers, NEW n \in Nat, spaceHaveSeted(b, n)
  PROVE  IInv' /\ QueueStep
<1> DEFINE x == bufs[b]
           s == Fresh(n)
           y == WriteNewest(x, s)
<1>1. /\ n > 0 /\ n <= lent[b] /\ next + n <= MaxBytes + 1 /\ Become(b, y, 0) /\ next' = next + n
      /\ out' = out /\ ~stuck'
  BY DEF spaceHaveSeted, SpaceHaveSeted, IInv
<1>2. /\ Sound(x) /\ x.size_ \in Nat /\ x.size_ < next /\ next \in 1 .. MaxBytes + 1
      /\ MaxBytes \in Nat /\ Room(x) \in Nat /\ lent[b] <= Room(x) /\ lent[b] \in Nat
  BY BufferFacts, BufferAssumption DEF IInv
<1>3. s \in Seq(Byte) /\ Len(s) = n
  BY <1>1, FreshBytes
<1> HIDE DEF x, s
<1>4. n <= Room(x) /\ x.chunk_list_ # <<>>
  BY <1>1, <1>2 DEF Room
<1>5. Sound(y) /\ y.size_ = x.size_ + n /\ Contents(y) = Cat(Contents(x), s)
  BY <1>2, <1>3, <1>4, WriteSound
<1> HIDE DEF y
<1>6. IInv'
  <2>1. next' \in 1 .. MaxBytes + 1 /\ y.size_ < next' /\ next <= next'
    BY <1>1, <1>2, <1>5
  <2>2. 0 <= Room(y)
    BY <1>5, BufferFacts DEF Sound
  <2> QED BY <1>1, <1>5, <2>1, <2>2, BecomeIInv
<1>7. n \in 0 .. MaxBytes /\ Abstract!Enter(b, n)
  BY <1>1, <1>5, EnterStep DEF x, s
<1>8. Abstract!Commit(b, n)
  BY <1>1, <1>7 DEF Abstract!Commit
<1> QED BY <1>6, <1>7, <1>8 DEF QueueStep, Abstract!Next

LEMMA DrainStep ==
  ASSUME IInv, NEW b \in Buffers, NEW n \in Nat, drain(b, n)
  PROVE  IInv' /\ QueueStep
<1> DEFINE x == bufs[b]
           y == Drain(x, n)
           g == Drained(x, n)
           C == Contents(x)
           k == Smaller(n, MaxBytes)
<1>1. Become(b, y, 0) /\ next' = next /\ out' = <<g>> /\ ~stuck'
  BY DEF drain, Answer, IInv
<1>2. Sound(x) /\ x.size_ \in Nat /\ x.size_ < next /\ next \in 1 .. MaxBytes + 1 /\ MaxBytes \in Nat
  BY BufferFacts, BufferAssumption DEF IInv
<1>3. Content' = [Content EXCEPT ![b] = Contents(y)] /\ Content[b] = C /\ Len(C) = x.size_
  BY <1>1, ContentBecomes
<1>4. k \in 0 .. MaxBytes /\ g = (IF k < Len(C) THEN k ELSE Len(C))
  BY <1>2, <1>3 DEF Drained, Smaller
<1> HIDE DEF x, g, k, C
<1>5. /\ Sound(y) /\ g \in 0 .. x.size_ /\ y.size_ = x.size_ - g
      /\ Contents(y) = SubSeq(C, g + 1, Len(C))
  BY <1>2, DrainSound DEF g, C
<1> HIDE DEF y
<1>6. IInv'
  <2>1. next' \in 1 .. MaxBytes + 1 /\ y.size_ < next' /\ next <= next'
    BY <1>1, <1>2, <1>5
  <2>2. 0 <= Room(y)
    BY <1>5, BufferFacts DEF Sound
  <2> QED BY <1>1, <1>5, <2>1, <2>2, BecomeIInv
<1>7. Abstract!Remove(b, k)
  BY <1>1, <1>3, <1>4, <1>5 DEF Abstract!Remove, Content
<1> QED BY <1>4, <1>6, <1>7 DEF QueueStep, Abstract!Next

\* An allocation failed and no buffer has other bytes than before.
LEMMA FailStep ==
  ASSUME IInv, NEW b \in Buffers, Content' = Content, next' = next, out' = Threw, Failures # {}
  PROVE  QueueStep
<1>1. Content[b] \in Seq(Byte) /\ next \in 1 .. MaxBytes + 1 /\ MaxBytes \in Nat
  BY BufferFacts, BufferAssumption DEF IInv, Content
<1>2. Content[b] \o Abstract!Fresh(0) = Content[b]
  <2>1. Abstract!Fresh(0) = <<>>
    BY DEF Abstract!Fresh
  <2> QED BY <1>1, <2>1, ConcatEmptySeq
<1>3. Content' = [Content EXCEPT ![b] = Content[b] \o Abstract!Fresh(0)]
  BY <1>2 DEF Content
<1>4. 0 \in 0 .. MaxBytes /\ next + 0 <= MaxBytes + 1 /\ next' = next + 0
  BY <1>1
<1>5. Abstract!Enter(b, 0)
  BY <1>3, <1>4 DEF Abstract!Enter, Content
<1>6. Abstract!Fail(b, 0)
  BY <1>5 DEF Abstract!Fail
<1> QED BY <1>4, <1>6 DEF QueueStep, Abstract!Next

LEMMA LookStep ==
  ASSUME IInv, NEW b \in Buffers, Content' = Content, next' = next,
         NEW k \in Nat, k <= Len(Contents(bufs[b])), out' = SubSeq(Contents(bufs[b]), 1, k)
  PROVE  k \in 0 .. MaxBytes /\ Abstract!Look(b, k) /\ QueueStep
<1>1. /\ Len(Contents(bufs[b])) = bufs[b].size_ /\ bufs[b].size_ \in Nat
      /\ bufs[b].size_ < next /\ next \in 1 .. MaxBytes + 1 /\ MaxBytes \in Nat
  BY BufferFacts, BufferAssumption DEF IInv, Sound
<1>2. k \in 0 .. MaxBytes
  BY <1>1
<1>3. Content[b] = Contents(bufs[b])
  BY DEF Content
<1>4. Abstract!Look(b, k)
  BY <1>3 DEF Abstract!Look, Content
<1> QED BY <1>2, <1>4 DEF QueueStep, Abstract!Next

LEMMA SpaceStep ==
  ASSUME IInv, NEW b \in Buffers, NEW n \in Nat,
         space(b, n) \/ spaceThrows(b, n) \/ spaceChunk(b)
  PROVE  IInv' /\ QueueStep
<1> DEFINE x == bufs[b]
<1>1. Sound(x) /\ next' = next /\ ~stuck'
  BY DEF IInv, space, spaceThrows, spaceChunk
<1> HIDE DEF x
<1>2. CASE space(b, n)
  <2> DEFINE y == Space(x, n)
  <2>1. Become(b, y, n) /\ out' = out
    BY <1>2 DEF space, x
  <2>2. Sound(y) /\ SameBytes(x, y) /\ n <= Room(y)
    BY <1>1, SpaceSound
  <2> HIDE DEF y
  <2>3. IInv' /\ Content' = Content
    BY <1>1, <2>1, <2>2, KeepStep DEF x
  <2> QED BY <1>1, <2>1, <2>3 DEF QueueStep
<1>3. CASE spaceThrows(b, n)
  <2> DEFINE y == DropEmpty(x)
  <2>1. Become(b, y, 0) /\ out' = Threw /\ Failures # {}
    BY <1>3 DEF spaceThrows, Answer, x
  <2>2. Sound(y) /\ SameBytes(x, y)
    BY <1>1, DropSound
  <2> HIDE DEF y
  <2>3. 0 <= Room(y)
    BY <2>2, BufferFacts DEF Sound
  <2>4. IInv' /\ Content' = Content
    BY <1>1, <2>1, <2>2, <2>3, KeepStep DEF x
  <2> QED BY <1>1, <2>1, <2>4, FailStep
<1>4. CASE spaceChunk(b)
  <2> DEFINE y == SpaceChunk(x)
  <2>1. Become(b, y, Room(y)) /\ out' = out
    BY <1>4 DEF spaceChunk, x
  <2>2. Sound(y) /\ SameBytes(x, y)
    BY <1>1, SpaceChunkSound
  <2> HIDE DEF y
  <2>3. Room(y) \in Nat /\ Room(y) <= Room(y)
    BY <2>2, BufferFacts DEF Sound
  <2>4. IInv' /\ Content' = Content
    BY <1>1, <2>1, <2>2, <2>3, KeepStep DEF x
  <2> QED BY <1>1, <2>1, <2>4 DEF QueueStep
<1> QED BY <1>2, <1>3, <1>4

LEMMA DataStep ==
  ASSUME IInv, NEW b \in Buffers, NEW n \in Nat, data(b, n)
  PROVE  IInv' /\ QueueStep
<1> DEFINE x == bufs[b]
           y == Data(x, n)
           C == Contents(x)
<1>1. Sound(x) /\ x.size_ = Len(C) /\ x.size_ \in Nat /\ x \in BufferType /\ n > 0
  BY BufferFacts DEF IInv, Sound, data
<1>2. ~DataStuck(x, n)
  BY <1>1, NotStuck
<1>3. /\ Become(b, y, 0) /\ out' = Pointed(x, n) /\ next' = next /\ ~stuck'
      /\ x.chunk_list_ # <<>> \/ Missing(x, n)
  BY <1>2 DEF data, Answer, IInv, HasBack
<1> HIDE DEF x, y
<1>4. Sound(y) /\ SameBytes(x, y)
  <2>1. CASE Missing(x, n) \/ AtHand(x, n)
    BY <1>1, <2>1 DEF Data, SameBytes, y
  <2>2. CASE ~(Missing(x, n) \/ AtHand(x, n))
    <3>1. y = Gather(x, n)
      BY <2>2 DEF Data, y
    <3> QED BY <1>1, <2>2, <3>1, GatherSound
  <2> QED BY <2>1, <2>2
<1>5. IInv' /\ Content' = Content
  <2>1. 0 <= Room(y)
    BY <1>4, BufferFacts DEF Sound
  <2> QED BY <1>3, <1>4, <2>1, KeepStep DEF x
<1>6. CASE Missing(x, n)
  <2>1. out' = SubSeq(C, 1, 0)
    BY <1>3, <1>6, SubSeqEmpty DEF Pointed
  <2> QED BY <1>1, <1>3, <1>5, <2>1, LookStep DEF x
<1>7. CASE ~Missing(x, n)
  <2>1. n <= Len(C) /\ n \in Nat \ {0}
    BY <1>1, <1>7 DEF Missing
  <2>2. out' = SubSeq(C, 1, n)
    <3>1. out' = SubSeq(Oldest(y).data, 1, n)
      BY <1>3, <1>7 DEF Pointed, y
    <3>2. CASE AtHand(x, n)
      <4> DEFINE d == Oldest(x).data
      <4>1. y = x /\ n <= Len(d)
        BY <3>2 DEF Data, AtHand, y
      <4>2. /\ Len(d) \in 0 .. Len(C)
            /\ \A m \in 0 .. Len(d) : SubSeq(d, 1, m) = SubSeq(C, 1, m)
        BY <1>1, <1>3, <1>7, OldestValue
      <4>3. n \in 0 .. Len(d)
        BY <1>1, <4>1, <4>2
      <4> HIDE DEF d
      <4> QED BY <3>1, <4>1, <4>2, <4>3 DEF d
    <3>3. CASE ~AtHand(x, n)
      <4>1. y = Gather(x, n)
        BY <1>7, <3>3 DEF Data, y
      <4> QED BY <1>1, <1>7, <2>1, <3>1, <4>1, GatherSound
    <3> QED BY <3>2, <3>3
  <2> QED BY <1>3, <1>5, <2>1, <2>2, LookStep DEF x
<1> QED BY <1>5, <1>6, <1>7

\* The array data() gathers in, or the chunk spaceChunk() adds, could not be
\* allocated.
LEMMA UnchangedThrowsStep ==
  ASSUME IInv, NEW b \in Buffers, NEW n, Failures # {},
         dataThrows(b, n, "chunk") \/ spaceChunkThrows(b)
  PROVE  IInv' /\ QueueStep
<1>1. UNCHANGED <<bufs, lent, next, stuck>> /\ out' = Threw
  BY DEF dataThrows, spaceChunkThrows, OnlyAnswers, Answer
<1>2. IInv'
  BY <1>1 DEF IInv
<1>3. Content' = Content
  BY <1>1 DEF Content
<1> QED BY <1>1, <1>2, <1>3, FailStep

LEMMA DataChunkStep ==
  ASSUME IInv, NEW b \in Buffers, dataChunk(b)
  PROVE  IInv' /\ QueueStep
<1> DEFINE x == bufs[b]
           d == Oldest(x).data
           C == Contents(x)
<1>1. UNCHANGED <<bufs, lent, next, stuck>> /\ out' = d /\ Sound(x) /\ x.chunk_list_ # <<>>
  BY DEF dataChunk, OnlyAnswers, Answer, DataChunk, HasBack, IInv
<1>2. IInv' /\ Content' = Content
  BY <1>1 DEF IInv, Content
<1>3. /\ d \in Seq(Byte) /\ Len(d) \in 0 .. Len(C)
      /\ \A n \in 0 .. Len(d) : SubSeq(d, 1, n) = SubSeq(C, 1, n)
      /\ d = <<>> => C = <<>>
  BY <1>1, OldestValue
<1>4. Len(d) \in Nat /\ SubSeq(d, 1, Len(d)) = d /\ (d # <<>> => Len(d) > 0) /\ Len(C) \in Nat
      /\ (d = <<>> => Len(d) = 0)
  <2>1. Len(C) \in Nat
    BY <1>1, BufferFacts DEF Sound
  <2> HIDE DEF d, C
  <2> QED BY <1>3, <2>1, SubSeqFull, EmptySeq, LenProperties
<1> HIDE DEF d
<1>5. out' = SubSeq(C, 1, Len(d)) /\ Len(d) <= Len(C)
  BY <1>1, <1>3, <1>4
<1>6. Abstract!Look(b, Len(d))
  BY <1>1, <1>2, <1>4, <1>5, LookStep
<1>7. Abstract!LookAtSome(b)
  <2>1. Content[b] = C
    BY DEF Content
  <2>2. CASE d = <<>>
    <3>1. Len(d) = 0 /\ Content[b] = <<>>
      BY <1>3, <1>4, <2>1, <2>2
    <3> QED BY <1>6, <3>1 DEF Abstract!LookAtSome, Content
  <2>3. CASE d # <<>>
    <3>1. Len(d) \in 1 .. Len(Content[b])
      BY <1>4, <1>5, <2>1, <2>3
    <3> QED BY <1>6, <3>1 DEF Abstract!LookAtSome, Content
  <2> QED BY <2>2, <2>3
<1> QED BY <1>2, <1>7 DEF QueueStep, Abstract!Next

LEMMA ElementStep ==
  ASSUME IInv, NEW b \in Buffers, NEW n \in Nat, element(b, n)
  PROVE  IInv' /\ QueueStep
<1> DEFINE x == bufs[b]
<1>1. UNCHANGED <<bufs, lent, next, stuck>> /\ out' = <<Element(x, n)>> /\ n < x.size_ /\ Sound(x)
  BY DEF element, OnlyAnswers, Answer, IInv
<1>2. IInv' /\ Content' = Content
  BY <1>1 DEF IInv, Content
<1>3. /\ x.size_ = Len(Contents(x)) /\ x.size_ \in Nat /\ x.size_ < next
      /\ next \in 1 .. MaxBytes + 1 /\ MaxBytes \in Nat
  BY BufferFacts, BufferAssumption DEF IInv, Sound
<1>4. Element(x, n) = Content[b][n + 1] /\ n < Len(Content[b]) /\ n \in 0 .. MaxBytes
  BY <1>1, <1>3, ElementValue DEF Content
<1>5. Abstract!LookAt(b, n)
  BY <1>1, <1>2, <1>4 DEF Abstract!LookAt, Content
<1> QED BY <1>2, <1>4, <1>5 DEF QueueStep, Abstract!Next

LEMMA DefaultStep ==
  ASSUME IInv, NEW b \in Buffers, NEW n \in ChunkSizes, default_chunk_size(b, n)
  PROVE  IInv' /\ QueueStep
<1> DEFINE x == bufs[b]
           y == [x EXCEPT !.default_chunk_size_ = n]
<1>1. Sound(x) /\ x \in BufferType /\ bufs' = [bufs EXCEPT ![b] = y]
      /\ UNCHANGED <<lent, next, out, stuck>> /\ bufs \in [Buffers -> BufferType]
  BY DEF default_chunk_size, IInv, Sound
<1>2. y \in BufferType /\ y.chunk_list_ = x.chunk_list_ /\ y.size_ = x.size_
  BY <1>1 DEF BufferType
<1> HIDE DEF x, y
<1>3. Contents(y) = Contents(x) /\ Room(y) = Room(x)
  BY <1>2 DEF Contents, Bytes, Room, Newest
<1>4. Sound(y)
  BY <1>1, <1>2, <1>3 DEF Sound
<1>5. \A c \in Buffers : bufs'[c] = IF c = b THEN y ELSE bufs[c]
  BY <1>1
<1>6. IInv'
  <2>1. bufs' \in [Buffers -> BufferType]
    BY <1>1, <1>2
  <2>2. ASSUME NEW c \in Buffers
        PROVE  Sound(bufs'[c]) /\ bufs'[c].size_ < next' /\ lent'[c] <= Room(bufs'[c])
    <3>1. Sound(bufs[c]) /\ bufs[c].size_ < next /\ lent[c] <= Room(bufs[c])
      BY DEF IInv
    <3> QED BY <1>1, <1>2, <1>3, <1>4, <1>5, <3>1 DEF x
  <2> QED BY <1>1, <2>1, <2>2 DEF IInv
<1>7. Content' = Content
  <2>1. \A c \in Buffers : Contents(bufs'[c]) = Contents(bufs[c])
    BY <1>3, <1>5 DEF x
  <2>2. Content' = [c \in Buffers |-> Contents(bufs'[c])]
    BY DEF Content
  <2> QED BY <2>1, <2>2 DEF Content
<1> QED BY <1>1, <1>6, <1>7 DEF QueueStep

LEMMA SwapStep ==
  ASSUME IInv, NEW b \in Buffers, NEW c \in Buffers \ {b}, swap(b, c)
  PROVE  IInv' /\ QueueStep
<1>1. /\ bufs' = [bufs EXCEPT ![b] = bufs[c], ![c] = bufs[b]]
      /\ lent' = [lent EXCEPT ![b] = 0, ![c] = 0]
      /\ UNCHANGED <<next, out, stuck>>
      /\ bufs \in [Buffers -> BufferType] /\ lent \in [Buffers -> Nat]
  BY DEF swap, IInv
<1>2. \A d \in Buffers : /\ bufs'[d] = IF d = c THEN bufs[b] ELSE IF d = b THEN bufs[c] ELSE bufs[d]
                         /\ lent'[d] = IF d = c \/ d = b THEN 0 ELSE lent[d]
  BY <1>1
<1>3. IInv'
  <2>1. bufs' \in [Buffers -> BufferType] /\ lent' \in [Buffers -> Nat]
    BY <1>1
  <2>2. ASSUME NEW d \in Buffers
        PROVE  Sound(bufs'[d]) /\ bufs'[d].size_ < next' /\ lent'[d] <= Room(bufs'[d])
    <3>1. \A e \in Buffers : /\ Sound(bufs[e]) /\ bufs[e].size_ < next /\ lent[e] <= Room(bufs[e])
                             /\ 0 <= Room(bufs[e])
      BY BufferFacts DEF IInv
    <3>2. CASE d = c
      BY <1>1, <1>2, <3>1, <3>2
    <3>3. CASE d = b
      BY <1>1, <1>2, <3>1, <3>3
    <3>4. CASE d # b /\ d # c
      BY <1>1, <1>2, <3>1, <3>4
    <3> QED BY <3>2, <3>3, <3>4
  <2> QED BY <1>1, <2>1, <2>2 DEF IInv
<1>4. Content' = [Content EXCEPT ![b] = Content[c], ![c] = Content[b]]
  <2>1. Content' = [d \in Buffers |-> Contents(bufs'[d])]
    BY DEF Content
  <2>2. \A d \in Buffers : Contents(bufs'[d]) =
          IF d = c THEN Contents(bufs[b]) ELSE IF d = b THEN Contents(bufs[c]) ELSE Contents(bufs[d])
    BY <1>2
  <2> QED BY <2>1, <2>2 DEF Content
<1>5. Abstract!Exchange(b, c)
  BY <1>1, <1>4 DEF Abstract!Exchange, Content
<1> QED BY <1>3, <1>5 DEF QueueStep, Abstract!Next

LEMMA NextStep ==
  ASSUME "node" \notin Failures, IInv, [Next]_vars
  PROVE  IInv' /\ QueueStep
<1>1. CASE UNCHANGED vars
  BY <1>1 DEF vars, IInv, QueueStep, Content
<1>2. CASE Next
  <2>1. PICK b \in Buffers :
          \/ \E n \in Lengths :
               \/ push(b, n) \/ pushThrows(b, n) \/ drain(b, n) \/ data(b, n)
               \/ \E what \in Failures : dataThrows(b, n, what)
               \/ element(b, n) \/ space(b, n) \/ spaceThrows(b, n) \/ spaceHaveSeted(b, n)
          \/ dataChunk(b)
          \/ spaceChunk(b) \/ spaceChunkThrows(b)
          \/ \E n \in ChunkSizes : default_chunk_size(b, n)
          \/ \E c \in Buffers \ {b} : swap(b, c)
    BY <1>2 DEF Next
  <2>2. ASSUME NEW n \in Lengths,
               \/ push(b, n) \/ pushThrows(b, n) \/ drain(b, n) \/ data(b, n)
               \/ \E what \in Failures : dataThrows(b, n, what)
               \/ element(b, n) \/ space(b, n) \/ spaceThrows(b, n) \/ spaceHaveSeted(b, n)
        PROVE  IInv' /\ QueueStep
    <3>1. n \in Nat
      BY BufferAssumption
    <3>2. ASSUME NEW what \in Failures, dataThrows(b, n, what)
          PROVE  IInv' /\ QueueStep
      <4>1. what = "chunk"
        BY BufferAssumption
      <4> QED BY <3>2, <4>1, UnchangedThrowsStep
    <3> QED BY <2>2, <3>1, <3>2, PushStep, PushThrowsStep, DrainStep, DataStep, ElementStep,
               SpaceStep, HaveSetedStep
  <2>3. CASE dataChunk(b)
    BY <2>3, DataChunkStep
  <2>4. CASE spaceChunk(b)
    <3>1. 0 \in Nat
      OBVIOUS
    <3> QED BY <2>4, <3>1, SpaceStep
  <2>5. CASE spaceChunkThrows(b)
    BY <2>5, UnchangedThrowsStep DEF spaceChunkThrows
  <2>6. CASE \E n \in ChunkSizes : default_chunk_size(b, n)
    BY <2>6, DefaultStep
  <2>7. CASE \E c \in Buffers \ {b} : swap(b, c)
    BY <2>7, SwapStep
  <2> QED BY <2>1, <2>2, <2>3, <2>4, <2>5, <2>6, <2>7
<1> QED BY <1>1, <1>2

LEMMA Invariant ==
  ASSUME "node" \notin Failures
  PROVE  Spec => []IInv
<1>1. Init => IInv
  BY InitIInv
<1>2. IInv /\ [Next]_vars => IInv'
  BY NextStep
<1> QED BY <1>1, <1>2, PTL DEF Spec

-----------------------------------------------------------------------------

\* After any sequence of calls, whichever array could not be allocated, size_
\* counts the bytes in the chunks, no chunk but the newest is empty, and data()
\* has neither spun nor left its list.  A list node that cannot be allocated
\* is excluded: then data() has already taken the bytes out of their chunks.
THEOREM BuffersStaySound ==
  ASSUME "node" \notin Failures
  PROVE  Spec => []BuffersSound
<1>1. IInv => BuffersSound
  <2> SUFFICES ASSUME IInv PROVE BuffersSound
    OBVIOUS
  <2>1. ASSUME NEW b \in Buffers
        PROVE  /\ bufs[b].size_ \in 0 .. MaxBytes
               /\ bufs[b].default_chunk_size_ \in ChunkSizes
               /\ DOMAIN bufs[b].chunk_list_ = 1 .. Len(bufs[b].chunk_list_)
               /\ bufs[b].chunk_list_ \in Chunks(Byte)
               /\ lent[b] \in 0 .. Room(bufs[b])
               /\ Sound(bufs[b])
    <3>1. /\ bufs[b] \in BufferType /\ Sound(bufs[b]) /\ bufs[b].size_ < next
          /\ lent[b] <= Room(bufs[b]) /\ lent[b] \in Nat
          /\ next \in 1 .. MaxBytes + 1 /\ MaxBytes \in Nat
      BY BufferAssumption DEF IInv
    <3>2. /\ bufs[b].size_ \in Nat /\ bufs[b].default_chunk_size_ \in ChunkSizes
          /\ bufs[b].chunk_list_ \in Chunks(Byte) /\ Room(bufs[b]) \in Nat
      BY <3>1, BufferFacts
    <3>3. DOMAIN bufs[b].chunk_list_ = 1 .. Len(bufs[b].chunk_list_)
      BY <3>2, LenProperties DEF Chunks
    <3> QED BY <3>1, <3>2, <3>3
  <2>2. TypeOK
    <3>1. ASSUME NEW b \in Buffers, NEW i \in DOMAIN bufs[b].chunk_list_
          PROVE  /\ bufs[b].chunk_list_[i].data \in Seq(1 .. MaxBytes)
                 /\ bufs[b].chunk_list_[i].room \in Nat
      <4>1. bufs[b].chunk_list_ \in Chunks(Byte) /\ i \in 1 .. Len(bufs[b].chunk_list_)
        BY <2>1
      <4> QED BY <4>1, ChunkTypes DEF Byte
    <3> QED BY <2>1, <3>1 DEF TypeOK, IInv
  <2>3. SizeIsContent
    BY <2>1 DEF SizeIsContent, Sound
  <2>4. OnlyNewestMayBeEmpty
    BY <2>1 DEF OnlyNewestMayBeEmpty, Sound, NewestOnly
  <2> QED BY <2>2, <2>3, <2>4 DEF BuffersSound, NeverStuck, IInv
<1> QED BY <1>1, Invariant, PTL

\* tl::buffer implements a queue of bytes: through every mixture of its calls
\* on any number of buffers each answer is the one a plain sequence gives, and
\* an allocation that fails costs no byte.
THEOREM BuffersAreQueues ==
  ASSUME "node" \notin Failures
  PROVE  Spec => ImplementsQueue
<1>1. Init => Abstract!Init
  <2> SUFFICES ASSUME Init PROVE Abstract!Init
    OBVIOUS
  <2>1. PICK n \in ChunkSizes : bufs = [b \in Buffers |-> EmptyBuffer(n)]
    BY DEF Init
  <2>2. Contents(EmptyBuffer(n)) = <<>>
    BY EmptyBufferHolds
  <2>3. Content = [b \in Buffers |-> <<>>]
    BY <2>1, <2>2 DEF Content
  <2> QED BY <2>3 DEF Init, Abstract!Init, Content
<1>2. IInv /\ [Next]_vars => [Abstract!Next]_(Abstract!vars)
  BY NextStep DEF QueueStep, Abstract!vars, Content
<1> QED BY <1>1, <1>2, Invariant, PTL DEF Spec, Abstract!Spec, ImplementsQueue

-----------------------------------------------------------------------------
(* The echo handler on its two buffers, an instance of HandlerBuffers.     *)

CONSTANTS ChunkSize, SendRoom, Interrupts
VARIABLES pc, pending, rbuf, wbuf, inbox, outbox, peer, arrived, echoed

Echo == INSTANCE HandlerBuffers

\* The operators of the handler's copy of module Buffer are those of Buffer.
LEMMA SameCalls ==
  ASSUME NEW x, NEW s
  PROVE  /\ Echo!Contents(x) = Contents(x) /\ Echo!Room(x) = Room(x)
         /\ Echo!EmptyBuffer(s) = EmptyBuffer(s) /\ Echo!SpaceChunk(x) = SpaceChunk(x)
         /\ Echo!SpaceHaveSeted(x, s) = WriteNewest(x, s)
         /\ Echo!DataChunk(x) = DataChunk(x)
         /\ Echo!Push(x, s) = Push(x, s) /\ Echo!Drain(x, s) = Drain(x, s)
<1>1. Echo!Contents(x) = Contents(x)
  BY DEF Echo!Contents, Contents, Echo!Bytes, Bytes, Echo!FlattenSeq, FlattenSeq
<1>2. Echo!Room(x) = Room(x) /\ Echo!DataChunk(x) = DataChunk(x)
      /\ Echo!EmptyBuffer(s) = EmptyBuffer(s)
  BY DEF Echo!Room, Room, Echo!Newest, Newest, Echo!Last, Last, Echo!DataChunk, DataChunk,
         Echo!Oldest, Oldest, Echo!EmptyBuffer, EmptyBuffer
<1>3. Echo!SpaceChunk(x) = SpaceChunk(x)
  BY <1>2 DEF Echo!SpaceChunk, SpaceChunk, Echo!AddChunk, AddChunk, Echo!Chunk, Chunk
<1>4. Echo!SpaceHaveSeted(x, s) = WriteNewest(x, s)
  BY DEF Echo!SpaceHaveSeted, Echo!WriteNewest, WriteNewest, Echo!Chunk, Chunk
<1>5. Echo!Push(x, s) = Push(x, s)
  BY DEF Echo!Push, Push, Echo!PushFits, PushFits, Echo!PushHead, PushHead, Echo!Room, Room,
     Echo!Newest, Newest, Echo!Last, Last, Echo!WriteNewest, WriteNewest, Echo!AddChunk,
     AddChunk, Echo!Chunk, Chunk, Echo!Smaller, Smaller, Echo!Larger, Larger
<1>6. Echo!Drain(x, s) = Drain(x, s)
  BY DEF Echo!Drain, Drain, Echo!Without, Without, Echo!Drained, Drained, Echo!Shorten, Shorten,
     Echo!Popped, Popped, Echo!Behind, Behind, Echo!Bytes, Bytes, Echo!Contents, Contents,
     Echo!Smaller, Smaller, Echo!Cardinality, Cardinality, Echo!FlattenSeq, FlattenSeq
<1> QED BY <1>1, <1>2, <1>3, <1>4, <1>5, <1>6

\* The newest chunk stays or goes, and keeps its room.
LEMMA DrainRoom ==
  ASSUME NEW x, Sound(x), NEW n \in Nat
  PROVE  Room(Drain(x, n)) \in {0, Room(x)}
<1> DEFINE l == x.chunk_list_
           k == Popped(x, n)
           r == Rest(l, k)
           m == n - Behind(x, k)
           w == Without(x, n)
           R == [data : Seq(Byte), room : Nat]
<1>1. l \in Chunks(Byte) /\ Len(l) \in Nat /\ k \in 0 .. Len(l)
      /\ (l # <<>> => Room(x) = l[Len(l)].room)
  BY BufferFacts, PoppedValue DEF Sound
<1>2. w = Shorten(r, m) /\ w \in Chunks(Byte) /\ m \in Nat
  <2>1. Behind(x, k) \in 0 .. n
    BY PoppedValue
  <2>2. w = Shorten(r, m)
    BY DEF Without, Rest
  <2>3. w \in Chunks(Byte)
    BY WithoutValue
  <2> QED BY <2>1, <2>2, <2>3
<1>3. Room(Drain(x, n)) = IF w = <<>> THEN 0 ELSE w[Len(w)].room
  BY DEF Drain, Room, Newest, Last, Sound, BufferType
<1> HIDE DEF k, m, w
<1>4. /\ r \in Chunks(Byte) /\ Len(r) = Len(l) - k
      /\ \A i \in 1 .. Len(l) - k : r[i] = l[k + i]
  BY <1>1, RestFacts
<1> HIDE DEF l, r
<1>5. w = <<>> \/ (Len(w) = Len(r) /\ Len(r) > 0 /\ w[Len(r)].room = r[Len(r)].room)
  <2>1. CASE r = <<>> \/ m = 0
    <3>1. w = r
      BY <1>2, <2>1 DEF Shorten
    <3> QED BY <1>4, <3>1, EmptySeq, LenProperties DEF Chunks
  <2>2. CASE r # <<>> /\ m # 0
    <3> DEFINE c == [r[1] EXCEPT !.data = SubSeq(@, m + 1, Len(@))]
    <3>1. w = [r EXCEPT ![1] = c]
      BY <1>2, <2>2 DEF Shorten
    <3>2. r \in Seq(R) /\ Len(r) \in Nat \ {0} /\ 1 \in 1 .. Len(r)
      <4>1. r \in Seq(R) /\ Len(r) \in Nat
        BY <1>4, LenProperties DEF Chunks
      <4> QED BY <2>2, <4>1, EmptySeq
    <3>3. c \in R /\ c.room = r[1].room
      <4>1. r[1] \in [data : Seq(Byte), room : Nat]
        BY <1>4, <3>2, ChunkTypes
      <4>2. SubSeq(r[1].data, m + 1, Len(r[1].data)) \in Seq(Byte)
        <5>1. \A i \in m + 1 .. Len(r[1].data) : r[1].data[i] \in Byte
          BY <1>2, <4>1, ElementOfSeq
        <5> QED BY <1>2, <4>1, <5>1, LenProperties, SubSeqProperties
      <4> QED BY <4>1, <4>2
    <3> HIDE DEF c, R
    <3>4. Len(w) = Len(r) /\ w[1] = c /\ \A i \in 1 .. Len(r) : i # 1 => w[i] = r[i]
      BY <3>1, <3>2, <3>3, ExceptSeq
    <3>5. w[Len(r)].room = r[Len(r)].room
      BY <3>2, <3>3, <3>4
    <3> QED BY <3>2, <3>4, <3>5
  <2> QED BY <2>1, <2>2
<1>6. CASE w # <<>>
  <2>1. Len(r) \in 1 .. Len(l) - k /\ k + Len(r) = Len(l) /\ l # <<>>
    BY <1>1, <1>4, <1>5, <1>6, EmptySeq
  <2> QED BY <1>1, <1>3, <1>4, <1>5, <1>6, <2>1 DEF l
<1> QED BY <1>3, <1>6

\* spaceChunk() lends some room, not more than there is or a new chunk has.
LEMMA SpaceChunkRoom ==
  ASSUME NEW x, Sound(x), NEW n \in Nat, x.default_chunk_size_ = n, Room(x) <= n
  PROVE  /\ Room(SpaceChunk(x)) \in 1 .. n
         /\ SpaceChunk(x).chunk_list_ # <<>>
<1>1. n \in Nat \ {0} /\ Room(x) \in Nat
  BY BufferFacts DEF Sound
<1>2. Room(SpaceChunk(x)) \in 1 .. n
  <2>1. CASE Room(x) > 0
    BY <1>1, <2>1 DEF SpaceChunk
  <2>2. CASE Room(x) = 0
    <3>1. SpaceChunk(x) = AddChunk(x, Chunk(<<>>, n))
      BY <2>2 DEF SpaceChunk
    <3> QED BY <1>1, <2>2, <3>1, NoRoomIsFull, AddEmptySound
  <2> QED BY <1>1, <2>1, <2>2
<1>3. SpaceChunk(x).chunk_list_ # <<>>
  BY <1>2 DEF Room
<1> QED BY <1>2, <1>3

\* What a sound buffer holds and what dataChunk() shows of it.
LEMMA SoundFacts ==
  ASSUME NEW x, Sound(x)
  PROVE  /\ Contents(x) \in Seq(Byte) /\ Len(Contents(x)) = x.size_ /\ x.size_ \in Nat
         /\ x.size_ = 0 <=> Contents(x) = <<>>
         /\ x.size_ > 0 => /\ DataChunk(x) \in Seq(Byte)
                           /\ Len(DataChunk(x)) \in 1 .. x.size_
                           /\ \A n \in 0 .. Len(DataChunk(x)) :
                                SubSeq(DataChunk(x), 1, n) = SubSeq(Contents(x), 1, n)
<1>1. /\ Contents(x) \in Seq(Byte) /\ Len(Contents(x)) = x.size_ /\ x.size_ \in Nat
      /\ x.size_ = 0 <=> Contents(x) = <<>>
  BY BufferFacts, EmptySeq DEF Sound
<1>2. ASSUME x.size_ > 0
      PROVE  /\ DataChunk(x) \in Seq(Byte)
             /\ Len(DataChunk(x)) \in 1 .. x.size_
             /\ \A n \in 0 .. Len(DataChunk(x)) :
                  SubSeq(DataChunk(x), 1, n) = SubSeq(Contents(x), 1, n)
  <2> DEFINE d == Oldest(x).data
  <2>1. x.chunk_list_ # <<>>
    <3>1. x.chunk_list_ = <<>> => Contents(x) = <<>>
      BY BytesAreFlat, FlatNone, EmptySeq DEF All
    <3> QED BY <1>1, <1>2, <3>1
  <2>2. /\ d \in Seq(Byte) /\ Len(d) \in 0 .. Len(Contents(x))
        /\ \A n \in 0 .. Len(d) : SubSeq(d, 1, n) = SubSeq(Contents(x), 1, n)
        /\ d = <<>> => Contents(x) = <<>>
    BY <2>1, OldestValue
  <2>3. DataChunk(x) = d
    BY DEF DataChunk
  <2> HIDE DEF d
  <2>4. Len(d) # 0
    BY <1>1, <1>2, <2>2, EmptySeq
  <2> QED BY <1>1, <2>2, <2>3, <2>4
<1> QED BY <1>1, <1>2

-----------------------------------------------------------------------------

\* What holds of the handler between two steps: its buffers are sound, read_buf_
\* has no more room than a new chunk, and it reads only with nothing to write.
EchoIInv ==
  /\ Sound(rbuf) /\ Sound(wbuf)
  /\ rbuf.default_chunk_size_ = ChunkSize /\ Room(rbuf) <= ChunkSize
  /\ inbox \in Seq(Byte) /\ outbox \in Seq(Byte) /\ arrived \in Seq(Byte)
  /\ pc = "recv" \/ pending = "read" => wbuf.size_ = 0
  /\ pc \in {"recv", "echo", "write"} => pending = "nothing"

LEMMA EchoInit ==
  ASSUME ChunkSize \in ChunkSizes, Echo!Init
  PROVE  EchoIInv /\ Echo!Abstract!Init
<1> DEFINE x == EmptyBuffer(ChunkSize)
<1>1. /\ x \in BufferType /\ x.chunk_list_ = <<>> /\ x.size_ = 0 /\ Contents(x) = <<>>
      /\ NewestOnly(x.chunk_list_) /\ x.default_chunk_size_ = ChunkSize
  BY EmptyBufferHolds DEF EmptyBuffer
<1>2. Sound(x)
  BY <1>1, EmptySeq DEF Sound
<1>3. Room(x) = 0 /\ ChunkSize \in Nat
  BY <1>1, BufferAssumption DEF Room
<1>4. rbuf = x /\ wbuf = x
  BY SameCalls DEF Echo!Init
<1> HIDE DEF x
<1>5. EchoIInv
  BY <1>1, <1>2, <1>3, <1>4, EmptySeq DEF Echo!Init, EchoIInv
<1>6. Echo!Contents(x) = <<>>
  BY <1>1, SameCalls
<1>7. Echo!Abstract!Init
  BY <1>4, <1>6 DEF Echo!Init, Echo!Abstract!Init, Echo!Echoing
<1> QED BY <1>5, <1>7

LEMMA EchoStutters ==
  ASSUME EchoIInv, UNCHANGED Echo!vars
  PROVE  EchoIInv' /\ UNCHANGED Echo!Abstract!vars
BY DEF EchoIInv, Echo!vars, Echo!bufs, Echo!kernel, Echo!history, Echo!Abstract!vars,
       Echo!Abstract!kernel, Echo!Abstract!history, Echo!Echoing

\* The peer does what it does in Handler.
LEMMA EchoPeer ==
  ASSUME EchoIInv, Echo!PeerSends \/ Echo!PeerReceives \/ Echo!PeerLeaves
  PROVE  EchoIInv' /\ Echo!Abstract!Peer
<1>1. CASE Echo!PeerSends
  <2>1. Append(arrived, Len(arrived) + 1) \in Seq(Byte) /\ Append(inbox, Len(arrived) + 1) \in Seq(Byte)
    <3>1. Len(arrived) + 1 \in Byte
      BY <1>1, BufferAssumption, LenProperties DEF EchoIInv, Echo!PeerSends, Byte
    <3> QED BY <3>1, AppendProperties DEF EchoIInv
  <2>2. EchoIInv'
    BY <1>1, <2>1 DEF EchoIInv, Echo!PeerSends, Echo!bufs
  <2>3. Echo!Abstract!PeerSends
    BY <1>1 DEF Echo!PeerSends, Echo!Abstract!PeerSends, Echo!bufs, Echo!Echoing
  <2> QED BY <2>2, <2>3 DEF Echo!Abstract!Peer
<1>2. CASE Echo!PeerReceives
  <2>1. outbox' \in Seq(Byte)
    BY <1>2, HeadTailProperties DEF EchoIInv, Echo!PeerReceives
  <2>2. EchoIInv'
    BY <1>2, <2>1 DEF EchoIInv, Echo!PeerReceives, Echo!bufs
  <2>3. Echo!Abstract!PeerReceives
    BY <1>2 DEF Echo!PeerReceives, Echo!Abstract!PeerReceives, Echo!bufs, Echo!Echoing
  <2> QED BY <2>2, <2>3 DEF Echo!Abstract!Peer
<1>3. CASE Echo!PeerLeaves
  <2>1. EchoIInv'
    BY <1>3 DEF EchoIInv, Echo!PeerLeaves, Echo!bufs, Echo!kernel, Echo!history
  <2>2. Echo!Abstract!PeerLeaves
    BY <1>3 DEF Echo!PeerLeaves, Echo!Abstract!PeerLeaves, Echo!bufs, Echo!Echoing, Echo!kernel,
       Echo!history, Echo!Abstract!kernel, Echo!Abstract!history
  <2> QED BY <2>1, <2>2 DEF Echo!Abstract!Peer
<1> QED BY <1>1, <1>2, <1>3

\* The event fires, by itself or for its timeout.
LEMMA EchoFires ==
  ASSUME EchoIInv, Echo!Fire \/ Echo!FireTimeout
  PROVE  EchoIInv' /\ Echo!Abstract!Next
<1>1. CASE Echo!Fire
  <2>1. EchoIInv'
    BY <1>1 DEF EchoIInv, Echo!Fire, Echo!bufs, Echo!kernel, Echo!history
  <2>2. Echo!Abstract!FireRead \/ Echo!Abstract!FireWrite
    BY <1>1 DEF Echo!Fire, Echo!Abstract!FireRead, Echo!Abstract!FireWrite, Echo!bufs,
       Echo!Echoing, Echo!kernel, Echo!history, Echo!Abstract!kernel, Echo!Abstract!history,
       Echo!Readable, Echo!Writable, Echo!Abstract!Readable, Echo!Abstract!Writable
  <2> QED BY <2>1, <2>2 DEF Echo!Abstract!Next, Echo!Abstract!Callback
<1>2. CASE Echo!FireTimeout
  <2>1. EchoIInv'
    BY <1>2 DEF EchoIInv, Echo!FireTimeout, Echo!Delete, Echo!bufs, Echo!kernel, Echo!history
  <2>2. Echo!Abstract!FireTimeout
    BY <1>2 DEF Echo!FireTimeout, Echo!Abstract!FireTimeout, Echo!Delete, Echo!Abstract!Delete,
       Echo!bufs, Echo!Echoing, Echo!kernel, Echo!history, Echo!Abstract!kernel,
       Echo!Abstract!history
  <2> QED BY <2>1, <2>2 DEF Echo!Abstract!Next
<1> QED BY <1>1, <1>2

\* What spaceChunk() does to the buffer that is read into.
LEMMA EchoLends ==
  ASSUME EchoIInv, NEW x, x = SpaceChunk(rbuf)
  PROVE  /\ Sound(x) /\ Contents(x) = Contents(rbuf) /\ x.chunk_list_ # <<>>
         /\ x.default_chunk_size_ = ChunkSize /\ Room(x) \in 1 .. ChunkSize
         /\ ChunkSize \in Nat
<1>1. Sound(rbuf) /\ rbuf.default_chunk_size_ = ChunkSize /\ Room(rbuf) <= ChunkSize
  BY DEF EchoIInv
<1>2. ChunkSize \in Nat
  BY <1>1, BufferFacts DEF Sound
<1> QED BY <1>1, <1>2, SpaceChunkSound, SpaceChunkRoom DEF SameBytes

\* recv() moves a prefix of what has arrived into the room that was lent.
LEMMA EchoRecv ==
  ASSUME EchoIInv, Echo!Recv
  PROVE  EchoIInv' /\ Echo!Abstract!Recv
<1> DEFINE x == SpaceChunk(rbuf)
           room == Room(x)
           n == IF room < Len(inbox) THEN room ELSE Len(inbox)
           t == SubSeq(inbox, 1, n)
           u == SubSeq(inbox, n + 1, Len(inbox))
<1>1. /\ Sound(x) /\ Contents(x) = Contents(rbuf) /\ x.chunk_list_ # <<>>
      /\ x.default_chunk_size_ = ChunkSize /\ room \in 1 .. ChunkSize /\ ChunkSize \in Nat
  BY EchoLends
<1>2. /\ pc = "recv" /\ inbox # <<>> /\ rbuf' = WriteNewest(x, t) /\ inbox' = u
      /\ pc' = (IF n < room THEN "echo" ELSE "recv")
      /\ UNCHANGED <<pending, wbuf, outbox, peer, arrived, echoed>>
  BY SameCalls DEF Echo!Recv, Echo!history
<1>3. inbox \in Seq(Byte) /\ Len(inbox) \in Nat /\ n \in 0 .. Len(inbox) /\ n <= room
  BY <1>1, LenProperties DEF EchoIInv
<1> HIDE DEF x, room
<1>4. t \in Seq(Byte) /\ u \in Seq(Byte) /\ Len(t) = n
  <2> HIDE DEF n
  <2> QED BY <1>3, SplitFacts
<1> HIDE DEF n, t, u
<1>5. /\ Sound(rbuf') /\ Contents(rbuf') = Contents(rbuf) \o t
      /\ rbuf'.default_chunk_size_ = ChunkSize
  BY <1>1, <1>2, <1>3, <1>4, WriteSound DEF Cat, room
<1>6. Room(rbuf') <= ChunkSize
  <2>1. Room(rbuf') = Room(x) - Len(t)
    BY <1>1, <1>2, <1>3, <1>4, WriteValue DEF room, Sound
  <2> QED BY <1>1, <1>3, <1>4, <2>1 DEF room
<1>7. wbuf.size_ = 0 /\ Contents(wbuf) = <<>> /\ pending = "nothing"
  BY <1>2, SoundFacts DEF EchoIInv
<1>8. EchoIInv'
  BY <1>2, <1>4, <1>5, <1>6, <1>7 DEF EchoIInv
<1>9. <<>> \o (Contents(rbuf) \o t) = Contents(rbuf) \o t
  BY <1>4, SoundFacts, CatFacts DEF EchoIInv, Cat
<1>10. /\ Echo!Contents(rbuf) = Contents(rbuf) /\ Echo!Contents(rbuf') = Contents(rbuf')
       /\ Echo!Contents(wbuf) = <<>>
  BY <1>7, SameCalls
<1>11. /\ n = Echo!Abstract!AtMost(room, Len(inbox))
       /\ t = Echo!Abstract!First(inbox, n) /\ u = Echo!Abstract!Rest(inbox, n)
  BY DEF Echo!Abstract!AtMost, Echo!Abstract!First, Echo!Abstract!Rest, n, t, u
<1>12. Echo!Abstract!Recv
  BY <1>1, <1>2, <1>5, <1>9, <1>10, <1>11 DEF Echo!Abstract!Recv, Echo!Echoing, Echo!Abstract!history
<1> QED BY <1>8, <1>12

\* handleRead() stops reading; spaceChunk() may have added a chunk.
LEMMA EchoStopsReading ==
  ASSUME EchoIInv, Echo!RecvWouldBlock \/ Echo!RecvFails
  PROVE  EchoIInv' /\ (Echo!Abstract!RecvWouldBlock \/ Echo!Abstract!RecvFails)
<1> DEFINE x == SpaceChunk(rbuf)
<1>1. /\ Sound(x) /\ Contents(x) = Contents(rbuf) /\ x.chunk_list_ # <<>>
      /\ x.default_chunk_size_ = ChunkSize /\ Room(x) \in 1 .. ChunkSize /\ ChunkSize \in Nat
  BY EchoLends
<1>2. pc = "recv" /\ rbuf' = x /\ UNCHANGED <<wbuf, inbox, outbox, peer, arrived, echoed>>
  BY SameCalls DEF Echo!RecvWouldBlock, Echo!RecvFails, Echo!kernel, Echo!history
<1> HIDE DEF x
<1>3. pending = "nothing" /\ wbuf.size_ = 0 /\ Contents(wbuf) = <<>>
  BY <1>2, SoundFacts DEF EchoIInv
<1>4. /\ Echo!Contents(rbuf) = Contents(rbuf) /\ Echo!Contents(rbuf') = Contents(rbuf)
      /\ Echo!Contents(wbuf) = <<>> /\ <<>> \o Contents(rbuf) = Contents(rbuf)
  BY <1>1, <1>2, <1>3, SameCalls, SoundFacts, CatFacts DEF EchoIInv, Cat
<1>5. CASE Echo!RecvWouldBlock
  <2>1. EchoIInv'
    BY <1>1, <1>2, <1>3, <1>5 DEF EchoIInv, Echo!RecvWouldBlock
  <2>2. Echo!Abstract!RecvWouldBlock
    BY <1>2, <1>4, <1>5 DEF Echo!RecvWouldBlock, Echo!Abstract!RecvWouldBlock, Echo!Readable,
       Echo!Abstract!Readable, Echo!Echoing, Echo!Abstract!kernel, Echo!Abstract!history
  <2> QED BY <2>1, <2>2
<1>6. CASE Echo!RecvFails
  <2>1. EchoIInv'
    BY <1>1, <1>2, <1>3, <1>6 DEF EchoIInv, Echo!RecvFails, Echo!Delete
  <2>2. Echo!Abstract!RecvFails
    BY <1>2, <1>4, <1>6 DEF Echo!RecvFails, Echo!Abstract!RecvFails, Echo!Delete,
       Echo!Abstract!Delete, Echo!Echoing, Echo!Abstract!kernel, Echo!Abstract!history
  <2> QED BY <2>1, <2>2
<1> QED BY <1>5, <1>6

\* A round of the echo loop moves a chunk, which Handler does not see.
LEMMA EchoRound ==
  ASSUME EchoIInv, Echo!EchoChunk
  PROVE  EchoIInv' /\ UNCHANGED Echo!Abstract!vars
<1> DEFINE d == DataChunk(rbuf)
           n == Len(d)
           C == Contents(rbuf)
           t == SubSeq(C, n + 1, Len(C))
<1>1. /\ pc = "echo" /\ rbuf.size_ > 0 /\ wbuf' = Push(wbuf, d) /\ rbuf' = Drain(rbuf, n)
      /\ UNCHANGED <<pc, pending, inbox, outbox, peer, arrived, echoed>>
  BY SameCalls DEF Echo!EchoChunk, Echo!kernel, Echo!history
<1>2. /\ C \in Seq(Byte) /\ d \in Seq(Byte) /\ n \in 1 .. rbuf.size_ /\ rbuf.size_ = Len(C)
      /\ rbuf.size_ \in Nat
  BY <1>1, SoundFacts DEF EchoIInv
<1>3. d = SubSeq(C, 1, n)
  <2>1. SubSeq(d, 1, n) = SubSeq(C, 1, n)
    BY <1>1, <1>2, SoundFacts DEF EchoIInv
  <2> QED BY <1>2, <2>1, SubSeqFull
<1> HIDE DEF d, n, C
<1>4. C = Cat(d, t) /\ t \in Seq(Byte)
  BY <1>2, <1>3, SplitFacts
<1>5. Drained(rbuf, n) = n
  BY <1>2 DEF Drained, Smaller, C
<1>6. /\ Sound(rbuf') /\ Contents(rbuf') = t
      /\ rbuf'.default_chunk_size_ = rbuf.default_chunk_size_
  <2>1. Sound(rbuf) /\ n \in Nat
    BY <1>2 DEF EchoIInv
  <2>2. /\ Sound(Drain(rbuf, n))
        /\ Contents(Drain(rbuf, n)) = SubSeq(Contents(rbuf), n + 1, Len(Contents(rbuf)))
        /\ Drain(rbuf, n).default_chunk_size_ = rbuf.default_chunk_size_
    BY <1>5, <2>1, DrainSound
  <2> QED BY <1>1, <2>2 DEF C, t
<1>7. Sound(wbuf') /\ Contents(wbuf') = Cat(Contents(wbuf), d)
  BY <1>1, <1>2, PushSound DEF EchoIInv
<1>8. Room(rbuf') <= ChunkSize
  <2>1. Sound(rbuf) /\ n \in Nat
    BY <1>2 DEF EchoIInv
  <2>2. Room(rbuf') \in {0, Room(rbuf)}
    BY <1>1, <2>1, DrainRoom
  <2>3. ChunkSize \in Nat
    BY <2>1, BufferFacts DEF EchoIInv, Sound
  <2> QED BY <2>2, <2>3 DEF EchoIInv
<1> HIDE DEF t
<1>9. EchoIInv'
  BY <1>1, <1>6, <1>7, <1>8 DEF EchoIInv
<1>10. Cat(Contents(wbuf'), Contents(rbuf')) = Cat(Contents(wbuf), Contents(rbuf))
  <2>1. Contents(wbuf) \in Seq(Byte)
    BY SoundFacts DEF EchoIInv
  <2> QED BY <1>2, <1>4, <1>6, <1>7, <2>1, CatFacts DEF C
<1>11. /\ Echo!Contents(rbuf) = Contents(rbuf) /\ Echo!Contents(rbuf') = Contents(rbuf')
       /\ Echo!Contents(wbuf) = Contents(wbuf) /\ Echo!Contents(wbuf') = Contents(wbuf')
  BY SameCalls
<1>12. UNCHANGED Echo!Abstract!vars
  BY <1>1, <1>10, <1>11 DEF Cat, Echo!Abstract!vars, Echo!Abstract!kernel,
     Echo!Abstract!history, Echo!Echoing
<1> QED BY <1>9, <1>12

\* The echo loop is over.
LEMMA EchoEnds ==
  ASSUME EchoIInv, Echo!EchoDone
  PROVE  EchoIInv' /\ Echo!Abstract!EchoBack
<1>1. /\ pc = "echo" /\ rbuf.size_ = 0 /\ pc' = "loop"
      /\ pending' = (IF wbuf.size_ > 0 THEN "write" ELSE "read")
      /\ UNCHANGED <<rbuf, wbuf, inbox, outbox, peer, arrived, echoed>>
  BY DEF Echo!EchoDone, Echo!Rearm, Echo!bufs, Echo!kernel, Echo!history
<1>2. /\ Contents(rbuf) = <<>> /\ (wbuf.size_ = 0 <=> Contents(wbuf) = <<>>) /\ wbuf.size_ \in Nat
      /\ Contents(wbuf) \in Seq(Byte)
  BY <1>1, SoundFacts DEF EchoIInv
<1>3. EchoIInv'
  BY <1>1, <1>2 DEF EchoIInv
<1>4. Echo!Contents(rbuf) = <<>> /\ Echo!Contents(wbuf) = Contents(wbuf)
  BY <1>2, SameCalls
<1>5. <<>> \o (Contents(wbuf) \o <<>>) = Contents(wbuf)
  BY <1>2, CatFacts DEF Cat
<1>6. Echo!Abstract!EchoBack
  BY <1>1, <1>2, <1>4, <1>5 DEF Echo!Abstract!EchoBack, Echo!Abstract!Rearm, Echo!Echoing,
     Echo!Abstract!kernel, Echo!Abstract!history
<1> QED BY <1>3, <1>6

\* write() takes a prefix of the oldest chunk.
LEMMA EchoWrite ==
  ASSUME EchoIInv, SendRoom \in Nat, Echo!Write
  PROVE  EchoIInv' /\ Echo!Abstract!Write
<1> DEFINE d == DataChunk(wbuf)
           free == SendRoom - Len(outbox)
           n == IF Len(d) < free THEN Len(d) ELSE free
           C == Contents(wbuf)
           t == SubSeq(C, n + 1, Len(C))
<1>1. /\ pc = "write" /\ wbuf.size_ > 0 /\ peer # "reset" /\ Len(outbox) < SendRoom
      /\ outbox' = outbox \o SubSeq(d, 1, n) /\ wbuf' = Drain(wbuf, n)
      /\ UNCHANGED <<pc, pending, rbuf, inbox, peer, arrived, echoed>>
  BY SameCalls DEF Echo!Write, Echo!history
<1>2. /\ C \in Seq(Byte) /\ d \in Seq(Byte) /\ Len(d) \in 1 .. wbuf.size_ /\ wbuf.size_ = Len(C)
      /\ wbuf.size_ \in Nat
      /\ \A m \in 0 .. Len(d) : SubSeq(d, 1, m) = SubSeq(C, 1, m)
  BY <1>1, SoundFacts DEF EchoIInv
<1>3. outbox \in Seq(Byte) /\ Len(outbox) \in Nat
  BY LenProperties DEF EchoIInv
<1> HIDE DEF d, C
<1>4. n \in 0 .. Len(d) /\ n \in 0 .. Len(C)
  BY <1>1, <1>2, <1>3
<1>5. n = Echo!Abstract!AtMost(Len(d), SendRoom - Len(outbox))
  BY DEF Echo!Abstract!AtMost
<1> HIDE DEF n
<1>6. SubSeq(d, 1, n) = SubSeq(C, 1, n) /\ SubSeq(C, 1, n) \in Seq(Byte)
  BY <1>2, <1>4, SplitFacts
<1>7. Drained(wbuf, n) = n
  BY <1>2, <1>4 DEF Drained, Smaller, C
<1>8. Sound(wbuf') /\ Contents(wbuf') = t
  <2>1. Sound(wbuf) /\ n \in Nat
    BY <1>4 DEF EchoIInv
  <2>2. /\ Sound(Drain(wbuf, n))
        /\ Contents(Drain(wbuf, n)) = SubSeq(Contents(wbuf), n + 1, Len(Contents(wbuf)))
    BY <1>7, <2>1, DrainSound
  <2> QED BY <1>1, <2>2 DEF C, t
<1> HIDE DEF t
<1>9. EchoIInv'
  <2>1. outbox' \in Seq(Byte)
    BY <1>1, <1>3, <1>6, ConcatProperties
  <2>2. pending = "nothing"
    BY <1>1 DEF EchoIInv
  <2> QED BY <1>1, <1>8, <2>1, <2>2 DEF EchoIInv
<1>10. /\ Echo!Contents(wbuf) = C /\ Echo!Contents(wbuf') = t
       /\ Echo!Contents(rbuf) = Echo!Contents(rbuf') /\ C # <<>>
  <2>1. C # <<>>
    BY <1>1, <1>2, EmptySeq
  <2> QED BY <1>1, <1>8, <2>1, SameCalls DEF C
<1>11. /\ SubSeq(C, 1, n) = Echo!Abstract!First(C, n) /\ t = Echo!Abstract!Rest(C, n)
       /\ Len(d) \in 1 .. Len(C)
  BY <1>2 DEF Echo!Abstract!First, Echo!Abstract!Rest, t
<1>12. Echo!Abstract!Write
  BY <1>1, <1>5, <1>6, <1>10, <1>11 DEF Echo!Abstract!Write, Echo!Echoing, Echo!Abstract!history
<1> QED BY <1>9, <1>12

\* handleWrite() returns.
LEMMA EchoStopsWriting ==
  ASSUME EchoIInv, Echo!WriteWouldBlock \/ Echo!WriteFails \/ Echo!AllWritten
  PROVE  EchoIInv' /\ Echo!Abstract!Callback
<1>1. pc = "write" /\ pending = "nothing"
      /\ UNCHANGED <<rbuf, wbuf, inbox, outbox, peer, arrived, echoed>>
  BY DEF EchoIInv, Echo!WriteWouldBlock, Echo!WriteFails, Echo!AllWritten, Echo!bufs,
     Echo!kernel, Echo!history
<1>2. (wbuf.size_ = 0 <=> Contents(wbuf) = <<>>) /\ wbuf.size_ \in Nat
  BY SoundFacts DEF EchoIInv
<1>3. Echo!Contents(wbuf) = Contents(wbuf)
  BY SameCalls
<1>4. CASE Echo!WriteWouldBlock
  <2>1. EchoIInv'
    BY <1>1, <1>4 DEF EchoIInv, Echo!WriteWouldBlock
  <2>2. Echo!Abstract!WriteWouldBlock
    BY <1>1, <1>2, <1>3, <1>4 DEF Echo!WriteWouldBlock, Echo!Abstract!WriteWouldBlock,
       Echo!Abstract!AfterWouldBlock, Echo!Writable, Echo!Abstract!Writable, Echo!Echoing,
       Echo!Abstract!kernel, Echo!Abstract!history
  <2> QED BY <2>1, <2>2 DEF Echo!Abstract!Callback
<1>5. CASE Echo!WriteFails
  <2>1. EchoIInv'
    BY <1>1, <1>5 DEF EchoIInv, Echo!WriteFails, Echo!Delete
  <2>2. Echo!Abstract!WriteFails
    BY <1>1, <1>2, <1>3, <1>5 DEF Echo!WriteFails, Echo!Abstract!WriteFails, Echo!Delete,
       Echo!Abstract!Delete, Echo!Echoing, Echo!Abstract!kernel, Echo!Abstract!history
  <2> QED BY <2>1, <2>2 DEF Echo!Abstract!Callback
<1>6. CASE Echo!AllWritten
  <2>1. EchoIInv'
    BY <1>1, <1>6 DEF EchoIInv, Echo!AllWritten, Echo!Rearm
  <2>2. Echo!Abstract!AllWritten
    BY <1>1, <1>2, <1>3, <1>6 DEF Echo!AllWritten, Echo!Abstract!AllWritten, Echo!Rearm,
       Echo!Abstract!Rearm, Echo!Echoing, Echo!Abstract!kernel, Echo!Abstract!history
  <2> QED BY <2>1, <2>2 DEF Echo!Abstract!Callback
<1> QED BY <1>4, <1>5, <1>6

LEMMA EchoNext ==
  ASSUME EchoIInv, SendRoom \in Nat, [Echo!Next]_(Echo!vars)
  PROVE  EchoIInv' /\ [Echo!Abstract!Next]_(Echo!Abstract!vars)
<1> USE DEF Echo!Abstract!Next, Echo!Abstract!Callback
<1>1. CASE UNCHANGED Echo!vars
  BY <1>1, EchoStutters
<1>2. CASE Echo!PeerSends \/ Echo!PeerReceives \/ Echo!PeerLeaves
  BY <1>2, EchoPeer
<1>3. CASE Echo!Fire \/ Echo!FireTimeout
  BY <1>3, EchoFires
<1>4. CASE Echo!Recv
  BY <1>4, EchoRecv
<1>5. CASE Echo!RecvWouldBlock \/ Echo!RecvFails
  BY <1>5, EchoStopsReading
<1>6. CASE Echo!EchoChunk
  BY <1>6, EchoRound
<1>7. CASE Echo!EchoDone
  BY <1>7, EchoEnds
<1>8. CASE Echo!Write
  BY <1>8, EchoWrite
<1>9. CASE Echo!WriteWouldBlock \/ Echo!WriteFails \/ Echo!AllWritten
  BY <1>9, EchoStopsWriting
<1> QED BY <1>1, <1>2, <1>3, <1>4, <1>5, <1>6, <1>7, <1>8, <1>9 DEF Echo!Next, Echo!Callback

\* The handler on chunks, with every call it makes on its two buffers, does
\* what Handler says of plain sequences (handler.cc).
THEOREM EchoesLikeHandler ==
  ASSUME ChunkSize \in ChunkSizes, SendRoom \in Nat
  PROVE  Echo!Spec => Echo!ImplementsHandler
<1>1. Echo!Init => EchoIInv /\ Echo!Abstract!Init
  BY EchoInit
<1>2. EchoIInv /\ [Echo!Next]_(Echo!vars)
      => EchoIInv' /\ [Echo!Abstract!Next]_(Echo!Abstract!vars)
  BY EchoNext
<1> QED BY <1>1, <1>2, PTL DEF Echo!Spec, Echo!Abstract!Spec, Echo!ImplementsHandler

=============================================================================
