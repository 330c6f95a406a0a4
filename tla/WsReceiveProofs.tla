--------------------------- MODULE WsReceiveProofs ---------------------------
(***************************************************************************)
(* Proofs about WsReceive, for every set of frames, every number of them   *)
(* and every way the network cuts their bytes.                             *)
(***************************************************************************)
EXTENDS WsReceive, FiniteSetTheorems, SequenceTheorems, WellFoundedInduction, TLAPS

-----------------------------------------------------------------------------
(* Induction on the natural numbers, as a fact about sets of them.         *)

Below == {p \in Nat \X Nat : p[1] < p[2]}

LEMMA BelowIsWellFounded == IsWellFoundedOn(Below, Nat)
<1>1. Below \cap (Nat \X Nat) \subseteq OpToRel(<, Nat)
  BY DEF OpToRel, Below
<1> QED BY <1>1, NatLessThanWellFounded, IsWellFoundedOnSubrelation

LEMMA LeastExists ==
  ASSUME NEW T, T \subseteq Nat, T # {}
  PROVE  \E x \in T : \A y \in T : x <= y
<1>1. PICK x \in T : \A y \in T : ~ (<<y, x>> \in Below)
  BY BelowIsWellFounded, WFMin
<1>2. \A y \in T : ~(y < x)
  BY <1>1 DEF Below
<1> QED BY <1>2

LEMMA InductionOnSet ==
  ASSUME NEW S \in SUBSET Nat, 0 \in S, \A n \in S : n + 1 \in S
  PROVE  S = Nat
<1> SUFFICES ASSUME S # Nat PROVE FALSE
  OBVIOUS
<1> DEFINE T == Nat \ S
<1>1. PICK x \in T : \A y \in T : x <= y
  BY LeastExists
<1>2. x # 0 /\ x - 1 \in Nat /\ x - 1 \notin T
  BY <1>1
<1> QED BY <1>1, <1>2

-----------------------------------------------------------------------------
(* FlattenSeq() step by step.                                              *)

\* f is the function FlattenSeq() builds from the first n of s.
Flattens(f, s, n) == f = [i \in 1 .. n |-> IF i = 1 THEN s[i] ELSE f[i - 1] \o s[i]]

LEMMA FlattenIsDefined ==
  ASSUME NEW s, NEW n \in Nat
  PROVE  \E f : Flattens(f, s, n)
<1> DEFINE S == {m \in Nat : \E f : Flattens(f, s, m)}
<1>1. 0 \in S
  <2>1. Flattens([i \in 1 .. 0 |-> 0], s, 0)
    BY DEF Flattens
  <2> QED BY <2>1
<1>2. ASSUME NEW m \in S PROVE m + 1 \in S
  <2>1. PICK f : Flattens(f, s, m)
    BY <1>2
  <2> DEFINE g == [i \in 1 .. m + 1 |-> IF i = 1 THEN s[i] ELSE f[i - 1] \o s[i]]
  <2>2. \A i \in 1 .. m : g[i] = f[i]
    <3> TAKE i \in 1 .. m
    <3>1. f[i] = IF i = 1 THEN s[i] ELSE f[i - 1] \o s[i]
      BY <2>1 DEF Flattens
    <3>2. i \in 1 .. m + 1
      OBVIOUS
    <3> QED BY <3>1, <3>2
  <2>3. \A i \in 1 .. m + 1 : i # 1 => g[i - 1] = f[i - 1]
    <3> TAKE i \in 1 .. m + 1
    <3>1. i # 1 => i - 1 \in 1 .. m
      OBVIOUS
    <3> HIDE DEF g
    <3> QED BY <2>2, <3>1
  <2>4. Flattens(g, s, m + 1)
    <3>1. g = [i \in 1 .. m + 1 |-> IF i = 1 THEN s[i] ELSE g[i - 1] \o s[i]]
      BY <2>3
    <3> QED BY <3>1 DEF Flattens
  <2> QED BY <2>4
<1>3. S = Nat
  <2> HIDE DEF S
  <2>1. S \subseteq Nat
    BY DEF S
  <2> QED BY <1>1, <1>2, <2>1, InductionOnSet
<1> QED BY <1>3

\* What such a function says of a place depends on what comes before it alone.
LEMMA FlattensAgree ==
  ASSUME NEW s, NEW f, NEW m \in Nat, Flattens(f, s, m),
         NEW t, NEW g, NEW n \in Nat, Flattens(g, t, n),
         NEW k \in Nat, k <= m, k <= n, \A i \in 1 .. k : s[i] = t[i]
  PROVE  \A i \in 1 .. k : f[i] = g[i]
<1> SUFFICES ASSUME NEW j \in 1 .. k, f[j] # g[j] PROVE FALSE
  OBVIOUS
<1> DEFINE T == {i \in 1 .. k : f[i] # g[i]}
<1>1. PICK x \in T : \A y \in T : x <= y
  <2>1. T \subseteq Nat /\ j \in T
    OBVIOUS
  <2> HIDE DEF T
  <2> QED BY <2>1, LeastExists
<1>2. x \in 1 .. m /\ x \in 1 .. n /\ s[x] = t[x]
  OBVIOUS
<1>3. f[x] = (IF x = 1 THEN s[x] ELSE f[x - 1] \o s[x])
  BY <1>2 DEF Flattens
<1>4. g[x] = (IF x = 1 THEN t[x] ELSE g[x - 1] \o t[x])
  BY <1>2 DEF Flattens
<1>5. x # 1 => f[x - 1] = g[x - 1]
  <2>1. ASSUME x # 1 PROVE x - 1 \in 1 .. k /\ ~(x <= x - 1)
    BY <2>1
  <2> QED BY <1>1, <2>1
<1> QED BY <1>2, <1>3, <1>4, <1>5

LEMMA FlattenValue ==
  ASSUME NEW n \in Nat \ {0}, NEW s, Len(s) = n
  PROVE  \E f : Flattens(f, s, n) /\ FlattenSeq(s) = f[n]
<1> DEFINE f == CHOOSE h : Flattens(h, s, n)
<1>1. Flattens(f, s, n)
  <2>1. \E h : Flattens(h, s, n)
    BY FlattenIsDefined
  <2> QED BY <2>1
<1>2. FlattenSeq(s) = f[n]
  BY DEF FlattenSeq, Flattens
<1> QED BY <1>1, <1>2

-----------------------------------------------------------------------------
(* Unmasking undoes masking: the digits of a byte, one by one.             *)

\* The digit of n that counts w, and the numbers a digit of a byte counts.
Digit(n, w) == (n \div w) % 2
Weights == {1, 2, 4, 8, 16, 32, 64, 128}

LEMMA DigitsOfByte ==
  ASSUME NEW n \in Byte
  PROVE n = Digit(n, 1) + 2 * Digit(n, 2) + 4 * Digit(n, 4) + 8 * Digit(n, 8) + 16 * Digit(n, 16)
              + 32 * Digit(n, 32) + 64 * Digit(n, 64) + 128 * Digit(n, 128)
BY DEF Digit, Byte

LEMMA DigitType ==
  ASSUME NEW n \in Byte, NEW w \in Weights
  PROVE  Digit(n, w) \in {0, 1}
BY DEF Digit, Byte, Weights

\* Bytes with the same digits are the same.
LEMMA SameDigits ==
  ASSUME NEW a \in Byte, NEW b \in Byte, \A w \in Weights : Digit(a, w) = Digit(b, w)
  PROVE  a = b
<1>1. /\ Digit(a, 1) = Digit(b, 1) /\ Digit(a, 2) = Digit(b, 2) /\ Digit(a, 4) = Digit(b, 4) 
      /\ Digit(a, 8) = Digit(b, 8) /\ Digit(a, 16) = Digit(b, 16) /\ Digit(a, 32) = Digit(b, 32)
      /\ Digit(a, 64) = Digit(b, 64) /\ Digit(a, 128) = Digit(b, 128)
  BY DEF Weights
<1> QED BY <1>1, DigitsOfByte

\* The digit of the sum without carry.
Differ(x, y) == IF x = y THEN 0 ELSE 1

LEMMA XorDigits ==
  ASSUME NEW a \in Byte, NEW b \in Byte
  PROVE  /\ ByteXor(a, b) \in Byte
         /\ \A w \in Weights : Digit(ByteXor(a, b), w) = Differ(Digit(a, w), Digit(b, w))
<1> DEFINE x(w) == Differ(Digit(a, w), Digit(b, w))
           n == ByteXor(a, b)
<1>1. \A w : x(w) \in {0, 1}
  BY DEF Differ
<1>2. PICK x1 \in {0, 1}, x2 \in {0, 1}, x4 \in {0, 1}, x8 \in {0, 1},
           x16 \in {0, 1}, x32 \in {0, 1}, x64 \in {0, 1}, x128 \in {0, 1} :
        /\ x1 = x(1) /\ x2 = x(2) /\ x4 = x(4) /\ x8 = x(8)
        /\ x16 = x(16) /\ x32 = x(32) /\ x64 = x(64) /\ x128 = x(128)
  <2> HIDE DEF x
  <2> QED BY <1>1
<1>3. n = x1 + 2 * x2 + 4 * x4 + 8 * x8 + 16 * x16 + 32 * x32 + 64 * x64 + 128 * x128
  BY <1>2 DEF ByteXor, Differ, Digit
<1> HIDE DEF x, n
<1>4. /\ n \in Byte
      /\ Digit(n, 1) = x1 /\ Digit(n, 2) = x2 /\ Digit(n, 4) = x4 /\ Digit(n, 8) = x8
      /\ Digit(n, 16) = x16 /\ Digit(n, 32) = x32 /\ Digit(n, 64) = x64 /\ Digit(n, 128) = x128
  BY ONLY <1>3 DEF Digit, Byte
<1>5. ASSUME NEW w \in Weights PROVE Digit(n, w) = x(w)
  BY <1>2, <1>4, <1>5 DEF Weights
<1> QED BY <1>4, <1>5 DEF x, n

LEMMA XorTwice ==
  ASSUME NEW a \in Byte, NEW b \in Byte
  PROVE  ByteXor(a, b) \in Byte /\ ByteXor(ByteXor(a, b), b) = a
<1>1. ByteXor(a, b) \in Byte /\ \A w \in Weights : Digit(ByteXor(a, b), w) = Differ(Digit(a, w), Digit(b, w))
  BY XorDigits
<1>2. /\ ByteXor(ByteXor(a, b), b) \in Byte
      /\ \A w \in Weights : Digit(ByteXor(ByteXor(a, b), b), w) = Differ(Digit(ByteXor(a, b), w), Digit(b, w))
  BY <1>1, XorDigits
<1>3. ASSUME NEW w \in Weights PROVE Digit(ByteXor(ByteXor(a, b), b), w) = Digit(a, w)
  <2>1. Digit(a, w) \in {0, 1} /\ Digit(b, w) \in {0, 1}
    BY DigitType
  <2> QED BY <1>1, <1>2, <2>1 DEF Differ
<1>4. ByteXor(ByteXor(a, b), b) = a
  BY <1>2, <1>3, SameDigits
<1> QED BY <1>1, <1>4

-----------------------------------------------------------------------------
(* The bytes of a frame.                                                   *)

Framed(f) ==
  /\ f \in [fin : BOOLEAN, op : 0 .. 15, wide : {0, 2, 8},
            key : [1 .. 4 -> Byte], text : Seq(Byte)]
  /\ Len(f.text) < (IF f.wide = 0 THEN 126 ELSE 256 * 256)

HeadSize(f) == 6 + f.wide

LEMMA FramedTypes ==
  ASSUME NEW f, Framed(f)
  PROVE  /\ f.fin \in BOOLEAN /\ f.op \in 0 .. 15 /\ f.wide \in {0, 2, 8}
         /\ f.key \in [1 .. 4 -> Byte] /\ f.text \in Seq(Byte) /\ Len(f.text) \in Nat
         /\ Len(f.text) < 256 * 256 /\ (f.wide = 0 => Len(f.text) < 126)
<1>1. f.text \in Seq(Byte)
  BY DEF Framed
<1>2. Len(f.text) \in Nat
  BY <1>1, LenProperties
<1>3. Len(f.text) < (IF f.wide = 0 THEN 126 ELSE 256 * 256)
  BY DEF Framed
<1>4. Len(f.text) < 256 * 256 /\ (f.wide = 0 => Len(f.text) < 126)
  <2> DEFINE n == Len(f.text)
  <2> HIDE DEF n
  <2>1. n \in Nat /\ n < (IF f.wide = 0 THEN 126 ELSE 256 * 256)
    BY <1>2, <1>3 DEF n
  <2>2. n < 256 * 256 /\ (f.wide = 0 => n < 126)
    BY ONLY <2>1
  <2> QED BY <2>2 DEF n
<1>5. f.fin \in BOOLEAN /\ f.op \in 0 .. 15 /\ f.wide \in {0, 2, 8} /\ f.key \in [1 .. 4 -> Byte]
  BY DEF Framed
<1> QED BY <1>1, <1>2, <1>4, <1>5

LEMMA ByteFacts ==
  /\ 0 \in Byte /\ 128 + 126 \in Byte /\ 128 + 127 \in Byte
  /\ \A n \in 0 .. 125 : 128 + n \in Byte
BY DEF Byte

LEMMA SplitLength ==
  ASSUME NEW n \in Nat, n < 256 * 256
  PROVE  n \div 256 \in Byte /\ n % 256 \in Byte /\ n = 256 * (n \div 256) + (n % 256)
<1>1. n % 256 \in 0 .. 255
  OBVIOUS
<1>2. n \div 256 \in Int /\ n = 256 * (n \div 256) + (n % 256)
  OBVIOUS
<1>3. n \div 256 \in 0 .. 255
  BY <1>1, <1>2
<1> QED BY <1>1, <1>2, <1>3 DEF Byte

LEMMA LengthSplit ==
  ASSUME NEW f, Framed(f)
  PROVE  High(f) \in Byte /\ Low(f) \in Byte /\ Len(f.text) = 256 * High(f) + Low(f)
BY FramedTypes, SplitLength DEF High, Low

\* The length as the head of a frame tells it.
Told(f) == IF f.wide = 0 THEN Len(f.text) ELSE IF f.wide = 2 THEN 126 ELSE 127

LEMMA ToldType ==
  ASSUME NEW f, Framed(f)
  PROVE  Told(f) \in 0 .. 127
<1> DEFINE n == Len(f.text)
<1>1. n \in Nat /\ (f.wide = 0 => n < 126)
  BY FramedTypes
<1>2. (f.wide = 0 /\ Told(f) = n) \/ Told(f) = 126 \/ Told(f) = 127
  BY DEF Told
<1> HIDE DEF n
<1> QED BY ONLY <1>1, <1>2

LEMMA LengthFacts ==
  ASSUME NEW f, Framed(f)
  PROVE  /\ LengthOf(f) \in Seq(Byte) /\ Len(LengthOf(f)) = 1 + f.wide
         /\ LengthOf(f)[1] = 128 + Told(f)
         /\ f.wide # 0 => LengthOf(f)[f.wide] = High(f) /\ LengthOf(f)[1 + f.wide] = Low(f)
         /\ \A i \in 2 .. f.wide - 1 : LengthOf(f)[i] = 0
<1>1. f.wide \in {0, 2, 8} /\ Len(f.text) \in Nat /\ (f.wide = 0 => Len(f.text) < 126)
  BY FramedTypes
<1>2. CASE f.wide = 0
  <2>1. LengthOf(f) = <<128 + Len(f.text)>>
    BY <1>2 DEF LengthOf
  <2>2. 128 + Len(f.text) \in Byte
    <3> DEFINE n == Len(f.text)
    <3>1. n \in Nat /\ n < 126
      BY <1>1, <1>2
    <3> HIDE DEF n
    <3>2. n \in 0 .. 125
      BY ONLY <3>1
    <3> QED BY <3>2, ByteFacts DEF n
  <2> QED BY <1>2, <2>1, <2>2 DEF Told
<1>3. CASE f.wide = 2
  <2>1. LengthOf(f) = <<128 + 126, High(f), Low(f)>>
    BY <1>3 DEF LengthOf
  <2>2. 128 + 126 \in Byte /\ High(f) \in Byte /\ Low(f) \in Byte
    BY ByteFacts, LengthSplit
  <2> QED BY <1>3, <2>1, <2>2 DEF Told
<1>4. CASE f.wide = 8
  <2>1. LengthOf(f) = <<128 + 127, 0, 0, 0, 0, 0, 0, High(f), Low(f)>>
    BY <1>4 DEF LengthOf
  <2>2. 128 + 127 \in Byte /\ 0 \in Byte /\ High(f) \in Byte /\ Low(f) \in Byte
    BY ByteFacts, LengthSplit
  <2> QED BY <1>4, <2>1, <2>2 DEF Told
<1> QED BY <1>1, <1>2, <1>3, <1>4

LEMMA FunctionIsSeq ==
  ASSUME NEW n \in Nat, NEW V, NEW k \in [1 .. n -> V]
  PROVE  k \in Seq(V) /\ Len(k) = n
OBVIOUS

\* This keeps the provers from expanding what it stands for.
Cat(s, t) == s \o t

LEMMA CatType ==
  ASSUME NEW V, NEW s \in Seq(V), NEW t \in Seq(V)
  PROVE  Cat(s, t) \in Seq(V) /\ Len(Cat(s, t)) = Len(s) + Len(t)
BY ConcatProperties DEF Cat

LEMMA CatElements ==
  ASSUME NEW V, NEW s \in Seq(V), NEW t \in Seq(V)
  PROVE  /\ \A i \in 1 .. Len(s) : Cat(s, t)[i] = s[i]
         /\ \A i \in 1 .. Len(t) : Cat(s, t)[Len(s) + i] = t[i]
<1>1. Len(s) \in Nat /\ Len(t) \in Nat
  BY LenProperties
<1>2. \A i \in 1 .. Len(s) + Len(t) : (s \o t)[i] = IF i <= Len(s) THEN s[i] ELSE t[i - Len(s)]
  BY ConcatProperties
<1>3. \A i \in 1 .. Len(s) : (s \o t)[i] = s[i]
  BY <1>1, <1>2
<1>4. ASSUME NEW i \in 1 .. Len(t) PROVE (s \o t)[Len(s) + i] = t[i]
  <2>1. Len(s) + i \in 1 .. Len(s) + Len(t) /\ ~(Len(s) + i <= Len(s))
        /\ (Len(s) + i) - Len(s) = i
    BY <1>1
  <2> QED BY <1>2, <2>1
<1> QED BY <1>3, <1>4 DEF Cat

First(f) == <<(IF f.fin THEN 128 ELSE 0) + f.op>>

LEMMA HeadFacts ==
  ASSUME NEW f, Framed(f)
  PROVE  /\ HeadOf(f) \in Seq(Byte) /\ Len(HeadOf(f)) = HeadSize(f)
         /\ HeadOf(f)[1] = First(f)[1] /\ HeadOf(f)[2] = 128 + Told(f)
         /\ f.wide # 0 => HeadOf(f)[1 + f.wide] = High(f) /\ HeadOf(f)[2 + f.wide] = Low(f)
         /\ \A i \in 3 .. f.wide : HeadOf(f)[i] = 0
         /\ \A i \in 1 .. 4 : HeadOf(f)[2 + f.wide + i] = f.key[i]
<1> DEFINE a == First(f)
           l == LengthOf(f)
           al == Cat(a, l)
           w == f.wide
<1>1. w \in {0, 2, 8} /\ f.op \in 0 .. 15 /\ f.fin \in BOOLEAN /\ f.key \in [1 .. 4 -> Byte]
  BY FramedTypes
<1>2. a \in Seq(Byte) /\ Len(a) = 1
  <2>1. (IF f.fin THEN 128 ELSE 0) + f.op \in Byte
    BY <1>1 DEF Byte
  <2> QED BY <2>1 DEF First
<1>3. /\ l \in Seq(Byte) /\ Len(l) = 1 + w /\ l[1] = 128 + Told(f)
      /\ w # 0 => l[w] = High(f) /\ l[1 + w] = Low(f)
      /\ \A i \in 2 .. w - 1 : l[i] = 0
  BY LengthFacts
<1>4. f.key \in Seq(Byte) /\ Len(f.key) = 4
  BY <1>1, FunctionIsSeq
<1>5. HeadOf(f) = Cat(al, f.key)
  BY DEF HeadOf, First, Cat
<1> HIDE DEF a, l
<1>6. /\ al \in Seq(Byte) /\ Len(al) = 2 + w
      /\ \A i \in 1 .. 1 : al[i] = a[i]
      /\ \A i \in 1 .. 1 + w : al[1 + i] = l[i]
  <2>1. a \in Seq(Byte) /\ l \in Seq(Byte)
    BY <1>2, <1>3
  <2>2. al \in Seq(Byte) /\ Len(al) = Len(a) + Len(l)
    BY ONLY <2>1, CatType, Zenon
  <2>3. /\ \A i \in 1 .. Len(a) : al[i] = a[i]
        /\ \A i \in 1 .. Len(l) : al[Len(a) + i] = l[i]
    BY ONLY <2>1, CatElements
  <2> HIDE DEF al
  <2> QED BY <1>1, <1>2, <1>3, <2>2, <2>3
<1> HIDE DEF al
<1>7. /\ HeadOf(f) \in Seq(Byte) /\ Len(HeadOf(f)) = 2 + w + 4
      /\ \A i \in 1 .. 2 + w : HeadOf(f)[i] = al[i]
      /\ \A i \in 1 .. 4 : HeadOf(f)[2 + w + i] = f.key[i]
  <2> DEFINE k == f.key
  <2>1. al \in Seq(Byte) /\ k \in Seq(Byte)
    BY <1>4, <1>6
  <2> HIDE DEF k
  <2>2. Cat(al, k) \in Seq(Byte) /\ Len(Cat(al, k)) = Len(al) + Len(k)
    BY ONLY <2>1, CatType, Zenon
  <2>3. /\ \A i \in 1 .. Len(al) : Cat(al, k)[i] = al[i]
        /\ \A i \in 1 .. Len(k) : Cat(al, k)[Len(al) + i] = k[i]
    BY ONLY <2>1, CatElements
  <2> QED BY <1>4, <1>5, <1>6, <2>2, <2>3 DEF k
<1>8. \A i \in 1 .. 1 + w : HeadOf(f)[1 + i] = l[i]
  <2> TAKE i \in 1 .. 1 + w
  <2>1. 1 + i \in 1 .. 2 + w
    BY <1>1
  <2> QED BY <1>6, <1>7, <2>1
<1> HIDE DEF w
<1>9. /\ HeadOf(f)[1] = a[1] /\ HeadOf(f)[2] = 128 + Told(f)
      /\ w # 0 => HeadOf(f)[1 + w] = High(f) /\ HeadOf(f)[2 + w] = Low(f)
  <2>1. 1 \in 1 .. 2 + w /\ 1 \in 1 .. 1 /\ 1 \in 1 .. 1 + w /\ 1 + w \in 1 .. 1 + w /\ 1 + 1 = 2 /\ 1 + (1 + w) = 2 + w
    BY <1>1
  <2>2. w # 0 => w \in 1 .. 1 + w
    BY <1>1
  <2> QED BY <1>3, <1>6, <1>7, <1>8, <2>1, <2>2
<1>10. ASSUME NEW i \in 3 .. w PROVE HeadOf(f)[i] = 0
  <2>1. i - 1 \in 1 .. 1 + w /\ i - 1 \in 2 .. w - 1 /\ 1 + (i - 1) = i
    BY <1>1
  <2> QED BY <1>3, <1>8, <2>1
<1>11. Len(HeadOf(f)) = HeadSize(f)
  BY <1>1, <1>7 DEF HeadSize, w
<1> QED BY <1>7, <1>9, <1>10, <1>11 DEF w, a

\* The byte of the mask for byte j of a payload.
KeyAt(k, j) == k[((j - 1) % 4) + 1]

LEMMA KeyType ==
  ASSUME NEW k \in [1 .. 4 -> Byte], NEW j \in Nat \ {0}
  PROVE  KeyAt(k, j) \in Byte
<1>1. ((j - 1) % 4) + 1 \in 1 .. 4
  OBVIOUS
<1> QED BY <1>1 DEF KeyAt

LEMMA MaskedFacts ==
  ASSUME NEW f, Framed(f)
  PROVE  /\ Masked(f) \in Seq(Byte) /\ Len(Masked(f)) = Len(f.text)
         /\ \A i \in 1 .. Len(f.text) : /\ Masked(f)[i] = ByteXor(f.text[i], KeyAt(f.key, i))
                                        /\ ByteXor(Masked(f)[i], KeyAt(f.key, i)) = f.text[i]
<1> DEFINE n == Len(f.text)
<1>1. n \in Nat /\ f.key \in [1 .. 4 -> Byte] /\ f.text \in Seq(Byte)
  BY FramedTypes
<1>2. ASSUME NEW i \in 1 .. n
      PROVE  /\ Masked(f)[i] = ByteXor(f.text[i], KeyAt(f.key, i)) /\ Masked(f)[i] \in Byte
             /\ ByteXor(Masked(f)[i], KeyAt(f.key, i)) = f.text[i]
  <2>1. f.text[i] \in Byte /\ KeyAt(f.key, i) \in Byte
    BY <1>1, KeyType, ElementOfSeq
  <2>2. Masked(f)[i] = ByteXor(f.text[i], KeyAt(f.key, i))
    BY DEF Masked, KeyAt
  <2> QED BY <2>1, <2>2, XorTwice
<1>3. Masked(f) \in [1 .. n -> Byte]
  <2>1. Masked(f) = [i \in 1 .. n |-> Masked(f)[i]]
    BY DEF Masked
  <2> QED BY <1>2, <2>1
<1> QED BY <1>1, <1>2, <1>3

\* What the parser reads, byte by byte.
LEMMA EncodedFacts ==
  ASSUME NEW f, Framed(f)
  PROVE  /\ Encoded(f) \in Seq(Byte) /\ Len(Encoded(f)) = HeadSize(f) + Len(f.text)
         /\ Encoded(f)[1] = (IF f.fin THEN 128 ELSE 0) + f.op
         /\ Encoded(f)[2] = 128 + Told(f)
         /\ f.wide # 0 => Encoded(f)[1 + f.wide] = High(f) /\ Encoded(f)[2 + f.wide] = Low(f)
         /\ \A i \in 3 .. f.wide : Encoded(f)[i] = 0
         /\ \A i \in 1 .. 4 : Encoded(f)[2 + f.wide + i] = f.key[i]
         /\ \A i \in 1 .. Len(f.text) : Encoded(f)[HeadSize(f) + i] = Masked(f)[i]
<1> DEFINE h == HeadOf(f)
           m == Masked(f)
<1>1. /\ h \in Seq(Byte) /\ Len(h) = HeadSize(f)
      /\ h[1] = First(f)[1] /\ h[2] = 128 + Told(f)
      /\ f.wide # 0 => h[1 + f.wide] = High(f) /\ h[2 + f.wide] = Low(f)
      /\ \A i \in 3 .. f.wide : h[i] = 0
      /\ \A i \in 1 .. 4 : h[2 + f.wide + i] = f.key[i]
  BY HeadFacts
<1>2. m \in Seq(Byte) /\ Len(m) = Len(f.text)
  BY MaskedFacts
<1>3. Encoded(f) = Cat(h, m)
  BY DEF Encoded, Cat
<1>4. f.wide \in {0, 2, 8} /\ HeadSize(f) = 6 + f.wide
  BY FramedTypes DEF HeadSize
<1>5. First(f)[1] = (IF f.fin THEN 128 ELSE 0) + f.op
  BY DEF First
<1> HIDE DEF h, m
<1>6. /\ Encoded(f) \in Seq(Byte) /\ Len(Encoded(f)) = HeadSize(f) + Len(f.text)
      /\ \A i \in 1 .. HeadSize(f) : Encoded(f)[i] = h[i]
      /\ \A i \in 1 .. Len(f.text) : Encoded(f)[HeadSize(f) + i] = m[i]
  <2>1. h \in Seq(Byte) /\ m \in Seq(Byte)
    BY <1>1, <1>2
  <2>2. Cat(h, m) \in Seq(Byte) /\ Len(Cat(h, m)) = Len(h) + Len(m)
    BY ONLY <2>1, CatType, Zenon
  <2>3. /\ \A i \in 1 .. Len(h) : Cat(h, m)[i] = h[i]
        /\ \A i \in 1 .. Len(m) : Cat(h, m)[Len(h) + i] = m[i]
    BY ONLY <2>1, CatElements
  <2> QED BY <1>1, <1>2, <1>3, <2>2, <2>3
<1>7. \A i \in 3 .. f.wide : i \in 1 .. HeadSize(f)
  BY <1>4
<1>8. \A i \in 1 .. 4 : 2 + f.wide + i \in 1 .. HeadSize(f)
  BY <1>4
<1>9. 1 \in 1 .. HeadSize(f) /\ 2 \in 1 .. HeadSize(f) /\ 1 + f.wide \in 1 .. HeadSize(f)
      /\ 2 + f.wide \in 1 .. HeadSize(f)
  BY <1>4
<1> QED BY <1>1, <1>5, <1>6, <1>7, <1>8, <1>9 DEF m

-----------------------------------------------------------------------------
(* The bytes of a stream: where each frame lies.                           *)

\* The bytes of the first i frames of s, where frame i begins, and all bytes.
Parts(s, i) == FlattenSeq([j \in 1 .. i |-> Encoded(s[j])])
Begin(s, i) == Len(Parts(s, i - 1))
Sent(s) == FlattenSeq([i \in DOMAIN s |-> Encoded(s[i])])

\* The bytes of frame i.
Size(s, i) == Len(Encoded(s[i]))

LEMMA StreamFacts ==
  ASSUME NEW s \in Seq(Frames)
  PROVE  Len(s) \in Nat /\ DOMAIN s = 1 .. Len(s) /\ \A i \in 1 .. Len(s) : Framed(s[i])
<1>1. Len(s) \in Nat /\ DOMAIN s = 1 .. Len(s)
  BY LenProperties
<1>2. ASSUME NEW i \in 1 .. Len(s) PROVE Framed(s[i])
  <2>1. s[i] \in Frames
    BY ElementOfSeq
  <2> QED BY <2>1, FrameAssumption DEF Framed
<1> QED BY <1>1, <1>2

LEMMA EncodedType ==
  ASSUME NEW s \in Seq(Frames), NEW i \in 1 .. Len(s)
  PROVE  Encoded(s[i]) \in Seq(Byte) /\ Size(s, i) \in Nat /\ Size(s, i) >= 6
<1>1. Framed(s[i])
  BY StreamFacts
<1>2. Encoded(s[i]) \in Seq(Byte) /\ Len(Encoded(s[i])) = HeadSize(s[i]) + Len(s[i].text)
  BY <1>1, EncodedFacts
<1>3. s[i].wide \in {0, 2, 8} /\ Len(s[i].text) \in Nat
  BY <1>1, FramedTypes
<1> QED BY <1>2, <1>3 DEF Size, HeadSize

LEMMA PartsNone ==
  ASSUME NEW s
  PROVE  Parts(s, 0) = <<>>
<1>1. [j \in 1 .. 0 |-> Encoded(s[j])] = <<>>
  OBVIOUS
<1> QED BY <1>1 DEF Parts, FlattenSeq

LEMMA PartsStep ==
  ASSUME NEW s \in Seq(Frames), NEW i \in Nat, i + 1 <= Len(s)
  PROVE  Parts(s, i + 1) = Cat(Parts(s, i), Encoded(s[i + 1]))
<1> DEFINE e == [j \in 1 .. i + 1 |-> Encoded(s[j])]
           t == [j \in 1 .. i |-> Encoded(s[j])]
           n == i + 1
<1>0. n \in Nat \ {0} /\ Len(e) = n /\ Len(t) = i /\ n \in 1 .. n /\ n \in 1 .. Len(s)
  BY StreamFacts
<1>1. e[n] = Encoded(s[n]) /\ Encoded(s[n]) \in Seq(Byte)
  BY <1>0, EncodedType
<1>2. Parts(s, n) = FlattenSeq(e) /\ Parts(s, i) = FlattenSeq(t)
  BY DEF Parts
<1>3. \A j \in 1 .. i : e[j] = t[j]
  OBVIOUS
<1> HIDE DEF e, t
<1>4. PICK f : Flattens(f, e, n) /\ FlattenSeq(e) = f[n]
  BY <1>0, FlattenValue
<1>5. f[n] = IF n = 1 THEN e[n] ELSE f[n - 1] \o e[n]
  BY <1>0, <1>4 DEF Flattens
<1>6. CASE i = 0
  <2>1. FlattenSeq(e) = Encoded(s[n]) /\ Parts(s, i) = <<>>
    BY <1>1, <1>4, <1>5, <1>6, PartsNone
  <2> QED BY <1>1, <1>2, <2>1, ConcatEmptySeq DEF Cat
<1>7. CASE i # 0
  <2>1. PICK g : Flattens(g, t, i) /\ FlattenSeq(t) = g[i]
    BY <1>0, <1>7, FlattenValue
  <2>2. i <= n /\ i <= i /\ i \in 1 .. i
    BY <1>7
  <2>3. f[i] = g[i]
    BY <1>0, <1>3, <1>4, <2>1, <2>2, FlattensAgree
  <2>4. FlattenSeq(e) = FlattenSeq(t) \o Encoded(s[n])
    <3>1. n # 1 /\ n - 1 = i
      BY <1>7
    <3> HIDE DEF n
    <3> QED BY <1>1, <1>4, <1>5, <2>1, <2>3, <3>1
  <2> QED BY <1>2, <2>4 DEF Cat
<1> QED BY <1>6, <1>7

LEMMA PartsType ==
  ASSUME NEW s \in Seq(Frames), NEW i \in 0 .. Len(s)
  PROVE  Parts(s, i) \in Seq(Byte)
<1> DEFINE S == {n \in Nat : n <= Len(s) => Parts(s, n) \in Seq(Byte)}
<1>0. Len(s) \in Nat
  BY StreamFacts
<1>1. 0 \in S
  BY PartsNone, EmptySeq
<1>2. ASSUME NEW n \in S PROVE n + 1 \in S
  <2>1. n \in Nat
    OBVIOUS
  <2>2. CASE n + 1 <= Len(s)
    <3>1. n + 1 \in 1 .. Len(s) /\ Parts(s, n) \in Seq(Byte)
      BY <1>0, <2>1, <2>2
    <3>2. Encoded(s[n + 1]) \in Seq(Byte)
      BY <3>1, EncodedType
    <3>3. Parts(s, n + 1) \in Seq(Byte)
      BY <2>1, <2>2, <3>1, <3>2, PartsStep, CatType
    <3> QED BY <2>1, <3>3
  <2>3. CASE ~(n + 1 <= Len(s))
    BY <2>1, <2>3
  <2> QED BY <2>2, <2>3
<1>3. S = Nat
  <2>1. S \subseteq Nat
    OBVIOUS
  <2> HIDE DEF S
  <2> QED BY <1>1, <1>2, <2>1, InductionOnSet
<1> QED BY <1>0, <1>3

\* Each frame begins where the one before it ends, the first at the beginning.
LEMMA BeginFacts ==
  ASSUME NEW s \in Seq(Frames)
  PROVE  /\ Begin(s, 1) = 0
         /\ \A i \in 1 .. Len(s) + 1 : Begin(s, i) \in Nat
         /\ \A i \in 1 .. Len(s) : Begin(s, i + 1) = Begin(s, i) + Size(s, i)
<1>0. Len(s) \in Nat
  BY StreamFacts
<1>1. Begin(s, 1) = 0
  BY PartsNone, EmptySeq DEF Begin
<1>2. ASSUME NEW i \in 1 .. Len(s) + 1 PROVE Begin(s, i) \in Nat
  <2>1. i - 1 \in 0 .. Len(s)
    BY <1>0
  <2> QED BY <2>1, PartsType, LenProperties DEF Begin
<1>3. ASSUME NEW i \in 1 .. Len(s) PROVE Begin(s, i + 1) = Begin(s, i) + Size(s, i)
  <2> DEFINE k == i - 1
             p == Parts(s, k)
             e == Encoded(s[i])
  <2>1. k \in Nat /\ k + 1 <= Len(s) /\ k \in 0 .. Len(s) /\ k + 1 = i /\ (i + 1) - 1 = i
    BY <1>0
  <2>2. Parts(s, i) = Cat(p, e)
    <3>1. Parts(s, k + 1) = Cat(Parts(s, k), Encoded(s[k + 1]))
      BY <2>1, PartsStep
    <3> QED BY <2>1, <3>1
  <2>3. p \in Seq(Byte) /\ e \in Seq(Byte)
    BY <2>1, PartsType, EncodedType
  <2>4. Begin(s, i + 1) = Len(Parts(s, i)) /\ Begin(s, i) = Len(p) /\ Size(s, i) = Len(e)
    BY <2>1 DEF Begin, Size
  <2> HIDE DEF p, e
  <2>5. Len(Cat(p, e)) = Len(p) + Len(e)
    BY ONLY <2>3, CatType, Zenon
  <2> QED BY <2>2, <2>4, <2>5
<1> QED BY <1>1, <1>2, <1>3

LEMMA BeginMonotone ==
  ASSUME NEW s \in Seq(Frames), NEW i \in 1 .. Len(s) + 1, NEW j \in i .. Len(s) + 1
  PROVE  Begin(s, i) <= Begin(s, j)
<1> DEFINE S == {n \in Nat : i + n <= Len(s) + 1 => Begin(s, i) <= Begin(s, i + n)}
<1>0. Len(s) \in Nat /\ i \in Nat
  BY StreamFacts
<1>1. 0 \in S
  <2>1. Begin(s, i) \in Nat /\ i + 0 = i
    BY <1>0, BeginFacts
  <2> QED BY <2>1
<1>2. ASSUME NEW n \in S PROVE n + 1 \in S
  <2> DEFINE m == i + n
  <2>1. n \in Nat /\ m \in Nat /\ i + (n + 1) = m + 1
    BY <1>0
  <2>2. CASE m + 1 <= Len(s) + 1
    <3>1. m \in 1 .. Len(s) /\ Begin(s, i) <= Begin(s, m)
      BY <1>0, <2>1, <2>2
    <3> HIDE DEF m
    <3>2. Begin(s, m + 1) = Begin(s, m) + Size(s, m) /\ Begin(s, m) \in Nat /\ Begin(s, i) \in Nat
      <4>1. m \in 1 .. Len(s) + 1
        BY <1>0, <3>1
      <4> QED BY <3>1, <4>1, BeginFacts
    <3>3. Size(s, m) \in Nat
      BY <3>1, EncodedType
    <3>4. Begin(s, i) <= Begin(s, m + 1)
      BY ONLY <3>1, <3>2, <3>3
    <3> QED BY <2>1, <3>4
  <2>3. CASE ~(m + 1 <= Len(s) + 1)
    BY <2>1, <2>3
  <2> QED BY <2>2, <2>3
<1>3. S = Nat
  <2>1. S \subseteq Nat
    OBVIOUS
  <2> HIDE DEF S
  <2> QED BY <1>1, <1>2, <2>1, InductionOnSet
<1>4. j - i \in Nat /\ i + (j - i) = j
  BY <1>0
<1>5. i + (j - i) <= Len(s) + 1
  BY <1>0
<1> QED BY <1>3, <1>4, <1>5

\* Byte j of frame i is found where the frame begins, j bytes on.
LEMMA PartsBytes ==
  ASSUME NEW s \in Seq(Frames), NEW i \in 1 .. Len(s), NEW j \in 1 .. Size(s, i),
         NEW n \in i .. Len(s)
  PROVE  Parts(s, n)[Begin(s, i) + j] = Encoded(s[i])[j]
<1> DEFINE x == Begin(s, i) + j
           v == Encoded(s[i])[j]
           S == {k \in Nat : i + k <= Len(s) => Parts(s, i + k)[x] = v}
<1>0. /\ Len(s) \in Nat /\ i \in Nat /\ i - 1 \in Nat /\ (i - 1) + 1 = i /\ j \in Nat
      /\ i - 1 \in 0 .. Len(s) /\ i \in 1 .. Len(s) + 1 /\ Begin(s, i) \in Nat
      /\ Begin(s, i + 1) = Begin(s, i) + Size(s, i) /\ Size(s, i) \in Nat
  <2>1. Len(s) \in Nat /\ i \in 1 .. Len(s) + 1
    BY StreamFacts
  <2>2. Size(s, i) \in Nat
    BY EncodedType
  <2> QED BY <2>1, <2>2, BeginFacts
<1>1. 0 \in S
  <2> DEFINE p == Parts(s, i - 1)
             e == Encoded(s[i])
  <2>1. Parts(s, i) = Cat(p, e)
    <3>1. Parts(s, (i - 1) + 1) = Cat(Parts(s, i - 1), Encoded(s[(i - 1) + 1]))
      BY <1>0, PartsStep
    <3> QED BY <1>0, <3>1
  <2>2. p \in Seq(Byte) /\ e \in Seq(Byte)
    BY <1>0, PartsType, EncodedType
  <2>3. Begin(s, i) = Len(p) /\ j \in 1 .. Len(e) /\ v = e[j]
    BY DEF Begin, Size
  <2> HIDE DEF p, e
  <2>4. \A k \in 1 .. Len(e) : Cat(p, e)[Len(p) + k] = e[k]
    BY ONLY <2>2, CatElements
  <2>5. Parts(s, i)[x] = v
    BY <2>1, <2>3, <2>4
  <2> QED BY <1>0, <2>5
<1>2. ASSUME NEW k \in S PROVE k + 1 \in S
  <2> DEFINE m == i + k
  <2>1. k \in Nat /\ m \in Nat /\ i + (k + 1) = m + 1
    BY <1>0
  <2>2. CASE m + 1 <= Len(s)
    <3> DEFINE p == Parts(s, m)
               e == Encoded(s[m + 1])
    <3>1. m \in 0 .. Len(s) /\ m + 1 \in 1 .. Len(s) /\ m + 1 \in i + 1 .. Len(s) + 1 /\ p[x] = v
          /\ i + 1 \in 1 .. Len(s) + 1
      BY <1>0, <2>1, <2>2
    <3>2. Parts(s, m + 1) = Cat(p, e)
      BY <2>1, <2>2, PartsStep
    <3>3. p \in Seq(Byte) /\ e \in Seq(Byte)
      BY <3>1, PartsType, EncodedType
    <3>4. x \in 1 .. Len(p)
      <4>1. Begin(s, m + 1) = Len(p)
        <5>1. (m + 1) - 1 = m
          BY <2>1
        <5> QED BY <5>1 DEF Begin
      <4>2. Begin(s, i + 1) <= Begin(s, m + 1)
        BY <3>1, BeginMonotone
      <4>3. Len(p) \in Nat
        BY <3>3, LenProperties
      <4> HIDE DEF p, m
      <4> QED BY <1>0, <4>1, <4>2, <4>3
    <3> HIDE DEF p, e, x, v
    <3>5. \A y \in 1 .. Len(p) : Cat(p, e)[y] = p[y]
      BY ONLY <3>3, CatElements
    <3>6. Parts(s, m + 1)[x] = v
      BY <3>1, <3>2, <3>4, <3>5
    <3> QED BY <2>1, <3>6
  <2>3. CASE ~(m + 1 <= Len(s))
    BY <2>1, <2>3
  <2> QED BY <2>2, <2>3
<1>3. S = Nat
  <2>1. S \subseteq Nat
    OBVIOUS
  <2> HIDE DEF S
  <2> QED BY <1>1, <1>2, <2>1, InductionOnSet
<1>4. n - i \in Nat /\ i + (n - i) = n /\ n <= Len(s)
  BY <1>0
<1> HIDE DEF x, v
<1>5. Parts(s, i + (n - i))[x] = v
  BY <1>3, <1>4
<1> QED BY <1>4, <1>5 DEF x, v

LEMMA SentFacts ==
  ASSUME NEW s \in Seq(Frames)
  PROVE  /\ Sent(s) \in Seq(Byte) /\ Len(Sent(s)) = Begin(s, Len(s) + 1)
         /\ \A i \in 1 .. Len(s) : \A j \in 1 .. Size(s, i) :
               Sent(s)[Begin(s, i) + j] = Encoded(s[i])[j]
<1> DEFINE n == Len(s)
<1>1. n \in Nat /\ DOMAIN s = 1 .. n
  BY StreamFacts
<1>2. Sent(s) = Parts(s, n)
  BY <1>1 DEF Sent, Parts
<1>3. n \in 0 .. Len(s) /\ (n + 1) - 1 = n
  BY <1>1
<1>4. Parts(s, n) \in Seq(Byte) /\ Len(Parts(s, n)) = Begin(s, n + 1)
  BY <1>3, PartsType DEF Begin
<1>5. ASSUME NEW i \in 1 .. n, NEW j \in 1 .. Size(s, i)
      PROVE  Parts(s, n)[Begin(s, i) + j] = Encoded(s[i])[j]
  <2>1. n \in i .. Len(s)
    BY <1>1
  <2> QED BY <2>1, PartsBytes
<1> QED BY <1>2, <1>4, <1>5

-----------------------------------------------------------------------------
(* One iteration of the parser, field by field.                            *)

States == {"head", "payload", "mask", "data"}

ParserTypes ==
  [mem : [1 .. DataCap -> Byte], size : 0 .. DataCap, readAt : 0 .. DataCap,
   state : States, index : Nat, wbs : 0 .. DataCap, len : Nat, masks : [1 .. 4 -> Byte]]

\* What holds of WsDealWith whatever the peer sends.
Sound(p) ==
  /\ p \in ParserTypes
  /\ p.readAt <= p.size /\ p.wbs + 1 <= DataCap /\ p.index <= p.len
  /\ p.state \in {"payload", "mask"} => p.index = 0

LEMMA SoundFacts ==
  ASSUME NEW p, Sound(p)
  PROVE  /\ p.mem \in [1 .. DataCap -> Byte] /\ p.size \in 0 .. DataCap
         /\ p.readAt \in 0 .. p.size /\ p.state \in States /\ p.index \in Nat
         /\ p.wbs \in 0 .. DataCap - 1 /\ p.len \in Nat /\ p.masks \in [1 .. 4 -> Byte]
         /\ p.index <= p.len /\ Ahead(p) \in Nat /\ p.readAt + Ahead(p) = p.size
         /\ p.state \in {"payload", "mask"} => p.index = 0
         /\ DataCap \in Nat
BY CapAssumption DEF Sound, ParserTypes, Ahead

LEMMA StateNames ==
  "head" \in States /\ "payload" \in States /\ "mask" \in States /\ "data" \in States
BY DEF States

\* What is unmasked when n bytes are: the bytes behind the parsed ones.
Unmasked(p, n) ==
  [j \in 1 .. DataCap |->
     IF j - p.readAt \in 1 .. n
     THEN ByteXor(p.mem[j], KeyAt(p.masks, p.index + j - p.readAt))
     ELSE p.mem[j]]

LEMMA UnmaskedType ==
  ASSUME NEW p, Sound(p), NEW n \in 0 .. Ahead(p)
  PROVE  Unmasked(p, n) \in [1 .. DataCap -> Byte]
<1>0. /\ p.mem \in [1 .. DataCap -> Byte] /\ p.masks \in [1 .. 4 -> Byte]
      /\ p.index \in Nat /\ p.readAt \in Nat /\ DataCap \in Nat
  BY SoundFacts
<1>1. ASSUME NEW j \in 1 .. DataCap, j - p.readAt \in 1 .. n
      PROVE  ByteXor(p.mem[j], KeyAt(p.masks, p.index + j - p.readAt)) \in Byte
  <2>1. p.index + j - p.readAt \in Nat \ {0} /\ p.mem[j] \in Byte
    BY <1>0, <1>1
  <2>2. KeyAt(p.masks, p.index + j - p.readAt) \in Byte
    BY <1>0, <2>1, KeyType
  <2> QED BY <2>1, <2>2, XorTwice
<1>2. \A j \in 1 .. DataCap : p.mem[j] \in Byte
  BY <1>0
<1> QED BY <1>1, <1>2 DEF Unmasked

LEMMA UnmaskValue ==
  ASSUME NEW p, Sound(p), NEW n \in 0 .. Ahead(p)
  PROVE  Unmask(p, n) = [p EXCEPT !.index = @ + n, !.mem = Unmasked(p, n)]
<1>0. p.index \in Nat /\ p.readAt \in Nat /\ DataCap \in Nat
  BY SoundFacts
<1>1. ASSUME NEW j \in 1 .. DataCap
      PROVE  p.masks[((p.index + j - p.readAt - 1) % 4) + 1] = KeyAt(p.masks, p.index + j - p.readAt)
  <2>1. p.index + j - p.readAt - 1 = (p.index + j - p.readAt) - 1
    BY <1>0
  <2> QED BY <2>1 DEF KeyAt
<1> QED BY <1>1 DEF Unmask, Unmasked

LEMMA HeadStep ==
  ASSUME NEW p, Sound(p), p.state = "head", Ahead(p) >= 2, NEW q, q = Parse(p)
  PROVE  /\ Sound(q)
         /\ q.mem = p.mem /\ q.size = p.size /\ q.readAt = p.readAt + 2
         /\ q.state = "payload" /\ q.index = 0 /\ q.len = 0 /\ q.wbs = p.readAt + 1
<1> DEFINE zero == <<0, 0, 0, 0>>
<1>0. /\ p.mem \in [1 .. DataCap -> Byte] /\ p.size \in 0 .. DataCap /\ Ahead(p) = p.size - p.readAt
      /\ p.readAt \in Nat /\ DataCap \in Nat
  BY SoundFacts DEF Ahead
<1>1. q = [Advance(p, 2) EXCEPT !.wbs = p.readAt + 1, !.len = 0, !.index = 0,
                                !.masks = zero, !.state = "payload"]
  BY <1>0 DEF Parse, ParseHead
<1>2. zero \in [1 .. 4 -> Byte]
  BY ByteFacts
<1> HIDE DEF zero
<1>3. q = [p EXCEPT !.mem = p.mem, !.size = p.size, !.readAt = p.readAt + 2, !.state = "payload",
                    !.index = 0, !.wbs = p.readAt + 1, !.len = 0, !.masks = zero]
  BY <1>1 DEF Advance, Sound, ParserTypes
<1>4. /\ p.readAt + 2 \in 0 .. DataCap /\ p.readAt + 1 \in 0 .. DataCap
      /\ p.readAt + 2 <= p.size /\ (p.readAt + 1) + 1 <= DataCap
  BY <1>0
<1>5. /\ q \in ParserTypes
      /\ q.mem = p.mem /\ q.size = p.size /\ q.readAt = p.readAt + 2 /\ q.state = "payload"
      /\ q.index = 0 /\ q.wbs = p.readAt + 1 /\ q.len = 0
  <2>1. "payload" \in States /\ 0 \in Nat /\ p.readAt + 2 \in 0 .. DataCap
        /\ p.readAt + 1 \in 0 .. DataCap
    BY <1>4, StateNames
  <2> QED BY ONLY Sound(p), <1>0, <1>2, <1>3, <2>1 DEF Sound, ParserTypes
<1> QED BY <1>4, <1>5 DEF Sound

\* How many more bytes tell the length, and the length.
Wide(p) == IF PayLoad(p) < 126 THEN 0 ELSE IF PayLoad(p) = 126 THEN 2 ELSE 8
ReadLength(p) == IF Wide(p) = 0 THEN PayLoad(p) ELSE WideLength(p, Wide(p))

LEMMA PayLoadType ==
  ASSUME NEW p, Sound(p)
  PROVE  PayLoad(p) \in 0 .. 127 /\ Wide(p) \in {0, 2, 8}
<1>1. p.wbs + 1 \in 1 .. DataCap /\ p.mem \in [1 .. DataCap -> Byte]
  BY SoundFacts
<1> DEFINE x == p.mem[p.wbs + 1]
<1>2. x \in Byte
  BY <1>1
<1>3. PayLoad(p) = x % 128
  BY DEF PayLoad
<1> HIDE DEF x
<1>4. x % 128 \in 0 .. 127
  BY ONLY <1>2 DEF Byte
<1> QED BY ONLY <1>3, <1>4 DEF Wide

LEMMA WideLengthType ==
  ASSUME NEW p, Sound(p), NEW n \in {2, 8}, n <= Ahead(p)
  PROVE  WideLength(p, n) \in Nat
<1>1. ASSUME NEW i \in 1 .. n PROVE At(p, i) \in Nat
  <2>1. p.readAt + i \in 1 .. DataCap /\ p.mem \in [1 .. DataCap -> Byte]
    BY SoundFacts
  <2>2. p.mem[p.readAt + i] \in Byte
    BY <2>1
  <2> QED BY <2>2 DEF At, Byte
<1>2. n - 1 \in 1 .. n /\ n \in 1 .. n
  OBVIOUS
<1>3. At(p, n - 1) \in Nat /\ At(p, n) \in Nat
  BY <1>1, <1>2
<1>4. Endless \in Nat
  BY DEF Endless
<1> QED BY <1>3, <1>4 DEF WideLength

LEMMA PayloadStep ==
  ASSUME NEW p, Sound(p), p.state = "payload", NEW q, q = Parse(p)
  PROVE  /\ Sound(q)
         /\ Ahead(p) < Wide(p) => q = p
         /\ Ahead(p) >= Wide(p) /\ Ahead(p) > 0 =>
              /\ q.mem = p.mem /\ q.size = p.size /\ q.readAt = p.readAt + Wide(p)
              /\ q.state = "mask" /\ q.index = 0 /\ q.len = ReadLength(p) /\ q.wbs = p.wbs
<1> DEFINE w == Wide(p)
           n == ReadLength(p)
           r == p.readAt + w
<1>0. /\ p.size \in 0 .. DataCap /\ Ahead(p) = p.size - p.readAt /\ p.readAt \in Nat
      /\ DataCap \in Nat /\ PayLoad(p) \in 0 .. 127 /\ w \in {0, 2, 8} /\ Ahead(p) \in Nat
      /\ p.index = 0
  BY SoundFacts, PayLoadType DEF Ahead
<1>1. CASE Ahead(p) = 0 \/ Ahead(p) < w
  <2>1. Ahead(p) # 0 => /\ ~(PayLoad(p) < 126)
                        /\ ~(PayLoad(p) = 126 /\ Ahead(p) >= 2)
                        /\ ~(PayLoad(p) = 127 /\ Ahead(p) >= 8)
    BY <1>0, <1>1 DEF Wide
  <2>2. Ahead(p) # 0 => ParsePayload(p) = p
    BY ONLY <2>1 DEF ParsePayload
  <2>3. Ahead(p) # 0 => Parse(p) = ParsePayload(p)
    BY DEF Parse
  <2>4. Ahead(p) = 0 => Parse(p) = p
    BY DEF Parse
  <2>5. q = p
    BY <2>2, <2>3, <2>4
  <2> QED BY <1>0, <1>1, <2>5
<1>2. CASE Ahead(p) # 0 /\ ~(Ahead(p) < w)
  <2>1. q = ParsePayload(p)
    BY <1>2 DEF Parse
  <2>2. q = [p EXCEPT !.readAt = r, !.len = n, !.state = "mask"]
    <3>1. CASE w = 0
      <4>1. PayLoad(p) < 126
        BY <1>0, <3>1 DEF Wide
      <4>2. q = [p EXCEPT !.len = PayLoad(p), !.state = "mask"] /\ r = p.readAt /\ n = PayLoad(p)
        BY <1>0, <2>1, <3>1, <4>1 DEF ParsePayload, ReadLength
      <4> HIDE DEF r, n
      <4> QED BY <4>2 DEF Sound, ParserTypes
    <3>2. CASE w = 2
      <4>1. PayLoad(p) = 126 /\ Ahead(p) >= 2
        BY <1>0, <1>2, <3>2 DEF Wide
      <4>2. q = [Advance(p, 2) EXCEPT !.len = WideLength(p, 2), !.state = "mask"]
            /\ r = p.readAt + 2 /\ n = WideLength(p, 2)
        BY <2>1, <3>2, <4>1 DEF ParsePayload, ReadLength
      <4> HIDE DEF r, n
      <4> QED BY <4>2 DEF Sound, ParserTypes, Advance
    <3>3. CASE w = 8
      <4>1. PayLoad(p) = 127 /\ Ahead(p) >= 8
        BY <1>0, <1>2, <3>3 DEF Wide
      <4>2. q = [Advance(p, 8) EXCEPT !.len = WideLength(p, 8), !.state = "mask"]
            /\ r = p.readAt + 8 /\ n = WideLength(p, 8)
        BY <2>1, <3>3, <4>1 DEF ParsePayload, ReadLength
      <4> HIDE DEF r, n
      <4> QED BY <4>2 DEF Sound, ParserTypes, Advance
    <3> QED BY <1>0, <3>1, <3>2, <3>3
  <2>3. n \in Nat
    <3>1. w # 0 => w \in {2, 8} /\ w <= Ahead(p)
      BY <1>0, <1>2
    <3> QED BY <1>0, <3>1, WideLengthType DEF ReadLength
  <2>4. r \in 0 .. DataCap /\ r <= p.size /\ "mask" \in States
    BY <1>0, <1>2, StateNames
  <2> HIDE DEF r, n, w
  <2>5. /\ q \in ParserTypes
        /\ q.mem = p.mem /\ q.size = p.size /\ q.readAt = r /\ q.state = "mask"
        /\ q.index = p.index /\ q.wbs = p.wbs /\ q.len = n
    BY ONLY Sound(p), <2>2, <2>3, <2>4 DEF Sound, ParserTypes
  <2>6. Sound(q)
    BY <1>0, <2>3, <2>4, <2>5 DEF Sound
  <2> QED BY <1>0, <1>2, <2>5, <2>6 DEF r, n, w
<1> QED BY <1>0, <1>1, <1>2

LEMMA MaskStep ==
  ASSUME NEW p, Sound(p), p.state = "mask", NEW q, q = Parse(p)
  PROVE  /\ Sound(q)
         /\ Ahead(p) < 4 => q = p
         /\ Ahead(p) >= 4 =>
              /\ q.mem = p.mem /\ q.size = p.size /\ q.readAt = p.readAt + 4
              /\ q.state = "data" /\ q.index = 0 /\ q.len = p.len /\ q.wbs = p.wbs
              /\ q.masks = [i \in 1 .. 4 |-> At(p, i)]
<1> DEFINE r == p.readAt + 4
           m == [i \in 1 .. 4 |-> At(p, i)]
<1>0. /\ p.size \in 0 .. DataCap /\ Ahead(p) = p.size - p.readAt /\ p.readAt \in Nat
      /\ DataCap \in Nat /\ Ahead(p) \in Nat /\ p.index = 0 /\ p.len \in Nat
      /\ p.mem \in [1 .. DataCap -> Byte]
  BY SoundFacts DEF Ahead
<1>1. CASE Ahead(p) < 4
  <2>1. q = p
    BY <1>1 DEF Parse, ParseMask
  <2> QED BY <1>0, <1>1, <2>1
<1>2. CASE ~(Ahead(p) < 4)
  <2>1. q = [Advance(p, 4) EXCEPT !.masks = m, !.state = "data"]
    BY <1>0, <1>2 DEF Parse, ParseMask
  <2>2. m \in [1 .. 4 -> Byte]
    <3>1. ASSUME NEW i \in 1 .. 4 PROVE At(p, i) \in Byte
      <4>1. p.readAt + i \in 1 .. DataCap
        BY <1>0, <1>2
      <4> QED BY <1>0, <4>1 DEF At
    <3> QED BY <3>1
  <2>3. r \in 0 .. DataCap /\ r <= p.size /\ "data" \in States
    BY <1>0, <1>2, StateNames
  <2>4. q = [p EXCEPT !.readAt = r, !.masks = m, !.state = "data"]
    <3> HIDE DEF m
    <3> QED BY <2>1 DEF Advance, Sound, ParserTypes
  <2> HIDE DEF r, m
  <2>5. /\ q \in ParserTypes
        /\ q.mem = p.mem /\ q.size = p.size /\ q.readAt = r /\ q.state = "data"
        /\ q.index = p.index /\ q.wbs = p.wbs /\ q.len = p.len /\ q.masks = m
    BY ONLY Sound(p), <2>2, <2>3, <2>4 DEF Sound, ParserTypes
  <2>6. Sound(q)
    BY <1>0, <2>3, <2>5 DEF Sound
  <2> QED BY <1>0, <1>2, <2>5, <2>6 DEF r, m
<1> QED BY <1>0, <1>1, <1>2

LEMMA TurnsFacts ==
  ASSUME NEW p, Sound(p)
  PROVE  Turns(p) \in 0 .. Ahead(p) /\ Turns(p) <= p.len - p.index
BY SoundFacts DEF Turns

\* n bytes of the payload are unmasked, r of them count as parsed.
Piece(p, n, r, t) == [Advance(Unmask(p, n), r) EXCEPT !.state = t]

LEMMA UnmaskStep ==
  ASSUME NEW p, Sound(p), p.state = "data", NEW n \in 0 .. Turns(p), NEW r \in {0, n},
         NEW t \in {"head", "data"}, NEW q, q = Piece(p, n, r, t)
  PROVE  /\ Sound(q)
         /\ q.mem = Unmasked(p, n) /\ q.size = p.size /\ q.readAt = p.readAt + r
         /\ q.state = t /\ q.index = p.index + n /\ q.len = p.len /\ q.wbs = p.wbs
         /\ q.masks = p.masks
<1> DEFINE m == Unmasked(p, n)
           i == p.index + n
           a == p.readAt + r
<1>0. /\ p.size \in 0 .. DataCap /\ Ahead(p) = p.size - p.readAt /\ p.readAt \in Nat
      /\ DataCap \in Nat /\ p.index \in Nat /\ p.len \in Nat
      /\ n \in Nat /\ n <= Ahead(p) /\ n <= p.len - p.index /\ Ahead(p) \in Nat
  BY SoundFacts, TurnsFacts DEF Ahead
<1>1. m \in [1 .. DataCap -> Byte] /\ Unmask(p, n) = [p EXCEPT !.index = i, !.mem = m]
  <2>1. n \in 0 .. Ahead(p)
    BY <1>0
  <2> QED BY <2>1, UnmaskedType, UnmaskValue DEF Sound, ParserTypes
<1>2. a \in 0 .. DataCap /\ a <= p.size /\ i \in Nat /\ i <= p.len /\ t \in States
  BY <1>0, StateNames
<1> HIDE DEF m
<1>3. Unmask(p, n) \in ParserTypes /\ Unmask(p, n).readAt = p.readAt
  BY <1>1, <1>2 DEF Sound, ParserTypes
<1> HIDE DEF i
<1>4. q = [p EXCEPT !.index = i, !.mem = m, !.readAt = a, !.state = t]
  BY <1>1, <1>3 DEF Advance, Piece, Sound, ParserTypes
<1> HIDE DEF a
<1>5. /\ q \in ParserTypes
      /\ q.mem = m /\ q.size = p.size /\ q.readAt = a /\ q.state = t
      /\ q.index = i /\ q.wbs = p.wbs /\ q.len = p.len /\ q.masks = p.masks
  BY ONLY Sound(p), <1>1, <1>2, <1>4 DEF Sound, ParserTypes
<1>6. Sound(q)
  <2>1. t \notin {"payload", "mask"}
    OBVIOUS
  <2> QED BY <1>0, <1>2, <1>5, <2>1 DEF Sound
<1> QED BY <1>5, <1>6 DEF m, i, a

LEMMA DataStep ==
  ASSUME NEW p, Sound(p), p.state = "data", Ahead(p) > 0, ~GivesUp(p), NEW q, q = Parse(p)
  PROVE  /\ Sound(q)
         /\ q.mem = Unmasked(p, Turns(p)) /\ q.size = p.size /\ q.readAt = p.readAt + Turns(p)
         /\ q.state = IF p.index + Turns(p) >= p.len THEN "head" ELSE "data"
         /\ q.index = p.index + Turns(p) /\ q.len = p.len /\ q.wbs = p.wbs
         /\ q.masks = p.masks
<1> DEFINE n == Turns(p)
           d == Advance(Unmask(p, n), n)
           t == IF p.index + n >= p.len THEN "head" ELSE "data"
<1>1. n \in 0 .. Turns(p) /\ n \in {0, n} /\ t \in {"head", "data"}
  BY SoundFacts, TurnsFacts
<1>2. q = IF d.index >= d.len THEN [d EXCEPT !.state = "head"] ELSE d
  <2>1. q = ParseData(p)
    BY SoundFacts DEF Parse
  <2> QED BY <2>1 DEF ParseData
<1> DEFINE e == Piece(p, n, n, "data")
<1>3. /\ e.index = p.index + n /\ e.len = p.len
  <2>1. "data" \in {"head", "data"}
    OBVIOUS
  <2> HIDE DEF n
  <2> QED BY ONLY Sound(p), p.state = "data", <1>1, <2>1, UnmaskStep
<1>4. d = e
  <2>1. n \in 0 .. Ahead(p)
    BY SoundFacts, TurnsFacts
  <2>2. Unmask(p, n) = [p EXCEPT !.index = @ + n, !.mem = Unmasked(p, n)]
    BY <2>1, UnmaskValue
  <2> QED BY <2>2 DEF Advance, Piece, Sound, ParserTypes
<1>5. q = Piece(p, n, n, t)
  <2>1. q = IF p.index + n >= p.len THEN [d EXCEPT !.state = "head"] ELSE e
    BY <1>2, <1>3, <1>4
  <2> QED BY <2>1 DEF Piece
<1> HIDE DEF n, t
<1>6. /\ Sound(q)
      /\ q.mem = Unmasked(p, n) /\ q.size = p.size /\ q.readAt = p.readAt + n
      /\ q.state = t /\ q.index = p.index + n /\ q.len = p.len /\ q.wbs = p.wbs
      /\ q.masks = p.masks
  BY ONLY Sound(p), p.state = "data", <1>1, <1>5, UnmaskStep
<1> QED BY <1>6 DEF n, t

LEMMA GiveUpStep ==
  ASSUME NEW p, Sound(p), GivesUp(p), Ahead(p) > 0, NEW q, q = Parse(p)
  PROVE  Sound(q)
<1>1. p.state = "data" /\ Barred(p) # {} /\ Barred(p) \subseteq 1 .. Turns(p) /\ Turns(p) \in Nat
  BY SoundFacts, TurnsFacts DEF GivesUp, Barred
<1> DEFINE k == CHOOSE i \in Barred(p) : \A j \in Barred(p) : i <= j
           n == k - 1
           u == Unmask(p, n)
<1>2. \E i \in Barred(p) : \A j \in Barred(p) : i <= j
  <2>1. Barred(p) \subseteq Nat
    BY <1>1
  <2> QED BY <1>1, <2>1, LeastExists
<1>3. k \in Barred(p)
  BY <1>2
<1>4. n \in 0 .. Turns(p) /\ 0 \in {0, n} /\ "data" \in {"head", "data"}
  BY <1>1, <1>3
<1>5. q = u
  <2>1. q = ParseData(p)
    BY <1>1, SoundFacts DEF Parse
  <2> QED BY <2>1 DEF ParseData
<1> HIDE DEF k
<1>6. u = Piece(p, n, 0, "data")
  <2>1. n \in 0 .. Ahead(p) /\ p.readAt \in Nat /\ p.index + n \in Nat
    BY <1>4, SoundFacts, TurnsFacts
  <2>2. u = [p EXCEPT !.index = @ + n, !.mem = Unmasked(p, n)]
    BY <2>1, UnmaskValue
  <2>3. Unmasked(p, n) \in [1 .. DataCap -> Byte]
    BY <2>1, UnmaskedType
  <2> DEFINE m == Unmasked(p, n)
             i == p.index + n
  <2>4. u = [p EXCEPT !.index = i, !.mem = m]
    BY <2>2
  <2>5. i \in Nat /\ m \in [1 .. DataCap -> Byte]
    BY <2>1, <2>3
  <2> HIDE DEF i, m
  <2>6. u \in ParserTypes /\ u.state = "data" /\ u.readAt = p.readAt
    <3> HIDE DEF u
    <3> QED BY ONLY Sound(p), <1>1, <2>4, <2>5 DEF Sound, ParserTypes
  <2>7. Piece(p, n, 0, "data") = [u EXCEPT !.readAt = @ + 0, !.state = "data"]
    BY DEF Piece, Advance
  <2> HIDE DEF u
  <2>8. u.readAt + 0 = u.readAt
    BY <2>1, <2>6
  <2>9. Piece(p, n, 0, "data") = [u EXCEPT !.readAt = u.readAt, !.state = u.state]
    BY <2>6, <2>7, <2>8
  <2>10. [u EXCEPT !.readAt = u.readAt, !.state = u.state] = u
    BY ONLY <2>6 DEF ParserTypes
  <2> QED BY <2>9, <2>10
<1> HIDE DEF n
<1> QED BY ONLY Sound(p), <1>1, <1>4, <1>5, <1>6, UnmaskStep

LEMMA ParseSound ==
  ASSUME NEW p, Sound(p)
  PROVE  Sound(Parse(p))
<1>1. p.state \in States /\ Ahead(p) \in Nat
  BY SoundFacts
<1>2. CASE Ahead(p) = 0
  BY <1>2 DEF Parse
<1>3. CASE p.state = "head" /\ Ahead(p) > 0
  <2>1. CASE Ahead(p) >= 2
    BY <1>3, <2>1, HeadStep
  <2>2. CASE Ahead(p) < 2
    BY <1>3, <2>2 DEF Parse, ParseHead
  <2> QED BY <1>1, <2>1, <2>2
<1>4. CASE p.state = "payload"
  BY <1>4, PayloadStep
<1>5. CASE p.state = "mask"
  BY <1>5, MaskStep
<1>6. CASE p.state = "data" /\ Ahead(p) > 0
  <2>1. CASE GivesUp(p)
    BY <1>6, <2>1, GiveUpStep
  <2>2. CASE ~GivesUp(p)
    BY <1>6, <2>2, DataStep
  <2> QED BY <2>1, <2>2
<1> QED BY <1>1, <1>2, <1>3, <1>4, <1>5, <1>6 DEF States

-----------------------------------------------------------------------------
(* Where the parser is in the stream, as long as the stream is clean.      *)

Unbarred(s) == \A i \in DOMAIN s : IsClean(s[i])

\* The allocation begins with byte b + 1 of the stream s, and what is not
\* parsed yet is as it was sent.
Unread(s, b, p) ==
  /\ b + p.size <= Len(Sent(s))
  /\ \A j \in p.readAt + 1 .. p.size : p.mem[j] = Sent(s)[b + j]

\* _head.wbs shows the head of frame c.
Shows(s, b, p, c) ==
  /\ b <= Begin(s, c) /\ p.wbs = Begin(s, c) - b + 1
  /\ p.mem[p.wbs] = Encoded(s[c])[1] /\ p.mem[p.wbs + 1] = Encoded(s[c])[2]

\* In front of frame c: the head of the frame before it is shown still, if
\* that frame has not left the allocation.
AtHead(s, b, p, c) ==
  /\ p.state = "head" /\ b + p.readAt = Begin(s, c)
  /\ p.readAt # 0 => /\ Shows(s, b, p, c - 1)
                     /\ p.index = Len(s[c - 1].text) /\ p.len = p.index

AtPayload(s, b, p, c) ==
  /\ p.state = "payload" /\ b + p.readAt = Begin(s, c) + 2
  /\ Shows(s, b, p, c)

AtMask(s, b, p, c) ==
  /\ p.state = "mask" /\ b + p.readAt = Begin(s, c) + 2 + s[c].wide
  /\ Shows(s, b, p, c) /\ p.len = Len(s[c].text)

\* The first n bytes of the payload of frame c are unmasked.
Plain(s, b, p, c, n) ==
  \A j \in 1 .. n : p.mem[Begin(s, c) - b + HeadSize(s[c]) + j] = s[c].text[j]

AtData(s, b, p, c) ==
  /\ p.state = "data" /\ b + p.readAt = Begin(s, c) + HeadSize(s[c]) + p.index
  /\ Shows(s, b, p, c) /\ p.len = Len(s[c].text) /\ p.masks = s[c].key
  /\ p.index < p.len \/ p.len = 0
  /\ Plain(s, b, p, c, p.index)

LEMMA FrameFacts ==
  ASSUME NEW s \in Seq(Frames), NEW c \in 1 .. Len(s)
  PROVE  /\ Begin(s, c) \in Nat /\ s[c].wide \in {0, 2, 8} /\ Len(s[c].text) \in Nat
         /\ HeadSize(s[c]) = 6 + s[c].wide /\ Told(s[c]) \in 0 .. 127
         /\ s[c].fin \in BOOLEAN /\ s[c].op \in 0 .. 15 /\ s[c].key \in [1 .. 4 -> Byte]
         /\ Begin(s, c + 1) = Begin(s, c) + HeadSize(s[c]) + Len(s[c].text)
         /\ Begin(s, c + 1) <= Len(Sent(s)) /\ Len(Sent(s)) \in Nat
<1>1. Framed(s[c]) /\ Len(s) \in Nat
  BY StreamFacts
<1>2. /\ s[c].wide \in {0, 2, 8} /\ Len(s[c].text) \in Nat
      /\ s[c].fin \in BOOLEAN /\ s[c].op \in 0 .. 15 /\ s[c].key \in [1 .. 4 -> Byte]
      /\ s[c].wide = 0 => Len(s[c].text) < 126
  BY <1>1, FramedTypes
<1>3. Size(s, c) = HeadSize(s[c]) + Len(s[c].text)
  BY <1>1, EncodedFacts DEF Size
<1>4. c \in 1 .. Len(s) + 1 /\ c + 1 \in 1 .. Len(s) + 1 /\ Len(s) + 1 \in c + 1 .. Len(s) + 1
      /\ Len(s) + 1 \in 1 .. Len(s) + 1
  BY <1>1
<1>5. Begin(s, c) \in Nat /\ Begin(s, c + 1) = Begin(s, c) + Size(s, c)
      /\ Begin(s, Len(s) + 1) \in Nat
  BY <1>4, BeginFacts
<1>6. Begin(s, c + 1) <= Begin(s, Len(s) + 1)
  BY <1>4, BeginMonotone
<1>7. Len(Sent(s)) = Begin(s, Len(s) + 1)
  BY SentFacts
<1>8. HeadSize(s[c]) = 6 + s[c].wide /\ Told(s[c]) \in 0 .. 127
  BY <1>1, ToldType DEF HeadSize
<1>9. Begin(s, c + 1) = Begin(s, c) + HeadSize(s[c]) + Len(s[c].text)
  <2> DEFINE B == Begin(s, c)
             h == HeadSize(s[c])
             t == Len(s[c].text)
  <2>1. B \in Nat /\ h \in Nat /\ t \in Nat /\ Begin(s, c + 1) = B + (h + t)
    BY <1>2, <1>3, <1>5, <1>8
  <2> HIDE DEF B, h, t
  <2>2. B + (h + t) = B + h + t
    BY ONLY <2>1
  <2> QED BY <2>1, <2>2 DEF B, h, t
<1> QED BY <1>2, <1>5, <1>6, <1>7, <1>8, <1>9

\* Where a frame begins and ends.
LEMMA FrameBounds ==
  ASSUME NEW s \in Seq(Frames), NEW c \in 1 .. Len(s)
  PROVE  /\ Begin(s, c) \in Nat /\ HeadSize(s[c]) \in Nat /\ HeadSize(s[c]) >= 6
         /\ Len(s[c].text) \in Nat
         /\ Begin(s, c + 1) = Begin(s, c) + HeadSize(s[c]) + Len(s[c].text)
<1>1. s[c].wide \in {0, 2, 8} /\ HeadSize(s[c]) = 6 + s[c].wide /\ Len(s[c].text) \in Nat
  BY FrameFacts
<1>2. Begin(s, c) \in Nat /\ Begin(s, c + 1) = Begin(s, c) + HeadSize(s[c]) + Len(s[c].text)
  BY FrameFacts
<1>3. HeadSize(s[c]) \in Nat /\ HeadSize(s[c]) >= 6 /\ Len(s[c].text) \in Nat
  BY ONLY <1>1
<1> QED BY <1>2, <1>3

LEMMA SentFrame ==
  ASSUME NEW s \in Seq(Frames), NEW c \in 1 .. Len(s)
  PROVE  /\ Sent(s)[Begin(s, c) + 1] = Encoded(s[c])[1]
         /\ Sent(s)[Begin(s, c) + 2] = Encoded(s[c])[2]
         /\ s[c].wide # 0 => /\ Sent(s)[Begin(s, c) + (1 + s[c].wide)] = High(s[c])
                            /\ Sent(s)[Begin(s, c) + (2 + s[c].wide)] = Low(s[c])
         /\ \A i \in 3 .. s[c].wide : Sent(s)[Begin(s, c) + i] = 0
         /\ \A i \in 1 .. 4 : Sent(s)[Begin(s, c) + (2 + s[c].wide + i)] = s[c].key[i]
         /\ \A i \in 1 .. Len(s[c].text) :
               Sent(s)[Begin(s, c) + (HeadSize(s[c]) + i)] = Masked(s[c])[i]
<1> DEFINE f == s[c]
           z == Size(s, c)
<1>1. Framed(f)
  BY StreamFacts
<1>2. z = HeadSize(f) + Len(f.text) /\ HeadSize(f) = 6 + f.wide /\ f.wide \in {0, 2, 8}
      /\ Len(f.text) \in Nat
  BY <1>1, EncodedFacts, FrameFacts DEF Size
<1>3. \A j \in 1 .. z : Sent(s)[Begin(s, c) + j] = Encoded(f)[j]
  BY SentFacts
<1>4. /\ f.wide # 0 => Encoded(f)[1 + f.wide] = High(f) /\ Encoded(f)[2 + f.wide] = Low(f)
      /\ \A i \in 3 .. f.wide : Encoded(f)[i] = 0
      /\ \A i \in 1 .. 4 : Encoded(f)[2 + f.wide + i] = f.key[i]
      /\ \A i \in 1 .. Len(f.text) : Encoded(f)[HeadSize(f) + i] = Masked(f)[i]
  BY <1>1, EncodedFacts
<1> HIDE DEF z, f
<1>5. 1 \in 1 .. z /\ 2 \in 1 .. z /\ 1 + f.wide \in 1 .. z /\ 2 + f.wide \in 1 .. z
      /\ (\A i \in 3 .. f.wide : i \in 1 .. z)
      /\ (\A i \in 1 .. 4 : 2 + f.wide + i \in 1 .. z)
      /\ (\A i \in 1 .. Len(f.text) : HeadSize(f) + i \in 1 .. z)
  <2> DEFINE w == f.wide
             n == Len(f.text)
  <2>1. z = 6 + w + n /\ HeadSize(f) = 6 + w /\ w \in {0, 2, 8} /\ n \in Nat
    BY <1>2
  <2> HIDE DEF w, n
  <2>2. 1 \in 1 .. z /\ 2 \in 1 .. z /\ 1 + w \in 1 .. z /\ 2 + w \in 1 .. z
    BY ONLY <2>1
  <2>3. /\ \A i \in 3 .. w : i \in 1 .. z
        /\ \A i \in 1 .. 4 : 2 + w + i \in 1 .. z
    BY ONLY <2>1
  <2>4. \A i \in 1 .. n : HeadSize(f) + i \in 1 .. z
    BY ONLY <2>1
  <2> QED BY <2>2, <2>3, <2>4 DEF w, n
<1>6. /\ Sent(s)[Begin(s, c) + 1] = Encoded(f)[1]
      /\ Sent(s)[Begin(s, c) + 2] = Encoded(f)[2]
      /\ f.wide # 0 => /\ Sent(s)[Begin(s, c) + (1 + f.wide)] = High(f)
                       /\ Sent(s)[Begin(s, c) + (2 + f.wide)] = Low(f)
      /\ \A i \in 3 .. f.wide : Sent(s)[Begin(s, c) + i] = 0
      /\ \A i \in 1 .. 4 : Sent(s)[Begin(s, c) + (2 + f.wide + i)] = f.key[i]
      /\ \A i \in 1 .. Len(f.text) : Sent(s)[Begin(s, c) + (HeadSize(f) + i)] = Masked(f)[i]
  BY <1>3, <1>4, <1>5
<1> QED BY <1>6 DEF f

LEMMA HeadByte ==
  /\ \A n \in 0 .. 15 : n < 128 /\ n % 16 = n /\ 128 + n >= 128 /\ (128 + n) % 16 = n
  /\ \A n \in 0 .. 127 : (128 + n) % 128 = n
OBVIOUS

\* What the bit fields say of a frame whose head is shown.
LEMMA ShownHead ==
  ASSUME NEW s \in Seq(Frames), NEW c \in 1 .. Len(s), NEW b \in Nat, NEW p, Sound(p),
         Shows(s, b, p, c)
  PROVE  /\ Fin(p) <=> s[c].fin
         /\ Opcode(p) = s[c].op /\ PayLoad(p) = Told(s[c]) /\ Wide(p) = s[c].wide
         /\ FrameHeadSize(p) = HeadSize(s[c])
<1> DEFINE f == s[c]
<1>1. Framed(f)
  BY StreamFacts
<1>2. Encoded(f)[1] = (IF f.fin THEN 128 ELSE 0) + f.op /\ Encoded(f)[2] = 128 + Told(f)
  BY <1>1, EncodedFacts
<1>3. /\ f.wide \in {0, 2, 8} /\ HeadSize(f) = 6 + f.wide /\ Told(f) \in 0 .. 127
      /\ f.fin \in BOOLEAN /\ f.op \in 0 .. 15
      /\ f.wide = 0 => Told(f) < 126
      /\ f.wide = 2 => Told(f) = 126
      /\ f.wide = 8 => Told(f) = 127
  <2>1. /\ f.wide \in {0, 2, 8} /\ f.fin \in BOOLEAN /\ f.op \in 0 .. 15
        /\ f.wide = 0 => Len(f.text) < 126
    BY <1>1, FramedTypes
  <2>2. HeadSize(f) = 6 + f.wide /\ Told(f) \in 0 .. 127
    BY FrameFacts
  <2>3. Told(f) = IF f.wide = 0 THEN Len(f.text) ELSE IF f.wide = 2 THEN 126 ELSE 127
    BY DEF Told
  <2> HIDE DEF f
  <2> QED BY ONLY <2>1, <2>2, <2>3
<1>4. p.mem[p.wbs] = (IF f.fin THEN 128 ELSE 0) + f.op /\ p.mem[p.wbs + 1] = 128 + Told(f)
  BY <1>2 DEF Shows
<1> HIDE DEF f
<1>5. (Fin(p) <=> f.fin) /\ Opcode(p) = f.op
  <2> DEFINE o == f.op
  <2>0. o \in 0 .. 15
    BY <1>3
  <2> HIDE DEF o
  <2>1. CASE f.fin
    <3>1. p.mem[p.wbs] = 128 + o
      BY <1>4, <2>1 DEF o
    <3>2. p.mem[p.wbs] >= 128 /\ p.mem[p.wbs] % 16 = o
      BY ONLY <2>0, <3>1, HeadByte
    <3> QED BY <2>1, <3>2 DEF Fin, Opcode, o
  <2>2. CASE ~f.fin
    <3>1. p.mem[p.wbs] = o
      BY <1>3, <1>4, <2>2 DEF o
    <3>2. ~(p.mem[p.wbs] >= 128) /\ p.mem[p.wbs] % 16 = o
      BY ONLY <2>0, <3>1, HeadByte
    <3> QED BY <2>2, <3>2 DEF Fin, Opcode, o
  <2> QED BY <2>1, <2>2
<1>6. PayLoad(p) = Told(f)
  <2> DEFINE t == Told(f)
  <2>1. t \in 0 .. 127 /\ p.mem[p.wbs + 1] = 128 + t
    BY <1>3, <1>4
  <2> HIDE DEF t
  <2>2. p.mem[p.wbs + 1] % 128 = t
    BY ONLY <2>1, HeadByte
  <2> QED BY <2>2 DEF PayLoad, t
<1>7. Wide(p) = f.wide /\ FrameHeadSize(p) = HeadSize(f)
  BY <1>3, <1>6 DEF Wide, FrameHeadSize
<1> QED BY <1>5, <1>6, <1>7 DEF f

LEMMA HeadPhase ==
  ASSUME NEW s \in Seq(Frames), NEW c \in 1 .. Len(s), NEW b \in Nat, NEW p, Sound(p),
         Unread(s, b, p), AtHead(s, b, p, c), Ahead(p) >= 2, NEW q, q = Parse(p)
  PROVE  /\ Sound(q) /\ Unread(s, b, q) /\ AtPayload(s, b, q, c)
         /\ q.size = p.size /\ q.index = 0 /\ q # p
<1> DEFINE B == Begin(s, c)
<1>1. p.state = "head" /\ b + p.readAt = B
  BY DEF AtHead
<1>2. /\ Sound(q) /\ q.mem = p.mem /\ q.size = p.size /\ q.readAt = p.readAt + 2
      /\ q.state = "payload" /\ q.index = 0 /\ q.wbs = p.readAt + 1
  BY <1>1, HeadStep
<1>3. B \in Nat /\ p.readAt \in Nat /\ p.size \in Nat /\ p.readAt + 2 <= p.size
  <2>1. B \in Nat /\ p.readAt \in 0 .. p.size /\ p.size \in Nat
    BY FrameBounds, SoundFacts
  <2> QED BY <2>1, SoundFacts
<1>4. Unread(s, b, q)
  <2>1. \A j \in q.readAt + 1 .. q.size : j \in p.readAt + 1 .. p.size
    BY <1>2, <1>3
  <2> QED BY <1>2, <2>1 DEF Unread
<1> HIDE DEF B
<1>5. Shows(s, b, q, c)
  <2>1. p.mem[p.readAt + 1] = Sent(s)[b + (p.readAt + 1)] /\ p.mem[p.readAt + 2] = Sent(s)[b + (p.readAt + 2)]
    <3>1. p.readAt + 1 \in p.readAt + 1 .. p.size /\ p.readAt + 2 \in p.readAt + 1 .. p.size
      BY <1>3
    <3> QED BY <3>1 DEF Unread
  <2>2. b + (p.readAt + 1) = B + 1 /\ b + (p.readAt + 2) = B + 2 /\ q.wbs = B - b + 1
        /\ (p.readAt + 1) + 1 = p.readAt + 2
    BY <1>1, <1>2, <1>3
  <2>3. b <= B
    BY <1>1, <1>3
  <2>4. Sent(s)[B + 1] = Encoded(s[c])[1] /\ Sent(s)[B + 2] = Encoded(s[c])[2]
    BY SentFrame DEF B
  <2> QED BY <1>2, <2>1, <2>2, <2>3, <2>4 DEF Shows, B
<1>6. b + q.readAt = B + 2
  BY <1>1, <1>2, <1>3
<1> QED BY <1>1, <1>2, <1>4, <1>5, <1>6 DEF AtPayload, B

\* What lies in front of the parser.
LEMMA Lies ==
  ASSUME NEW s, NEW b \in Nat, NEW p, Sound(p), Unread(s, b, p), NEW i \in 1 .. Ahead(p)
  PROVE  At(p, i) = Sent(s)[(b + p.readAt) + i] /\ p.readAt + i \in 1 .. DataCap
<1>1. /\ p.readAt \in Nat /\ p.size \in Nat /\ p.readAt + Ahead(p) = p.size
      /\ p.size <= DataCap /\ DataCap \in Nat /\ Ahead(p) \in Nat
  BY SoundFacts
<1>2. p.readAt + i \in p.readAt + 1 .. p.size /\ b + (p.readAt + i) = (b + p.readAt) + i
      /\ p.readAt + i \in 1 .. DataCap
  BY <1>1
<1>3. p.mem[p.readAt + i] = Sent(s)[b + (p.readAt + i)]
  BY <1>2 DEF Unread
<1> QED BY <1>2, <1>3 DEF At

\* A parser that has only read on has less unread.
LEMMA UnreadKept ==
  ASSUME NEW s, NEW b, NEW p, Unread(s, b, p), NEW q, q.mem = p.mem, q.size = p.size,
         NEW n \in Nat, NEW r \in Nat, p.readAt = r, q.readAt = r + n, p.size \in Nat
  PROVE  Unread(s, b, q)
<1> DEFINE z == p.size
<1>1. \A j \in r + n + 1 .. z : j \in r + 1 .. z
  <2> HIDE DEF z
  <2> QED OBVIOUS
<1> QED BY <1>1 DEF Unread

LEMMA PayloadPhase ==
  ASSUME NEW s \in Seq(Frames), NEW c \in 1 .. Len(s), NEW b \in Nat, NEW p, Sound(p),
         Unread(s, b, p), AtPayload(s, b, p, c), Unbarred(s), Ahead(p) > 0, NEW q, q = Parse(p)
  PROVE  /\ Sound(q) /\ Unread(s, b, q) /\ q.size = p.size /\ q.index = 0
         /\ \/ q = p /\ b + p.size < Begin(s, c) + HeadSize(s[c])
            \/ q # p /\ AtMask(s, b, q, c)
<1> DEFINE B == Begin(s, c)
           w == s[c].wide
           n == Len(s[c].text)
           x == High(s[c])
           y == Low(s[c])
<1>1. p.state = "payload" /\ b + p.readAt = B + 2 /\ Shows(s, b, p, c)
  BY DEF AtPayload
<1>2. PayLoad(p) = Told(s[c]) /\ Wide(p) = w
  BY <1>1, ShownHead
<1>3. /\ B \in Nat /\ w \in {0, 2, 8} /\ n \in Nat /\ HeadSize(s[c]) = 6 + w
  BY FrameFacts
<1>0. /\ x \in Nat /\ y \in Nat /\ n = 256 * x + y
      /\ w # 0 => x < 128 /\ y < 128
  <2>1. Framed(s[c]) /\ c \in DOMAIN s
    BY StreamFacts
  <2>2. x \in Byte /\ y \in Byte /\ n = 256 * x + y
    BY <2>1, LengthSplit
  <2>3. w # 0 => x < 128 /\ y < 128
    BY <2>1 DEF Unbarred, IsClean
  <2> HIDE DEF x, y, n, w
  <2>4. x \in Nat /\ y \in Nat
    BY ONLY <2>2 DEF Byte
  <2> QED BY ONLY <2>2, <2>3, <2>4
<1>4. /\ p.readAt \in Nat /\ p.size \in Nat /\ p.readAt + Ahead(p) = p.size /\ Ahead(p) \in Nat
      /\ p.index = 0
  BY <1>1, SoundFacts
<1>5. CASE Ahead(p) < w
  <2>1. q = p
    <3> HIDE DEF w
    <3> QED BY <1>1, <1>2, <1>5, PayloadStep
  <2>2. b + p.size < B + HeadSize(s[c])
    <3> HIDE DEF w, B
    <3> QED BY ONLY b \in Nat, <1>1, <1>3, <1>4, <1>5
  <2> QED BY <1>4, <2>1, <2>2
<1>6. CASE ~(Ahead(p) < w)
  <2>1. /\ Sound(q) /\ q.mem = p.mem /\ q.size = p.size /\ q.readAt = p.readAt + w
        /\ q.state = "mask" /\ q.index = 0 /\ q.len = ReadLength(p) /\ q.wbs = p.wbs
    <3>1. /\ Sound(p) /\ p.state = "payload" /\ q = Parse(p) /\ Wide(p) = w
          /\ Ahead(p) >= Wide(p) /\ Ahead(p) > 0
      <4>1. w \in Nat
        BY <1>3
      <4> HIDE DEF w
      <4> QED BY <1>1, <1>2, <1>4, <1>6, <4>1
    <3>2. q.index = 0 /\ q.state = "mask" /\ q.mem = p.mem /\ q.size = p.size
          /\ q.readAt = p.readAt + Wide(p) /\ q.len = ReadLength(p) /\ q.wbs = p.wbs
      BY ONLY <3>1, PayloadStep
    <3>3. Sound(q)
      BY ONLY <3>1, PayloadStep
    <3> QED BY <3>1, <3>2, <3>3
  <2>2. Unread(s, b, q)
    <3>1. w \in Nat
      BY <1>3
    <3> HIDE DEF w
    <3> QED BY <1>4, <2>1, <3>1, UnreadKept
  <2>3. \A i \in 1 .. Ahead(p) : At(p, i) = Sent(s)[B + (2 + i)]
    <3> TAKE i \in 1 .. Ahead(p)
    <3>1. (b + p.readAt) + i = B + (2 + i)
      <4> DEFINE r == p.readAt
                 a == Ahead(p)
      <4>1. i \in 1 .. a /\ a \in Nat /\ r \in Nat /\ B \in Nat /\ b + r = B + 2
        BY <1>1, <1>3, <1>4
      <4> HIDE DEF B, r, a
      <4>2. (b + r) + i = B + (2 + i)
        BY ONLY b \in Nat, <4>1
      <4> QED BY <4>2 DEF B, r
    <3> QED BY <3>1, Lies
  <2>4. /\ w # 0 => Sent(s)[B + (1 + w)] = x /\ Sent(s)[B + (2 + w)] = y
        /\ \A i \in 3 .. w : Sent(s)[B + i] = 0
    BY SentFrame
  <2>5. ReadLength(p) = n
    <3>1. CASE w = 0
      BY <1>2, <3>1 DEF ReadLength, Told
    <3>2. CASE w = 2
      <4> HIDE DEF B, w, n, x, y
      <4>1. At(p, 1) = x /\ At(p, 2) = y
        <5>1. 1 \in 1 .. Ahead(p) /\ 2 \in 1 .. Ahead(p) /\ 2 + 1 = 1 + w /\ 2 + 2 = 2 + w
          BY <1>4, <1>6, <3>2
        <5> QED BY <2>3, <2>4, <3>2, <5>1
      <4>2. ~\E i \in 1 .. 2 : At(p, i) >= 128 \/ (i < 2 - 1 /\ At(p, i) # 0)
        <5>1. \A i \in 1 .. 2 : i = 1 \/ i = 2
          OBVIOUS
        <5> QED BY <1>0, <3>2, <4>1, <5>1
      <4>3. WideLength(p, 2) = n
        <5>1. WideLength(p, 2) = 256 * At(p, 1) + At(p, 2)
          BY <4>2 DEF WideLength
        <5> QED BY <1>0, <4>1, <5>1
      <4> QED BY <1>2, <3>2, <4>3 DEF ReadLength
    <3>3. CASE w = 8
      <4> HIDE DEF B, w, n, x, y
      <4>1. \A i \in 1 .. 6 : At(p, i) = 0
        <5> TAKE i \in 1 .. 6
        <5>1. i \in 1 .. Ahead(p) /\ 2 + i \in 3 .. w
          BY <1>4, <1>6, <3>3
        <5> QED BY <2>3, <2>4, <5>1
      <4>2. At(p, 7) = x /\ At(p, 8) = y
        <5>1. 7 \in 1 .. Ahead(p) /\ 8 \in 1 .. Ahead(p) /\ 2 + 7 = 1 + w /\ 2 + 8 = 2 + w
          BY <1>4, <1>6, <3>3
        <5> QED BY <2>3, <2>4, <3>3, <5>1
      <4>3. ~\E i \in 1 .. 8 : At(p, i) >= 128 \/ (i < 8 - 1 /\ At(p, i) # 0)
        <5>1. ~(0 >= 128) /\ ~(7 < 8 - 1) /\ ~(8 < 8 - 1)
          OBVIOUS
        <5>2. ~(x >= 128) /\ ~(y >= 128)
          BY <1>0, <3>3
        <5>3. ASSUME NEW i \in 1 .. 8
              PROVE  ~(At(p, i) >= 128 \/ (i < 8 - 1 /\ At(p, i) # 0))
          <6>1. CASE i \in 1 .. 6
            BY <4>1, <5>1, <6>1
          <6>2. CASE i = 7
            BY <4>2, <5>1, <5>2, <6>2
          <6>3. CASE i = 8
            BY <4>2, <5>1, <5>2, <6>3
          <6>4. i \in 1 .. 6 \/ i = 7 \/ i = 8
            OBVIOUS
          <6> QED BY <6>1, <6>2, <6>3, <6>4
        <5> QED BY <5>3
      <4>4. WideLength(p, 8) = n
        <5>1. WideLength(p, 8) = 256 * At(p, 7) + At(p, 8)
          BY <4>3 DEF WideLength
        <5> QED BY <1>0, <4>2, <5>1
      <4> QED BY <1>2, <3>3, <4>4 DEF ReadLength
    <3> QED BY <1>3, <3>1, <3>2, <3>3
  <2>6. Shows(s, b, q, c)
    BY <1>1, <2>1 DEF Shows
  <2>7. b + q.readAt = B + 2 + w
    BY <1>1, <1>3, <1>4, <2>1
  <2>8. AtMask(s, b, q, c)
    BY <2>1, <2>5, <2>6, <2>7 DEF AtMask
  <2> QED BY <1>1, <2>1, <2>2, <2>8
<1> QED BY <1>5, <1>6

LEMMA MaskPhase ==
  ASSUME NEW s \in Seq(Frames), NEW c \in 1 .. Len(s), NEW b \in Nat, NEW p, Sound(p),
         Unread(s, b, p), AtMask(s, b, p, c), Ahead(p) > 0, NEW q, q = Parse(p)
  PROVE  /\ Sound(q) /\ Unread(s, b, q) /\ q.size = p.size /\ q.index = 0
         /\ \/ q = p /\ b + p.size < Begin(s, c) + HeadSize(s[c])
            \/ q # p /\ AtData(s, b, q, c)
<1> DEFINE B == Begin(s, c)
           w == s[c].wide
           k == s[c].key
<1>1. /\ p.state = "mask" /\ b + p.readAt = B + 2 + w /\ Shows(s, b, p, c)
      /\ p.len = Len(s[c].text)
  BY DEF AtMask
<1>2. /\ B \in Nat /\ w \in {0, 2, 8} /\ Len(s[c].text) \in Nat /\ HeadSize(s[c]) = 6 + w
      /\ k \in [1 .. 4 -> Byte]
  <2>1. B \in Nat /\ Len(s[c].text) \in Nat
    BY FrameBounds
  <2>2. w \in {0, 2, 8} /\ HeadSize(s[c]) = 6 + w /\ k \in [1 .. 4 -> Byte]
    BY ONLY s \in Seq(Frames), c \in 1 .. Len(s), FrameFacts
  <2> QED BY <2>1, <2>2
<1>3. /\ p.readAt \in Nat /\ p.size \in Nat /\ p.readAt + Ahead(p) = p.size /\ Ahead(p) \in Nat
      /\ p.index = 0
  BY <1>1, SoundFacts
<1>4. CASE Ahead(p) < 4
  <2>1. q = p
    BY <1>1, <1>4, MaskStep
  <2>2. b + p.size < B + HeadSize(s[c])
    <3>1. w \in Nat
      BY <1>2
    <3> DEFINE r == p.readAt
               z == p.size
               a == Ahead(p)
               e == HeadSize(s[c])
    <3> HIDE DEF w, B
    <3>2. /\ b \in Nat /\ B \in Nat /\ w \in Nat /\ r \in Nat /\ z \in Nat /\ a \in Nat
          /\ b + r = B + 2 + w /\ e = 6 + w /\ r + a = z /\ a < 4
      BY <1>1, <1>2, <1>3, <1>4, <3>1
    <3> HIDE DEF r, z, a, e
    <3>3. b + z < B + e
      BY ONLY <3>2
    <3> QED BY <3>3 DEF z, e
  <2> QED BY <1>3, <2>1, <2>2
<1>5. CASE ~(Ahead(p) < 4)
  <2>1. /\ Sound(q) /\ q.mem = p.mem /\ q.size = p.size /\ q.readAt = p.readAt + 4
        /\ q.state = "data" /\ q.index = 0 /\ q.len = p.len /\ q.wbs = p.wbs
        /\ q.masks = [i \in 1 .. 4 |-> At(p, i)]
    BY <1>1, <1>3, <1>5, MaskStep
  <2>2. Unread(s, b, q)
    <3>1. 4 \in Nat
      OBVIOUS
    <3> QED BY <1>3, <2>1, <3>1, UnreadKept
  <2>3. q.masks = k
    <3>1. ASSUME NEW i \in 1 .. 4 PROVE At(p, i) = k[i]
      <4>1. (b + p.readAt) + i = B + (2 + w + i) /\ i \in 1 .. Ahead(p)
        <5> DEFINE r == p.readAt
        <5>1. B \in Nat /\ w \in Nat /\ r \in Nat /\ b + r = B + 2 + w
          <6>1. w \in Nat
            BY <1>2
          <6> HIDE DEF w
          <6> QED BY <1>1, <1>2, <1>3, <6>1
        <5> HIDE DEF B, w, r
        <5>2. (b + r) + i = B + (2 + w + i)
          BY ONLY b \in Nat, i \in 1 .. 4, <5>1
        <5>3. i \in 1 .. Ahead(p)
          BY ONLY i \in 1 .. 4, <1>3, <1>5
        <5> QED BY <5>2, <5>3 DEF r
      <4>2. At(p, i) = Sent(s)[(b + p.readAt) + i]
        BY <4>1, Lies
      <4>3. Sent(s)[B + (2 + w + i)] = k[i]
        BY SentFrame
      <4> QED BY <4>1, <4>2, <4>3
    <3> HIDE DEF k
    <3> QED BY <1>2, <2>1, <3>1
  <2>4. Shows(s, b, q, c)
    BY <1>1, <2>1 DEF Shows
  <2>5. b + q.readAt = B + HeadSize(s[c]) + q.index
    <3> DEFINE r == p.readAt
    <3>1. /\ q.readAt = r + 4 /\ q.index = 0 /\ HeadSize(s[c]) = 6 + w
          /\ B \in Nat /\ w \in Nat /\ r \in Nat /\ b + r = B + 2 + w
      <4>1. w \in Nat
        BY <1>2
      <4> HIDE DEF w, B
      <4> QED BY <1>1, <1>2, <1>3, <2>1, <4>1
    <3> HIDE DEF w, B, r
    <3> QED BY ONLY b \in Nat, <3>1
  <2>6. q.index < q.len \/ q.len = 0
    BY <1>1, <1>2, <2>1
  <2>7. Plain(s, b, q, c, q.index)
    BY <2>1 DEF Plain
  <2>8. AtData(s, b, q, c)
    BY <1>1, <2>1, <2>3, <2>4, <2>5, <2>6, <2>7 DEF AtData
  <2> QED BY <1>1, <2>1, <2>2, <2>8
<1> QED BY <1>4, <1>5

\* What unmasking n bytes does to a byte of the allocation.
LEMMA UnmaskedFacts ==
  ASSUME NEW p, Sound(p), NEW n \in 0 .. Ahead(p), NEW x \in 1 .. DataCap
  PROVE  /\ x <= p.readAt \/ x > p.readAt + n => Unmasked(p, n)[x] = p.mem[x]
         /\ \A i \in 1 .. n : x = p.readAt + i =>
               Unmasked(p, n)[x] = ByteXor(p.mem[x], KeyAt(p.masks, p.index + i))
<1>1. p.readAt \in Nat /\ DataCap \in Nat /\ n \in Nat
  BY SoundFacts
<1>2. ASSUME x <= p.readAt \/ x > p.readAt + n PROVE Unmasked(p, n)[x] = p.mem[x]
  <2>1. ~(x - p.readAt \in 1 .. n)
    BY <1>1, <1>2
  <2> QED BY <2>1 DEF Unmasked
<1>3. ASSUME NEW i \in 1 .. n, x = p.readAt + i
      PROVE  Unmasked(p, n)[x] = ByteXor(p.mem[x], KeyAt(p.masks, p.index + i))
  <2>1. x - p.readAt = i
    BY <1>1, <1>3
  <2>2. Unmasked(p, n)[x] = ByteXor(p.mem[x], KeyAt(p.masks, p.index + (x - p.readAt)))
    BY <2>1 DEF Unmasked
  <2> QED BY <2>1, <2>2
<1> QED BY <1>2, <1>3

LEMMA DataPhase ==
  ASSUME NEW s \in Seq(Frames), NEW c \in 1 .. Len(s), NEW b \in Nat, NEW p, Sound(p),
         Unread(s, b, p), AtData(s, b, p, c), Unbarred(s), Ahead(p) > 0, NEW q, q = Parse(p)
  PROVE  /\ ~GivesUp(p)
         /\ Sound(q) /\ Unread(s, b, q) /\ q.size = p.size
         /\ \/ AtData(s, b, q, c) /\ Ahead(q) = 0 /\ q.index < q.len
            \/ /\ q # p /\ AtHead(s, b, q, c + 1) /\ Shows(s, b, q, c)
               /\ q.index = Len(s[c].text) /\ q.len = q.index
               /\ Plain(s, b, q, c, q.index)
<1> DEFINE B == Begin(s, c)
           h == HeadSize(s[c])
           T == Len(s[c].text)
           r == p.readAt
           i0 == p.index
           n == Turns(p)
           m == Masked(s[c])
<1>1. /\ p.state = "data" /\ b + r = B + h + i0
      /\ Shows(s, b, p, c) /\ p.len = T /\ p.masks = s[c].key
      /\ i0 < p.len \/ p.len = 0
      /\ Plain(s, b, p, c, i0)
  BY DEF AtData
<1>2. B \in Nat /\ h \in Nat /\ h >= 6 /\ T \in Nat /\ Begin(s, c + 1) = B + h + T
  BY FrameBounds
<1>3. /\ r \in Nat /\ i0 \in Nat /\ p.size \in Nat /\ r + Ahead(p) = p.size /\ Ahead(p) \in Nat
      /\ p.size <= DataCap /\ DataCap \in Nat /\ i0 <= T
  BY <1>1, SoundFacts
<1>4. n \in 0 .. Ahead(p) /\ n <= T - i0 /\ (n = Ahead(p) \/ n = T - i0)
  BY <1>1, TurnsFacts DEF Turns
<1>5. \A i \in 1 .. T : /\ Sent(s)[B + (h + i)] = m[i] /\ m[i] # 255
                        /\ ByteXor(m[i], KeyAt(s[c].key, i)) = s[c].text[i]
  <2>1. Framed(s[c]) /\ c \in DOMAIN s /\ s[c].text \in Seq(Byte)
    BY StreamFacts, FramedTypes
  <2>2. DOMAIN s[c].text = 1 .. T
    BY <2>1, LenProperties
  <2>3. \A i \in 1 .. T : m[i] # 255
    BY <2>1, <2>2 DEF Unbarred, IsClean
  <2>4. \A i \in 1 .. T : ByteXor(m[i], KeyAt(s[c].key, i)) = s[c].text[i]
    BY <2>1, MaskedFacts
  <2>5. \A i \in 1 .. T : Sent(s)[B + (h + i)] = m[i]
    BY ONLY s \in Seq(Frames), c \in 1 .. Len(s), SentFrame
  <2> QED BY <2>3, <2>4, <2>5
<1> DEFINE z == p.size
           a == Ahead(p)
<1>s. /\ b \in Nat /\ B \in Nat /\ h \in Nat /\ h >= 6 /\ T \in Nat /\ r \in Nat /\ i0 \in Nat
      /\ n \in Nat /\ z \in Nat /\ a \in Nat /\ b + r = B + h + i0 /\ i0 + n <= T
      /\ r + a = z /\ n <= a /\ z <= DataCap /\ DataCap \in Nat /\ (n = a \/ i0 + n = T)
  <2>1. b + r = B + h + i0
    BY <1>1
  <2> HIDE DEF B, h, T, r, i0, n
  <2> QED BY ONLY b \in Nat, <1>2, <1>3, <1>4, <2>1
<1> HIDE DEF B, h, T, r, i0, n, m, z, a
<1>6. \A i \in 1 .. n : i0 + i \in 1 .. T /\ At(p, i) = m[i0 + i]
  <2> TAKE i \in 1 .. n
  <2>1. i \in 1 .. a /\ i0 + i \in 1 .. T /\ (b + r) + i = B + (h + (i0 + i))
    BY ONLY i \in 1 .. n, <1>s
  <2>3. At(p, i) = Sent(s)[(b + r) + i]
    BY <2>1, Lies DEF r, a
  <2> QED BY <1>5, <2>1, <2>3
<1>7. ~GivesUp(p)
  BY <1>5, <1>6 DEF GivesUp, Barred, n
<1>8. /\ Sound(q)
      /\ q.mem = Unmasked(p, n) /\ q.size = p.size /\ q.readAt = r + n
      /\ q.state = IF i0 + n >= T THEN "head" ELSE "data"
      /\ q.index = i0 + n /\ q.len = T /\ q.wbs = p.wbs /\ q.masks = s[c].key
  BY <1>1, <1>7, DataStep DEF n, r, i0
<1>9. Unread(s, b, q)
  <2>1. ASSUME NEW j \in q.readAt + 1 .. q.size PROVE q.mem[j] = Sent(s)[b + j]
    <3>1. j \in r + 1 .. p.size /\ j > r + n /\ j \in 1 .. DataCap
      BY <1>3, <1>4, <1>8
    <3>2. q.mem[j] = p.mem[j]
      BY <1>4, <1>8, <3>1, UnmaskedFacts DEF r
    <3> QED BY <3>1, <3>2 DEF Unread, r
  <2> QED BY <1>8, <2>1 DEF Unread
<1>10. Shows(s, b, q, c)
  <2> DEFINE x == p.wbs
  <2>1. b <= B /\ x = B - b + 1 /\ p.mem[x] = Encoded(s[c])[1] /\ p.mem[x + 1] = Encoded(s[c])[2]
    BY <1>1 DEF Shows, B
  <2> HIDE DEF x
  <2>2. x \in 1 .. DataCap /\ x + 1 \in 1 .. DataCap /\ x <= r /\ x + 1 <= r
    <3>1. b <= B /\ x = B - b + 1
      BY <2>1
    <3> QED BY ONLY <1>s, <3>1
  <2>3. q.mem[x] = p.mem[x] /\ q.mem[x + 1] = p.mem[x + 1]
    BY <1>4, <1>8, <2>2, UnmaskedFacts DEF r
  <2> QED BY <1>8, <2>1, <2>3 DEF Shows, B, x
<1>11. Plain(s, b, q, c, i0 + n)
  <2> SUFFICES ASSUME NEW j \in 1 .. i0 + n PROVE q.mem[B - b + h + j] = s[c].text[j]
    BY DEF Plain, B, h
  <2> DEFINE x == B - b + h + j
             i == j - i0
  <2>0. B - b \in Int /\ x = r - i0 + j
    BY ONLY j \in 1 .. i0 + n, <1>s
  <2>1. CASE j <= i0
    <3>1. p.mem[x] = s[c].text[j]
      BY <1>1, <1>3, <2>1 DEF Plain, B, h
    <3>2. x \in 1 .. DataCap /\ x <= r
      <4>1. b <= B
        BY <1>10 DEF Shows, B
      <4> QED BY ONLY j \in 1 .. i0 + n, <1>s, <2>1, <4>1
    <3> HIDE DEF x
    <3>3. q.mem[x] = p.mem[x]
      BY <1>4, <1>8, <3>2, UnmaskedFacts DEF r
    <3> QED BY <3>1, <3>3 DEF x
  <2>2. CASE ~(j <= i0)
    <3>1. i \in 1 .. n /\ x = r + i /\ i0 + i = j /\ x \in 1 .. DataCap /\ j \in 1 .. T
      BY ONLY j \in 1 .. i0 + n, <1>s, <2>2
    <3> HIDE DEF x, i
    <3>2. q.mem[x] = ByteXor(p.mem[x], KeyAt(p.masks, j))
      <4>1. n \in 0 .. Ahead(p)
        BY <1>4
      <4>2. Unmasked(p, n)[x] = ByteXor(p.mem[x], KeyAt(p.masks, i0 + i))
        BY <3>1, <4>1, UnmaskedFacts DEF r, i0
      <4> QED BY <1>8, <3>1, <4>2
    <3>3. p.mem[x] = m[j]
      BY <1>6, <3>1 DEF At, r
    <3> QED BY <1>1, <1>5, <3>1, <3>2, <3>3 DEF x
  <2> QED BY <2>1, <2>2
<1>12. CASE i0 + n >= T
  <2>1. i0 + n = T
    BY ONLY <1>s, <1>12
  <2>2. b + (r + n) = B + h + T
    BY ONLY <1>s, <2>1
  <2>3. q.state = "head" /\ b + q.readAt = Begin(s, c + 1) /\ q.index = T /\ q.len = T
    BY <1>2, <1>8, <1>12, <2>1, <2>2
  <2>4. (c + 1) - 1 = c
    OBVIOUS
  <2>5. AtHead(s, b, q, c + 1)
    BY <1>10, <2>3, <2>4 DEF AtHead, T
  <2> QED BY <1>1, <1>7, <1>8, <1>9, <1>10, <1>11, <2>1, <2>3, <2>5 DEF T
<1>13. CASE ~(i0 + n >= T)
  <2>1. n = a /\ i0 + n < T
    BY ONLY <1>s, <1>13
  <2>2. b + (r + n) = B + h + (i0 + n) /\ (r + n) = z
    BY ONLY <1>s, <2>1
  <2>3. q.state = "data" /\ b + q.readAt = B + h + q.index /\ q.index < q.len
    BY <1>8, <1>13, <2>1, <2>2
  <2>4. Ahead(q) = 0
    BY <1>3, <1>8, <2>2 DEF Ahead, z
  <2>5. AtData(s, b, q, c)
    BY <1>8, <1>10, <1>11, <2>3 DEF AtData, T, B, h
  <2> QED BY <1>7, <1>8, <1>9, <2>3, <2>4, <2>5
<1> QED BY <1>12, <1>13
-----------------------------------------------------------------------------
(* Which frames have been handed over, answered or passed over.            *)

Delivered(f) == IsData(f) /\ f.fin
Answerable(f) == IsAnswered(f) /\ f.fin

\* Those of the first k frames that are answered.
Answers(s, k) == {i \in 1 .. k : Answerable(s[i])}

LEMMA AnswersFacts ==
  ASSUME NEW s, NEW k \in Nat
  PROVE  /\ Answers(s, 0) = {} /\ Cardinality(Answers(s, 0)) = 0
         /\ Cardinality(Answers(s, k)) \in Nat
         /\ Answerable(s[k + 1]) => Cardinality(Answers(s, k + 1)) = Cardinality(Answers(s, k)) + 1
         /\ ~Answerable(s[k + 1]) => Answers(s, k + 1) = Answers(s, k)
<1>1. Answers(s, 0) = {}
  BY DEF Answers
<1>2. IsFiniteSet(Answers(s, k))
  <2>1. IsFiniteSet(1 .. k)
    BY FS_Interval
  <2> QED BY <2>1, FS_Subset DEF Answers
<1>3. ASSUME Answerable(s[k + 1])
      PROVE  Cardinality(Answers(s, k + 1)) = Cardinality(Answers(s, k)) + 1
  <2>1. Answers(s, k + 1) = Answers(s, k) \cup {k + 1} /\ k + 1 \notin Answers(s, k)
    BY <1>3 DEF Answers
  <2> QED BY <1>2, <2>1, FS_AddElement
<1>4. ASSUME ~Answerable(s[k + 1]) PROVE Answers(s, k + 1) = Answers(s, k)
  BY <1>4 DEF Answers
<1> QED BY <1>1, <1>2, <1>3, <1>4, FS_EmptySet, FS_CardinalityType

\* The first g frames have been handed over, those up to c - 1 passed over.
Passed(s, g, a, c) ==
  /\ c \in g + 1 .. Len(s) + 1
  /\ \A i \in 1 .. g : Delivered(s[i])
  /\ \A i \in g + 1 .. c - 1 : ~Delivered(s[i])
  /\ Len(a) = Cardinality(Answers(s, c - 1))

\* The parser is in frame c, or in front of it.
Phase(s, b, p, c) ==
  \/ AtHead(s, b, p, c)
  \/ c <= Len(s) /\ (AtPayload(s, b, p, c) \/ AtMask(s, b, p, c) \/ AtData(s, b, p, c))

\* n bytes have arrived; h has been handed over and a answered.
InFrame(s, n, p, h, a, c) ==
  LET b == Begin(s, Len(h) + 1)
  IN  /\ n = b + p.size /\ Unread(s, b, p) /\ Phase(s, b, p, c)
      /\ Passed(s, Len(h), a, c)

\* n bytes end inside the head of frame c.
Inside(s, n, c) == c \in 1 .. Len(s) /\ n > Begin(s, c) /\ n < Begin(s, c) + HeadSize(s[c])

\* The three ends of an iteration that leaves the parser as q.  Nothing has
\* changed, as the bytes end inside a head:
Stuck(s, n, p, q, h, c) ==
  /\ q = p /\ Inside(s, n, c)
  /\ q.index = 0 \/ (Ahead(p) = 1 /\ AtHead(s, Begin(s, Len(h) + 1), p, c))

\* the parser is further on in the frame:
Moved(s, n, p, q, h, a, c) ==
  /\ q # p \/ Ahead(q) = 0
  /\ q.index = 0 \/ q.index < q.len
  /\ q.wbs # 0 /\ InFrame(s, n, q, h, a, c)

\* or at its end.
Ended(s, n, p, q, h, c) ==
  LET b == Begin(s, Len(h) + 1)
  IN  /\ q # p /\ q.wbs # 0 /\ n = b + q.size
      /\ Unread(s, b, q) /\ AtHead(s, b, q, c + 1) /\ Shows(s, b, q, c)
      /\ q.index = Len(s[c].text) /\ q.len = q.index /\ Plain(s, b, q, c, q.index)

\* What is known while frames are parsed.
Receiving(s, n, p, h, a, c) ==
  /\ s \in Seq(Frames) /\ Unbarred(s) /\ Sound(p)
  /\ h \in Seq(Seq(Byte)) /\ Len(h) <= Len(s)
  /\ InFrame(s, n, p, h, a, c)

LEMMA ReceivingFacts ==
  ASSUME NEW s, NEW n, NEW p, NEW h, NEW a, NEW c, Receiving(s, n, p, h, a, c)
  PROVE  /\ Len(h) \in 0 .. Len(s) /\ Len(s) \in Nat /\ c \in Len(h) + 1 .. Len(s) + 1
         /\ Begin(s, Len(h) + 1) \in Nat /\ Begin(s, c) \in Nat
         /\ Begin(s, Len(h) + 1) <= Begin(s, c)
         /\ Ahead(p) > 0 => c \in 1 .. Len(s)
<1> DEFINE g == Len(h)
           b == Begin(s, g + 1)
<1>1. s \in Seq(Frames) /\ h \in Seq(Seq(Byte)) /\ g <= Len(s) /\ Sound(p)
      /\ c \in g + 1 .. Len(s) + 1 /\ Unread(s, b, p) /\ Phase(s, b, p, c)
  BY DEF Receiving, InFrame, Passed
<1>2. g \in Nat /\ Len(s) \in Nat
  BY <1>1, LenProperties
<1>3. g \in 0 .. Len(s) /\ g + 1 \in 1 .. Len(s) + 1 /\ c \in 1 .. Len(s) + 1
  BY <1>1, <1>2
<1>4. b \in Nat /\ Begin(s, c) \in Nat
  BY <1>1, <1>3, BeginFacts
<1>5. b <= Begin(s, c)
  BY <1>1, <1>3, BeginMonotone
<1>6. ASSUME Ahead(p) > 0 PROVE c \in 1 .. Len(s)
  <2>1. CASE AtHead(s, b, p, c)
    <3>1. b + p.readAt = Begin(s, c) /\ b + p.size <= Len(Sent(s)) /\ p.readAt < p.size
          /\ p.readAt \in Nat /\ p.size \in Nat
      BY <1>1, <1>6, <2>1, SoundFacts DEF AtHead, Unread
    <3>2. Len(Sent(s)) = Begin(s, Len(s) + 1)
      BY <1>1, SentFacts
    <3>3. c # Len(s) + 1
      <4> HIDE DEF b
      <4>1. Begin(s, c) < Len(Sent(s)) /\ Begin(s, Len(s) + 1) \in Nat
        <5>1. Begin(s, Len(s) + 1) \in Nat
          <6>1. Len(s) + 1 \in 1 .. Len(s) + 1
            BY <1>2
          <6> QED BY <1>1, <6>1, BeginFacts
        <5> QED BY ONLY <1>4, <3>1, <3>2, <5>1
      <4> QED BY <1>4, <3>2, <4>1
    <3> QED BY <1>2, <1>3, <3>3
  <2>2. CASE c <= Len(s)
    BY <1>2, <1>3, <2>2
  <2> QED BY <1>1, <2>1, <2>2 DEF Phase
<1> QED BY <1>1, <1>2, <1>3, <1>4, <1>5, <1>6

\* An iteration of the do-while.
LEMMA Iteration ==
  ASSUME NEW s, NEW n, NEW p, NEW h, NEW a, NEW c, Receiving(s, n, p, h, a, c),
         Ahead(p) > 0, NEW q, q = Parse(p)
  PROVE  /\ ~GivesUp(p) /\ Sound(q) /\ q.size = p.size /\ c \in 1 .. Len(s)
         /\ \/ Stuck(s, n, p, q, h, c)
            \/ Moved(s, n, p, q, h, a, c)
            \/ Ended(s, n, p, q, h, c)
<1> DEFINE b == Begin(s, Len(h) + 1)
           B == Begin(s, c)
<1>1. /\ s \in Seq(Frames) /\ Unbarred(s) /\ Sound(p) /\ n = b + p.size
      /\ Unread(s, b, p) /\ Phase(s, b, p, c) /\ Passed(s, Len(h), a, c)
  BY DEF Receiving, InFrame
<1>2. c \in 1 .. Len(s) /\ b \in Nat /\ B \in Nat /\ b <= B /\ c <= Len(s)
  BY ReceivingFacts
<1>3. p.readAt \in Nat /\ p.size \in Nat /\ p.readAt + Ahead(p) = p.size /\ Ahead(p) \in Nat
  BY <1>1, SoundFacts
<1>4. HeadSize(s[c]) >= 6 /\ HeadSize(s[c]) \in Nat
  BY <1>1, <1>2, FrameBounds
<1>5. \A x : Shows(s, b, x, c) => x.wbs # 0
  <2> TAKE x
  <2> HAVE Shows(s, b, x, c)
  <2>1. x.wbs = B - b + 1
    BY DEF Shows
  <2> HIDE DEF b, B
  <2> QED BY <1>2, <2>1
<1> HIDE DEF b, B
<1>6. CASE AtHead(s, b, p, c)
  <2>1. p.state = "head" /\ b + p.readAt = B
    BY <1>6 DEF AtHead, B
  <2>2. CASE Ahead(p) >= 2
    <3>1. /\ Sound(q) /\ Unread(s, b, q) /\ AtPayload(s, b, q, c)
          /\ q.size = p.size /\ q.index = 0 /\ q # p
      BY <1>1, <1>2, <1>6, <2>2, HeadPhase
    <3>2. q.wbs # 0
      BY <1>5, <3>1 DEF AtPayload
    <3>3. Moved(s, n, p, q, h, a, c)
      BY <1>1, <1>2, <3>1, <3>2 DEF Moved, InFrame, Phase, b
    <3>4. ~GivesUp(p)
      BY <2>1 DEF GivesUp
    <3> QED BY <1>2, <3>1, <3>3, <3>4
  <2>3. CASE ~(Ahead(p) >= 2)
    <3>1. Ahead(p) = 1
      BY <1>3, <2>3
    <3>2. q = p
      BY <2>1, <3>1 DEF Parse, ParseHead
    <3>3. n > B /\ n < B + HeadSize(s[c])
      <4> DEFINE r == p.readAt
                 z == p.size
                 e == HeadSize(s[c])
      <4>1. /\ n = b + z /\ b + r = B /\ r + 1 = z /\ r \in Nat /\ b \in Nat
            /\ e \in Nat /\ e >= 6
        BY <1>1, <1>2, <1>3, <1>4, <2>1, <3>1
      <4> HIDE DEF r, z, e
      <4>2. n > B /\ n < B + e
        BY ONLY <4>1
      <4> QED BY <4>2 DEF e
    <3>4. Stuck(s, n, p, q, h, c)
      BY <1>2, <1>6, <3>1, <3>2, <3>3 DEF Stuck, Inside, b, B
    <3>5. ~GivesUp(p)
      BY <2>1 DEF GivesUp
    <3> QED BY <1>1, <1>2, <3>2, <3>4, <3>5
  <2> QED BY <2>2, <2>3
<1>7. CASE AtPayload(s, b, p, c)
  <2>1. /\ Sound(q) /\ Unread(s, b, q) /\ q.size = p.size /\ q.index = 0
        /\ \/ q = p /\ b + p.size < B + HeadSize(s[c])
           \/ q # p /\ AtMask(s, b, q, c)
    BY <1>1, <1>2, <1>7, PayloadPhase DEF B
  <2>2. ~GivesUp(p)
    BY <1>7 DEF GivesUp, AtPayload
  <2>3. CASE q = p /\ b + p.size < B + HeadSize(s[c])
    <3>1. b + p.readAt = B + 2
      BY <1>7 DEF AtPayload, B
    <3>2. n > B /\ n < B + HeadSize(s[c])
      <4> DEFINE r == p.readAt
                 z == p.size
                 e == HeadSize(s[c])
      <4>1. /\ n = b + z /\ b + r = B + 2 /\ r <= z /\ b + z < B + e
            /\ r \in Nat /\ z \in Nat /\ b \in Nat /\ B \in Nat /\ e \in Nat
        BY <1>1, <1>2, <1>3, <1>4, <2>3, <3>1
      <4> HIDE DEF r, z, e
      <4>2. n > B /\ n < B + e
        BY ONLY <4>1
      <4> QED BY <4>2 DEF e
    <3>3. Stuck(s, n, p, q, h, c)
      BY <1>2, <2>1, <2>3, <3>2 DEF Stuck, Inside, B
    <3> QED BY <1>2, <2>1, <2>2, <3>3
  <2>4. CASE q # p /\ AtMask(s, b, q, c)
    <3>1. q.wbs # 0
      BY <1>5, <2>4 DEF AtMask
    <3>2. Moved(s, n, p, q, h, a, c)
      BY <1>1, <1>2, <2>1, <2>4, <3>1 DEF Moved, InFrame, Phase, b
    <3> QED BY <1>2, <2>1, <2>2, <3>2
  <2> QED BY <2>1, <2>3, <2>4
<1>8. CASE AtMask(s, b, p, c)
  <2>1. /\ Sound(q) /\ Unread(s, b, q) /\ q.size = p.size /\ q.index = 0
        /\ \/ q = p /\ b + p.size < B + HeadSize(s[c])
           \/ q # p /\ AtData(s, b, q, c)
    BY <1>1, <1>2, <1>8, MaskPhase DEF B
  <2>2. ~GivesUp(p)
    BY <1>8 DEF GivesUp, AtMask
  <2>3. CASE q = p /\ b + p.size < B + HeadSize(s[c])
    <3> DEFINE w == s[c].wide
    <3>1. b + p.readAt = B + 2 + w /\ w \in Nat /\ HeadSize(s[c]) = 6 + w
      <4>1. w \in {0, 2, 8} /\ HeadSize(s[c]) = 6 + w
        BY <1>1, <1>2, FrameFacts
      <4>2. b + p.readAt = B + 2 + w
        BY <1>8 DEF AtMask, B
      <4>3. w \in Nat
        BY ONLY <4>1
      <4> QED BY <4>1, <4>2, <4>3
    <3>2. n > B /\ n < B + HeadSize(s[c])
      <4> HIDE DEF w
      <4>1. n = b + p.size /\ b + p.size < B + HeadSize(s[c])
        BY <1>1, <2>3
      <4> QED BY ONLY <1>2, <1>3, <3>1, <4>1
    <3>3. Stuck(s, n, p, q, h, c)
      BY <1>2, <2>1, <2>3, <3>2 DEF Stuck, Inside, B
    <3> QED BY <1>2, <2>1, <2>2, <3>3
  <2>4. CASE q # p /\ AtData(s, b, q, c)
    <3>1. q.wbs # 0
      BY <1>5, <2>4 DEF AtData
    <3>2. Moved(s, n, p, q, h, a, c)
      BY <1>1, <1>2, <2>1, <2>4, <3>1 DEF Moved, InFrame, Phase, b
    <3> QED BY <1>2, <2>1, <2>2, <3>2
  <2> QED BY <2>1, <2>3, <2>4
<1>9. CASE AtData(s, b, p, c)
  <2>1. /\ ~GivesUp(p)
        /\ Sound(q) /\ Unread(s, b, q) /\ q.size = p.size
        /\ \/ AtData(s, b, q, c) /\ Ahead(q) = 0 /\ q.index < q.len
           \/ /\ q # p /\ AtHead(s, b, q, c + 1) /\ Shows(s, b, q, c)
              /\ q.index = Len(s[c].text) /\ q.len = q.index
              /\ Plain(s, b, q, c, q.index)
    BY <1>1, <1>2, <1>9, DataPhase
  <2>2. CASE AtData(s, b, q, c) /\ Ahead(q) = 0 /\ q.index < q.len
    <3>1. q.wbs # 0
      BY <1>5, <2>2 DEF AtData
    <3>2. Moved(s, n, p, q, h, a, c)
      BY <1>1, <1>2, <2>1, <2>2, <3>1 DEF Moved, InFrame, Phase, b
    <3> QED BY <1>2, <2>1, <3>2
  <2>3. CASE /\ q # p /\ AtHead(s, b, q, c + 1) /\ Shows(s, b, q, c)
             /\ q.index = Len(s[c].text) /\ q.len = q.index
             /\ Plain(s, b, q, c, q.index)
    <3>1. Ended(s, n, p, q, h, c)
      BY <1>1, <1>5, <2>1, <2>3 DEF Ended, b
    <3> QED BY <1>2, <2>1, <3>1
  <2> QED BY <2>1, <2>2, <2>3
<1> QED BY <1>1, <1>6, <1>7, <1>8, <1>9 DEF Phase

\* A frame that is taken for complete when nothing has changed: either one
\* byte is all there is, or the frame before it is a control frame.
LEMMA StuckComplete ==
  ASSUME NEW s, NEW n, NEW p, NEW h, NEW a, NEW c, Receiving(s, n, p, h, a, c),
         NEW q, Stuck(s, n, p, q, h, c), Complete(q)
  PROVE  q.size = 1 \/ Opcode(q) \in {CLSE, PING, PONG, UNSUPPORTED}
<1> DEFINE g == Len(h)
           b == Begin(s, g + 1)
           d == c - 1
<1>1. /\ s \in Seq(Frames) /\ Sound(p) /\ q = p /\ c \in 1 .. Len(s)
      /\ \A i \in g + 1 .. c - 1 : ~Delivered(s[i])
  BY DEF Receiving, Stuck, Inside, InFrame, Passed
<1>2. q.index # 0 /\ Fin(q)
  BY DEF Complete
<1>3. Ahead(p) = 1 /\ AtHead(s, b, p, c)
  BY <1>2 DEF Stuck
<1>4. p.readAt \in Nat /\ p.size \in Nat /\ p.readAt + Ahead(p) = p.size
  BY <1>1, SoundFacts
<1>5. CASE p.readAt = 0
  BY <1>1, <1>3, <1>4, <1>5
<1>6. CASE p.readAt # 0
  <2>1. b + p.readAt = Begin(s, c) /\ Shows(s, b, p, d) /\ p.index = Len(s[d].text)
    BY <1>3, <1>6 DEF AtHead
  <2>2. g \in Nat /\ c \in g + 1 .. Len(s) + 1 /\ Len(s) \in Nat /\ b \in Nat
    BY ReceivingFacts
  <2>3. c # g + 1
    <3>1. Begin(s, c) # b
      <4> HIDE DEF b
      <4> QED BY <1>4, <1>6, <2>1, <2>2
    <3> QED BY <3>1
  <2>4. d \in g + 1 .. c - 1 /\ d \in 1 .. Len(s)
    BY <1>1, <2>2, <2>3
  <2> HIDE DEF d
  <2>5. ~Delivered(s[d])
    BY <1>1, <2>4
  <2>6. (Fin(p) <=> s[d].fin) /\ Opcode(p) = s[d].op
    BY <1>1, <2>1, <2>2, <2>4, ShownHead
  <2>7. s[d].text # <<>>
    BY <1>1, <1>2, <2>1
  <2> QED BY <1>1, <1>2, <2>5, <2>6, <2>7 DEF Delivered, IsData
<1> QED BY <1>5, <1>6

\* The test for a complete frame tells at the end of one.
LEMMA EndedComplete ==
  ASSUME NEW s, NEW n, NEW p, NEW h, NEW a, NEW c, Receiving(s, n, p, h, a, c),
         c \in 1 .. Len(s), NEW q, Sound(q), Ended(s, n, p, q, h, c)
  PROVE  /\ Complete(q) <=> s[c].fin /\ s[c].text # <<>>
         /\ Opcode(q) = s[c].op /\ FrameHeadSize(q) = HeadSize(s[c])
<1> DEFINE b == Begin(s, Len(h) + 1)
<1>1. s \in Seq(Frames) /\ Shows(s, b, q, c) /\ q.index = Len(s[c].text) /\ q.len = q.index
  BY DEF Receiving, Ended
<1>2. b \in Nat
  BY ReceivingFacts
<1>3. (Fin(q) <=> s[c].fin) /\ Opcode(q) = s[c].op /\ FrameHeadSize(q) = HeadSize(s[c])
  BY <1>1, <1>2, ShownHead
<1>4. s[c].text # <<>> <=> q.index # 0
  <2>1. s[c].text \in Seq(Byte)
    BY <1>1, StreamFacts, FramedTypes
  <2>2. Len(<<>>) = 0 /\ (s[c].text # <<>> => Len(s[c].text) # 0)
    BY <2>1, EmptySeq
  <2> QED BY <1>1, <2>2
<1>5. q.index >= q.len
  <2>1. q.index \in Nat
    BY SoundFacts
  <2> QED BY <1>1, <2>1
<1> QED BY <1>3, <1>4, <1>5 DEF Complete

\* A frame that is not handed over stays in the allocation.
LEMMA EndedOver ==
  ASSUME NEW s, NEW n, NEW p, NEW h, NEW a, NEW c, Receiving(s, n, p, h, a, c),
         c \in 1 .. Len(s), NEW q, Ended(s, n, p, q, h, c), ~Delivered(s[c]),
         NEW e, Len(e) = Cardinality(Answers(s, c))
  PROVE  InFrame(s, n, q, h, e, c + 1)
<1> DEFINE g == Len(h)
<1>1. g \in Nat /\ c \in g + 1 .. Len(s) + 1 /\ Len(s) \in Nat
  BY ReceivingFacts
<1>2. /\ \A i \in 1 .. g : Delivered(s[i])
      /\ \A i \in g + 1 .. c - 1 : ~Delivered(s[i])
  BY DEF Receiving, InFrame, Passed
<1>3. c + 1 \in g + 1 .. Len(s) + 1 /\ (c + 1) - 1 = c
  BY <1>1
<1>4. \A i \in g + 1 .. (c + 1) - 1 : ~Delivered(s[i])
  <2> TAKE i \in g + 1 .. (c + 1) - 1
  <2>1. i = c \/ i \in g + 1 .. c - 1
    BY <1>1
  <2> QED BY <1>2, <2>1
<1>5. Passed(s, g, e, c + 1)
  BY <1>2, <1>3, <1>4 DEF Passed
<1> QED BY <1>5 DEF Ended, InFrame, Phase

\* What is left when everything that is there is dropped.
LEMMA Emptied ==
  ASSUME NEW q, Sound(q), NEW k, q.size - k = 0, NEW r, r = Compact(q, k)
  PROVE  /\ Sound(r) /\ Ahead(r) = 0
         /\ r.size = 0 /\ r.readAt = 0 /\ r.state = q.state
<1> DEFINE m == [j \in 1 .. DataCap |-> q.mem[j]]
<1>1. q.mem \in [1 .. DataCap -> Byte] /\ DataCap \in Nat
  BY SoundFacts
<1>2. \A j \in 1 .. DataCap : ~(j <= q.size - k)
  OBVIOUS
<1>3. r = [q EXCEPT !.size = 0, !.readAt = 0, !.mem = m]
  BY <1>2 DEF Compact
<1>4. 0 \in 0 .. DataCap /\ m \in [1 .. DataCap -> Byte]
  BY <1>1
<1> HIDE DEF m
<1>5. /\ r \in ParserTypes /\ r.size = 0 /\ r.readAt = 0 /\ r.state = q.state
      /\ r.index = q.index /\ r.len = q.len /\ r.wbs = q.wbs
  BY ONLY Sound(q), <1>3, <1>4 DEF Sound, ParserTypes
<1> QED BY <1>5 DEF Sound, Ahead

\* A frame that is handed over is all there is, and leaves nothing behind.
LEMMA EndedDelivered ==
  ASSUME NEW s, NEW n, NEW p, NEW h, NEW a, NEW c, Receiving(s, n, p, h, a, c),
         c \in 1 .. Len(s), NEW q, Sound(q), Ended(s, n, p, q, h, c),
         Delivered(s[c]), NEW k, k = HeadSize(s[c]), ~(q.len < q.size - k),
         NEW t, t = Stored(q, k + 1, q.len), NEW r, r = Compact(q, k + q.len),
         Len(a) = Cardinality(Answers(s, c))
  PROVE  /\ q.len = q.size - k /\ t = s[c].text
         /\ Append(h, t) \in Seq(Seq(Byte)) /\ Len(Append(h, t)) = c
         /\ \A i \in 1 .. Len(h) : Append(h, t)[i] = h[i]
         /\ Append(h, t)[c] = s[c].text
         /\ Sound(r) /\ Ahead(r) = 0 /\ InFrame(s, n, r, Append(h, t), a, c + 1)
<1> DEFINE g == Len(h)
           b == Begin(s, g + 1)
           B == Begin(s, c)
           T == Len(s[c].text)
           z == q.size
<1>1. /\ s \in Seq(Frames) /\ h \in Seq(Seq(Byte)) /\ n = b + z /\ Unread(s, b, q)
      /\ Shows(s, b, q, c) /\ q.len = T /\ Plain(s, b, q, c, T)
      /\ q.state = "head" /\ b + q.readAt = Begin(s, c + 1)
  BY DEF Receiving, Ended, AtHead
<1>2. /\ g \in Nat /\ c \in g + 1 .. Len(s) + 1 /\ Len(s) \in Nat /\ b \in Nat /\ B \in Nat
      /\ b <= B
  BY ReceivingFacts
<1>3. /\ k \in Nat /\ k >= 6 /\ T \in Nat /\ Begin(s, c + 1) = B + k + T
      /\ s[c].text \in Seq(Byte)
  <2>1. /\ B \in Nat /\ HeadSize(s[c]) \in Nat /\ HeadSize(s[c]) >= 6 /\ T \in Nat
        /\ Begin(s, c + 1) = B + HeadSize(s[c]) + T
    BY ONLY <1>1, c \in 1 .. Len(s), FrameBounds
  <2>2. k = HeadSize(s[c])
    OBVIOUS
  <2>3. s[c].text \in Seq(Byte)
    BY <1>1, StreamFacts, FramedTypes
  <2> QED BY <2>1, <2>2, <2>3
<1>4. z \in 0 .. DataCap /\ DataCap \in Nat /\ q.readAt \in 0 .. z /\ q.mem \in [1 .. DataCap -> Byte]
      /\ q.index \in Nat /\ q.index <= q.len
  BY SoundFacts
<1>5. ~(T < z - k)
  BY <1>1
<1> HIDE DEF b, B, T, z
<1>6. B = b /\ z = k + T
  <2> DEFINE x == q.readAt
  <2>1. /\ b + x = B + k + T /\ x \in Nat /\ x <= z /\ z \in Nat
        /\ b \in Nat /\ B \in Nat /\ b <= B /\ k \in Nat /\ T \in Nat
    BY <1>1, <1>2, <1>3, <1>4
  <2> HIDE DEF x
  <2> QED BY ONLY <1>5, <2>1
<1>7. c = g + 1
  <2>1. CASE c # g + 1
    <3>1. g + 1 \in 1 .. Len(s) /\ g + 1 + 1 \in 1 .. Len(s) + 1 /\ c \in g + 1 + 1 .. Len(s) + 1
      BY <1>2, <2>1
    <3>2. Begin(s, g + 1 + 1) <= B
      BY <1>1, <3>1, BeginMonotone DEF B
    <3>3. Begin(s, g + 1 + 1) = b + Size(s, g + 1) /\ Size(s, g + 1) \in Nat /\ Size(s, g + 1) >= 6
      BY <1>1, <3>1, BeginFacts, EncodedType DEF b
    <3> QED BY <1>2, <1>6, <3>2, <3>3
  <2> QED BY <2>1
<1>8. t = s[c].text
  <2>1. t = [i \in 1 .. T |-> q.mem[(k + 1) + i - 1]]
    BY <1>1 DEF Stored
  <2>2. ASSUME NEW i \in 1 .. T PROVE q.mem[(k + 1) + i - 1] = s[c].text[i]
    <3>1. (k + 1) + i - 1 = B - b + k + i
      BY <1>2, <1>3, <1>6
    <3>2. q.mem[B - b + k + i] = s[c].text[i]
      BY <1>1 DEF Plain, B
    <3> QED BY <3>1, <3>2
  <2>3. s[c].text = [i \in 1 .. T |-> s[c].text[i]]
    <3> DEFINE u == s[c].text
    <3>1. u \in [1 .. T -> Byte]
      BY <1>3, LenProperties DEF T
    <3> HIDE DEF u
    <3>2. u = [i \in 1 .. T |-> u[i]]
      BY <3>1
    <3> QED BY <3>2 DEF u
  <2> QED BY <2>1, <2>2, <2>3
<1>9. /\ Append(h, t) \in Seq(Seq(Byte)) /\ Len(Append(h, t)) = c
      /\ \A i \in 1 .. g : Append(h, t)[i] = h[i]
      /\ Append(h, t)[c] = s[c].text
  <2>1. t \in Seq(Byte)
    BY <1>3, <1>8
  <2>2. /\ Append(h, t) \in Seq(Seq(Byte)) /\ Len(Append(h, t)) = Len(h) + 1
        /\ \A i \in 1 .. Len(h) : Append(h, t)[i] = h[i]
        /\ Append(h, t)[Len(h) + 1] = t
    BY <1>1, <2>1, AppendProperties
  <2> QED BY <1>7, <1>8, <2>2
<1>10. r.size = 0 /\ r.readAt = 0 /\ r.state = "head" /\ Sound(r) /\ Ahead(r) = 0
  <2>1. q.size - (k + q.len) = 0
    BY <1>1, <1>3, <1>6 DEF z
  <2> DEFINE x == k + q.len
  <2>2. q.size - x = 0 /\ r = Compact(q, x)
    BY <2>1
  <2> HIDE DEF x
  <2> QED BY <1>1, <2>2, Emptied
<1>11. InFrame(s, n, r, Append(h, t), a, c + 1)
  <2> DEFINE x == Begin(s, c + 1)
  <2>1. c + 1 \in 1 .. Len(s) + 1 /\ x \in Nat /\ x = b + z
    <3>1. c + 1 \in 1 .. Len(s) + 1
      BY <1>2
    <3>2. x \in Nat
      BY <1>1, <3>1, BeginFacts
    <3>3. x = b + z
      BY <1>2, <1>3, <1>6
    <3> QED BY <3>1, <3>2, <3>3
  <2> HIDE DEF x
  <2>2. n = x + r.size /\ x + r.readAt = x
    BY <1>1, <1>10, <2>1
  <2>3. Unread(s, x, r)
    <3>1. x <= Len(Sent(s))
      BY <1>1, FrameFacts DEF x
    <3> QED BY <1>10, <2>1, <3>1 DEF Unread
  <2>4. AtHead(s, x, r, c + 1)
    BY <1>10, <2>2 DEF AtHead, x
  <2>5. Passed(s, c, a, c + 1)
    <3>1. \A i \in 1 .. c : Delivered(s[i])
      <4>1. \A i \in 1 .. g : Delivered(s[i])
        BY DEF Receiving, InFrame, Passed
      <4>2. \A i \in 1 .. c : i \in 1 .. g \/ i = c
        BY <1>2, <1>7
      <4> QED BY <4>1, <4>2
    <3>2. \A i \in c + 1 .. (c + 1) - 1 : FALSE
      BY <1>2
    <3>3. c + 1 \in c + 1 .. Len(s) + 1 /\ (c + 1) - 1 = c
      BY <1>2
    <3> QED BY <3>1, <3>2, <3>3 DEF Passed
  <2> QED BY <1>9, <2>2, <2>3, <2>4, <2>5 DEF InFrame, Phase, x
<1> QED BY <1>1, <1>3, <1>4, <1>6, <1>8, <1>9, <1>10, <1>11 DEF z

-----------------------------------------------------------------------------
(* A piece of the stream arrives.                                          *)

LEMMA AppendStep ==
  ASSUME NEW p, Sound(p), NEW x \in Seq(Byte), Len(x) > 0, Fits(p, x),
         NEW q, q = AppendChunk(p, x)
  PROVE  /\ Sound(q) /\ Ahead(q) > 0
         /\ q.size = p.size + Len(x) /\ q.readAt = p.readAt /\ q.state = p.state
         /\ q.index = p.index /\ q.len = p.len /\ q.wbs = p.wbs /\ q.masks = p.masks
         /\ \A j \in 1 .. p.size : q.mem[j] = p.mem[j]
         /\ \A i \in 1 .. Len(x) : q.mem[p.size + i] = x[i]
<1> DEFINE m == [j \in 1 .. DataCap |-> IF j - p.size \in 1 .. Len(x) THEN x[j - p.size] ELSE p.mem[j]]
           z == p.size + Len(x)
<1>1. /\ p.mem \in [1 .. DataCap -> Byte] /\ p.size \in 0 .. DataCap /\ DataCap \in Nat
      /\ p.readAt \in 0 .. p.size /\ Len(x) \in Nat
  BY SoundFacts, LenProperties
<1>2. z \in 0 .. DataCap /\ p.readAt <= z /\ z > p.readAt
  <2>1. Len(x) < DataCap - p.size
    BY DEF Fits
  <2> QED BY <1>1, <2>1
<1>3. m \in [1 .. DataCap -> Byte]
  <2>1. ASSUME NEW j \in 1 .. DataCap, j - p.size \in 1 .. Len(x) PROVE x[j - p.size] \in Byte
    BY <2>1, ElementOfSeq
  <2>2. \A j \in 1 .. DataCap : p.mem[j] \in Byte
    BY <1>1
  <2> QED BY <2>1, <2>2
<1>4. q = [p EXCEPT !.size = z, !.mem = m]
  BY DEF AppendChunk
<1>5. \A j \in 1 .. p.size : m[j] = p.mem[j]
  <2> TAKE j \in 1 .. p.size
  <2>1. j \in 1 .. DataCap /\ ~(j - p.size \in 1 .. Len(x))
    BY <1>1
  <2> QED BY <2>1
<1>6. \A i \in 1 .. Len(x) : m[p.size + i] = x[i]
  <2> TAKE i \in 1 .. Len(x)
  <2>1. p.size + i \in 1 .. DataCap /\ (p.size + i) - p.size = i
    BY <1>1, <1>2
  <2> QED BY <2>1
<1> HIDE DEF m, z
<1>7. /\ q \in ParserTypes
      /\ q.mem = m /\ q.size = z /\ q.readAt = p.readAt /\ q.state = p.state
      /\ q.index = p.index /\ q.len = p.len /\ q.wbs = p.wbs /\ q.masks = p.masks
  BY ONLY Sound(p), <1>2, <1>3, <1>4 DEF Sound, ParserTypes
<1>8. Sound(q)
  BY <1>2, <1>7 DEF Sound
<1>9. Ahead(q) > 0
  BY <1>1, <1>2, <1>7 DEF Ahead
<1> QED BY <1>5, <1>6, <1>7, <1>8, <1>9 DEF z

\* What lies behind the parser is not touched.
LEMMA ShowsKept ==
  ASSUME NEW s \in Seq(Frames), NEW c \in 1 .. Len(s), NEW b \in Nat,
         NEW p, Sound(p), Shows(s, b, p, c), b + p.readAt >= Begin(s, c) + 2,
         NEW q, q.wbs = p.wbs, \A j \in 1 .. p.size : q.mem[j] = p.mem[j]
  PROVE  Shows(s, b, q, c)
<1> DEFINE B == Begin(s, c)
           x == p.wbs
           r == p.readAt
<1>1. b <= B /\ x = B - b + 1 /\ p.mem[x] = Encoded(s[c])[1] /\ p.mem[x + 1] = Encoded(s[c])[2]
  BY DEF Shows
<1>2. B \in Nat /\ r \in 0 .. p.size /\ p.size \in Nat /\ b + r >= B + 2
  <2>1. B \in Nat
    BY FrameBounds
  <2>2. r \in 0 .. p.size /\ p.size \in Nat
    BY SoundFacts
  <2> QED BY <2>1, <2>2
<1> HIDE DEF B, x, r
<1>3. x \in 1 .. p.size /\ x + 1 \in 1 .. p.size
  <2>1. b <= B /\ x = B - b + 1
    BY <1>1
  <2> QED BY ONLY b \in Nat, <1>2, <2>1
<1> QED BY <1>1, <1>3 DEF Shows, B, x

LEMMA PieceType ==
  ASSUME NEW S \in Seq(Byte), NEW n \in Nat, NEW k \in Nat \ {0}, n + k <= Len(S)
  PROVE  /\ SubSeq(S, n + 1, n + k) \in Seq(Byte) /\ Len(SubSeq(S, n + 1, n + k)) = k
         /\ \A i \in 1 .. k : SubSeq(S, n + 1, n + k)[i] = S[n + i]
<1> DEFINE u == n + 1
           v == n + k
           N == Len(S)
<1>1. N \in Nat
  BY LenProperties
<1>2. u \in 1 .. N /\ v \in 1 .. N /\ v - u + 1 = k /\ u <= v /\ u \in Int /\ v \in Int
      /\ \A i \in 1 .. k : u + i - 1 = n + i
  BY <1>1
<1>3. \A i \in u .. v : S[i] \in Byte
  <2> TAKE i \in u .. v
  <2>1. i \in 1 .. N
    BY <1>1
  <2> QED BY <2>1, ElementOfSeq
<1> HIDE DEF u, v, N
<1>4. SubSeq(S, u, v) \in Seq(Byte)
  BY ONLY <1>2, <1>3, SubSeqProperties
<1>5. Len(SubSeq(S, u, v)) = (IF u <= v THEN v - u + 1 ELSE 0)
  BY ONLY <1>2, <1>3, SubSeqProperties
<1>6. \A i \in 1 .. v - u + 1 : SubSeq(S, u, v)[i] = S[u + i - 1]
  BY ONLY <1>2, <1>3, SubSeqProperties
<1>7. /\ SubSeq(S, u, v) \in Seq(Byte) /\ Len(SubSeq(S, u, v)) = k
      /\ \A i \in 1 .. k : SubSeq(S, u, v)[i] = S[n + i]
  BY ONLY <1>2, <1>4, <1>5, <1>6
<1> QED BY <1>7 DEF u, v

LEMMA ReceivePhase ==
  ASSUME NEW s, NEW n, NEW p, NEW h, NEW a, NEW c, Receiving(s, n, p, h, a, c),
         Ahead(p) = 0, NEW k \in 1 .. Len(Sent(s)) - n,
         NEW x, x = SubSeq(Sent(s), n + 1, n + k), Fits(p, x), NEW q, q = AppendChunk(p, x)
  PROVE  InFrame(s, n + k, q, h, a, c)
<1> DEFINE g == Len(h)
           b == Begin(s, g + 1)
           N == Len(Sent(s))
           z == p.size
<1>1. /\ s \in Seq(Frames) /\ Sound(p) /\ n = b + z /\ Unread(s, b, p) /\ Phase(s, b, p, c)
      /\ Passed(s, g, a, c)
  BY DEF Receiving, InFrame
<1>2. /\ g \in 0 .. Len(s) /\ Len(s) \in Nat /\ c \in g + 1 .. Len(s) + 1
      /\ b \in Nat /\ Begin(s, c) \in Nat
  BY ReceivingFacts
<1>3. Sent(s) \in Seq(Byte) /\ N \in Nat
  BY <1>1, SentFacts, LenProperties
<1>4. z \in Nat /\ p.readAt \in Nat /\ p.readAt = z /\ p.readAt \in 0 .. z
  BY <1>1, SoundFacts
<1>5. n = b + z /\ n \in Nat /\ k \in Nat \ {0} /\ n + k <= N /\ b \in Nat /\ z \in Nat
  <2>1. n = b + z /\ b \in Nat /\ z \in Nat /\ N \in Nat /\ k \in 1 .. N - n
    BY <1>1, <1>2, <1>3, <1>4
  <2> HIDE DEF b, z, N
  <2> QED BY ONLY <2>1
<1> HIDE DEF b, z, N
<1>6. x \in Seq(Byte) /\ Len(x) = k /\ \A i \in 1 .. k : x[i] = Sent(s)[n + i]
  <2> DEFINE S == Sent(s)
  <2>1. S \in Seq(Byte) /\ n \in Nat /\ k \in Nat \ {0} /\ n + k <= Len(S) /\ x = SubSeq(S, n + 1, n + k)
    BY <1>3, <1>5 DEF N
  <2>2. Sent(s) = S
    OBVIOUS
  <2> HIDE DEF S
  <2>3. /\ SubSeq(S, n + 1, n + k) \in Seq(Byte) /\ Len(SubSeq(S, n + 1, n + k)) = k
        /\ \A i \in 1 .. k : SubSeq(S, n + 1, n + k)[i] = S[n + i]
    BY ONLY <2>1, PieceType
  <2> QED BY ONLY <2>1, <2>2, <2>3
<1>7. /\ Sound(q) /\ Ahead(q) > 0
      /\ q.size = z + k /\ q.readAt = p.readAt /\ q.state = p.state
      /\ q.index = p.index /\ q.len = p.len /\ q.wbs = p.wbs /\ q.masks = p.masks
      /\ \A j \in 1 .. z : q.mem[j] = p.mem[j]
      /\ \A i \in 1 .. k : q.mem[z + i] = x[i]
  <2>1. Sound(p) /\ x \in Seq(Byte) /\ Len(x) > 0 /\ Fits(p, x) /\ q = AppendChunk(p, x)
    <3>1. Len(x) > 0
      BY ONLY <1>5, <1>6
    <3> QED BY <1>1, <1>6, <3>1
  <2>2. /\ Sound(q) /\ Ahead(q) > 0
        /\ q.size = p.size + Len(x) /\ q.readAt = p.readAt /\ q.state = p.state
        /\ q.index = p.index /\ q.len = p.len /\ q.wbs = p.wbs /\ q.masks = p.masks
    BY ONLY <2>1, AppendStep
  <2>3. \A j \in 1 .. p.size : q.mem[j] = p.mem[j]
    BY ONLY <2>1, AppendStep
  <2>4. \A i \in 1 .. Len(x) : q.mem[p.size + i] = x[i]
    BY ONLY <2>1, AppendStep
  <2> QED BY ONLY <1>6, <2>2, <2>3, <2>4 DEF z
<1>8. Unread(s, b, q) /\ n + k = b + q.size
  <2> DEFINE r == q.readAt
             y == q.size
  <2>0. r = z /\ y = z + k
    BY <1>4, <1>7
  <2>1. ASSUME NEW j \in r + 1 .. y PROVE q.mem[j] = Sent(s)[b + j]
    <3> HIDE DEF r, y
    <3> DEFINE i == j - z
    <3>1. i \in 1 .. k /\ z + i = j /\ n + i = b + j
      BY ONLY j \in r + 1 .. y, <1>5, <2>0
    <3> HIDE DEF i
    <3>2. q.mem[z + i] = x[i] /\ x[i] = Sent(s)[n + i]
      BY ONLY <1>6, <1>7, <3>1
    <3> QED BY ONLY <3>1, <3>2
  <2>2. b + y = n + k /\ b + y <= N
    <3> HIDE DEF r, y
    <3> QED BY ONLY <1>5, <2>0
  <2> QED BY <2>1, <2>2 DEF Unread, N
<1>9. \A d \in 1 .. Len(s) : Shows(s, b, p, d) /\ b + p.readAt >= Begin(s, d) + 2 => Shows(s, b, q, d)
  <2>1. /\ s \in Seq(Frames) /\ b \in Nat /\ Sound(p) /\ q.wbs = p.wbs
        /\ \A j \in 1 .. p.size : q.mem[j] = p.mem[j]
    BY <1>1, <1>2, <1>7 DEF z
  <2> TAKE d \in 1 .. Len(s)
  <2> HAVE Shows(s, b, p, d) /\ b + p.readAt >= Begin(s, d) + 2
  <2> QED BY ONLY d \in 1 .. Len(s), Shows(s, b, p, d), b + p.readAt >= Begin(s, d) + 2,
                  <2>1, ShowsKept
<1>10. CASE AtHead(s, b, p, c)
  <2>1. ASSUME p.readAt # 0 PROVE Shows(s, b, q, c - 1)
    <3> DEFINE d == c - 1
    <3>1. Shows(s, b, p, d) /\ b + p.readAt = Begin(s, c)
      BY <1>10, <2>1 DEF AtHead
    <3>2. d \in 1 .. Len(s) /\ d + 1 = c
      <4>1. c # g + 1
        <5>1. Begin(s, c) # b
          BY <1>2, <1>4, <2>1, <3>1
        <5> QED BY <5>1 DEF b
      <4> QED BY <1>2, <4>1
    <3> HIDE DEF d
    <3>3. Begin(s, d + 1) = Begin(s, d) + Size(s, d) /\ Begin(s, d) \in Nat
      <4>1. d \in 1 .. Len(s) + 1
        BY <1>2, <3>2
      <4> QED BY <1>1, <3>2, <4>1, BeginFacts
    <3>4. Size(s, d) \in Nat /\ Size(s, d) >= 6
      BY <1>1, <3>2, EncodedType
    <3>5. b + p.readAt >= Begin(s, d) + 2
      BY <3>1, <3>2, <3>3, <3>4
    <3> QED BY <1>9, <3>1, <3>2, <3>5 DEF d
  <2>2. AtHead(s, b, q, c)
    BY <1>7, <1>10, <2>1 DEF AtHead
  <2> QED BY <1>1, <1>8, <2>2 DEF InFrame, Phase, b
<1>11. CASE c <= Len(s) /\ (AtPayload(s, b, p, c) \/ AtMask(s, b, p, c) \/ AtData(s, b, p, c))
  <2>1. c \in 1 .. Len(s)
    BY <1>2, <1>11
  <2>2. s[c].wide \in {0, 2, 8} /\ HeadSize(s[c]) = 6 + s[c].wide
    BY <1>1, <2>1, FrameFacts
  <2>3. CASE AtPayload(s, b, p, c)
    <3>1. Shows(s, b, q, c)
      BY <1>2, <1>9, <2>1, <2>3 DEF AtPayload
    <3>2. AtPayload(s, b, q, c)
      BY <1>7, <2>3, <3>1 DEF AtPayload
    <3> QED BY <1>1, <1>8, <1>11, <3>2 DEF InFrame, Phase, b
  <2>4. CASE AtMask(s, b, p, c)
    <3>1. b + p.readAt >= Begin(s, c) + 2
      BY <1>2, <2>2, <2>4 DEF AtMask
    <3>2. Shows(s, b, q, c)
      BY <1>9, <2>1, <2>4, <3>1 DEF AtMask
    <3>3. AtMask(s, b, q, c)
      BY <1>7, <2>4, <3>2 DEF AtMask
    <3> QED BY <1>1, <1>8, <1>11, <3>3 DEF InFrame, Phase, b
  <2>5. CASE AtData(s, b, p, c)
    <3> DEFINE B == Begin(s, c)
               H == HeadSize(s[c])
               r == p.readAt
    <3>1. b + r = B + H + p.index /\ H \in Nat /\ H >= 6 /\ p.index \in Nat /\ r = z
      <4>1. b + r = B + H + p.index
        BY <2>5 DEF AtData
      <4>2. H \in Nat /\ H >= 6
        BY <2>2
      <4>3. p.index \in Nat /\ r = z
        BY <1>1, <1>4, SoundFacts
      <4> QED BY <4>1, <4>2, <4>3
    <3>2. b <= B /\ B \in Nat
      BY <1>2, <2>5 DEF AtData, Shows
    <3> HIDE DEF B, H, r
    <3>3. b + r >= B + 2
      BY ONLY <1>2, <3>1, <3>2
    <3>4. Shows(s, b, q, c)
      BY <1>9, <2>1, <2>5, <3>3 DEF AtData, B, r
    <3>5. Plain(s, b, q, c, p.index)
      <4>1. ASSUME NEW j \in 1 .. p.index
            PROVE  q.mem[B - b + H + j] = s[c].text[j]
        <5> DEFINE y == B - b + H + j
        <5>1. y \in 1 .. z
          BY ONLY j \in 1 .. p.index, <1>2, <1>4, <3>1, <3>2
        <5>2. p.mem[y] = s[c].text[j]
          BY <2>5 DEF AtData, Plain, B, H
        <5> HIDE DEF y
        <5>3. q.mem[y] = p.mem[y]
          BY <1>7, <5>1
        <5> QED BY <5>2, <5>3 DEF y
      <4> QED BY <4>1 DEF Plain, B, H
    <3>6. AtData(s, b, q, c)
      BY <1>7, <2>5, <3>4, <3>5 DEF AtData
    <3> QED BY <1>1, <1>8, <1>11, <3>6 DEF InFrame, Phase, b
  <2> QED BY <1>11, <2>3, <2>4, <2>5
<1> QED BY <1>1, <1>10, <1>11 DEF Phase


-----------------------------------------------------------------------------
(* The inductive invariant.                                                *)

\* The first frames have been handed over, and all of these carry data.
Kept(s, h, a) ==
  /\ h \in Seq(Seq(Byte)) /\ Len(h) <= Len(s) /\ a \in Seq(Nat \X Seq(Byte))
  /\ \A k \in 1 .. Len(h) : h[k] = s[k].text /\ IsData(s[k])

\* The connection follows the stream, as long as that is clean.
Follows(s, n, p, l, h, a) ==
  /\ Kept(s, h, a)
  /\ l \in {"handshake", "idle"} => Ahead(p) = 0
  /\ l = "parsing" => Ahead(p) > 0
  /\ l \in {"handshake", "idle", "parsing"} =>
       \E c \in 1 .. Len(s) + 1 : InFrame(s, n, p, h, a, c)
  /\ l = "spinning" => \E c \in 1 .. Len(s) : Inside(s, n, c)

Pcs == {"handshake", "idle", "parsing", "closed", "spinning", "looping", "dead"}

IInv ==
  /\ stream \in Seq(Frames) /\ pos \in 0 .. Len(Sent(stream)) /\ pc \in Pcs
  /\ Sound(parser)
  /\ Unbarred(stream) => Follows(stream, pos, parser, pc, handed, answered)

LEMMA FollowsReceiving ==
  ASSUME NEW s \in Seq(Frames), Unbarred(s), NEW n, NEW p, Sound(p), NEW l, NEW h, NEW a,
         Follows(s, n, p, l, h, a), l \in {"handshake", "idle", "parsing"}
  PROVE  \E c \in 1 .. Len(s) + 1 : Receiving(s, n, p, h, a, c)
BY DEF Follows, Kept, Receiving

\* No callback parses any more.
LEMMA Over ==
  ASSUME NEW s, NEW n, NEW p, NEW l \in {"closed", "dead", "looping"}, NEW h, NEW a,
         Kept(s, h, a)
  PROVE  Follows(s, n, p, l, h, a)
BY DEF Follows

\* The do-while changes nothing any more.
LEMMA Spins ==
  ASSUME NEW s, NEW n, NEW p, NEW c, Inside(s, n, c), NEW h, NEW a, Kept(s, h, a)
  PROVE  Follows(s, n, p, "spinning", h, a)
<1>1. c \in 1 .. Len(s)
  BY DEF Inside
<1> QED BY <1>1 DEF Follows

\* Where an iteration that makes q of p leaves the do-while.
After(p, q) ==
  IF Ahead(q) = 0 THEN "idle" ELSE IF q = p THEN "spinning" ELSE "parsing"

\* The do-while goes on, or there is nothing left to parse.
LEMMA Goes ==
  ASSUME NEW s \in Seq(Frames), NEW n, NEW p, NEW q, Sound(q), NEW h, NEW a, Kept(s, h, a),
         NEW c, InFrame(s, n, q, h, a, c), q # p \/ Ahead(q) = 0,
         NEW l, l = After(p, q)
  PROVE  Follows(s, n, q, l, h, a)
<1>1. c \in 1 .. Len(s) + 1
  <2>1. c \in Len(h) + 1 .. Len(s) + 1 /\ Len(h) \in Nat /\ Len(s) \in Nat
    BY LenProperties DEF InFrame, Passed, Kept
  <2> QED BY <2>1
<1>2. CASE Ahead(q) = 0
  BY <1>1, <1>2 DEF Follows, After
<1>3. CASE Ahead(q) # 0
  <2>1. l = "parsing" /\ Ahead(q) > 0
    BY <1>3, SoundFacts DEF After
  <2> QED BY <1>1, <2>1 DEF Follows
<1> QED BY <1>2, <1>3

\* The end of an iteration that leaves the parser where it was.
LEMMA SpinsAgain ==
  ASSUME NEW s, NEW n, NEW p, Ahead(p) > 0, NEW q, NEW h, NEW g, NEW c,
         Stuck(s, n, p, q, g, c), NEW a, Kept(s, h, a),
         NEW l, l = After(p, q)
  PROVE  Follows(s, n, q, l, h, a)
<1>1. q = p /\ Inside(s, n, c)
  BY DEF Stuck
<1>2. l = "spinning"
  BY <1>1 DEF After
<1> QED BY <1>1, <1>2, Spins

LEMMA Initially == Init => IInv
<1> SUFFICES ASSUME Init PROVE IInv
  OBVIOUS
<1> DEFINE s == stream
           p == NewParser
<1>1. PICK k \in 1 .. MaxFrames : s \in [1 .. k -> Frames]
  BY DEF Init
<1>2. s \in Seq(Frames)
  <2>1. k \in Nat
    BY FrameAssumption
  <2> QED BY <1>1, <2>1, FunctionIsSeq
<1>3. Sound(p) /\ p.size = 0 /\ p.readAt = 0 /\ p.state = "head"
  <2> DEFINE m == [i \in 1 .. DataCap |-> 0]
             x == <<0, 0, 0, 0>>
  <2>1. m \in [1 .. DataCap -> Byte] /\ x \in [1 .. 4 -> Byte] /\ DataCap \in Nat \ {0}
    BY CapAssumption DEF Byte
  <2>2. p = [mem |-> m, size |-> 0, readAt |-> 0, state |-> "head", index |-> 0,
             wbs |-> 0, len |-> 0, masks |-> x]
    BY DEF NewParser
  <2> HIDE DEF m, x, p
  <2> QED BY ONLY <2>1, <2>2, StateNames DEF Sound, ParserTypes
<1>4. pos = 0 /\ parser = p /\ pc = "handshake" /\ handed = <<>> /\ answered = <<>>
  BY DEF Init
<1> HIDE DEF p, s
<1>5. Len(s) \in Nat /\ Begin(s, 1) = 0 /\ Len(Sent(s)) \in Nat
  BY <1>2, BeginFacts, SentFacts, LenProperties
<1>6. Len(<<>>) = 0 /\ <<>> \in Seq(Seq(Byte)) /\ <<>> \in Seq(Nat \X Seq(Byte))
  BY EmptySeq
<1>7. InFrame(s, 0, p, <<>>, <<>>, 1)
  <2>1. Unread(s, 0, p)
    BY <1>3, <1>5 DEF Unread
  <2>2. AtHead(s, 0, p, 1)
    BY <1>3, <1>5 DEF AtHead
  <2>3. Passed(s, 0, <<>>, 1)
    <3>1. 1 - 1 = 0 /\ Len(<<>>) = Cardinality(Answers(s, 0))
      BY <1>6, AnswersFacts
    <3>2. 1 \in 0 + 1 .. Len(s) + 1
      BY <1>5
    <3>3. \A i \in 1 .. 0 : FALSE
      OBVIOUS
    <3>4. \A i \in 0 + 1 .. 1 - 1 : FALSE
      OBVIOUS
    <3> QED BY <3>1, <3>2, <3>3, <3>4 DEF Passed
  <2>4. 0 = 0 + p.size /\ 0 + 1 = 1
    BY <1>3
  <2> QED BY <1>5, <1>6, <2>1, <2>2, <2>3, <2>4 DEF InFrame, Phase
<1>8. Follows(s, 0, p, "handshake", <<>>, <<>>)
  <2>1. Kept(s, <<>>, <<>>)
    BY <1>5, <1>6 DEF Kept
  <2>2. 1 \in 1 .. Len(s) + 1
    BY <1>5
  <2>3. Ahead(p) = 0
    BY <1>3 DEF Ahead
  <2> QED BY <1>7, <2>1, <2>2, <2>3 DEF Follows
<1> QED BY <1>2, <1>3, <1>4, <1>5, <1>8 DEF IInv, Pcs, s

-----------------------------------------------------------------------------
(* Each action preserves the invariant.                                    *)

LEMMA InitFollows ==
  ASSUME IInv, Unbarred(stream), pc \in {"handshake", "idle", "parsing"}
  PROVE  \E c \in 1 .. Len(stream) + 1 : Receiving(stream, pos, parser, handed, answered, c)
BY FollowsReceiving DEF IInv

\* An iteration has parsed up to p: what it has found.
LEMMA Parsed ==
  ASSUME IInv, pc = "parsing", NEW p, p = Parse(parser)
  PROVE  /\ Sound(p)
         /\ Unbarred(stream) =>
              /\ Kept(stream, handed, answered) /\ Ahead(parser) > 0 /\ ~GivesUp(parser)
              /\ p.size = parser.size
              /\ \E c \in 1 .. Len(stream) :
                   /\ Receiving(stream, pos, parser, handed, answered, c)
                   /\ \/ Stuck(stream, pos, parser, p, handed, c)
                      \/ Moved(stream, pos, parser, p, handed, answered, c)
                      \/ Ended(stream, pos, parser, p, handed, c)
<1>1. Sound(p)
  BY ParseSound DEF IInv
<1>2. ASSUME Unbarred(stream)
      PROVE  /\ Kept(stream, handed, answered) /\ Ahead(parser) > 0 /\ ~GivesUp(parser)
             /\ p.size = parser.size
             /\ \E c \in 1 .. Len(stream) :
                  /\ Receiving(stream, pos, parser, handed, answered, c)
                  /\ \/ Stuck(stream, pos, parser, p, handed, c)
                     \/ Moved(stream, pos, parser, p, handed, answered, c)
                     \/ Ended(stream, pos, parser, p, handed, c)
  <2>1. Kept(stream, handed, answered) /\ Ahead(parser) > 0
    BY <1>2 DEF IInv, Follows
  <2>2. PICK c \in 1 .. Len(stream) + 1 : Receiving(stream, pos, parser, handed, answered, c)
    BY <1>2, InitFollows
  <2>3. /\ ~GivesUp(parser) /\ p.size = parser.size /\ c \in 1 .. Len(stream)
        /\ \/ Stuck(stream, pos, parser, p, handed, c)
           \/ Moved(stream, pos, parser, p, handed, answered, c)
           \/ Ended(stream, pos, parser, p, handed, c)
    BY <2>1, <2>2, Iteration
  <2> QED BY <2>1, <2>2, <2>3
<1> QED BY <1>1, <1>2

\* A frame whose end has not come is not complete.
LEMMA MovedIncomplete ==
  ASSUME NEW s, NEW n, NEW p, NEW q, Sound(q), NEW h, NEW a, NEW c,
         Moved(s, n, p, q, h, a, c)
  PROVE  ~Complete(q)
BY SoundFacts DEF Moved, Complete

\* A frame that is passed over: nothing is handed over or answered.
LEMMA PassedOver ==
  ASSUME NEW s, NEW n, NEW p, NEW h, NEW a, NEW c, Receiving(s, n, p, h, a, c), Kept(s, h, a),
         c \in 1 .. Len(s), NEW q, Sound(q), Ended(s, n, p, q, h, c),
         ~Delivered(s[c]), ~Answerable(s[c]),
         NEW l, l = After(p, q)
  PROVE  Follows(s, n, q, l, h, a)
<1>1. s \in Seq(Frames) /\ Len(a) = Cardinality(Answers(s, c - 1))
  BY DEF Receiving, InFrame, Passed
<1>2. Len(a) = Cardinality(Answers(s, c))
  <2>1. c - 1 \in Nat /\ (c - 1) + 1 = c
    BY <1>1, StreamFacts
  <2>2. ~Answerable(s[(c - 1) + 1])
    BY <2>1
  <2> DEFINE k == c - 1
  <2>3. Answers(s, k + 1) = Answers(s, k)
    <3> HIDE DEF k
    <3>1. k \in Nat /\ ~Answerable(s[k + 1])
      BY <2>1, <2>2 DEF k
    <3> QED BY <3>1, AnswersFacts
  <2> QED BY <1>1, <2>1, <2>3
<1> DEFINE d == c + 1
<1>3. InFrame(s, n, q, h, a, d)
  BY <1>2, EndedOver
<1>4. q # p \/ Ahead(q) = 0
  BY DEF Ended
<1>5. Sound(q) /\ Kept(s, h, a) /\ l = After(p, q)
  OBVIOUS
<1> HIDE DEF d
<1> QED BY ONLY <1>1, <1>3, <1>4, <1>5, Goes

LEMMA HandshakeKeeps ==
  ASSUME IInv, Handshake
  PROVE  IInv'
<1>1. /\ pc = "handshake" /\ pc' \in {"idle", "closed", "dead"}
      /\ stream' = stream /\ pos' = pos /\ parser' = parser
      /\ handed' = handed /\ answered' = answered
  BY DEF Handshake
<1>2. ASSUME Unbarred(stream)
      PROVE  Follows(stream, pos, parser, pc', handed, answered)
  <2>1. Follows(stream, pos, parser, pc, handed, answered)
    BY <1>2 DEF IInv
  <2> QED BY <1>1, <2>1 DEF Follows
<1> QED BY <1>1, <1>2 DEF IInv, Pcs

LEMMA BytesIsSent == Bytes = Sent(stream)
BY DEF Bytes, Sent

LEMMA ReceiveKeeps ==
  ASSUME IInv, Receive
  PROVE  IInv'
<1>1. PICK k \in 1 .. Len(Sent(stream)) - pos :
        LET piece == SubSeq(Sent(stream), pos + 1, pos + k)
        IN  /\ pos' = pos + k
            /\ IF Fits(parser, piece)
               THEN parser' = AppendChunk(parser, piece) /\ pc' = "parsing"
               ELSE pc' = "closed" /\ parser' = parser
  BY BytesIsSent DEF Receive
<1> DEFINE x == SubSeq(Sent(stream), pos + 1, pos + k)
<1>2. pos' = pos + k /\ pc = "idle" /\ stream' = stream /\ handed' = handed /\ answered' = answered
  BY <1>1 DEF Receive
<1>3. /\ stream \in Seq(Frames) /\ pos \in 0 .. Len(Sent(stream)) /\ Sound(parser)
      /\ Len(Sent(stream)) \in Nat /\ Sent(stream) \in Seq(Byte)
  <2>1. stream \in Seq(Frames) /\ pos \in 0 .. Len(Sent(stream)) /\ Sound(parser)
    BY DEF IInv
  <2> QED BY <2>1, SentFacts, LenProperties
<1>4. pos + k \in 0 .. Len(Sent(stream))
  <2> DEFINE N == Len(Sent(stream))
  <2>1. N \in Nat /\ pos \in 0 .. N /\ k \in 1 .. N - pos
    BY <1>3
  <2> HIDE DEF N
  <2>2. pos + k \in 0 .. N
    BY ONLY <2>1
  <2> QED BY <2>2 DEF N
<1>5. x \in Seq(Byte) /\ Len(x) = k
  BY <1>3, <1>4, PieceType
<1> HIDE DEF x
<1>6. CASE Fits(parser, x)
  <2>1. parser' = AppendChunk(parser, x) /\ pc' = "parsing"
    BY <1>1, <1>6 DEF x
  <2>2. Sound(parser') /\ Ahead(parser') > 0
    <3>1. Len(x) > 0
      BY <1>5
    <3>2. Sound(parser) /\ x \in Seq(Byte) /\ Len(x) > 0 /\ Fits(parser, x)
          /\ parser' = AppendChunk(parser, x)
      BY <1>3, <1>5, <1>6, <2>1, <3>1
    <3> QED BY ONLY <3>2, AppendStep
  <2>3. ASSUME Unbarred(stream)
        PROVE  Follows(stream, pos', parser', pc', handed, answered)
    <3>1. Kept(stream, handed, answered) /\ Ahead(parser) = 0
      BY <1>2, <2>3 DEF IInv, Follows
    <3>2. PICK c \in 1 .. Len(stream) + 1 : Receiving(stream, pos, parser, handed, answered, c)
      BY <1>2, <2>3, InitFollows
    <3>3. InFrame(stream, pos + k, parser', handed, answered, c)
      <4>1. x = SubSeq(Sent(stream), pos + 1, pos + k)
        BY DEF x
      <4> QED BY <1>6, <2>1, <3>1, <3>2, <4>1, ReceivePhase
    <3> QED BY <1>2, <2>1, <2>2, <3>1, <3>3 DEF Follows
  <2> QED BY <1>2, <1>3, <1>4, <2>1, <2>2, <2>3 DEF IInv, Pcs
<1>7. CASE ~Fits(parser, x)
  <2>1. parser' = parser /\ pc' = "closed"
    BY <1>1, <1>7 DEF x
  <2>2. ASSUME Unbarred(stream)
        PROVE  Follows(stream, pos', parser', pc', handed, answered)
    <3>1. Kept(stream, handed, answered)
      BY <2>2 DEF IInv, Follows
    <3> QED BY <2>1, <3>1, Over
  <2> QED BY <1>2, <1>3, <1>4, <2>1, <2>2 DEF IInv, Pcs
<1> QED BY <1>6, <1>7

LEMMA HeadUnsetKeeps ==
  ASSUME IInv, HeadUnset
  PROVE  IInv'
<1> DEFINE p == Parse(parser)
<1>1. /\ pc = "parsing" /\ p.wbs = 0 /\ pc' \in {"dead", "spinning"}
      /\ stream' = stream /\ pos' = pos /\ parser' = parser
      /\ handed' = handed /\ answered' = answered
  BY DEF HeadUnset
<1>2. ASSUME Unbarred(stream)
      PROVE  Follows(stream, pos, parser, pc', handed, answered)
  <2>1. Kept(stream, handed, answered)
    BY <1>1, <1>2, Parsed
  <2>2. PICK c \in 1 .. Len(stream) :
          \/ Stuck(stream, pos, parser, p, handed, c)
          \/ Moved(stream, pos, parser, p, handed, answered, c)
          \/ Ended(stream, pos, parser, p, handed, c)
    BY <1>1, <1>2, Parsed
  <2>3. Inside(stream, pos, c)
    BY <1>1, <2>2 DEF Stuck, Moved, Ended
  <2>4. CASE pc' = "dead"
    BY <2>1, <2>4, Over
  <2>5. CASE pc' = "spinning"
    BY <2>1, <2>3, <2>5, Spins
  <2> QED BY <1>1, <2>4, <2>5
<1> QED BY <1>1, <1>2 DEF IInv, Pcs

LEMMA GiveUpKeeps ==
  ASSUME IInv, GiveUp
  PROVE  IInv'
<1>1. /\ pc = "parsing" /\ GivesUp(parser) /\ parser' = Parse(parser) /\ pc' = "idle"
      /\ stream' = stream /\ pos' = pos /\ handed' = handed /\ answered' = answered
  BY DEF GiveUp
<1>2. Sound(parser') /\ ~Unbarred(stream)
  BY <1>1, Parsed
<1> QED BY <1>1, <1>2 DEF IInv, Pcs

\* Where the do-while goes on, the control points are those of IInv.
LEMMA AgainGoes ==
  ASSUME NEW p, Again(p)
  PROVE  pc' = After(parser, p) /\ pc' \in Pcs
BY DEF Again, After, Pcs

LEMMA ParseOnKeeps ==
  ASSUME IInv, ParseOn
  PROVE  IInv'
<1> DEFINE p == Parse(parser)
<1>1. /\ pc = "parsing" /\ ~Complete(p) /\ parser' = p /\ Again(p)
      /\ stream' = stream /\ pos' = pos /\ handed' = handed /\ answered' = answered
  BY DEF ParseOn, Parses
<1>2. Sound(p)
  BY <1>1, Parsed
<1> HIDE DEF p
<1>3. pc' = After(parser, p) /\ pc' \in Pcs
  BY <1>1, AgainGoes
<1>4. ASSUME Unbarred(stream)
      PROVE  Follows(stream, pos, p, pc', handed, answered)
  <2>1. Kept(stream, handed, answered) /\ Ahead(parser) > 0
    BY <1>1, <1>4, Parsed DEF p
  <2>2. PICK c \in 1 .. Len(stream) :
          /\ Receiving(stream, pos, parser, handed, answered, c)
          /\ \/ Stuck(stream, pos, parser, p, handed, c)
             \/ Moved(stream, pos, parser, p, handed, answered, c)
             \/ Ended(stream, pos, parser, p, handed, c)
    BY <1>1, <1>4, Parsed DEF p
  <2>3. CASE Stuck(stream, pos, parser, p, handed, c)
    BY <1>3, <2>1, <2>3, SpinsAgain
  <2>4. CASE Moved(stream, pos, parser, p, handed, answered, c)
    <3>1. InFrame(stream, pos, p, handed, answered, c) /\ (p # parser \/ Ahead(p) = 0)
      BY <2>4 DEF Moved
    <3>2. stream \in Seq(Frames)
      BY DEF IInv
    <3> QED BY <1>2, <1>3, <2>1, <3>1, <3>2, Goes
  <2>5. CASE Ended(stream, pos, parser, p, handed, c)
    <3>1. ~(stream[c].fin /\ stream[c].text # <<>>)
      BY <1>1, <1>2, <2>2, <2>5, EndedComplete
    <3>2. ~Delivered(stream[c]) /\ ~Answerable(stream[c])
      BY <3>1 DEF Delivered, Answerable, IsData, IsAnswered
    <3> QED BY <1>2, <1>3, <2>1, <2>2, <2>5, <3>2, PassedOver
  <2> QED BY <2>2, <2>3, <2>4, <2>5
<1> QED BY <1>1, <1>2, <1>3, <1>4 DEF IInv

LEMMA IgnoreKeeps ==
  ASSUME IInv, Ignore
  PROVE  IInv'
<1> DEFINE p == Parse(parser)
<1>1. /\ pc = "parsing" /\ Complete(p) /\ Opcode(p) \in {PONG, UNSUPPORTED}
      /\ parser' = p /\ Again(p)
      /\ stream' = stream /\ pos' = pos /\ handed' = handed /\ answered' = answered
  BY DEF Ignore, Parses
<1>2. Sound(p)
  BY <1>1, Parsed
<1> HIDE DEF p
<1>3. pc' = After(parser, p) /\ pc' \in Pcs
  BY <1>1, AgainGoes
<1>4. ASSUME Unbarred(stream)
      PROVE  Follows(stream, pos, p, pc', handed, answered)
  <2>1. Kept(stream, handed, answered) /\ Ahead(parser) > 0
    BY <1>1, <1>4, Parsed DEF p
  <2>2. PICK c \in 1 .. Len(stream) :
          /\ Receiving(stream, pos, parser, handed, answered, c)
          /\ \/ Stuck(stream, pos, parser, p, handed, c)
             \/ Moved(stream, pos, parser, p, handed, answered, c)
             \/ Ended(stream, pos, parser, p, handed, c)
    BY <1>1, <1>4, Parsed DEF p
  <2>3. CASE Stuck(stream, pos, parser, p, handed, c)
    BY <1>3, <2>1, <2>3, SpinsAgain
  <2>4. CASE Moved(stream, pos, parser, p, handed, answered, c)
    BY <1>1, <1>2, <2>4, MovedIncomplete
  <2>5. CASE Ended(stream, pos, parser, p, handed, c)
    <3>1. stream[c].op \in {PONG, UNSUPPORTED}
      BY <1>1, <1>2, <2>2, <2>5, EndedComplete
    <3>2. ~Delivered(stream[c]) /\ ~Answerable(stream[c])
      BY <3>1 DEF Delivered, Answerable, IsData, IsAnswered, CLSE, PING, PONG, UNSUPPORTED
    <3> QED BY <1>2, <1>3, <2>1, <2>2, <2>5, <3>2, PassedOver
  <2> QED BY <2>2, <2>3, <2>4, <2>5
<1> QED BY <1>1, <1>2, <1>3, <1>4 DEF IInv

\* What is sent back: all that lies behind the first head, and a zero byte.
LEMMA AnswerType ==
  ASSUME NEW q, Sound(q), q.wbs # 0, NEW n \in Nat, n = q.size - FrameHeadSize(q),
         NEW v, v = <<Opcode(q), Append(Stored(q, FrameHeadSize(q) + 1, n), 0)>>
  PROVE  v \in Nat \X Seq(Byte)
<1> DEFINE k == FrameHeadSize(q)
           t == Stored(q, k + 1, n)
<1>1. k \in Nat
  BY DEF FrameHeadSize
<1>2. q.mem \in [1 .. DataCap -> Byte] /\ q.size \in 0 .. DataCap /\ q.wbs \in 0 .. DataCap - 1
      /\ DataCap \in Nat
  BY SoundFacts
<1>3. t \in [1 .. n -> Byte]
  <2>1. ASSUME NEW i \in 1 .. n PROVE q.mem[(k + 1) + i - 1] \in Byte
    <3>1. (k + 1) + i - 1 \in 1 .. DataCap
      <4> DEFINE z == q.size
      <4>1. n = z - k /\ z \in 0 .. DataCap
        BY <1>2
      <4> HIDE DEF k, z
      <4> QED BY ONLY n \in Nat, i \in 1 .. n, <1>1, <1>2, <4>1
    <3> QED BY <1>2, <3>1
  <2>2. t = [i \in 1 .. n |-> q.mem[(k + 1) + i - 1]]
    BY DEF Stored
  <2> HIDE DEF k, t
  <2> QED BY <2>1, <2>2
<1> HIDE DEF t
<1>4. t \in Seq(Byte)
  BY <1>3, FunctionIsSeq
<1>5. Append(t, 0) \in Seq(Byte)
  <2>1. 0 \in Byte
    BY DEF Byte
  <2> QED BY <1>4, <2>1, AppendProperties
<1>6. Opcode(q) \in Nat
  <2> DEFINE x == q.mem[q.wbs]
  <2>1. x \in Byte
    <3>1. q.wbs \in 1 .. DataCap
      BY <1>2
    <3> QED BY <1>2, <3>1
  <2>2. Opcode(q) = x % 16
    BY DEF Opcode
  <2> HIDE DEF x
  <2>3. x % 16 \in Nat
    BY ONLY <2>1 DEF Byte
  <2> QED BY <2>2, <2>3
<1> QED BY <1>5, <1>6 DEF t

LEMMA AnswerKeeps ==
  ASSUME IInv, Answer
  PROVE  IInv'
<1> DEFINE p == Parse(parser)
           n == p.size - FrameHeadSize(p)
<1>1. /\ pc = "parsing" /\ p.wbs # 0 /\ Complete(p) /\ Opcode(p) \in {CLSE, PING}
      /\ parser' = p /\ stream' = stream /\ pos' = pos /\ handed' = handed
      /\ IF n < 0
         THEN pc' = "dead" /\ answered' = answered
         ELSE \/ pc' = "closed" /\ answered' = answered
              \/ /\ answered' = Append(answered,
                          <<Opcode(p), Append(Stored(p, FrameHeadSize(p) + 1, n), 0)>>)
                 /\ Again(p)
  BY DEF Answer, Parses
<1>2. Sound(p) /\ n \in Int
  <2>1. Sound(p)
    BY <1>1, Parsed
  <2>2. p.size \in Nat /\ FrameHeadSize(p) \in Nat
    <3>1. p.size \in Nat
      BY <2>1, SoundFacts
    <3> QED BY <3>1 DEF FrameHeadSize
  <2> QED BY <2>1, <2>2
<1> HIDE DEF p
<1>3. CASE pc' \in {"dead", "closed"} /\ answered' = answered
  <2>1. ASSUME Unbarred(stream) PROVE Follows(stream, pos, p, pc', handed, answered)
    <3>1. Kept(stream, handed, answered)
      BY <1>1, <2>1, Parsed
    <3> QED BY <1>3, <3>1, Over
  <2> QED BY <1>1, <1>2, <1>3, <2>1 DEF IInv, Pcs
<1>4. CASE /\ ~(n < 0) /\ Again(p)
           /\ answered' = Append(answered,
                        <<Opcode(p), Append(Stored(p, FrameHeadSize(p) + 1, n), 0)>>)
  <2>1. pc' = After(parser, p) /\ pc' \in Pcs
    BY <1>4, AgainGoes
  <2>2. ASSUME Unbarred(stream) PROVE Follows(stream, pos, p, pc', handed, answered')
    <3>1. Kept(stream, handed, answered) /\ Ahead(parser) > 0
      BY <1>1, <2>2, Parsed DEF p
    <3>2. Kept(stream, handed, answered') /\ Len(answered') = Len(answered) + 1
      <4>1. n \in Nat
        BY <1>2, <1>4
      <4> DEFINE v == <<Opcode(p), Append(Stored(p, FrameHeadSize(p) + 1, n), 0)>>
      <4>2. v \in Nat \X Seq(Byte)
        BY <1>1, <1>2, <4>1, AnswerType DEF p
      <4>3. answered' = Append(answered, v) /\ answered \in Seq(Nat \X Seq(Byte))
        BY <1>4, <3>1 DEF Kept
      <4> HIDE DEF v
      <4>4. answered' \in Seq(Nat \X Seq(Byte)) /\ Len(answered') = Len(answered) + 1
        BY ONLY <4>2, <4>3, AppendProperties
      <4> QED BY <3>1, <4>4 DEF Kept
    <3>3. PICK c \in 1 .. Len(stream) :
            /\ Receiving(stream, pos, parser, handed, answered, c)
            /\ \/ Stuck(stream, pos, parser, p, handed, c)
               \/ Moved(stream, pos, parser, p, handed, answered, c)
               \/ Ended(stream, pos, parser, p, handed, c)
      BY <1>1, <2>2, Parsed DEF p
    <3>4. CASE Stuck(stream, pos, parser, p, handed, c)
      BY <2>1, <3>1, <3>2, <3>4, SpinsAgain
    <3>5. CASE Moved(stream, pos, parser, p, handed, answered, c)
      BY <1>1, <1>2, <3>5, MovedIncomplete
    <3>6. CASE Ended(stream, pos, parser, p, handed, c)
      <4>1. stream[c].fin /\ stream[c].text # <<>> /\ stream[c].op \in {CLSE, PING}
        BY <1>1, <1>2, <3>3, <3>6, EndedComplete
      <4>2. ~Delivered(stream[c]) /\ Answerable(stream[c])
        BY <4>1 DEF Delivered, Answerable, IsData, IsAnswered
      <4>3. Len(answered') = Cardinality(Answers(stream, c))
        <5>1. Len(answered) = Cardinality(Answers(stream, c - 1)) /\ stream \in Seq(Frames)
          BY <3>3 DEF Receiving, InFrame, Passed
        <5> DEFINE k == c - 1
        <5>2. k \in Nat /\ k + 1 = c /\ Answerable(stream[k + 1])
          BY <4>2, <5>1, StreamFacts
        <5>3. Cardinality(Answers(stream, k + 1)) = Cardinality(Answers(stream, k)) + 1
          <6> HIDE DEF k
          <6> QED BY <5>2, AnswersFacts
        <5> QED BY <3>2, <5>1, <5>2, <5>3
      <4>4. InFrame(stream, pos, p, handed, answered', c + 1)
        BY <3>3, <3>6, <4>2, <4>3, EndedOver
      <4>5. p # parser \/ Ahead(p) = 0
        BY <3>6 DEF Ended
      <4>6. stream \in Seq(Frames)
        BY DEF IInv
      <4> QED BY <1>2, <2>1, <3>2, <4>4, <4>5, <4>6, Goes
    <3> QED BY <3>3, <3>4, <3>5, <3>6
  <2> QED BY <1>1, <1>2, <2>1, <2>2 DEF IInv
<1> QED BY <1>1, <1>3, <1>4

LEMMA HandOverKeeps ==
  ASSUME IInv, HandOver
  PROVE  IInv'
<1> DEFINE p == Parse(parser)
           k == FrameHeadSize(p)
           behind == p.size - k
           t == Stored(p, k + 1, p.len)
           r == Compact(p, k + p.len)
<1>1. /\ pc = "parsing" /\ p.wbs # 0 /\ Complete(p)
      /\ Opcode(p) \notin {CLSE, PING, PONG, UNSUPPORTED}
      /\ stream' = stream /\ pos' = pos /\ answered' = answered
      /\ \/ /\ behind < 0 \/ p.len < behind
            /\ pc' = "closed" /\ parser' = p /\ handed' = handed
         \/ /\ ~(behind < 0 \/ p.len < behind) /\ handed' = Append(handed, t)
            /\ pc' \in {"dead", "looping"} /\ parser' = p
         \/ /\ ~(behind < 0 \/ p.len < behind) /\ handed' = Append(handed, t)
            /\ p.len = behind /\ parser' = r /\ Again(r)
  BY DEF HandOver, Parses
<1>2. Sound(p)
  BY <1>1, Parsed
<1>3. k \in Nat /\ k >= 6 /\ p.size \in Nat /\ p.len \in Nat
  <2>1. p.size \in Nat /\ p.len \in Nat
    BY <1>2, SoundFacts
  <2> HIDE DEF p
  <2> QED BY <2>1 DEF FrameHeadSize
<1> HIDE DEF p
<1>4. ASSUME Unbarred(stream), ~(behind < 0 \/ p.len < behind)
      PROVE  /\ Kept(stream, Append(handed, t), answered) /\ Ahead(r) = 0
             /\ \E c : InFrame(stream, pos, r, Append(handed, t), answered, c)
  <2>1. Kept(stream, handed, answered) /\ Ahead(parser) > 0
    BY <1>1, <1>4, Parsed DEF p
  <2>2. PICK c \in 1 .. Len(stream) :
          /\ Receiving(stream, pos, parser, handed, answered, c)
          /\ \/ Stuck(stream, pos, parser, p, handed, c)
             \/ Moved(stream, pos, parser, p, handed, answered, c)
             \/ Ended(stream, pos, parser, p, handed, c)
    BY <1>1, <1>4, Parsed DEF p
  <2>3. CASE Stuck(stream, pos, parser, p, handed, c)
    <3>1. p.size = 1
      BY <1>1, <2>2, <2>3, StuckComplete
    <3> HIDE DEF k
    <3> QED BY <1>3, <1>4, <3>1
  <2>4. CASE Moved(stream, pos, parser, p, handed, answered, c)
    BY <1>1, <1>2, <2>4, MovedIncomplete
  <2>5. CASE Ended(stream, pos, parser, p, handed, c)
    <3>1. /\ stream[c].fin /\ stream[c].text # <<>> /\ k = HeadSize(stream[c])
          /\ stream[c].op \notin {CLSE, PING, PONG, UNSUPPORTED}
      BY <1>1, <1>2, <2>2, <2>5, EndedComplete
    <3>2. Delivered(stream[c]) /\ ~Answerable(stream[c]) /\ IsData(stream[c])
      BY <3>1 DEF Delivered, Answerable, IsData, IsAnswered
    <3>3. Len(answered) = Cardinality(Answers(stream, c))
      <4>1. Len(answered) = Cardinality(Answers(stream, c - 1)) /\ stream \in Seq(Frames)
        BY <2>2 DEF Receiving, InFrame, Passed
      <4> DEFINE j == c - 1
      <4>2. j \in Nat /\ j + 1 = c /\ ~Answerable(stream[j + 1])
        BY <3>2, <4>1, StreamFacts
      <4>3. Answers(stream, j + 1) = Answers(stream, j)
        <5> HIDE DEF j
        <5> QED BY <4>2, AnswersFacts
      <4> QED BY <4>1, <4>2, <4>3
    <3>4. ~(p.len < p.size - k)
      BY <1>4
    <3> HIDE DEF k, t, r
    <3>5. /\ Append(handed, t) \in Seq(Seq(Byte)) /\ Len(Append(handed, t)) = c
          /\ Append(handed, t)[c] = stream[c].text
          /\ Ahead(r) = 0 /\ InFrame(stream, pos, r, Append(handed, t), answered, c + 1)
      BY <1>2, <2>2, <2>5, <3>1, <3>2, <3>3, <3>4, EndedDelivered DEF t, r
    <3>6. \A i \in 1 .. Len(handed) : Append(handed, t)[i] = handed[i]
      BY <1>2, <2>2, <2>5, <3>1, <3>2, <3>3, <3>4, EndedDelivered DEF t, r
    <3>7. Kept(stream, Append(handed, t), answered)
      <4> DEFINE h == Append(handed, t)
      <4>1. Len(h) = Len(handed) + 1 /\ Len(handed) \in Nat
        <5>1. handed \in Seq(Seq(Byte))
          BY <2>1 DEF Kept
        <5> QED BY <5>1, LenProperties
      <4>2. ASSUME NEW i \in 1 .. Len(h) PROVE h[i] = stream[i].text /\ IsData(stream[i])
        <5>1. CASE i = c
          BY <3>2, <3>5, <5>1
        <5>2. CASE i # c
          <6>1. i \in 1 .. Len(handed)
            <7> HIDE DEF h
            <7>1. Len(h) = c
              BY <3>5 DEF h
            <7> QED BY <4>1, <5>2, <7>1
          <6>2. handed[i] = stream[i].text /\ IsData(stream[i])
            BY <2>1, <6>1 DEF Kept
          <6> QED BY <3>6, <6>1, <6>2
        <5> QED BY <5>1, <5>2
      <4>3. h \in Seq(Seq(Byte)) /\ Len(h) <= Len(stream)
        <5>1. Len(h) = c /\ h \in Seq(Seq(Byte))
          BY <3>5
        <5>2. Len(stream) \in Nat
          BY StreamFacts DEF IInv
        <5> HIDE DEF h
        <5> QED BY <5>1, <5>2
      <4> QED BY <2>1, <4>2, <4>3 DEF Kept
    <3> QED BY <3>5, <3>7
  <2> QED BY <2>2, <2>3, <2>4, <2>5
<1> HIDE DEF t, r
<1>5. CASE parser' = p /\ pc' = "closed" /\ handed' = handed
  <2>1. ASSUME Unbarred(stream) PROVE Follows(stream, pos, p, pc', handed, answered)
    <3>1. Kept(stream, handed, answered)
      BY <1>1, <2>1, Parsed
    <3> QED BY <1>5, <3>1, Over
  <2> QED BY <1>1, <1>2, <1>5, <2>1 DEF IInv, Pcs
<1>6. CASE /\ ~(behind < 0 \/ p.len < behind) /\ handed' = Append(handed, t)
           /\ pc' \in {"dead", "looping"} /\ parser' = p
  <2>1. ASSUME Unbarred(stream) PROVE Follows(stream, pos, p, pc', handed', answered)
    <3>1. Kept(stream, handed', answered)
      BY <1>4, <1>6, <2>1
    <3> QED BY <1>6, <3>1, Over
  <2> QED BY <1>1, <1>2, <1>6, <2>1 DEF IInv, Pcs
<1>7. CASE /\ ~(behind < 0 \/ p.len < behind) /\ handed' = Append(handed, t)
           /\ p.len = behind /\ parser' = r /\ Again(r)
  <2>1. pc' = After(parser, r) /\ pc' \in Pcs
    BY <1>7, AgainGoes
  <2>2. Sound(r)
    <3> DEFINE x == k + p.len
    <3>1. p.size - x = 0 /\ r = Compact(p, x)
      <4>1. p.size - x = 0
        <5> HIDE DEF k
        <5> QED BY <1>3, <1>7
      <4> QED BY <4>1 DEF r
    <3> HIDE DEF x
    <3> QED BY <1>2, <3>1, Emptied
  <2>3. ASSUME Unbarred(stream) PROVE Follows(stream, pos, r, pc', handed', answered)
    <3>1. /\ Kept(stream, handed', answered) /\ Ahead(r) = 0
          /\ \E c : InFrame(stream, pos, r, handed', answered, c)
      BY <1>4, <1>7, <2>3
    <3>2. stream \in Seq(Frames)
      BY DEF IInv
    <3> QED BY <2>1, <2>2, <3>1, <3>2, Goes
  <2> QED BY <1>1, <1>7, <2>1, <2>2, <2>3 DEF IInv
<1> QED BY <1>1, <1>5, <1>6, <1>7

LEMMA Inductive ==
  ASSUME IInv, [Next]_vars
  PROVE  IInv'
<1>1. CASE UNCHANGED vars
  BY <1>1 DEF vars, IInv
<1> QED
  BY <1>1, HandshakeKeeps, ReceiveKeeps, HeadUnsetKeeps, GiveUpKeeps, ParseOnKeeps, AnswerKeeps,
     IgnoreKeeps, HandOverKeeps DEF Next

LEMMA Invariant == Spec => []IInv
<1>1. IInv /\ [Next]_vars => IInv'
  BY Inductive
<1> QED BY Initially, <1>1, PTL DEF Spec

-----------------------------------------------------------------------------

\* The parser never reads or writes outside its allocation, whatever frames the
\* peer sends and however the network cuts them (WsStickyWrap::readData).
THEOREM TypeCorrect == Spec => []TypeOK
<1>1. IInv => TypeOK
  <2> SUFFICES ASSUME IInv PROVE TypeOK
    OBVIOUS
  <2>1. pos \in 0 .. Len(Bytes) /\ pc \in Pcs /\ Sound(parser)
    BY BytesIsSent DEF IInv
  <2>2. /\ parser.size \in 0 .. DataCap /\ parser.readAt \in 0 .. parser.size
        /\ parser.state \in States /\ parser.wbs \in 0 .. DataCap - 1
        /\ parser.index <= parser.len /\ DataCap \in Nat
    BY <2>1, SoundFacts
  <2>3. /\ 0 <= parser.readAt /\ parser.readAt <= parser.size /\ parser.size <= DataCap
        /\ parser.wbs + 1 <= DataCap
    BY <2>2
  <2> QED BY <2>1, <2>2, <2>3 DEF TypeOK, Pcs, States
<1> QED BY Invariant, <1>1, PTL

\* If the stream is clean (no masked byte is 255, no length byte is 128 or
\* more), the payloads given to finishParse() are those of the first data
\* frames, one by one and unmasked, however the bytes are cut and whatever
\* control frames stand between.
THEOREM HandedOverIntact == Spec => []HandedIntact
<1>1. IInv => HandedIntact
  <2> SUFFICES ASSUME IInv, Clean PROVE HandedIntact
    BY DEF HandedIntact
  <2> DEFINE data == {i \in DOMAIN stream : IsData(stream[i])}
  <2>1. Kept(stream, handed, answered) /\ stream \in Seq(Frames)
    BY DEF IInv, Follows, Clean, Unbarred
  <2>2. DOMAIN handed = 1 .. Len(handed) /\ Len(handed) \in Nat /\ DOMAIN stream = 1 .. Len(stream)
        /\ Len(stream) \in Nat /\ Len(handed) <= Len(stream)
    BY <2>1, LenProperties DEF Kept
  <2>3. ASSUME NEW n \in DOMAIN handed
        PROVE  \E i \in data : /\ handed[n] = stream[i].text
                               /\ Cardinality({j \in data : j < i}) = n - 1
    <3>1. n \in 1 .. Len(handed) /\ n \in Nat
      BY <2>2
    <3>2. n \in data /\ handed[n] = stream[n].text
      BY <2>1, <2>2, <3>1 DEF Kept
    <3>3. ASSUME NEW j \in 1 .. n - 1 PROVE j \in data /\ j < n
      <4>1. j \in 1 .. Len(handed) /\ j \in 1 .. Len(stream) /\ j < n
        BY <2>2, <3>1
      <4> QED BY <2>1, <2>2, <4>1 DEF Kept
    <3>4. {j \in data : j < n} = 1 .. n - 1
      BY <2>2, <3>1, <3>3
    <3>5. Cardinality(1 .. n - 1) = n - 1
      <4>1. 1 \in Int /\ n - 1 \in Int /\ n - 1 >= 0
        BY <3>1
      <4>2. Cardinality(1 .. n - 1) = IF 1 > n - 1 THEN 0 ELSE (n - 1) - 1 + 1
        BY <4>1, FS_Interval
      <4> QED BY <4>1, <4>2
    <3> QED BY <3>2, <3>4, <3>5
  <2> QED BY <2>3 DEF HandedIntact
<1> QED BY Invariant, <1>1, PTL

\* Frames with a payload have arrived when they are in front of the parser's.
LEMMA ArrivedBefore ==
  ASSUME NEW s \in Seq(Frames), NEW n, NEW p, Sound(p), Ahead(p) = 0, NEW h, NEW a,
         h \in Seq(Seq(Byte)), Len(h) <= Len(s),
         NEW c \in 1 .. Len(s) + 1, InFrame(s, n, p, h, a, c)
  PROVE  /\ Begin(s, c) \in Nat /\ n \in Nat /\ n >= Begin(s, c)
         /\ c <= Len(s) => n <= Begin(s, c + 1)
         /\ c <= Len(s) /\ s[c].text # <<>> => n < Begin(s, c + 1)
         /\ c = Len(s) + 1 => n = Begin(s, c)
<1> DEFINE b == Begin(s, Len(h) + 1)
           B == Begin(s, c)
           H == HeadSize(s[c])
           T == Len(s[c].text)
           r == p.readAt
           i == p.index
<1>1. n = b + p.size /\ Phase(s, b, p, c)
  BY DEF InFrame
<1>2. b \in Nat /\ B \in Nat
  <2>1. Len(h) + 1 \in 1 .. Len(s) + 1
    BY LenProperties
  <2> QED BY <2>1, BeginFacts
<1>3. r \in Nat /\ p.size = r /\ i \in Nat
  BY SoundFacts
<1>4. n = b + r
  BY <1>1, <1>3
<1>5. CASE AtHead(s, b, p, c)
  <2>1. n = B
    BY <1>4, <1>5 DEF AtHead
  <2>2. c <= Len(s) => n < Begin(s, c + 1)
    <3> SUFFICES ASSUME c <= Len(s) PROVE n < Begin(s, c + 1)
      OBVIOUS
    <3>1. c \in 1 .. Len(s)
      BY StreamFacts
    <3>2. Begin(s, c + 1) = B + Size(s, c) /\ Size(s, c) \in Nat /\ Size(s, c) >= 6
      BY <3>1, BeginFacts, EncodedType
    <3> HIDE DEF B
    <3> QED BY <1>2, <2>1, <3>2
  <2>3. c <= Len(s) => n <= Begin(s, c + 1)
    <3> SUFFICES ASSUME c <= Len(s) PROVE n <= Begin(s, c + 1)
      OBVIOUS
    <3>1. c + 1 \in 1 .. Len(s) + 1
      BY StreamFacts
    <3>2. Begin(s, c + 1) \in Nat
      BY <3>1, BeginFacts
    <3> QED BY <1>2, <2>1, <2>2, <3>2
  <2> QED BY <1>2, <2>1, <2>2, <2>3
<1>6. CASE c <= Len(s) /\ (AtPayload(s, b, p, c) \/ AtMask(s, b, p, c) \/ AtData(s, b, p, c))
  <2>1. c \in 1 .. Len(s)
    BY <1>6, StreamFacts
  <2>2. /\ s[c].wide \in {0, 2, 8} /\ H = 6 + s[c].wide /\ T \in Nat
        /\ Begin(s, c + 1) = B + H + T
    <3>1. /\ s[c].wide \in {0, 2, 8} /\ H = 6 + s[c].wide /\ T \in Nat
          /\ Begin(s, c + 1) = B + H + T
      BY ONLY s \in Seq(Frames), <2>1, FrameFacts
    <3> QED BY <3>1
  <2>3. \/ n = B + 2
        \/ n = B + 2 + s[c].wide
        \/ n = B + H + i /\ i <= T /\ (i < T \/ T = 0)
    BY <1>4, <1>6, SoundFacts DEF AtPayload, AtMask, AtData
  <2>4. s[c].text # <<>> => T # 0
    <3>1. s[c].text \in Seq(Byte)
      BY <2>1, StreamFacts, FramedTypes
    <3> QED BY <3>1, EmptySeq
  <2> DEFINE w == s[c].wide
             e == Begin(s, c + 1)
  <2>5. w \in Nat /\ H = 6 + w /\ T \in Nat /\ e = B + H + T
    BY <2>2
  <2>6. n = B + 2 \/ n = B + 2 + w \/ (n = B + H + i /\ i <= T /\ (i < T \/ T = 0))
    BY <2>3
  <2> HIDE DEF w, e, B, H, T, i
  <2>7. n \in Nat /\ n >= B /\ n <= e /\ (T # 0 => n < e)
    BY ONLY <1>2, <1>3, <2>5, <2>6
  <2>8. c # Len(s) + 1
    BY <1>6, StreamFacts
  <2> QED BY <1>2, <2>4, <2>7, <2>8 DEF e, B, T
<1> QED BY <1>1, <1>5, <1>6 DEF Phase

\* If the stream is clean, a connection that waits for more bytes has handed
\* over each final data frame with a payload, and answered each final CLSE and
\* PING with one, that is there (WsConnect::readData).  Other frames are not
\* spoken of.
THEOREM NoFrameSkipped == Spec => []NothingSkipped
<1>1. IInv => NothingSkipped
  <2> SUFFICES ASSUME IInv, Clean, pc = "idle" PROVE NothingSkipped
    BY DEF NothingSkipped
  <2> DEFINE s == stream
             g == Len(handed)
             N == Len(s)
  <2>1. /\ s \in Seq(Frames) /\ Sound(parser) /\ Ahead(parser) = 0 /\ Kept(s, handed, answered)
        /\ \E c \in 1 .. N + 1 : InFrame(s, pos, parser, handed, answered, c)
    BY DEF IInv, Follows, Clean, Unbarred
  <2>2. PICK c \in 1 .. N + 1 : InFrame(s, pos, parser, handed, answered, c)
    BY <2>1
  <2>3. N \in Nat /\ g \in Nat /\ g <= N /\ DOMAIN s = 1 .. N
    BY <2>1, LenProperties DEF Kept
  <2>4. /\ c \in g + 1 .. N + 1
        /\ \A i \in 1 .. g : Delivered(s[i])
        /\ \A i \in g + 1 .. c - 1 : ~Delivered(s[i])
        /\ Len(answered) = Cardinality(Answers(s, c - 1))
    BY <2>2 DEF InFrame, Passed
  <2>5. /\ Begin(s, c) \in Nat /\ pos \in Nat /\ pos >= Begin(s, c)
        /\ c <= N => pos <= Begin(s, c + 1)
        /\ c <= N /\ s[c].text # <<>> => pos < Begin(s, c + 1)
        /\ c = N + 1 => pos = Begin(s, c)
    <3>1. handed \in Seq(Seq(Byte)) /\ Len(handed) <= Len(s)
      BY <2>1 DEF Kept
    <3>2. /\ s \in Seq(Frames) /\ Sound(parser) /\ Ahead(parser) = 0
          /\ c \in 1 .. Len(s) + 1 /\ InFrame(s, pos, parser, handed, answered, c)
      BY <2>1, <2>2
    <3> HIDE DEF s
    <3>3. /\ Begin(s, c) \in Nat /\ pos \in Nat /\ pos >= Begin(s, c)
          /\ c <= Len(s) => pos <= Begin(s, c + 1)
          /\ c <= Len(s) /\ s[c].text # <<>> => pos < Begin(s, c + 1)
          /\ c = Len(s) + 1 => pos = Begin(s, c)
      BY ONLY <3>1, <3>2, ArrivedBefore
    <3> QED BY <3>3
  <2>6. \A i \in 1 .. N : Arrived(i) <=> pos >= Begin(s, i + 1)
    <3> TAKE i \in 1 .. N
    <3>1. Begin(s, i + 1) = Begin(s, i) + Size(s, i)
      BY <2>1, BeginFacts
    <3>2. Before(i) = Begin(s, i)
      BY DEF Before, Begin, Parts
    <3> QED BY <3>1, <3>2 DEF Arrived, Size
  <2> HIDE DEF s, N, g
  <2>7. ASSUME NEW i \in 1 .. N, s[i].text # <<>> PROVE Arrived(i) <=> i < c
    <3>1. i + 1 \in 1 .. N + 1 /\ c \in 1 .. N + 1 /\ N + 1 \in Nat /\ i \in Nat
      BY <2>3
    <3>2. Begin(s, i + 1) \in Nat
      BY <2>1, <3>1, BeginFacts DEF N
    <3>3. CASE i < c
      <4>1. Begin(s, i + 1) <= Begin(s, c)
        <5>1. c \in i + 1 .. N + 1
          BY <2>3, <3>3
        <5> QED BY <2>1, <3>1, <5>1, BeginMonotone DEF N
      <4>2. pos >= Begin(s, i + 1)
        BY <2>5, <3>2, <4>1
      <4> QED BY <2>6, <3>3, <4>2
    <3>4. CASE i = c
      <4>1. pos < Begin(s, i + 1)
        BY <2>3, <2>5, <2>7, <3>4
      <4> QED BY <2>5, <2>6, <3>2, <3>4, <4>1
    <3>5. CASE i > c
      <4>1. c \in 1 .. N /\ c + 1 \in 1 .. N + 1 /\ i \in c + 1 .. N + 1
        BY <2>3, <3>5
      <4>2. Begin(s, c + 1) <= Begin(s, i) /\ Begin(s, i) \in Nat /\ Begin(s, c + 1) \in Nat
        <5>1. i \in 1 .. N + 1
          BY <3>1
        <5> QED BY <2>1, <4>1, <5>1, BeginMonotone, BeginFacts DEF N
      <4>3. Begin(s, i + 1) = Begin(s, i) + Size(s, i) /\ Size(s, i) \in Nat /\ Size(s, i) >= 6
        BY <2>1, BeginFacts, EncodedType DEF N
      <4>4. pos <= Begin(s, c + 1)
        BY <2>3, <2>5, <4>1
      <4>5. ~(pos >= Begin(s, i + 1))
        BY ONLY <2>5, <4>2, <4>3, <4>4
      <4> QED BY <2>6, <3>1, <3>5, <4>5
    <3>6. i < c \/ i = c \/ i > c
      BY ONLY <3>1
    <3> QED BY <3>3, <3>4, <3>5, <3>6
  <2>8. {i \in DOMAIN stream : Arrived(i) /\ IsData(stream[i]) /\ stream[i].fin} = 1 .. g
    <3>1. ASSUME NEW i \in 1 .. N PROVE (Arrived(i) /\ IsData(s[i]) /\ s[i].fin) <=> i \in 1 .. g
      <4>1. IsData(s[i]) => s[i].text # <<>>
        BY DEF IsData
      <4>2. CASE i \in 1 .. g
        <5>1. Delivered(s[i]) /\ i < c
          BY <2>3, <2>4, <4>2
        <5> QED BY <2>7, <4>1, <4>2, <5>1 DEF Delivered
      <4>3. CASE i \notin 1 .. g
        <5>1. i < c => i \in g + 1 .. c - 1
          BY <2>3, <2>4, <4>3
        <5>2. i < c => ~Delivered(s[i])
          BY <2>4, <5>1
        <5> QED BY <2>7, <4>1, <4>3, <5>2 DEF Delivered
      <4> QED BY <4>2, <4>3
    <3>2. \A i \in 1 .. g : i \in 1 .. N
      BY <2>3
    <3> QED BY <2>3, <3>1, <3>2 DEF s
  <2>9. {i \in DOMAIN stream : Arrived(i) /\ IsAnswered(stream[i]) /\ stream[i].fin} = Answers(s, c - 1)
    <3>1. \A i \in 1 .. N : i < c <=> i \in 1 .. c - 1
      BY <2>3, <2>4
    <3>2. \A i \in 1 .. c - 1 : i \in 1 .. N
      BY <2>3, <2>4
    <3>3. ASSUME NEW i \in 1 .. N
          PROVE  (Arrived(i) /\ IsAnswered(s[i]) /\ s[i].fin) <=> (i \in 1 .. c - 1 /\ Answerable(s[i]))
      <4>1. IsAnswered(s[i]) => s[i].text # <<>>
        BY DEF IsAnswered
      <4> QED BY <2>7, <3>1, <4>1 DEF Answerable
    <3> QED BY <2>3, <3>2, <3>3 DEF s, Answers
  <2>10. Cardinality(1 .. g) = g
    <3>1. 1 \in Int /\ g \in Int /\ g >= 0
      BY <2>3
    <3>2. Cardinality(1 .. g) = IF 1 > g THEN 0 ELSE g - 1 + 1
      BY <3>1, FS_Interval
    <3> QED BY <3>1, <3>2
  <2> QED BY <2>4, <2>8, <2>9, <2>10 DEF NothingSkipped, g
<1> QED BY Invariant, <1>1, PTL

\* If the stream is clean, the do-while of WsConnect::readData spins only when
\* the bytes end inside a frame's head: wherever else the network
\* cuts the stream, the callback returns.
THEOREM SpinsInsideHead == Spec => []SpinsOnlyInsideHead
<1>1. IInv => SpinsOnlyInsideHead
  <2> SUFFICES ASSUME IInv, Clean, pc = "spinning" PROVE \E i \in DOMAIN stream : InsideHead(i)
    BY DEF SpinsOnlyInsideHead
  <2>1. stream \in Seq(Frames) /\ \E c \in 1 .. Len(stream) : Inside(stream, pos, c)
    BY DEF IInv, Follows, Clean, Unbarred
  <2>2. PICK c \in 1 .. Len(stream) : Inside(stream, pos, c)
    BY <2>1
  <2>3. Len(HeadOf(stream[c])) = HeadSize(stream[c]) /\ c \in DOMAIN stream
    BY <2>1, StreamFacts, HeadFacts
  <2>4. Before(c) = Begin(stream, c)
    BY DEF Before, Begin, Parts
  <2> QED BY <2>2, <2>3, <2>4 DEF Inside, InsideHead
<1> QED BY Invariant, <1>1, PTL

=============================================================================
