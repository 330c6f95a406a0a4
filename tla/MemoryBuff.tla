----------------------------- MODULE MemoryBuff -----------------------------
(***************************************************************************)
(* memoryBuff (memoryBuff.h, memoryBuff.cpp, ListEx.h): a receive buffer   *)
(* made of linked nodes.  A buffer is a record: heap maps the allocated    *)
(* nodes to their contents, the four fields are those of the class.  The   *)
(* bytes of a node are data (its length is _write_size), of which the      *)
(* first read ones (_read_size) have been taken.  Null is nullptr; an      *)
(* operator that would follow it is not defined, and its callers in        *)
(* FdBridge say when that happens.                                         *)
(***************************************************************************)
EXTENDS Integers, Sequences, FiniteSets

CONSTANTS Cap,           \* _LIST_NODE_DATA_SIZE (4096)
          InitialNodes   \* constructor argument, _DEFAULT_MEMORY_LIST_NODE_ (2)

\* The argument is an unsigned char; 0 would leave every pointer unset.
ASSUME BuffAssumption == Cap \in Nat \ {0} /\ InitialNodes \in 1 .. 255

Null == 0
MaxFree == 5          \* _DEFAULT_NODE_FREE_COUNT
Width == 65536        \* _freeCount is an unsigned short

\* ListNode::ResetNode().
FreshNode == [data |-> <<>>, read |-> 0, next |-> Null]

\* Seeded fault: the further nodes are allocated and linked nowhere.
UnlinkedBuff ==
  [heap |-> [n \in 1 .. InitialNodes |-> FreshNode],
   tail |-> 1, read |-> 1, write |-> 1, freeCount |-> InitialNodes - 1]

\* The constructor: _pTail stays at the first node, whose _next is
\* overwritten by each further one, so only the last of them is linked.
NewBuff ==
  [heap |-> [n \in 1 .. InitialNodes |->
               [FreshNode EXCEPT !.next =
                  IF n = 1 /\ InitialNodes > 1 THEN InitialNodes ELSE Null]],
   tail |-> 1, read |-> 1, write |-> 1, freeCount |-> InitialNodes - 1]

Writer(mb) == mb.heap[mb.write]
Reader(mb) == mb.heap[mb.read]

Room(mb) == Cap - Len(Writer(mb).data)

NewAddress(mb) == 
  CHOOSE n \in 1 .. Cardinality(DOMAIN mb.heap) + 1 : n \notin DOMAIN mb.heap

\* GetWriteBuff() as it leaves the buffer: a node is added behind _pTail
\* where _pWrite has no room.  The length it gives back is Room of the result.
GetWriteBuff(mb) ==
  LET n == NewAddress(mb)
      linked == [mb.heap EXCEPT ![mb.tail].next = n]
  IN  IF Room(mb) > 0
      THEN mb
      ELSE [heap |-> [m \in DOMAIN mb.heap \cup {n} |->
                        IF m = n THEN FreshNode ELSE linked[m]],
            tail |-> n, read |-> mb.read, write |-> n,
            freeCount |-> (mb.freeCount + 1) % Width]

\* The length GetReadBuff() gives back: 0 stands for the null pointer.
Readable(mb) == Len(Reader(mb).data) - Reader(mb).read

\* The bytes at the pointer GetReadBuff() gives back.
ReadBuff(mb) ==
  SubSeq(Reader(mb).data, Reader(mb).read + 1, Len(Reader(mb).data))

\* s is put at the pointer of GetWriteBuff(), then AdjustWriteSize(Len(s)).
Fill(mb, s) ==
  LET filled == [mb EXCEPT !.heap[mb.write].data = @ \o s]
  IN  IF Len(Writer(filled).data) < Cap
      THEN filled
      ELSE [filled EXCEPT !.freeCount = (@ - 1) % Width, !.write = Writer(mb).next]

Without(f, n) == [m \in DOMAIN f \ {n} |-> f[m]]

\* Seeded fault: a drained node is not left behind.
TakeAndStay(mb, k) == [mb EXCEPT !.heap[mb.read].read = @ + k]

\* Seeded fault: the reader's place counts from the start of the node.
TakeAgain(mb, k) == [mb EXCEPT !.heap[mb.read].read = k]

\* AdjustReadSize(k): a node that has been read to its end is left, then
\* appended behind _pTail as an empty one, or deleted.
AdjustReadSize(mb, k) ==
  LET taken == [mb EXCEPT !.heap[mb.read].read = @ + k]
      old == mb.read
      left == [taken EXCEPT !.read = Reader(mb).next, !.heap[old] = FreshNode]
  IN  IF Reader(taken).read < Cap
      THEN taken
      ELSE IF mb.freeCount > MaxFree
           THEN [left EXCEPT !.heap = Without(@, old)]
           ELSE [left EXCEPT !.freeCount = (@ + 1) % Width,
                             !.heap[mb.tail].next = old, !.tail = old]

=============================================================================
