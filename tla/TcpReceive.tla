----------------------------- MODULE TcpReceive -----------------------------
(***************************************************************************)
(* A TCP connection of ExtNet receiving: FdBridge with the consumer that   *)
(* TcpConnect has, TcpStickyWrap::readData().  It puts the bytes of the    *)
(* stream together to messages of a head and a body in _pData, of which    *)
(* size says how many are there.  Where the length of a message is to come *)
(* from, _head, is a pointer nothing sets: reading through it ends the     *)
(* process, as the build with the address sanitizer does, or gives any     *)
(* length.  The model lets it change from one iteration to the next; that  *)
(* the loads of one iteration agree (lines 35 to 51) is an assumption.     *)
(***************************************************************************)
EXTENDS FdBridge

CONSTANTS
  HeadSize,   \* sizeof(msgHead)
  PackCap     \* PACK_CAP, the size of _pData

ASSUME TcpAssumption == HeadSize \in Nat \ {0} /\ PackCap \in Nat /\ HeadSize <= PackCap

VARIABLES
  size,       \* _Data_size
  again,      \* readData() has another iteration to do
  crashed     \* the process has ended inside readData()

tcpVars == <<vars, size, again, crashed>>

TcpInit == Init /\ size = 0 /\ again = TRUE /\ crashed = FALSE

\* Bound: the lengths found through _head, with two beyond PackCap.
Lengths == 0 .. PackCap + 2

-----------------------------------------------------------------------------
(* Seeded faults, used only to show that the properties can fail.          *)

AnyLength(L) == FALSE
EndsOnProgress(k) == k = Readable(mb) \/ k > 0

-----------------------------------------------------------------------------
(* One iteration of readData().                                            *)

SmallerOf(a, b) == IF a < b THEN a ELSE b

\* Bytes of the head taken from what GetReadBuff() shows.
HeadPart == IF size < HeadSize THEN SmallerOf(Readable(mb), HeadSize - size) ELSE 0

\* "considered an illegal packet, needs to be closed"
TooLong(L) == L > PackCap

\* What the length leaves room for once the head is in.
BodyRoom(L) == L - (size + HeadPart)

BodyPart(L) == SmallerOf(BodyRoom(L), Readable(mb) - HeadPart)

\* Seeded fault: the bytes of the head are read and not counted.
BodyOnly(L) == BodyPart(L)

\* readlen, which AdjustReadSize() is told.
Readlen(L) == HeadPart + BodyPart(L)

\* len <= readlen
LookedAtAll(k) == k = Readable(mb)

Looking == pc = "notified" /\ again /\ ~crashed

Refuse ==
  /\ Looking
  /\ size + HeadPart >= HeadSize
  /\ \E L \in Lengths : TooLong(L)
  /\ pc' = "closed"
  /\ UNCHANGED <<mb, received, handed, size, again, crashed>>

\* The pointer leads nowhere, or the length is smaller than what is already
\* there and memcpy() is called with a negative one.
Crash ==
  /\ Looking
  /\ crashed' = TRUE
  /\ UNCHANGED <<vars, size, again>>

\* MakeServerMsg() when the message is complete, then size starts anew.  handed
\* is what has left the receive buffer; what _pData holds of it is not followed:
\* the copy of the body starts where that of the head did.
Take ==
  /\ Looking
  /\ \E L \in Lengths :
       /\ size + HeadPart >= HeadSize => ~TooLong(L)
       /\ BodyRoom(L) >= 0
       /\ mb' = AdjustReadSize(mb, Readlen(L))
       /\ again' = ~LookedAtAll(Readlen(L))
       /\ LET copied == HeadPart + BodyPart(L)
              there == size + copied
          IN  /\ handed' = handed \o SubSeq(ReadBuff(mb), 1, copied)
              /\ size' = IF there > HeadSize /\ there = L THEN 0 ELSE there
  /\ UNCHANGED <<pc, received, crashed>>

\* readData() returns how much it took: client_read_cb() is content.
Return ==
  /\ pc = "notified" /\ ~again /\ ~crashed
  /\ pc' = "idle"
  /\ again' = TRUE
  /\ UNCHANGED <<mb, received, handed, size, crashed>>

TcpNext ==
  \/ /\ ~crashed
     /\ Callback \/ FollowNull \/ Recv \/ RecvNothing \/ RecvEnd
     /\ UNCHANGED <<size, again, crashed>>
  \/ Refuse \/ Crash \/ Take \/ Return

TcpSpec == TcpInit /\ [][TcpNext]_tcpVars

-----------------------------------------------------------------------------

\* Whatever lengths readData() finds, it takes from the receive buffer only
\* what GetReadBuff() has shown it: AdjustReadSize() never asserts, and all
\* that is known of a connection and its buffer holds of this one.
ImplementsBridge == Spec

\* Messages are put together inside _pData, also when the lengths found in
\* successive iterations contradict each other.
PackFits == size <= PackCap

\* A callback that returns has taken all the bytes there are, or it stopped at
\* the end of a node it has drained: the bytes of the following node stay
\* there until the peer sends more.
WaitsOnlyBehindDrained ==
  pc = "idle" /\ Unread # <<>> => mb.read # 1 /\ Reader(mb).read = 0
=============================================================================
