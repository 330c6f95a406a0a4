---------------------------- MODULE ServiceProofs ----------------------------
(***************************************************************************)
(* Proofs about Service, for any number of connections and of ids.         *)
(***************************************************************************)
EXTENDS Service, FiniteSetTheorems, TLAPS

-----------------------------------------------------------------------------
(* Ids.                                                                    *)

\* Id space is a ring: x is less than once around it.
Wrap(x) == IF x < IdSpace THEN x ELSE x - IdSpace

LEMMA NextUniqueValue ==
  ASSUME NEW i \in Ids
  PROVE  NextUnique(i) \in Ids /\ NextUnique(i) = Wrap(i + 1)
<1>1. IdSpace \in Nat \ {0} /\ i \in 0 .. IdSpace - 1
  BY ServiceAssumption DEF Ids
<1>2. CASE i + 1 < IdSpace
  BY <1>1, <1>2 DEF NextUnique, Wrap, Ids
<1>3. CASE i + 1 = IdSpace
  <2>1. IdSpace % IdSpace = 0
    BY <1>1
  <2> QED BY <1>1, <1>3, <2>1 DEF NextUnique, Wrap, Ids
<1> QED BY <1>1, <1>2, <1>3

\* The k-th id after f is not one of the k ids from f on.
LEMMA IdsDiffer ==
  ASSUME NEW f \in Ids, NEW k \in Nat, k < IdSpace, NEW j \in Nat, j < k
  PROVE  Wrap(f + j) # Wrap(f + k)
BY ServiceAssumption DEF Wrap, Ids

LEMMA IdAfter ==
  ASSUME NEW f \in Ids, NEW k \in Nat, k < IdSpace
  PROVE  Wrap(f + k) \in Ids /\ Wrap(Wrap(f + k) + 1) = Wrap(f + (k + 1))
BY ServiceAssumption DEF Wrap, Ids

-----------------------------------------------------------------------------
(* The inductive invariant.  It is about states without undefined          *)
(* behaviour: the others have no successor.                                *)

\* The callbacks that are about a connection.
Busy == {"registering", "reading", "failed", "spinning", "erased", "deleting"}

\* OnStop() has freed the listener's event.
Closing == {"deleting", "clearing", "exiting", "joining", "stopped"}

\* While they are not more than there are ids, the k connections accepted have
\* the k ids from the first one on.
IdsInOrder ==
  \E k \in 0 .. MaxAccepts, f \in Ids :
    /\ Accepted = 1 .. k
    /\ k <= IdSpace => /\ ~clash
                       /\ nextId = Wrap(f + k)
                       /\ \A c \in 1 .. k : id[c] = Wrap(f + (c - 1))

Found(c) == id[c] \in DOMAIN table /\ table[id[c]] = c

EveryoneFound ==
  ~clash => \A c \in Alive : Found(c) \/ (loop \in {"erased", "deleting"} /\ current = c)

NobodyElse == \A i \in DOMAIN table : table[i] # NoConn => table[i] \in Alive /\ id[table[i]] = i

\* What the callback of the service thread is about.
CallbackKnows ==
  /\ loop \in Busy <=> current # NoConn
  /\ current # NoConn => current \in Alive
  /\ loop = "registering" => life[current] = "new"
  /\ \A c \in Conns : life[c] = "new" => loop = "registering" /\ current = c
  /\ loop \in {"erased", "deleting"} => id[current] \notin DOMAIN table

\* What the owner has achieved.
OwnerKnows ==
  /\ owner = "new" => loop = "none"
  /\ owner \in Closing => ~listening /\ loop \notin {"accepting", "registering"}
  /\ owner \in Closing \ {"deleting"} => \A i \in DOMAIN table : table[i] = NoConn
  /\ owner \notin Closing => \A i \in DOMAIN table : table[i] # NoConn
  /\ owner = "stopped" => loop = "exited"
  /\ \A c \in Conns : life[c] = "dying" => owner = "deleting" /\ Found(c)

Sound == IdsInOrder /\ EveryoneFound /\ NobodyElse /\ CallbackKnows /\ OwnerKnows

IInv == TypeOK /\ (undefined \/ Sound)

LEMMA InitInv ==
  ASSUME Init
  PROVE  IInv
<1>1. TypeOK
  <2>1. 0 \in Ids /\ nextId \in Ids
    BY ServiceAssumption DEF Init, Ids
  <2>2. id \in [Conns -> Ids] /\ life \in [Conns -> {"none", "new", "open", "dying", "deleted"}]
    BY <2>1 DEF Init
  <2>3. DOMAIN table = {}
    BY DEF Init
  <2>4. Range(table) = {}
    BY <2>3 DEF Range
  <2> QED BY <2>1, <2>2, <2>3, <2>4 DEF Init, TypeOK
<1>2. Accepted = {} /\ Alive = {} /\ DOMAIN table = {}
  BY DEF Init, Accepted, Alive
<1>3. IdsInOrder
  <2>1. nextId \in Ids /\ MaxAccepts \in Nat /\ nextId = Wrap(nextId + 0) /\ ~clash
    BY <1>1, ServiceAssumption DEF Init, TypeOK, Ids, Wrap
  <2>2. 0 \in 0 .. MaxAccepts /\ 1 .. 0 = {}
    BY <2>1
  <2> QED BY <1>2, <2>1, <2>2 DEF IdsInOrder
<1>4. EveryoneFound /\ NobodyElse
  BY <1>2 DEF EveryoneFound, NobodyElse
<1>5. CallbackKnows
  BY DEF Init, CallbackKnows, Busy, NoConn
<1>6. OwnerKnows
  BY <1>2 DEF Init, OwnerKnows, Closing
<1> QED BY <1>1, <1>3, <1>4, <1>5, <1>6 DEF IInv, Sound

-----------------------------------------------------------------------------
(* Steps that leave the connections and the table alone.                   *)

LEMMA SameConns ==
  ASSUME UNCHANGED conns
  PROVE  /\ IdsInOrder => IdsInOrder'
         /\ NobodyElse => NobodyElse'
         /\ Alive' = Alive /\ Accepted' = Accepted
         /\ \A c : Found(c)' <=> Found(c)
BY DEF conns, IdsInOrder, NobodyElse, Alive, Accepted, Found

LEMMA OwnerWalks ==
  ASSUME IInv, ~undefined,
         \/ OnStart \/ OnStop \/ FreeListener \/ EndIteration \/ LoopExit \/ Join
  PROVE  IInv'
<1>0. UNCHANGED <<conns, current, undefined>> /\ TypeOK /\ Sound
  BY DEF IInv, OnStart, OnStop, FreeListener, EndIteration, LoopExit, Join
<1>1. IdsInOrder' /\ NobodyElse' /\ Alive' = Alive /\ \A c : Found(c)' <=> Found(c)
  BY <1>0, SameConns DEF Sound
<1>2. TypeOK'
  BY <1>0 DEF TypeOK, conns, OnStart, OnStop, FreeListener, EndIteration, LoopExit, Join
<1>3. loop' = loop \/ (loop = "none" /\ loop' = "starting")
  BY <1>0 DEF Sound, OwnerKnows, OnStart, OnStop, FreeListener, EndIteration, LoopExit, Join
<1>4. EveryoneFound' /\ CallbackKnows'
  BY <1>0, <1>1, <1>3 DEF Sound, EveryoneFound, CallbackKnows, Busy, conns
<1>5. OwnerKnows'
  <2>1. CASE OnStart
    BY <1>0, <2>1 DEF Sound, OwnerKnows, Closing, conns, OnStart
  <2>2. CASE OnStop
    BY <1>0, <2>2 DEF Sound, OwnerKnows, Closing, conns, OnStop
  <2>3. CASE FreeListener
    BY <1>0, <2>3 DEF Sound, OwnerKnows, Closing, conns, FreeListener
  <2>4. CASE EndIteration
    <3>1. \A i \in DOMAIN table : table[i] = NoConn
      BY <2>4 DEF EndIteration, Range
    <3>2. \A c \in Conns : life[c] # "dying"
      <4>1. \A c \in Conns : life[c] = "dying" => Found(c)
        BY <1>0 DEF Sound, OwnerKnows
      <4> QED BY <3>1, <4>1 DEF Found, Conns, NoConn
    <3> QED BY <1>0, <2>4, <3>1, <3>2 DEF Sound, OwnerKnows, Closing, conns, EndIteration
  <2>5. CASE LoopExit
    BY <1>0, <2>5 DEF Sound, OwnerKnows, Closing, conns, LoopExit
  <2>6. CASE Join
    BY <1>0, <2>6 DEF Sound, OwnerKnows, Closing, conns, Join
  <2> QED BY <2>1, <2>2, <2>3, <2>4, <2>5, <2>6
<1> QED BY <1>0, <1>1, <1>2, <1>4, <1>5 DEF IInv, Sound

LEMMA LoopWalks ==
  ASSUME IInv, ~undefined,
         EnterLoop \/ ExitLoop \/ ListenCallback \/ Read \/ \E c \in Conns : ReadCallback(c)
  PROVE  IInv'
<1>0. UNCHANGED <<conns, owner, listening, undefined>> /\ TypeOK /\ Sound
  BY DEF IInv, EnterLoop, ExitLoop, ListenCallback, Read, ReadCallback
<1>1. IdsInOrder' /\ NobodyElse' /\ Alive' = Alive /\ \A c : Found(c)' <=> Found(c)
  BY <1>0, SameConns DEF Sound
<1>2. TypeOK'
  BY <1>0 DEF TypeOK, conns, EnterLoop, ExitLoop, ListenCallback, Read, ReadCallback
<1>3. EveryoneFound'
  BY <1>0, <1>1
    DEF Sound, EveryoneFound, conns, EnterLoop, ExitLoop, ListenCallback, Read, ReadCallback
<1>4. CallbackKnows'
  <2>1. CASE EnterLoop \/ ExitLoop \/ ListenCallback
    BY <1>0, <1>1, <2>1 DEF Sound, CallbackKnows, Busy, conns, EnterLoop, ExitLoop, ListenCallback
  <2>2. CASE Read
    BY <1>0, <1>1, <2>2 DEF Sound, CallbackKnows, Busy, conns, Read, NoConn
  <2>3. ASSUME NEW c \in Conns, ReadCallback(c) PROVE CallbackKnows'
    <3>1. c \in Alive /\ c # NoConn
      BY <2>3 DEF ReadCallback, Alive, Conns, NoConn
    <3> QED BY <1>0, <1>1, <2>3, <3>1 DEF Sound, CallbackKnows, Busy, conns, ReadCallback
  <2> QED BY <2>1, <2>2, <2>3
<1>5. OwnerKnows'
  <2>1. loop # "none" /\ loop # "exited"
    BY <1>0 DEF EnterLoop, ExitLoop, ListenCallback, Read, ReadCallback
  <2>2. /\ owner \in Closing => loop' \notin {"accepting", "registering"}
        /\ owner # "new" /\ owner # "stopped"
    BY <1>0, <2>1
    DEF Sound, OwnerKnows, Closing, EnterLoop, ExitLoop, ListenCallback, Read, ReadCallback
  <2> QED BY <1>0, <1>1, <2>2 DEF Sound, OwnerKnows, conns
<1> QED BY <1>0, <1>1, <1>2, <1>3, <1>4, <1>5 DEF IInv, Sound

-----------------------------------------------------------------------------
(* Steps that change the connections or the table.                         *)

\* Only connections and ids decide about IdsInOrder.
LEMMA SameIds ==
  ASSUME IdsInOrder, nextId' = nextId, clash' = clash, id' = id, Accepted' = Accepted
  PROVE  IdsInOrder'
BY DEF IdsInOrder

LEMMA TableType ==
  ASSUME TypeOK, NEW i \in DOMAIN table
  PROVE  i \in Ids /\ table[i] \in Conns \cup {NoConn}
BY DEF TypeOK, Range

LEMMA BeginDeleteStep ==
  ASSUME IInv, ~undefined, NEW c \in Conns, BeginDelete(c)
  PROVE  IInv'
<1>0. /\ UNCHANGED <<threads, listening, exiting, nextId, clash, id, table, undefined>> /\ TypeOK /\ Sound
      /\ life' = [life EXCEPT ![c] = "dying"] /\ owner = "deleting" /\ InTable(c)
  BY DEF IInv, BeginDelete
<1>1. Found(c) /\ c \in Alive
  BY <1>0 DEF InTable, Range, Sound, NobodyElse, Found
<1>2. Alive' = Alive /\ Accepted' = Accepted
  BY <1>0, <1>1 DEF Alive, Accepted, TypeOK
<1>3. TypeOK'
  BY <1>0 DEF TypeOK, threads
<1>4. IdsInOrder' /\ EveryoneFound' /\ NobodyElse'
  BY <1>0, <1>2, SameIds DEF Sound, EveryoneFound, NobodyElse, Found, threads
<1>5. life[c] # "new"
  BY <1>0 DEF Sound, OwnerKnows, CallbackKnows, Closing
<1>6. CallbackKnows'
  BY <1>0, <1>2, <1>5 DEF Sound, OwnerKnows, CallbackKnows, Closing, Busy, threads, TypeOK
<1>7. OwnerKnows'
  BY <1>0, <1>1 DEF Sound, OwnerKnows, Closing, Found, threads, TypeOK
<1> QED BY <1>0, <1>3, <1>4, <1>6, <1>7 DEF IInv, Sound

LEMMA EndDeleteStep ==
  ASSUME IInv, ~undefined, NEW c \in Conns, EndDelete(c)
  PROVE  IInv'
<1>0. /\ UNCHANGED <<threads, listening, exiting, nextId, clash, id, undefined>> /\ TypeOK /\ Sound
      /\ life' = [life EXCEPT ![c] = "deleted"] /\ owner = "deleting" /\ life[c] = "dying"
      /\ table' = [i \in DOMAIN table |-> IF table[i] = c THEN NoConn ELSE table[i]]
      /\ current # c
  BY DEF IInv, EndDelete
<1>1. c \in Alive /\ c # NoConn
  BY <1>0 DEF Alive, Conns, NoConn
<1>2. Alive' = Alive \ {c} /\ Accepted' = Accepted
  BY <1>0 DEF Alive, Accepted, TypeOK
<1>3. /\ DOMAIN table' = DOMAIN table
      /\ \A i \in DOMAIN table : table'[i] = IF table[i] = c THEN NoConn ELSE table[i]
  BY <1>0
<1>4. TypeOK'
  <2>1. Range(table') \subseteq Conns \cup {NoConn}
    BY <1>0, <1>3, TableType DEF Range
  <2> QED BY <1>0, <1>3, <2>1 DEF TypeOK, threads
<1>5. IdsInOrder'
  BY <1>0, <1>2, SameIds DEF Sound
<1>6. NobodyElse'
  BY <1>0, <1>2, <1>3 DEF Sound, NobodyElse
<1>7. EveryoneFound'
  BY <1>0, <1>2, <1>3 DEF Sound, EveryoneFound, Found, threads
<1>8. CallbackKnows'
  BY <1>0, <1>2, <1>3 DEF Sound, CallbackKnows, Busy, threads, TypeOK
<1>9. OwnerKnows'
  <2>1. ASSUME NEW d \in Conns, life'[d] = "dying" PROVE owner' = "deleting" /\ Found(d)'
    <3>1. d # c /\ life[d] = "dying"
      BY <1>0, <2>1 DEF TypeOK
    <3> QED BY <1>0, <1>3, <3>1 DEF Sound, OwnerKnows, Found, threads
  <2> QED BY <1>0, <2>1 DEF Sound, OwnerKnows, Closing, threads
<1> QED BY <1>0, <1>4, <1>5, <1>6, <1>7, <1>8, <1>9 DEF IInv, Sound

LEMMA ClearTableStep ==
  ASSUME IInv, ~undefined, ClearTable
  PROVE  IInv'
<1>0. /\ UNCHANGED <<loop, current, listening, exiting, nextId, clash, id, life, undefined>> /\ TypeOK /\ Sound
      /\ owner = "clearing" /\ owner' = "exiting" /\ DOMAIN table' = {}
  BY DEF IInv, ClearTable
<1>1. Alive' = Alive /\ Accepted' = Accepted
  BY <1>0 DEF Alive, Accepted
<1>2. \A i \in DOMAIN table : table[i] = NoConn
  BY <1>0 DEF Sound, OwnerKnows, Closing
<1>3. \A d \in Alive : ~Found(d)
  BY <1>2 DEF Found, Alive, Conns, NoConn
<1>4. TypeOK'
  BY <1>0 DEF TypeOK, Range
<1>5. IdsInOrder' /\ NobodyElse'
  BY <1>0, <1>1, SameIds DEF Sound, NobodyElse
<1>6. EveryoneFound' /\ CallbackKnows'
  BY <1>0, <1>1, <1>3 DEF Sound, EveryoneFound, CallbackKnows, Busy
<1>7. OwnerKnows'
  BY <1>0 DEF Sound, OwnerKnows, Closing
<1> QED BY <1>0, <1>4, <1>5, <1>6, <1>7 DEF IInv, Sound

\* The id a new connection gets is that of no entry of the table, or ids have
\* run out.
LEMMA NewConnectStep ==
  ASSUME IInv, ~undefined, NewConnect
  PROVE  IInv'
<1>0. /\ UNCHANGED <<owner, listening, exiting>> /\ TypeOK /\ Sound
      /\ loop = "accepting" /\ loop' = "registering" /\ nextId' = NextUnique(nextId)
      /\ owner \notin Closing /\ current = NoConn
  BY DEF IInv, NewConnect, Sound, OwnerKnows, CallbackKnows, Busy
<1>1. PICK k \in 0 .. MaxAccepts, f \in Ids :
        /\ Accepted = 1 .. k
        /\ k <= IdSpace => /\ ~clash
                           /\ nextId = Wrap(f + k)
                           /\ \A d \in 1 .. k : id[d] = Wrap(f + (d - 1))
  BY <1>0 DEF Sound, IdsInOrder
<1>2. k \in Nat /\ MaxAccepts \in Nat /\ IdSpace \in Nat
  BY ServiceAssumption
<1>3. Cardinality(1 .. k) = k
  BY <1>2, FS_Interval
<1> DEFINE c == k + 1
<1>4. /\ c \in Conns
      /\ life' = [life EXCEPT ![c] = "new"]
      /\ id' = [id EXCEPT ![c] = nextId]
      /\ table' = [i \in DOMAIN table \cup {nextId} |-> IF i \in DOMAIN table THEN table[i] ELSE c]
      /\ current' = c
      /\ clash' = (clash \/ nextId \in DOMAIN table)
  BY <1>1, <1>3 DEF NewConnect
<1>5. c \in Nat /\ c \in 1 .. MaxAccepts /\ c # NoConn /\ c \notin 1 .. k /\ 1 .. c = (1 .. k) \cup {c}
  BY <1>2, <1>4 DEF Conns, NoConn
<1>6. Accepted' = 1 .. c
  <2>1. 1 .. c = Accepted \cup {c}
    BY <1>1, <1>5
  <2> HIDE DEF c
  <2>2. \A d \in Conns : life'[d] = IF d = c THEN "new" ELSE life[d]
    BY <1>0, <1>4 DEF TypeOK
  <2>3. \A d \in Conns : d \in Accepted' <=> d \in Accepted \cup {c}
    BY <2>2 DEF Accepted
  <2>4. Accepted' \subseteq Conns /\ Accepted \cup {c} \subseteq Conns
    BY <1>4 DEF Accepted
  <2> QED BY <2>1, <2>3, <2>4
<1>7. life[c] = "none" /\ Alive' = Alive \cup {c} /\ c \notin Alive
  <2>1. life[c] = "none"
    BY <1>1, <1>4, <1>5 DEF Accepted
  <2> HIDE DEF c
  <2>2. \A d \in Conns : life'[d] = IF d = c THEN "new" ELSE life[d]
    BY <1>0, <1>4 DEF TypeOK
  <2>3. c \in Alive' /\ c \notin Alive
    BY <1>4, <2>1, <2>2 DEF Alive
  <2>4. \A d \in Conns \ {c} : d \in Alive' <=> d \in Alive
    BY <2>2 DEF Alive
  <2>5. Alive \subseteq Conns /\ Alive' \subseteq Conns
    BY DEF Alive
  <2> QED BY <1>4, <2>1, <2>3, <2>4, <2>5
<1>8. nextId \in Ids /\ nextId' \in Ids /\ (k < IdSpace => nextId' = Wrap(f + c))
  <2>1. nextId \in Ids
    BY <1>0 DEF TypeOK
  <2>2. nextId' \in Ids /\ nextId' = Wrap(nextId + 1)
    BY <1>0, <2>1, NextUniqueValue
  <2>3. k < IdSpace => k <= IdSpace /\ Wrap(Wrap(f + k) + 1) = Wrap(f + (k + 1))
    BY <1>2, IdAfter
  <2> QED BY <1>1, <2>1, <2>2, <2>3
<1>9. k < IdSpace => nextId \notin DOMAIN table
  <2>1. SUFFICES ASSUME k < IdSpace, nextId \in DOMAIN table PROVE FALSE
    OBVIOUS
  <2>0. k <= IdSpace
    BY <1>2, <2>1
  <2> DEFINE d == table[nextId]
  <2>2. d # NoConn
    BY <1>0, <2>1 DEF Sound, OwnerKnows
  <2>3. d \in Alive /\ id[d] = nextId
    BY <1>0, <2>1, <2>2 DEF Sound, NobodyElse
  <2>4. d \in 1 .. k
    BY <1>1, <2>3 DEF Alive, Accepted
  <2> HIDE DEF d
  <2>5. d - 1 \in Nat /\ d - 1 < k /\ id[d] = Wrap(f + (d - 1))
    BY <1>1, <1>2, <2>0, <2>4
  <2>6. Wrap(f + (d - 1)) # Wrap(f + k)
    BY <1>2, <2>1, <2>5, IdsDiffer
  <2> QED BY <1>1, <2>0, <2>3, <2>5, <2>6
<1>10. /\ id'[c] = nextId /\ \A d \in Conns \ {c} : id'[d] = id[d] /\ life'[d] = life[d]
       /\ life'[c] = "new"
       /\ DOMAIN table' = DOMAIN table \cup {nextId}
       /\ nextId \notin DOMAIN table => table'[nextId] = c
       /\ \A i \in DOMAIN table : table'[i] = table[i]
  BY <1>0, <1>4 DEF TypeOK
<1>11. Alive \subseteq Conns
  BY DEF Alive
<1>12. TypeOK'
  <2>1. Range(table') \subseteq Conns \cup {NoConn}
    BY <1>0, <1>4, <1>10, TableType DEF Range
  <2>2. undefined' \in BOOLEAN /\ clash' \in BOOLEAN
    BY DEF NewConnect, TypeOK
  <2>3. /\ id' \in [Conns -> Ids]
        /\ life' \in [Conns -> {"none", "new", "open", "dying", "deleted"}]
    BY <1>0, <1>4, <1>8 DEF TypeOK
  <2>4. DOMAIN table' \subseteq Ids
    BY <1>0, <1>8, <1>10 DEF TypeOK
  <2> QED BY <1>0, <1>4, <1>8, <2>1, <2>2, <2>3, <2>4 DEF TypeOK
<1>13. IdsInOrder'
  <2>3. c <= IdSpace => k < IdSpace /\ k <= IdSpace
    BY <1>2
  <2>1. c <= IdSpace => \A d \in 1 .. c : id'[d] = Wrap(f + (d - 1))
    <3> HAVE c <= IdSpace
    <3> TAKE d \in 1 .. c
    <3>1. CASE d = c
      <4>1. d - 1 = k
        BY <1>2, <3>1
      <4> QED BY <1>1, <1>10, <2>3, <3>1, <4>1
    <3>2. CASE d # c
      <4>1. d \in 1 .. k /\ d \in Conns
        BY <1>2, <1>5, <3>2 DEF Conns
      <4> QED BY <1>1, <1>10, <2>3, <3>2, <4>1
    <3> QED BY <3>1, <3>2
  <2>2. c \in 0 .. MaxAccepts
    BY <1>5
  <2>4. c <= IdSpace => ~clash' /\ nextId' = Wrap(f + c)
    BY <1>1, <1>4, <1>8, <1>9, <2>3
  <2> HIDE DEF c
  <2> QED BY <1>6, <1>8, <2>1, <2>2, <2>4 DEF IdsInOrder, Ids
<1>14. EveryoneFound'
  <2> SUFFICES ASSUME ~clash', NEW d \in Alive' PROVE Found(d)'
    BY DEF EveryoneFound
  <2>0. ~clash /\ nextId \notin DOMAIN table
    BY <1>4
  <2>1. CASE d = c
    BY <1>10, <2>0, <2>1 DEF Found
  <2>2. CASE d \in Alive
    <3>1. Found(d) /\ d \in Conns \ {c}
      BY <1>0, <1>7, <1>11, <2>0, <2>2 DEF Sound, EveryoneFound
    <3> QED BY <1>10, <3>1 DEF Found
  <2> QED BY <1>7, <2>1, <2>2
<1>15. NobodyElse'
  <2> SUFFICES ASSUME NEW i \in DOMAIN table', table'[i] # NoConn
               PROVE  table'[i] \in Alive' /\ id'[table'[i]] = i
    BY DEF NobodyElse
  <2>1. CASE i = nextId /\ nextId \notin DOMAIN table
    BY <1>7, <1>10, <2>1
  <2>2. CASE i \in DOMAIN table
    <3>1. table[i] \in Alive /\ id[table[i]] = i /\ table[i] \in Conns \ {c}
      BY <1>0, <1>7, <1>10, <1>11, <2>2 DEF Sound, NobodyElse
    <3> QED BY <1>7, <1>10, <2>2, <3>1
  <2> QED BY <1>10, <2>1, <2>2
<1>16. CallbackKnows'
  <2>1. \A d \in Conns : life[d] # "new"
    BY <1>0 DEF Sound, CallbackKnows
  <2> QED BY <1>0, <1>4, <1>5, <1>7, <1>10, <2>1 DEF CallbackKnows, Busy
<1>17. OwnerKnows'
  <2>1. \A d \in Conns : life'[d] # "dying"
    BY <1>0, <1>10 DEF Sound, OwnerKnows, Closing
  <2>2. owner # "new" /\ owner # "stopped"
    BY <1>0 DEF Sound, OwnerKnows
  <2>3. \A i \in DOMAIN table' : table'[i] # NoConn
    <3>1. \A i \in DOMAIN table' : i \in DOMAIN table \/ (i = nextId /\ nextId \notin DOMAIN table)
      BY <1>10
    <3> QED BY <1>0, <1>5, <1>10, <3>1 DEF Sound, OwnerKnows
  <2> QED BY <1>0, <2>1, <2>2, <2>3 DEF OwnerKnows
<1> QED BY <1>12, <1>13, <1>14, <1>15, <1>16, <1>17 DEF IInv, Sound

LEMMA RegisterStep ==
  ASSUME IInv, ~undefined, Register
  PROVE  IInv'
<1>0. /\ UNCHANGED <<owner, listening, exiting, nextId, clash, id, table, undefined>> /\ TypeOK /\ Sound
      /\ loop = "registering" /\ loop' = "idle" /\ current' = NoConn
      /\ life' = [life EXCEPT ![current] = "open"] /\ life[current] = "new" /\ current \in Conns
  BY DEF IInv, Register, Sound, CallbackKnows, Busy, Alive
<1>1. Alive' = Alive /\ Accepted' = Accepted
  BY <1>0 DEF Alive, Accepted, TypeOK
<1>2. TypeOK'
  BY <1>0 DEF TypeOK
<1>3. IdsInOrder' /\ EveryoneFound' /\ NobodyElse'
  BY <1>0, <1>1, SameIds DEF Sound, EveryoneFound, NobodyElse, Found
<1>4. CallbackKnows'
  BY <1>0, <1>1 DEF Sound, CallbackKnows, Busy, TypeOK
<1>5. OwnerKnows'
  BY <1>0 DEF Sound, OwnerKnows, Closing, Found, TypeOK
<1> QED BY <1>0, <1>2, <1>3, <1>4, <1>5 DEF IInv, Sound

\* A read that failed: its connection's entry goes, and no other.
LEMMA EraseStep ==
  ASSUME IInv, ~undefined, Erase \/ EraseAgain
  PROVE  IInv'
<1>0. /\ UNCHANGED <<owner, current, listening, exiting, nextId, clash, id, life>> /\ TypeOK /\ Sound
      /\ \/ loop = "failed" /\ loop' = "erased"
         \/ loop = "erased" /\ loop' = "deleting"
      /\ table' = Restrict(table, DOMAIN table \ {id[current]})
      /\ undefined' \in BOOLEAN
  BY DEF IInv, Erase, EraseAgain
<1>1. /\ DOMAIN table' = DOMAIN table \ {id[current]}
      /\ \A i \in DOMAIN table' : table'[i] = table[i]
  BY <1>0 DEF Restrict
<1>2. Alive' = Alive /\ Accepted' = Accepted
  BY <1>0 DEF Alive, Accepted
<1>3. TypeOK'
  <2>1. Range(table') \subseteq Conns \cup {NoConn}
    BY <1>0, <1>1, TableType DEF Range
  <2> QED BY <1>0, <1>1, <2>1 DEF TypeOK
<1>4. SUFFICES ASSUME ~undefined' PROVE Sound'
  BY <1>3 DEF IInv
<1>5. loop = "failed" => owner \notin {"deleting", "clearing"}
  BY <1>0, <1>4 DEF Erase, EraseAgain, OwnerInTable
<1>6. IdsInOrder' /\ NobodyElse'
  BY <1>0, <1>1, <1>2, SameIds DEF Sound, NobodyElse
<1>7. current \in Alive
  BY <1>0 DEF Sound, CallbackKnows, Busy
<1>8. ASSUME NEW d \in Alive, Found(d), id[d] # id[current] PROVE Found(d)'
  BY <1>0, <1>1, <1>8 DEF Found
<1>12. loop = "erased" => id[current] \notin DOMAIN table
  BY <1>0 DEF Sound, CallbackKnows
<1>9. EveryoneFound'
  <2>1. SUFFICES ASSUME ~clash, NEW d \in Alive, d # current PROVE Found(d)'
    BY <1>0, <1>2 DEF EveryoneFound
  <2>2. Found(d) /\ (loop = "failed" => Found(current))
    BY <1>0, <1>7, <2>1 DEF Sound, EveryoneFound
  <2>3. id[d] # id[current]
    BY <1>0, <1>12, <2>1, <2>2 DEF Found
  <2> QED BY <1>8, <2>2, <2>3
<1>10. CallbackKnows'
  BY <1>0, <1>1, <1>2 DEF Sound, CallbackKnows, Busy
<1>11. OwnerKnows'
  <2>1. ASSUME NEW d \in Conns, life[d] = "dying" PROVE Found(d)'
    <3>1. Found(d) /\ owner = "deleting" /\ d \in Alive
      BY <1>0, <2>1 DEF Sound, OwnerKnows, Alive
    <3>2. loop = "erased" /\ id[current] \notin DOMAIN table
      BY <1>0, <1>5, <1>12, <3>1
    <3>3. id[d] # id[current]
      BY <3>1, <3>2 DEF Found
    <3> QED BY <1>8, <3>1, <3>3
  <2> QED BY <1>0, <1>1, <2>1 DEF Sound, OwnerKnows, Closing
<1> QED BY <1>6, <1>9, <1>10, <1>11 DEF Sound

LEMMA DeleteSelfStep ==
  ASSUME IInv, ~undefined, DeleteSelf
  PROVE  IInv'
<1>0. /\ UNCHANGED <<owner, listening, exiting, nextId, clash, id, table, undefined>> /\ TypeOK /\ Sound
      /\ loop = "deleting" /\ loop' = "idle" /\ current' = NoConn
      /\ life' = [life EXCEPT ![current] = "deleted"] /\ current \in Alive /\ current \in Conns
      /\ id[current] \notin DOMAIN table
  BY DEF IInv, DeleteSelf, Sound, CallbackKnows, Busy, Alive
<1>1. Alive' = Alive \ {current} /\ Accepted' = Accepted
  BY <1>0 DEF Alive, Accepted, TypeOK
<1>2. TypeOK'
  BY <1>0 DEF TypeOK
<1>3. IdsInOrder' /\ EveryoneFound' /\ NobodyElse'
  BY <1>0, <1>1, SameIds DEF Sound, EveryoneFound, NobodyElse, Found
<1>4. CallbackKnows'
  BY <1>0, <1>1 DEF Sound, CallbackKnows, Busy, TypeOK
<1>5. OwnerKnows'
  BY <1>0 DEF Sound, OwnerKnows, Closing, Found, TypeOK
<1> QED BY <1>0, <1>2, <1>3, <1>4, <1>5 DEF IInv, Sound

LEMMA NextInv ==
  ASSUME IInv, [Next]_vars
  PROVE  IInv'
<1>1. CASE UNCHANGED vars
  <2>1. UNCHANGED <<owner, loop, current, listening, exiting, undefined, conns>>
    BY <1>1 DEF vars, threads
  <2>2. TypeOK'
    BY <2>1 DEF IInv, TypeOK, conns
  <2>3. Sound => IdsInOrder' /\ NobodyElse' /\ Alive' = Alive /\ \A c : Found(c)' <=> Found(c)
    BY <2>1, SameConns DEF Sound
  <2>4. Sound => EveryoneFound' /\ CallbackKnows' /\ OwnerKnows'
    BY <2>1, <2>3 DEF Sound, EveryoneFound, CallbackKnows, OwnerKnows, conns
  <2> QED BY <2>1, <2>2, <2>3, <2>4 DEF IInv, Sound
<1>2. CASE Next
  <2>0. ~undefined
    BY <1>2 DEF Next
  <2>1. CASE OnStart \/ OnStop
    BY <2>0, <2>1, OwnerWalks
  <2>2. CASE OwnerStep
    BY <2>0, <2>2, OwnerWalks, ClearTableStep, BeginDeleteStep DEF OwnerStep
  <2>3. ASSUME NEW c \in Conns, EndDelete(c) \/ ReadCallback(c) PROVE IInv'
    BY <2>0, <2>3, EndDeleteStep, LoopWalks
  <2>4. CASE LoopStep
    BY <2>0, <2>4, LoopWalks, NewConnectStep, RegisterStep, EraseStep, DeleteSelfStep DEF LoopStep
  <2>5. CASE ListenCallback \/ ExitLoop
    BY <2>0, <2>5, LoopWalks
  <2> QED BY <1>2, <2>1, <2>2, <2>3, <2>4, <2>5 DEF Next
<1> QED BY <1>1, <1>2

LEMMA Invariant == Spec => []IInv
<1>1. Init => IInv
  BY InitInv
<1>2. IInv /\ [Next]_vars => IInv'
  BY NextInv
<1> QED BY <1>1, <1>2, PTL DEF Spec

-----------------------------------------------------------------------------

\* Types of the service; the ids in the table are ids.
THEOREM TypeCorrect == Spec => []TypeOK
<1>1. IInv => TypeOK
  BY DEF IInv
<1> QED BY <1>1, Invariant, PTL

\* What _wsconnectMgr holds lives, through accepts, failed reads and OnStop();
\* and all that lives is in it, as long as insert() has found no entry under
\* the id of a new connection.
THEOREM TableAgrees == Spec => []TableIsExact
<1>1. IInv => TableIsExact
  BY DEF IInv, Sound, TableIsExact, EveryoneFound, NobodyElse, Found
<1> QED BY <1>1, Invariant, PTL

\* Make_uniqueId() gives an id that is taken only after all others, also when
\* _UniqueId wraps.
THEOREM IdsAreUsedUp == Spec => []IdsLast
<1>1. ASSUME IInv, ~undefined, clash PROVE Cardinality(Accepted) > IdSpace
  <2>1. PICK k \in 0 .. MaxAccepts : Accepted = 1 .. k /\ ~(k <= IdSpace)
    BY <1>1 DEF IInv, Sound, IdsInOrder
  <2>2. k \in Nat /\ IdSpace \in Nat
    BY ServiceAssumption
  <2>3. Cardinality(1 .. k) = k
    BY <2>2, FS_Interval
  <2> QED BY <2>1, <2>2, <2>3
<1>2. IInv => IdsLast
  BY <1>1 DEF IdsLast
<1> QED BY <1>2, Invariant, PTL

\* event_free() in a destructor keeps callbacks off the deleted connection.
THEOREM CallbacksMeetTheLiving == Spec => []NoCallbackOnDeleted
<1>1. IInv => NoCallbackOnDeleted
  BY DEF IInv, Sound, CallbackKnows, NoCallbackOnDeleted
<1> QED BY <1>1, Invariant, PTL

\* OnStop() deletes every connection, however many were accepted, as long as no
\* id was given while it was taken.
THEOREM StopLeavesNothing == Spec => []NothingLeftAtStop
<1>1. ASSUME IInv, owner = "stopped", ~undefined, ~clash PROVE Alive = {}
  <2>1. Sound /\ loop = "exited" /\ \A i \in DOMAIN table : table[i] = NoConn
    BY <1>1 DEF IInv, Sound, OwnerKnows, Closing
  <2>2. \A c \in Alive : Found(c)
    BY <1>1, <2>1 DEF Sound, EveryoneFound
  <2> QED BY <2>1, <2>2 DEF Found, Alive, Conns, NoConn
<1>2. IInv => NothingLeftAtStop
  BY <1>1 DEF NothingLeftAtStop
<1> QED BY <1>2, Invariant, PTL

=============================================================================
