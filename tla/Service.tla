------------------------------ MODULE Service -------------------------------
(***************************************************************************)
(* The life of a service of ExtNet and of its connections: WsService,      *)
(* WsConnectMgr, the construction and destruction of WsConnect, and main() *)
(* of Net.cc.  TcpService and its classes are the same code with one       *)
(* deleteConnect() less.  Two threads: the owner (main) and the service's  *)
(* own thread in event_base_loop().                                        *)
(*                                                                         *)
(* libevent is external: a callback runs in the loop thread; event_free()  *)
(* from another thread waits while the event's callback runs, from the     *)
(* loop thread it does not; event_base_loopexit() leaves an event that     *)
(* ends the loop, also one that has not been entered; the loop stays when  *)
(* no event is left (EVLOOP_NO_EXIT_ON_EMPTY).                             *)
(*                                                                         *)
(* The table of connections is an unordered_map without a lock: an access  *)
(* while the other thread changes it is undefined, as is a call through    *)
(* the pointer that a destructor has just cleared.                         *)
(***************************************************************************)
EXTENDS Integers, FiniteSets, Functions

CONSTANTS MaxAccepts,  \* bound: connections accepted in all
          IdSpace,     \* number of connection ids (2^32)
          FirstIds     \* what _UniqueId may be at first: 0 in WsConnectMgr,
                       \* anything in TcpConnectMgr, which does not set it

Conns == 1 .. MaxAccepts
Ids == 0 .. IdSpace - 1

ASSUME ServiceAssumption ==
  /\ MaxAccepts \in Nat /\ IdSpace \in Nat \ {0}
  /\ FirstIds \subseteq Ids

NoConn == 0

VARIABLES
  owner,      \* where main() is: new, failed, serving, the steps of OnStop(),
              \* stopped
  loop,       \* where the service thread is, in or between callbacks
  current,    \* the connection its callback is about
  listening,  \* is the listener's event added?
  exiting,    \* has event_base_loopexit() been called?
  nextId,     \* _UniqueId
  clash,      \* history: has an id been given that was in the table?
  id,         \* _connonId of each connection
  life,       \* each connection: none, new (no event yet), open, dying (its
              \* destructor waits in event_free()), deleted
  table,      \* _connectMgr: id -> connection, or null once deleted
  undefined   \* has undefined behaviour been reached?

conns == <<nextId, clash, id, life, table>>
threads == <<owner, loop, current>>
vars == <<threads, listening, exiting, conns, undefined>>

Init ==
  /\ owner = "new" /\ loop = "none" /\ current = NoConn
  /\ listening = FALSE /\ exiting = FALSE
  /\ nextId \in FirstIds
  /\ clash = FALSE
  /\ id = [c \in Conns |-> 0]
  /\ life = [c \in Conns |-> "none"]
  /\ table = [i \in {} |-> NoConn]
  /\ undefined = FALSE

\* OnStop() is iterating over the table or clearing it.
OwnerInTable == owner \in {"deleting", "clearing"}

-----------------------------------------------------------------------------
(* The owner.                                                              *)

\* OnStart(): openLister() fails, or the listener's event is added and the
\* thread started.
OnStart ==
  /\ owner = "new"
  /\ \/ owner' = "failed" /\ UNCHANGED <<loop, listening>>
     \/ owner' = "serving" /\ loop' = "starting" /\ listening' = TRUE
  /\ UNCHANGED <<current, exiting, conns, undefined>>

\* "exit" has been typed.
OnStop ==
  /\ owner = "serving"
  /\ owner' = "stopping"
  /\ UNCHANGED <<loop, current, listening, exiting, conns, undefined>>

\* Seeded fault: the listener is left for later.
KeepListener ==
  /\ owner = "stopping"
  /\ owner' = "deleting"
  /\ UNCHANGED <<loop, current, listening, exiting, conns, undefined>>

\* event_free(_ev): the listener's callback is not running from here on.
FreeListener ==
  /\ owner = "stopping" /\ loop \notin {"accepting", "registering"}
  /\ listening' = FALSE
  /\ owner' = "deleting"
  /\ UNCHANGED <<loop, current, exiting, conns, undefined>>

InTable(c) == c \in Range(table) \ {NoConn}

\* delete it.second: the destructor clears the connection's fields ...
BeginDelete(c) ==
  /\ owner = "deleting" /\ InTable(c) /\ \A d \in Conns : life[d] # "dying"
  /\ life' = [life EXCEPT ![c] = "dying"]
  /\ UNCHANGED <<threads, listening, exiting, nextId, clash, id, table, undefined>>

\* Seeded fault: the destructor does not wait for the event's callback.
EndDeleteAtOnce(c) ==
  /\ owner = "deleting" /\ life[c] = "dying"
  /\ life' = [life EXCEPT ![c] = "deleted"]
  /\ table' = [i \in DOMAIN table |-> IF table[i] = c THEN NoConn ELSE table[i]]
  /\ UNCHANGED <<threads, listening, exiting, nextId, clash, id, undefined>>

\* ... frees the event once its callback does not run, and closes the socket.
EndDelete(c) ==
  /\ owner = "deleting" /\ life[c] = "dying" /\ current # c
  /\ life' = [life EXCEPT ![c] = "deleted"]
  /\ table' = [i \in DOMAIN table |-> IF table[i] = c THEN NoConn ELSE table[i]]
  /\ UNCHANGED <<threads, listening, exiting, nextId, clash, id, undefined>>

EndIteration ==
  /\ owner = "deleting" /\ Range(table) \subseteq {NoConn}
  /\ owner' = "clearing"
  /\ UNCHANGED <<loop, current, listening, exiting, conns, undefined>>

ClearTable ==
  /\ owner = "clearing"
  /\ table' = [i \in {} |-> NoConn]
  /\ owner' = "exiting"
  /\ UNCHANGED <<loop, current, listening, exiting, nextId, clash, id, life, undefined>>

\* Seeded fault: event_base_loopbreak(), which a loop forgets on entry.
LoopBreak ==
  /\ owner = "exiting"
  /\ exiting' = (loop # "starting")
  /\ owner' = "joining"
  /\ UNCHANGED <<loop, current, listening, conns, undefined>>

\* close(_listenfd), event_base_loopexit().
LoopExit ==
  /\ owner = "exiting"
  /\ exiting' = TRUE
  /\ owner' = "joining"
  /\ UNCHANGED <<loop, current, listening, conns, undefined>>

\* join(); packlist is empty, nothing calls AddPack().
Join ==
  /\ owner = "joining" /\ loop = "exited"
  /\ owner' = "stopped"
  /\ UNCHANGED <<loop, current, listening, exiting, conns, undefined>>

OwnerStep ==
  \/ FreeListener \/ EndIteration \/ ClearTable \/ LoopExit \/ Join
  \/ \E c \in Conns : BeginDelete(c)

-----------------------------------------------------------------------------
(* The service thread.                                                     *)

EnterLoop ==
  /\ loop = "starting"
  /\ loop' = "idle"
  /\ UNCHANGED <<owner, current, listening, exiting, conns, undefined>>

ExitLoop ==
  /\ loop = "idle" /\ exiting
  /\ loop' = "exited"
  /\ UNCHANGED <<owner, current, listening, exiting, conns, undefined>>

Accepted == {c \in Conns : life[c] # "none"}

\* ws_listen_cb(); a failed accept() ends the callback without a trace.
ListenCallback ==
  /\ loop = "idle" /\ listening /\ Accepted # Conns
  /\ loop' = "accepting"
  /\ UNCHANGED <<owner, current, listening, exiting, conns, undefined>>

\* Seeded fault: the increment is lost.
SameAgain(i) == i

\* Make_uniqueId(): an unsigned int that wraps.
NextUnique(i) == (i + 1) % IdSpace

\* doAccept() as far as NewConnect(): insert() keeps an entry it finds, and
\* nobody asks whether it did.
NewConnect ==
  /\ loop = "accepting"
  /\ \E c \in Conns :
       /\ c = Cardinality(Accepted) + 1
       /\ life' = [life EXCEPT ![c] = "new"]
       /\ id' = [id EXCEPT ![c] = nextId]
       /\ table' = [i \in DOMAIN table \cup {nextId} |->
                      IF i \in DOMAIN table THEN table[i] ELSE c]
       /\ current' = c
  /\ clash' = (clash \/ nextId \in DOMAIN table)
  /\ nextId' = NextUnique(nextId)
  /\ loop' = "registering"
  /\ undefined' = (undefined \/ OwnerInTable)
  /\ UNCHANGED <<owner, listening, exiting>>

\* event_new(), event_add(), setEv().
Register ==
  /\ loop = "registering"
  /\ life' = [life EXCEPT ![current] = "open"]
  /\ loop' = "idle" /\ current' = NoConn
  /\ UNCHANGED <<owner, listening, exiting, nextId, clash, id, table, undefined>>

\* ws_client_read_cb() on a connection whose event is added.
ReadCallback(c) ==
  /\ loop = "idle" /\ life[c] \in {"open", "dying"}
  /\ loop' = "reading" /\ current' = c
  /\ UNCHANGED <<owner, listening, exiting, conns, undefined>>

\* pConn->read() returns 0 or more, returns -1, or never returns (a frame
\* head split between two reads keeps WsStickyWrap::readData() in its loop).
Read ==
  /\ loop = "reading"
  /\ \/ loop' = "idle" /\ current' = NoConn
     \/ loop' \in {"failed", "spinning"} /\ UNCHANGED current
  /\ UNCHANGED <<owner, listening, exiting, conns, undefined>>

\* Seeded fault: the connection is deleted and stays in the table.
ForgetErase ==
  /\ loop = "failed"
  /\ loop' = "deleting"
  /\ UNCHANGED <<owner, current, listening, exiting, conns, undefined>>

\* GetWsConnectMgr()->deleteConnect(GetConnonId()).
Erase ==
  /\ loop = "failed"
  /\ loop' = "erased"
  /\ table' = Restrict(table, DOMAIN table \ {id[current]})
  /\ undefined' = (undefined \/ OwnerInTable)
  /\ UNCHANGED <<owner, current, listening, exiting, nextId, clash, id, life>>

\* The second deleteConnect() finds nothing, and looks in the table for it.
EraseAgain ==
  /\ loop = "erased"
  /\ loop' = "deleting"
  /\ table' = Restrict(table, DOMAIN table \ {id[current]})
  /\ undefined' = (undefined \/ owner = "clearing")
  /\ UNCHANGED <<owner, current, listening, exiting, nextId, clash, id, life>>

\* delete pConn.
DeleteSelf ==
  /\ loop = "deleting"
  /\ life' = [life EXCEPT ![current] = "deleted"]
  /\ loop' = "idle" /\ current' = NoConn
  /\ UNCHANGED <<owner, listening, exiting, nextId, clash, id, table, undefined>>

LoopStep ==
  \/ EnterLoop \/ NewConnect \/ Register \/ Read
  \/ Erase \/ EraseAgain \/ DeleteSelf

-----------------------------------------------------------------------------

\* What follows undefined behaviour is not described.
Next ==
  /\ ~undefined
  /\ \/ OnStart \/ OnStop \/ OwnerStep
     \/ \E c \in Conns : EndDelete(c) \/ ReadCallback(c)
     \/ LoopStep \/ ListenCallback \/ ExitLoop

Spec == Init /\ [][Next]_vars

\* Both threads are scheduled; a callback that returns does so in time; the
\* owner in event_free() gets the lock of the event base, which the loop
\* releases while it polls, even if the callback runs again and again; and the
\* loop turns to the event that ends it in its next round, even if a connection
\* that OnStop() has not found goes on being read.
FairSpec ==
  /\ Spec
  /\ WF_vars(~undefined /\ OwnerStep)
  /\ WF_vars(~undefined /\ LoopStep)
  /\ SF_vars(~undefined /\ ExitLoop)
  /\ \A c \in Conns : SF_vars(~undefined /\ EndDelete(c))

-----------------------------------------------------------------------------

Alive == {c \in Conns : life[c] \in {"new", "open", "dying"}}

\* Types of the state.
TypeOK ==
  /\ owner \in {"new", "failed", "serving", "stopping", "deleting", "clearing",
                "exiting", "joining", "stopped"}
  /\ loop \in {"none", "starting", "idle", "accepting", "registering", "reading",
               "failed", "spinning", "erased", "deleting", "exited"}
  /\ current \in Conns \cup {NoConn}
  /\ listening \in BOOLEAN /\ exiting \in BOOLEAN /\ undefined \in BOOLEAN
  /\ clash \in BOOLEAN
  /\ nextId \in Ids
  /\ id \in [Conns -> Ids]
  /\ life \in [Conns -> {"none", "new", "open", "dying", "deleted"}]
  /\ DOMAIN table \subseteq Ids /\ Range(table) \subseteq Conns \cup {NoConn}

\* What is in the table lives and has the id it is found under.  Every living
\* connection can be found, except by the callback that is deleting it, as long
\* as no id has been given to a second connection while the first was there.
\* OnStop() and deleteConnect() rest on this.
TableIsExact ==
  ~undefined =>
    /\ clash \/ \A c \in Alive : \/ id[c] \in DOMAIN table /\ table[id[c]] = c
                                 \/ loop \in {"erased", "deleting"} /\ current = c
    /\ \A i \in DOMAIN table : table[i] # NoConn => table[i] \in Alive /\ id[table[i]] = i

\* That does not happen before more connections have been accepted than there
\* are ids, whatever _UniqueId was at first and wherever it wraps.
IdsLast == ~undefined /\ clash => Cardinality(Accepted) > IdSpace

\* No callback runs on a deleted connection: the destructor waits for it,
\* or runs inside it.
NoCallbackOnDeleted == ~undefined /\ current # NoConn => current \in Alive

\* When OnStop() has returned, every connection ever accepted is deleted: none
\* is accepted behind the back of the loop that deletes them.  (One whose id
\* was taken, or whose entry was erased for another's, is not deleted.)
NothingLeftAtStop == owner = "stopped" /\ ~undefined /\ ~clash => Alive = {}

\* OnStop() returns, also when the thread had not entered its loop, unless a
\* callback never returns or a read failed while connections were deleted.
StopReturns == owner = "stopping" ~> (owner = "stopped" \/ undefined \/ loop = "spinning")

=============================================================================
