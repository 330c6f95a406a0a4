----------------------------- MODULE EchoServer -----------------------------
(***************************************************************************)
(* The echo server as main.cc puts it together: one dispatcher and one     *)
(* listener per thread of a pool, the dispatch loops posted to the pool as *)
(* tasks that never return, and the pool's destructor called at once after *)
(* that.  ThreadPool is the pool; a dispatch loop is what it does for its  *)
(* listener and its handlers, since nobody posts to these dispatchers or   *)
(* stops them.  All listeners share one port (SO_REUSEPORT): the kernel    *)
(* gives a connection to any one of them.                                  *)
(***************************************************************************)
EXTENDS Naturals, Sequences, FiniteSets

CONSTANTS
  N,         \* MAX_IO_THREAD_COUNT
  Conns,     \* the connections that peers may open
  Main       \* the main thread

ASSUME ServerAssumption ==
  /\ N \in Nat \ {0}
  /\ IsFiniteSet(Conns)
  /\ Main \notin 1 .. N

\* A dispatcher, its listener and the task that runs it have one index.
Index == 1 .. N

VARIABLES
  owner, tasks_, stop_, pc, task, notifying, done, posted,   \* see ThreadPool
  main,       \* main()'s next step for index i
  i,
  listening,  \* listeners whose socket the kernel gives connections to
  watched,    \* listeners whose event has been added
  loop,       \* [Index -> where the dispatch loop is]
  queue,      \* [Index -> connections to accept, oldest first]
  handlers,   \* [Index -> connections whose Handler is on this base]
  closed,     \* connections the server has closed
  leaked      \* connections accepted and forgotten with their descriptor

pool == <<owner, tasks_, stop_, pc, task, notifying, done, posted>>
program == <<main, i>>
sockets == <<listening, watched, queue>>
outcome == <<handlers, closed, leaked>>
server == <<program, sockets, loop, outcome>>
vars == <<pool, server>>

-----------------------------------------------------------------------------
(* Seeded faults, used only to show that the properties can fail.          *)

OneTooFew == 1 .. N - 1

-----------------------------------------------------------------------------

\* The threads of the pool: as many as there are endless tasks.
Threads == 1 .. N

Pool == INSTANCE ThreadPool WITH
  Workers <- Threads, Posters <- {Main}, Tasks <- Index, Forever <- Index,
  Levels <- 1, NoTask <- 0

Init ==
  /\ Pool!Init
  /\ main = "listen"
  /\ i = 1
  /\ listening = {}
  /\ watched = {}
  /\ loop = [k \in Index |-> "out"]
  /\ queue = [k \in Index |-> <<>>]
  /\ handlers = [k \in Index |-> {}]
  /\ closed = {}
  /\ leaked = {}

-----------------------------------------------------------------------------
(* main().                                                                 *)

\* main() has constructed the pool and is in its loop.
InLoop == owner = "alive" /\ Main \notin notifying /\ i \in Index

\* Listener::open() up to listen(), any call of which may fail; main() does
\* not look at its result.
Listen ==
  /\ InLoop
  /\ main = "listen"
  /\ \/ listening' = listening \cup {i} /\ main' = "watch"
     \/ UNCHANGED listening /\ main' = "post"
  /\ UNCHANGED <<pool, i, watched, queue, loop, outcome>>

\* event_add() of the listener's event.
Watch ==
  /\ InLoop
  /\ main = "watch"
  /\ watched' = watched \cup {i}
  /\ main' = "post"
  /\ UNCHANGED <<pool, i, listening, queue, loop, outcome>>

PostDispatch ==
  /\ InLoop
  /\ main = "post"
  /\ Pool!Push(Main, i, 0)
  /\ main' = "listen"
  /\ i' = i + 1
  /\ UNCHANGED <<sockets, loop, outcome>>

\* "wait join": main() deletes the pool, whether or not a worker has looked at
\* its queue yet.
DeletePool ==
  /\ i > N
  /\ Pool!SetStop
  /\ UNCHANGED server

MainStep == Listen \/ Watch \/ PostDispatch \/ DeletePool

-----------------------------------------------------------------------------
(* The dispatch loops, on the worker that has taken the task.              *)

Running(k) == owner # "crashed" /\ \E w \in Threads : task[w] = k

EnterLoop(k) ==
  /\ Running(k)
  /\ loop[k] = "out"
  /\ loop' = [loop EXCEPT ![k] = "poll"]
  /\ UNCHANGED <<pool, program, sockets, outcome>>

\* The listener's event is persistent: it stays added when it fires, and fires
\* again as long as connections wait.
ListenerFires(k) ==
  /\ Running(k)
  /\ loop[k] = "poll"
  /\ k \in watched
  /\ queue[k] # <<>>
  /\ loop' = [loop EXCEPT ![k] = "accept"]
  /\ UNCHANGED <<pool, program, sockets, outcome>>

\* main()'s lambda constructs the Handler of c: it is there, or its constructor
\* has closed the socket and thrown, or the memory for it was missing, which the
\* lambda catches without closing the socket.
Handle(k, c) ==
  \/ handlers' = [handlers EXCEPT ![k] = @ \cup {c}] /\ UNCHANGED <<closed, leaked>>
  \/ closed' = closed \cup {c} /\ UNCHANGED <<handlers, leaked>>
  \/ leaked' = leaked \cup {c} /\ UNCHANGED <<handlers, closed>>

\* One turn of doAccept() that takes a connection.
Accept(k) ==
  /\ Running(k)
  /\ loop[k] = "accept"
  /\ queue[k] # <<>>
  /\ queue' = [queue EXCEPT ![k] = Tail(@)]
  /\ Handle(k, Head(queue[k]))
  /\ UNCHANGED <<pool, program, listening, watched, loop>>

\* accept() returns -1: nothing is left, or the call failed with connections
\* still waiting.
AcceptEnds(k) ==
  /\ Running(k)
  /\ loop[k] = "accept"
  /\ loop' = [loop EXCEPT ![k] = "poll"]
  /\ UNCHANGED <<pool, program, sockets, outcome>>

\* A handler's callback deletes it, see Handler.
HandlerEnds(k, c) ==
  /\ Running(k)
  /\ loop[k] = "poll"
  /\ c \in handlers[k]
  /\ handlers' = [handlers EXCEPT ![k] = @ \ {c}]
  /\ closed' = closed \cup {c}
  /\ UNCHANGED <<pool, program, sockets, loop, leaked>>

LoopStep(k) == EnterLoop(k) \/ ListenerFires(k) \/ AcceptEnds(k)

-----------------------------------------------------------------------------

Queued == {c \in Conns : \E k \in Index : \E n \in DOMAIN queue[k] : queue[k][n] = c}

Handled == UNION {handlers[k] : k \in Index}

\* A peer connects; the kernel picks one of the listening sockets.
Connect(c) ==
  /\ c \notin Queued \cup Handled \cup closed \cup leaked
  /\ \E k \in listening : queue' = [queue EXCEPT ![k] = Append(@, c)]
  /\ UNCHANGED <<pool, program, listening, watched, loop, outcome>>

\* What the pool does by itself.
PoolStep ==
  /\ \/ Pool!OwnerStep
     \/ Pool!NotifyOne(Main)
     \/ \E w \in Threads : \/ Pool!SpawnWorker(w)
                           \/ Pool!TornScan(w)
                           \/ Pool!WorkerStep(w)
                           \/ Pool!SpuriousWakeup(w)
  /\ UNCHANGED server

Next ==
  /\ owner # "crashed"
  /\ \/ PoolStep
     \/ MainStep
     \/ \E k \in Index : \/ LoopStep(k)
                         \/ Accept(k)
                         \/ \E c \in Conns : HandlerEnds(k, c)
     \/ \E c \in Conns : Connect(c)

\* Every thread keeps running, as in ThreadPool; accept() does not fail every
\* time it is called with a connection waiting.
Fairness ==
  /\ WF_vars(MainStep)
  /\ WF_vars(Pool!OwnerStep /\ UNCHANGED server)
  /\ WF_vars(Pool!NotifyOne(Main) /\ UNCHANGED server)
  /\ \A w \in 1 .. N : /\ WF_vars(w \in Threads /\ Pool!SpawnWorker(w) /\ UNCHANGED server)
                       /\ WF_vars(w \in Threads /\ Pool!WorkerStep(w) /\ UNCHANGED server)
  /\ \A k \in Index : WF_vars(LoopStep(k)) /\ SF_vars(Accept(k))

Spec == Init /\ [][Next]_vars

FairSpec == Spec /\ Fairness

-----------------------------------------------------------------------------

\* Types of what the composition adds to the pool.  A connection is in one
\* place: waiting at one listener, on one base, closed or leaked.
TypeOK ==
  /\ Pool!TypeOK
  /\ main \in {"listen", "watch", "post"}
  /\ i \in 1 .. N + 1
  /\ watched \subseteq listening
  /\ listening \subseteq Index
  /\ loop \in [Index -> {"out", "poll", "accept"}]
  /\ queue \in [Index -> Seq(Conns)]
  /\ handlers \in [Index -> SUBSET Conns]
  /\ closed \cup leaked \subseteq Conns

\* Handlers and listeners have no lock: they rely on their base being used by
\* one thread at a time.  No two workers are ever in the same dispatch(), and
\* main() prepares a base only while no worker has it.
OneThreadPerBase ==
  /\ \A k \in Index : Cardinality({w \in Threads : task[w] = k}) <= 1
  /\ InLoop => ~Running(i)

\* main() deletes the pool right after its last post, but the destructor does
\* not return: main() never comes to delete[] disps under the running loops
\* and to free the listeners' events after their bases.
ServesForEver == owner # "destroyed"

\* A connection that the kernel has given to a listener does not stay there,
\* whichever listener that is: each has a loop of its own, which comes back to
\* a listener whose accept() failed.
EveryConnectionAccepted ==
  \A c \in Conns : c \in Queued ~> c \in Handled \cup closed \cup leaked
=============================================================================
