-------------------------- MODULE EchoServerProofs --------------------------
(***************************************************************************)
(* Proofs about EchoServer, for any number of dispatch loops and any       *)
(* connections: no base is ever used by two threads, and main() never      *)
(* comes to free the bases under the running loops.                        *)
(***************************************************************************)
EXTENDS EchoServer, FiniteSetTheorems, SequenceTheorems, TLAPS

-----------------------------------------------------------------------------
(* The inductive invariant.                                                *)

\* The pool has one queue, since main.cc gives no priority count.
Waiting == tasks_[0]

IsWaiting(k) == \E n \in DOMAIN Waiting : Waiting[n] = k

\* The loops main() has posted are those below its index; each is in the queue
\* or on a worker, for no dispatch() returns.
PostedAreBelow ==
  /\ done = {}
  /\ \A k \in Index : k < i <=> IsWaiting(k) \/ \E w \in Threads : task[w] = k

\* A loop is at one place of the queue or on one worker.
OnePlace ==
  /\ \A m, n \in DOMAIN Waiting : Waiting[m] = Waiting[n] => m = n
  /\ \A w \in Threads : ~IsWaiting(task[w])
  /\ \A v, w \in Threads : task[v] = task[w] /\ task[v] # 0 => v = w

\* main() stops the pool only with all loops posted, and a worker exits only
\* when it has seen an empty queue after that.
ExitsLate ==
  /\ owner \in {"spawning", "building", "alive"} => ~stop_
  /\ stop_ => i > N
  /\ \A w \in Threads : pc[w] = "exited" => stop_ /\ Waiting = <<>>

\* main() comes to add a listener's event only when the listener listens.
WatchesListening == main = "watch" => i \in listening

IInv == /\ TypeOK /\ PostedAreBelow /\ OnePlace /\ ExitsLate /\ ServesForEver
        /\ WatchesListening

\* The pool's constants as main.cc gives them, and its one level.
LEMMA OneLevel == Pool!Level = {0} /\ Threads = Index /\ 0 \notin Index /\ N \in Nat \ {0}
BY ServerAssumption DEF Pool!Level, Threads, Index

\* Types of the pool's part, with its one queue.
LEMMA PoolTypes ==
  ASSUME TypeOK
  PROVE  /\ tasks_ \in [{0} -> Seq(Index)]
         /\ Waiting \in Seq(Index)
         /\ stop_ \in BOOLEAN
         /\ pc \in [Threads -> {"unborn", "scan", "waiting", "running", "exited"}]
         /\ task \in [Threads -> Index \cup {0}]
         /\ \A w \in Threads : pc[w] = "running" <=> task[w] # 0
BY OneLevel DEF TypeOK, Pool!TypeOK, Waiting

-----------------------------------------------------------------------------

\* The program starts in the invariant.
LEMMA InitIInv == Init => IInv
<1> SUFFICES ASSUME Init PROVE IInv
  OBVIOUS
<1>1. Pool!Init /\ i = 1
  BY DEF Init
<1>2. /\ owner = "spawning" /\ tasks_ = [p \in {0} |-> <<>>] /\ stop_ = FALSE
      /\ pc = [w \in Threads |-> "unborn"] /\ task = [w \in Threads |-> 0]
      /\ notifying = {} /\ done = {}
  BY <1>1, OneLevel DEF Pool!Init
<1>3. TypeOK
  <2>1. Pool!TypeOK
    BY <1>2, OneLevel DEF Pool!TypeOK
  <2> QED BY <2>1, ServerAssumption DEF Init, TypeOK, Index
<1>4. Waiting = <<>> /\ \A k : ~IsWaiting(k)
  BY <1>2 DEF Waiting, IsWaiting
<1>5. PostedAreBelow
  BY <1>1, <1>2, <1>4, OneLevel DEF PostedAreBelow, Index
<1>6. OnePlace /\ ExitsLate /\ ServesForEver /\ WatchesListening
  BY <1>2, <1>4 DEF Init, OnePlace, ExitsLate, ServesForEver, WatchesListening
<1> QED BY <1>3, <1>5, <1>6 DEF IInv

\* What the invariant says of the pool depends on these variables only.
LEMMA SamePool ==
  ASSUME UNCHANGED <<pool, i>>
  PROVE  /\ Pool!TypeOK' <=> Pool!TypeOK
         /\ PostedAreBelow' <=> PostedAreBelow
         /\ OnePlace' <=> OnePlace
         /\ ExitsLate' <=> ExitsLate
         /\ ServesForEver' <=> ServesForEver
<1>1. /\ owner' = owner /\ tasks_' = tasks_ /\ stop_' = stop_ /\ pc' = pc
      /\ task' = task /\ notifying' = notifying /\ done' = done /\ posted' = posted
      /\ i' = i
  BY DEF pool
<1>2. Pool!TypeOK' <=> Pool!TypeOK
  BY <1>1 DEF Pool!TypeOK
<1> QED BY <1>1, <1>2 DEF PostedAreBelow, OnePlace, ExitsLate, ServesForEver, Waiting, IsWaiting

\* A step that touches neither the pool nor main()'s index, and keeps the types
\* of the rest, keeps the invariant.
LEMMA SocketIInv ==
  ASSUME IInv,
         UNCHANGED <<pool, i>>,
         main' \in {"listen", "watch", "post"},
         watched' \subseteq listening', listening' \subseteq Index,
         loop' \in [Index -> {"out", "poll", "accept"}],
         queue' \in [Index -> Seq(Conns)],
         handlers' \in [Index -> SUBSET Conns],
         closed' \cup leaked' \subseteq Conns,
         WatchesListening'
  PROVE  IInv'
<1>1. Pool!TypeOK' /\ i' \in 1 .. N + 1
  BY SamePool DEF IInv, TypeOK
<1>2. TypeOK'
  BY <1>1 DEF TypeOK
<1> QED BY <1>2, SamePool DEF IInv

\* main() opening a listener and adding its event.
LEMMA ListenIInv ==
  ASSUME IInv, Listen \/ Watch
  PROVE  IInv'
<1>1. TypeOK /\ WatchesListening
  BY DEF IInv
<1>2. UNCHANGED <<pool, i>> /\ UNCHANGED <<loop, queue, handlers, closed, leaked>>
  BY DEF Listen, Watch, outcome
<1>3. CASE Listen
  <2>1. /\ main' \in {"listen", "watch", "post"} /\ watched' = watched
        /\ listening' \in {listening, listening \cup {i}} /\ i \in Index
        /\ main' = "watch" => i \in listening'
    BY <1>3 DEF Listen, InLoop
  <2>2. watched' \subseteq listening' /\ listening' \subseteq Index /\ WatchesListening'
    BY <2>1, <1>1, <1>2 DEF TypeOK, WatchesListening
  <2> QED BY <1>1, <1>2, <2>1, <2>2, SocketIInv DEF TypeOK
<1>4. CASE Watch
  <2>1. main' = "post" /\ watched' = watched \cup {i} /\ i \in listening /\ listening' = listening
    BY <1>4, <1>1 DEF Watch, WatchesListening
  <2>2. watched' \subseteq listening' /\ listening' \subseteq Index /\ WatchesListening'
    BY <2>1, <1>1 DEF TypeOK, WatchesListening
  <2> QED BY <1>1, <1>2, <2>1, <2>2, SocketIInv DEF TypeOK
<1> QED BY <1>3, <1>4

\* The loops, the kernel and the handlers.
LEMMA BaseIInv ==
  ASSUME IInv,
         \/ \E k \in Index : LoopStep(k) \/ Accept(k) \/ \E c \in Conns : HandlerEnds(k, c)
         \/ \E c \in Conns : Connect(c)
  PROVE  IInv'
<1>1. TypeOK /\ WatchesListening
  BY DEF IInv
<1>2. UNCHANGED <<pool, i>> /\ UNCHANGED <<main, listening, watched>>
  BY DEF LoopStep, EnterLoop, ListenerFires, AcceptEnds, Accept, HandlerEnds, Connect,
         program, sockets
<1>3. WatchesListening'
  BY <1>1, <1>2 DEF WatchesListening
<1>4. ASSUME /\ loop' \in [Index -> {"out", "poll", "accept"}]
             /\ queue' \in [Index -> Seq(Conns)]
             /\ handlers' \in [Index -> SUBSET Conns]
             /\ closed' \cup leaked' \subseteq Conns
      PROVE  IInv'
  <2>1. /\ main' \in {"listen", "watch", "post"}
        /\ watched' \subseteq listening' /\ listening' \subseteq Index
    BY <1>1, <1>2 DEF TypeOK
  <2> QED BY <1>2, <1>3, <1>4, <2>1, SocketIInv
<1>5. ASSUME NEW k \in Index, LoopStep(k) PROVE IInv'
  <2>1. UNCHANGED <<queue, handlers, closed, leaked>>
    BY <1>5 DEF LoopStep, EnterLoop, ListenerFires, AcceptEnds, sockets, outcome
  <2>2. \E l \in {"poll", "accept"} : loop' = [loop EXCEPT ![k] = l]
    BY <1>5 DEF LoopStep, EnterLoop, ListenerFires, AcceptEnds
  <2>3. loop' \in [Index -> {"out", "poll", "accept"}]
    BY <2>2, <1>1 DEF TypeOK
  <2> QED BY <1>1, <1>4, <2>1, <2>3 DEF TypeOK
<1>6. ASSUME NEW k \in Index, Accept(k) PROVE IInv'
  <2>1. queue[k] \in Seq(Conns) /\ queue[k] # <<>>
    BY <1>6, <1>1 DEF Accept, TypeOK
  <2>2. PICK c \in Conns : c = Head(queue[k])
    BY <2>1, HeadTailProperties
  <2>3. Tail(queue[k]) \in Seq(Conns)
    BY <2>1, HeadTailProperties
  <2>4. queue' \in [Index -> Seq(Conns)] /\ loop' = loop
    BY <1>1, <1>6, <2>3 DEF Accept, TypeOK
  <2>5. Handle(k, c)
    BY <1>6, <2>2 DEF Accept
  <2>6. handlers' \in [Index -> SUBSET Conns] /\ closed' \cup leaked' \subseteq Conns
    BY <1>1, <2>5 DEF Handle, TypeOK
  <2> QED BY <1>1, <1>4, <2>4, <2>6 DEF TypeOK
<1>7. ASSUME NEW k \in Index, NEW c \in Conns, HandlerEnds(k, c) PROVE IInv'
  <2>1. UNCHANGED <<loop, queue, leaked>> /\ closed' = closed \cup {c}
    BY <1>7 DEF HandlerEnds, sockets
  <2>2. handlers' \in [Index -> SUBSET Conns]
    BY <1>1, <1>7 DEF HandlerEnds, TypeOK
  <2> QED BY <1>1, <1>4, <2>1, <2>2 DEF TypeOK
<1>8. ASSUME NEW c \in Conns, Connect(c) PROVE IInv'
  <2>1. UNCHANGED <<loop, handlers, closed, leaked>>
    BY <1>8 DEF Connect, outcome
  <2>2. PICK k \in listening : queue' = [queue EXCEPT ![k] = Append(@, c)]
    BY <1>8 DEF Connect
  <2>3. k \in Index /\ queue[k] \in Seq(Conns)
    BY <1>1, <2>2 DEF TypeOK
  <2>4. Append(queue[k], c) \in Seq(Conns)
    BY <2>3, AppendProperties
  <2>5. queue' \in [Index -> Seq(Conns)]
    BY <1>1, <2>2, <2>3, <2>4 DEF TypeOK
  <2> QED BY <1>1, <1>4, <2>1, <2>5 DEF TypeOK
<1> QED BY <1>5, <1>6, <1>7, <1>8

\* What is left of TypeOK when only the pool changes.
LEMMA PoolTypeOK ==
  ASSUME TypeOK, Pool!TypeOK', UNCHANGED server
  PROVE  TypeOK' /\ (WatchesListening' <=> WatchesListening)
BY DEF TypeOK, WatchesListening, server, program, sockets, outcome

\* Appending a loop to the queue.
LEMMA AppendWaiting ==
  ASSUME NEW q \in Seq(Index), NEW t \in Index
  PROVE  /\ Append(q, t) \in Seq(Index)
         /\ \A k : (\E n \in DOMAIN Append(q, t) : Append(q, t)[n] = k)
                     <=> (\E n \in DOMAIN q : q[n] = k) \/ k = t
         /\ (\A m, n \in DOMAIN q : q[m] = q[n] => m = n) /\ ~(\E n \in DOMAIN q : q[n] = t)
              => \A m, n \in DOMAIN Append(q, t) : Append(q, t)[m] = Append(q, t)[n] => m = n
<1> DEFINE r == Append(q, t)
<1>1. /\ r \in Seq(Index) /\ Len(r) = Len(q) + 1 /\ r[Len(q) + 1] = t
      /\ \A n \in 1 .. Len(q) : r[n] = q[n]
  BY AppendProperties
<1>2. DOMAIN q = 1 .. Len(q) /\ Len(q) \in Nat /\ DOMAIN r = 1 .. Len(q) + 1
  BY <1>1, LenProperties
<1> HIDE DEF r
<1>3. \A n \in DOMAIN r : n \in DOMAIN q \/ n = Len(q) + 1
  BY <1>2
<1>4. \A n \in DOMAIN q : n \in DOMAIN r /\ r[n] = q[n] /\ n # Len(q) + 1
  BY <1>1, <1>2
<1>5. Len(q) + 1 \in DOMAIN r
  BY <1>2
<1>6. \A k : (\E n \in DOMAIN r : r[n] = k) <=> (\E n \in DOMAIN q : q[n] = k) \/ k = t
  BY <1>1, <1>3, <1>4, <1>5
<1>7. (\A m, n \in DOMAIN q : q[m] = q[n] => m = n) /\ ~(\E n \in DOMAIN q : q[n] = t)
        => \A m, n \in DOMAIN r : r[m] = r[n] => m = n
  BY <1>1, <1>3, <1>4
<1> QED BY <1>1, <1>6, <1>7 DEF r

\* Taking the first loop from a queue that holds each at most once.
LEMMA TakeWaiting ==
  ASSUME NEW q \in Seq(Index), q # <<>>, \A m, n \in DOMAIN q : q[m] = q[n] => m = n
  PROVE  /\ Head(q) \in Index /\ Tail(q) \in Seq(Index)
         /\ \E n \in DOMAIN q : q[n] = Head(q)
         /\ \A k : (\E n \in DOMAIN Tail(q) : Tail(q)[n] = k)
                     <=> (\E n \in DOMAIN q : q[n] = k) /\ k # Head(q)
         /\ \A m, n \in DOMAIN Tail(q) : Tail(q)[m] = Tail(q)[n] => m = n
<1> DEFINE r == Tail(q)
<1>1. /\ Head(q) \in Index /\ r \in Seq(Index) /\ Len(r) = Len(q) - 1 /\ Head(q) = q[1]
      /\ \A n \in 1 .. Len(r) : r[n] = q[n + 1]
  BY HeadTailProperties
<1>2. /\ DOMAIN q = 1 .. Len(q) /\ Len(q) \in Nat \ {0} /\ DOMAIN r = 1 .. Len(q) - 1
  BY <1>1, LenProperties, EmptySeq
<1> HIDE DEF r
<1>3. \A n \in DOMAIN r : n + 1 \in DOMAIN q /\ n + 1 # 1 /\ r[n] = q[n + 1]
  BY <1>1, <1>2
<1>4. \A n \in DOMAIN q : n = 1 \/ (n - 1 \in DOMAIN r /\ r[n - 1] = q[n])
  BY <1>1, <1>2
<1>5. 1 \in DOMAIN q
  BY <1>2
<1>6. ASSUME NEW k
      PROVE  (\E n \in DOMAIN r : r[n] = k) <=> (\E n \in DOMAIN q : q[n] = k) /\ k # Head(q)
  <2>1. ASSUME NEW n \in DOMAIN r, r[n] = k
        PROVE  (\E m \in DOMAIN q : q[m] = k) /\ k # Head(q)
    BY <2>1, <1>1, <1>3, <1>5
  <2>2. ASSUME NEW n \in DOMAIN q, q[n] = k, k # Head(q) PROVE \E m \in DOMAIN r : r[m] = k
    BY <2>2, <1>1, <1>4
  <2> QED BY <2>1, <2>2
<1>7. ASSUME NEW m \in DOMAIN r, NEW n \in DOMAIN r, r[m] = r[n] PROVE m = n
  <2>1. m + 1 = n + 1 /\ m \in Int /\ n \in Int
    BY <1>7, <1>2, <1>3
  <2> QED BY <2>1
<1> QED BY <1>1, <1>5, <1>6, <1>7 DEF r

-----------------------------------------------------------------------------

\* Posting a dispatch loop.
LEMMA PostIInv ==
  ASSUME IInv, PostDispatch
  PROVE  IInv'
<1>1. TypeOK /\ PostedAreBelow /\ OnePlace /\ ExitsLate
  BY DEF IInv
<1>2. /\ owner = "alive" /\ owner' = owner /\ stop_' = stop_ /\ pc' = pc /\ task' = task
      /\ done' = done /\ posted' = posted \cup {i}
      /\ i \in Index /\ i' = i + 1 /\ main' = "listen"
      /\ tasks_' = [tasks_ EXCEPT ![0] = Append(@, i)]
      /\ notifying' = notifying \cup {Main}
  BY DEF PostDispatch, InLoop, Pool!Push, Pool!WillNotify
<1>3. UNCHANGED <<listening, watched, queue, loop, handlers, closed, leaked>>
  BY DEF PostDispatch, sockets, outcome
<1>4. Waiting \in Seq(Index) /\ Waiting' = Append(Waiting, i)
  BY <1>1, <1>2, PoolTypes DEF Waiting
<1>5. ~IsWaiting(i) /\ \A w \in Threads : task[w] # i
  BY <1>1, <1>2 DEF PostedAreBelow, Index
<1>6. Waiting' \in Seq(Index) /\ \A k : IsWaiting(k)' <=> IsWaiting(k) \/ k = i
  BY <1>2, <1>4, AppendWaiting DEF IsWaiting
<1>7. TypeOK' /\ WatchesListening'
  <2>1. tasks_' \in [Pool!Level -> Seq(Index)]
    BY <1>1, <1>2, <1>4, <1>6, PoolTypes, OneLevel DEF Waiting
  <2>2. notifying' \subseteq Pool!Callers
    BY <1>1, <1>2 DEF TypeOK, Pool!TypeOK, Pool!Callers
  <2>3. Pool!TypeOK'
    BY <1>1, <1>2, <2>1, <2>2 DEF TypeOK, Pool!TypeOK
  <2>4. i' \in 1 .. N + 1
    BY <1>2, ServerAssumption DEF Index
  <2> QED BY <1>1, <1>2, <1>3, <2>3, <2>4 DEF TypeOK, WatchesListening
<1>8. PostedAreBelow'
  <2>1. \A k \in Index : k < i + 1 <=> k < i \/ k = i
    BY <1>2, ServerAssumption DEF Index
  <2> QED BY <1>1, <1>2, <1>6, <2>1 DEF PostedAreBelow
<1>9. OnePlace'
  <2>1. \A m, n \in DOMAIN Waiting' : Waiting'[m] = Waiting'[n] => m = n
    BY <1>1, <1>2, <1>4, <1>5, AppendWaiting DEF OnePlace, IsWaiting
  <2>2. \A w \in Threads : ~IsWaiting(task[w])'
    BY <1>1, <1>2, <1>5, <1>6 DEF OnePlace, IsWaiting
  <2> QED BY <1>1, <1>2, <2>1, <2>2 DEF OnePlace
<1>10. ExitsLate' /\ ServesForEver'
  BY <1>1, <1>2 DEF ExitsLate, ServesForEver
<1> QED BY <1>7, <1>8, <1>9, <1>10 DEF IInv

\* A worker taking a loop.
LEMMA TakeIInv ==
  ASSUME IInv, NEW w \in Threads, Pool!WorkerTakes(w), UNCHANGED server
  PROVE  IInv'
<1>1. TypeOK /\ PostedAreBelow /\ OnePlace /\ ExitsLate /\ ServesForEver /\ WatchesListening
  BY DEF IInv
<1> DEFINE t == Head(Waiting)
<1>2. /\ owner' = owner /\ stop_' = stop_ /\ pc' = [pc EXCEPT ![w] = "running"]
      /\ done' = done /\ posted' = posted /\ notifying' = notifying /\ pc[w] = "scan" /\ i' = i
      /\ Waiting # <<>> /\ tasks_' = [tasks_ EXCEPT ![0] = Tail(@)]
      /\ task' = [task EXCEPT ![w] = t]
  <2>1. PICK p \in Pool!Level : /\ Pool!MostUrgent(p)
                                /\ task' = [task EXCEPT ![w] = Head(tasks_[p])]
                                /\ tasks_' = Pool!PopFrom(p)
    BY DEF Pool!WorkerTakes
  <2>2. p = 0 /\ Waiting # <<>>
    BY <2>1, OneLevel DEF Pool!MostUrgent, Waiting
  <2> QED BY <2>1, <2>2 DEF Pool!WorkerTakes, Pool!PopFrom, Waiting, server, program
<1>3. Waiting \in Seq(Index) /\ Waiting' = Tail(Waiting)
  BY <1>1, <1>2, PoolTypes DEF Waiting
<1>4. /\ t \in Index /\ Waiting' \in Seq(Index) /\ IsWaiting(t)
      /\ \A k : IsWaiting(k)' <=> IsWaiting(k) /\ k # t
      /\ \A m, n \in DOMAIN Waiting' : Waiting'[m] = Waiting'[n] => m = n
  <2> DEFINE q == Waiting
  <2>1. q \in Seq(Index) /\ q # <<>> /\ \A m, n \in DOMAIN q : q[m] = q[n] => m = n
    BY <1>1, <1>2, <1>3 DEF OnePlace
  <2> HIDE DEF q
  <2>2. /\ Head(q) \in Index /\ Tail(q) \in Seq(Index)
        /\ \E n \in DOMAIN q : q[n] = Head(q)
        /\ \A k : (\E n \in DOMAIN Tail(q) : Tail(q)[n] = k)
                    <=> (\E n \in DOMAIN q : q[n] = k) /\ k # Head(q)
        /\ \A m, n \in DOMAIN Tail(q) : Tail(q)[m] = Tail(q)[n] => m = n
    BY ONLY <2>1, TakeWaiting, Zenon
  <2> QED BY ONLY <1>3, <2>2 DEF IsWaiting, q
<1> HIDE DEF t
<1>5. task \in [Threads -> Index \cup {0}] /\ task[w] = 0 /\ t # 0
  BY <1>1, <1>2, <1>4, PoolTypes, OneLevel
<1>6. \A v \in Threads : task'[v] = IF v = w THEN t ELSE task[v]
  BY <1>2, <1>5
<1>7. TypeOK' /\ WatchesListening'
  <2>1. tasks_' \in [Pool!Level -> Seq(Index)]
    BY <1>1, <1>2, <1>3, <1>4, PoolTypes, OneLevel DEF Waiting
  <2>2. task' \in [Threads -> Index \cup {0}]
    BY <1>2, <1>4, <1>5
  <2>3. pc' \in [Threads -> {"unborn", "scan", "waiting", "running", "exited"}]
    BY <1>1, <1>2, PoolTypes
  <2>4. \A v \in Threads : pc'[v] = "running" <=> task'[v] # 0
    BY <1>1, <1>2, <1>5, <1>6, PoolTypes
  <2>5. Pool!TypeOK'
    BY <1>1, <1>2, <2>1, <2>2, <2>3, <2>4 DEF TypeOK, Pool!TypeOK
  <2> QED BY <1>1, <2>5, PoolTypeOK
<1>8. PostedAreBelow'
  <2>1. ASSUME NEW k \in Index
        PROVE  (\E v \in Threads : task'[v] = k) <=> (\E v \in Threads : task[v] = k) \/ k = t
    BY <1>5, <1>6, OneLevel
  <2> QED BY <1>1, <1>2, <1>4, <2>1 DEF PostedAreBelow
<1>9. OnePlace'
  <2>1. \A v \in Threads : task[v] # t
    BY <1>1, <1>4 DEF OnePlace
  <2>2. \A v \in Threads : ~IsWaiting(task[v])'
    <3> SUFFICES ASSUME NEW v \in Threads
                 PROVE  ~\E n \in DOMAIN Waiting' : Waiting'[n] = task'[v]
      BY DEF IsWaiting
    <3>1. ~IsWaiting(task[v])
      BY <1>1 DEF OnePlace
    <3>2. task'[v] = t \/ ~IsWaiting(task'[v])
      BY <1>6, <3>1
    <3> DEFINE held == task'[v]
    <3>3. ~(IsWaiting(held) /\ held # t)
      BY <3>2
    <3> HIDE DEF held
    <3>4. ~\E n \in DOMAIN Waiting' : Waiting'[n] = held
      BY <1>4, <3>3 DEF IsWaiting
    <3> QED BY <3>4 DEF held
  <2>3. \A u, v \in Threads : task'[u] = task'[v] /\ task'[u] # 0 => u = v
    BY <1>1, <1>6, <2>1 DEF OnePlace
  <2> QED BY <1>4, <2>2, <2>3 DEF OnePlace
<1>10. ExitsLate' /\ ServesForEver'
  <2>1. \A v \in Threads : pc'[v] = "exited" => pc[v] = "exited"
    BY <1>1, <1>2, PoolTypes
  <2> QED BY <1>1, <1>2, <2>1 DEF ExitsLate, ServesForEver
<1> QED BY <1>7, <1>8, <1>9, <1>10 DEF IInv

\* The pool's other steps leave the tasks where they are.
LEMMA QuietIInv ==
  ASSUME IInv, UNCHANGED server,
         \/ Pool!OwnerStep \/ (Pool!SetStop /\ i > N) \/ Pool!NotifyOne(Main)
         \/ \E w \in Threads : \/ Pool!SpawnWorker(w) \/ Pool!TornScan(w) \/ Pool!WorkerWaits(w)
                               \/ Pool!WorkerExits(w) \/ Pool!SpuriousWakeup(w)
  PROVE  IInv'
<1>1. TypeOK /\ PostedAreBelow /\ OnePlace /\ ExitsLate /\ ServesForEver /\ WatchesListening
  BY DEF IInv
<1>2. UNCHANGED <<tasks_, task, done, posted, i>>
  BY DEF Pool!OwnerStep, Pool!BeginQueues, Pool!EndQueues, Pool!NotifyAll, Pool!JoinAll,
         Pool!SetStop, Pool!NotifyOne, Pool!SpawnWorker, Pool!TornScan, Pool!WorkerWaits,
         Pool!WorkerExits, Pool!SpuriousWakeup, server, program
<1>3. PostedAreBelow' /\ OnePlace' /\ Waiting' = Waiting
  BY <1>1, <1>2 DEF PostedAreBelow, OnePlace, Waiting, IsWaiting
<1>4. ASSUME Pool!TypeOK', ExitsLate', ServesForEver' PROVE IInv'
  BY <1>1, <1>3, <1>4, PoolTypeOK DEF IInv
<1>5. ASSUME NEW w \in Threads,
             Pool!SpawnWorker(w) \/ Pool!TornScan(w) \/ Pool!WorkerWaits(w) \/ Pool!SpuriousWakeup(w)
      PROVE  IInv'
  <2>1. /\ stop_' = stop_ /\ notifying' = notifying
        /\ owner' = owner \/ owner' = "crashed"
        /\ pc' = pc \/ \E to \in {"scan", "waiting"} : pc' = [pc EXCEPT ![w] = to]
        /\ pc[w] # "running"
    BY <1>5 DEF Pool!SpawnWorker, Pool!TornScan, Pool!WorkerWaits, Pool!SpuriousWakeup
  <2>2. /\ pc' \in [Threads -> {"unborn", "scan", "waiting", "running", "exited"}]
        /\ \A v \in Threads : pc'[v] = "running" <=> pc[v] = "running"
        /\ \A v \in Threads : pc'[v] = "exited" => pc[v] = "exited"
    BY <1>1, <2>1, PoolTypes
  <2>3. Pool!TypeOK'
    BY <1>1, <1>2, <2>1, <2>2 DEF TypeOK, Pool!TypeOK
  <2>4. ExitsLate' /\ ServesForEver'
    BY <1>1, <1>2, <1>3, <2>1, <2>2 DEF ExitsLate, ServesForEver
  <2> QED BY <2>3, <2>4, <1>4
<1>6. ASSUME NEW w \in Threads, Pool!WorkerExits(w) PROVE IInv'
  <2>1. /\ stop_' = stop_ /\ notifying' = notifying /\ owner' = owner
        /\ pc' = [pc EXCEPT ![w] = "exited"] /\ pc[w] = "scan"
        /\ stop_ /\ Pool!AllEmpty
    BY <1>6 DEF Pool!WorkerExits, Pool!ExitCondition
  <2>2. Waiting = <<>>
    BY <2>1, OneLevel DEF Pool!AllEmpty, Waiting
  <2>3. /\ pc' \in [Threads -> {"unborn", "scan", "waiting", "running", "exited"}]
        /\ \A v \in Threads : pc'[v] = "running" <=> pc[v] = "running"
    BY <1>1, <2>1, PoolTypes
  <2>4. Pool!TypeOK'
    BY <1>1, <1>2, <2>1, <2>3 DEF TypeOK, Pool!TypeOK
  <2>5. ExitsLate' /\ ServesForEver'
    BY <1>1, <1>2, <1>3, <2>1, <2>2 DEF ExitsLate, ServesForEver
  <2> QED BY <2>4, <2>5, <1>4
<1>7. ASSUME Pool!NotifyOne(Main) PROVE IInv'
  <2>1. stop_' = stop_ /\ owner' = owner /\ notifying' = notifying \ {Main}
    BY <1>7 DEF Pool!NotifyOne
  <2>2. pc' = pc \/ \E w \in Threads : pc[w] = "waiting" /\ pc' = [pc EXCEPT ![w] = "scan"]
    BY <1>7 DEF Pool!NotifyOne, Pool!Wakeable
  <2>3. /\ pc' \in [Threads -> {"unborn", "scan", "waiting", "running", "exited"}]
        /\ \A v \in Threads : pc'[v] = "running" <=> pc[v] = "running"
        /\ \A v \in Threads : pc'[v] = "exited" => pc[v] = "exited"
    BY <1>1, <2>2, PoolTypes
  <2>4. Pool!TypeOK'
    BY <1>1, <1>2, <2>1, <2>3 DEF TypeOK, Pool!TypeOK
  <2>5. ExitsLate' /\ ServesForEver'
    BY <1>1, <1>2, <1>3, <2>1, <2>3 DEF ExitsLate, ServesForEver
  <2> QED BY <2>4, <2>5, <1>4
<1>8. ASSUME Pool!BeginQueues \/ Pool!EndQueues \/ (Pool!SetStop /\ i > N) PROVE IInv'
  <2>1. /\ pc' = pc /\ notifying' = notifying
        /\ \/ /\ owner \in {"spawning", "building"} /\ owner' \in {"building", "alive"}
              /\ stop_' = stop_
           \/ stop_' = TRUE /\ i > N /\ owner' = "stopping"
    BY <1>8 DEF Pool!BeginQueues, Pool!EndQueues, Pool!SetStop
  <2>2. Pool!TypeOK'
    BY <1>1, <1>2, <2>1 DEF TypeOK, Pool!TypeOK
  <2>3. ExitsLate' /\ ServesForEver'
    BY <1>1, <1>2, <1>3, <2>1 DEF ExitsLate, ServesForEver
  <2> QED BY <2>2, <2>3, <1>4
<1>9. ASSUME Pool!NotifyAll PROVE IInv'
  <2>1. /\ stop_' = stop_ /\ notifying' = notifying /\ owner' = "joining"
        /\ pc' = [w \in Threads |-> IF pc[w] = "waiting" THEN "scan" ELSE pc[w]]
    BY <1>9 DEF Pool!NotifyAll, Pool!AllWoken
  <2>2. /\ pc' \in [Threads -> {"unborn", "scan", "waiting", "running", "exited"}]
        /\ \A v \in Threads : pc'[v] = "running" <=> pc[v] = "running"
        /\ \A v \in Threads : pc'[v] = "exited" => pc[v] = "exited"
    BY <1>1, <2>1, PoolTypes
  <2>3. Pool!TypeOK'
    BY <1>1, <1>2, <2>1, <2>2 DEF TypeOK, Pool!TypeOK
  <2>4. ExitsLate' /\ ServesForEver'
    BY <1>1, <1>2, <1>3, <2>1, <2>2 DEF ExitsLate, ServesForEver
  <2> QED BY <2>3, <2>4, <1>4
<1>10. ASSUME Pool!JoinAll PROVE FALSE
  <2>1. \A w \in Threads : pc[w] = "exited"
    BY <1>10 DEF Pool!JoinAll, Pool!At
  <2>2. 1 \in Threads /\ 1 \in Index /\ N \in Nat \ {0} /\ 0 \notin Index
    BY OneLevel DEF Index
  <2>3. i > N /\ Waiting = <<>>
    BY <1>1, <2>1, <2>2 DEF ExitsLate
  <2>4. 1 < i /\ ~IsWaiting(1)
    BY <1>1, <2>2, <2>3 DEF TypeOK, IsWaiting
  <2>5. PICK w \in Threads : task[w] = 1
    BY <1>1, <2>2, <2>4 DEF PostedAreBelow
  <2> QED BY <1>1, <2>1, <2>5, PoolTypes
<1> QED BY <1>5, <1>6, <1>7, <1>8, <1>9, <1>10 DEF Pool!OwnerStep

\* The invariant is inductive.
LEMMA NextIInv == IInv /\ [Next]_vars => IInv'
<1> SUFFICES ASSUME IInv, [Next]_vars PROVE IInv'
  OBVIOUS
<1>1. CASE UNCHANGED vars
  <2>1. UNCHANGED <<pool, i>> /\ UNCHANGED server
    BY <1>1 DEF vars, server, program
  <2>2. Pool!TypeOK'
    BY <2>1, SamePool DEF IInv, TypeOK
  <2> QED BY <2>1, <2>2, SamePool, PoolTypeOK DEF IInv
<1>2. CASE PoolStep
  BY <1>2, TakeIInv, QuietIInv DEF PoolStep, Pool!WorkerStep
<1>3. CASE MainStep
  BY <1>3, ListenIInv, PostIInv, QuietIInv DEF MainStep, DeletePool
<1>4. CASE \/ \E k \in Index : LoopStep(k) \/ Accept(k) \/ \E c \in Conns : HandlerEnds(k, c)
           \/ \E c \in Conns : Connect(c)
  BY <1>4, BaseIInv
<1> QED BY <1>1, <1>2, <1>3, <1>4 DEF Next

\* Every run of the server keeps the invariant.
LEMMA Invariant == Spec => []IInv
BY InitIInv, NextIInv, PTL DEF Spec

-----------------------------------------------------------------------------

\* The pool, main() and the bases keep their types.
THEOREM TypeCorrect == Spec => []TypeOK
<1>1. IInv => TypeOK
  BY DEF IInv
<1> QED BY <1>1, Invariant, PTL

\* For any number of loops and threads, a base, with its listener and handlers,
\* which have no lock, is never used by two threads: neither by two workers
\* (the pool runs each loop once, on one worker) nor by main() and a worker.
THEOREM BasesAreNotShared == Spec => []OneThreadPerBase
<1>1. IInv => OneThreadPerBase
  <2> SUFFICES ASSUME IInv PROVE OneThreadPerBase
    OBVIOUS
  <2>1. TypeOK /\ PostedAreBelow /\ OnePlace
    BY DEF IInv
  <2>2. ASSUME NEW k \in Index PROVE Cardinality({w \in Threads : task[w] = k}) <= 1
    <3> DEFINE H == {w \in Threads : task[w] = k}
    <3>1. \A v, w \in H : v = w
      BY <2>1, OneLevel DEF OnePlace
    <3> HIDE DEF H
    <3>2. H = {} \/ \E w : H = {w}
      BY <3>1
    <3>3. Cardinality(H) \in {0, 1}
      BY <3>2, FS_EmptySet, FS_Singleton
    <3> QED BY <3>3 DEF H
  <2>3. InLoop => ~Running(i)
    BY <2>1, ServerAssumption DEF InLoop, Running, PostedAreBelow, Index
  <2> QED BY <2>2, <2>3 DEF OneThreadPerBase
<1> QED BY <1>1, Invariant, PTL

\* main() calls the destructor of the pool under the running loops, and that
\* destructor never returns: delete[] disps and what follows are not reached.
THEOREM LoopsKeepTheirBases == Spec => []ServesForEver
<1>1. IInv => ServesForEver
  BY DEF IInv
<1> QED BY <1>1, Invariant, PTL
=============================================================================
