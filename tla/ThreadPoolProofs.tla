-------------------------- MODULE ThreadPoolProofs --------------------------
(***************************************************************************)
(* Proofs about ThreadPool, for every number of workers, posters, tasks    *)
(* and levels: its types, its safety invariants, and that it implements    *)
(* TaskService.                                                            *)
(***************************************************************************)
EXTENDS ThreadPool, FiniteSetTheorems, SequenceTheorems, TLAPS

-----------------------------------------------------------------------------
(* What push and pop do to a vector of queues.                             *)

Queues == [Level -> Seq(Tasks)]

Holds(q, t) == \E p \in Level : \E i \in DOMAIN q[p] : q[p][i] = t

Distinct(q) ==
  \A p, r \in Level : \A i \in DOMAIN q[p], j \in DOMAIN q[r] :
    q[p][i] = q[r][j] => p = r /\ i = j

\* push() adds the task and keeps a set of queues without duplicates so
\* (tasks_[priority].push in postPriority).
LEMMA PushQueue ==
  ASSUME NEW q \in Queues, NEW p \in Level, NEW t \in Tasks
  PROVE  LET r == [q EXCEPT ![p] = Append(@, t)]
         IN  /\ r \in Queues
             /\ \A x : Holds(r, x) <=> Holds(q, x) \/ x = t
             /\ Distinct(q) /\ ~Holds(q, t) => Distinct(r)
<1> DEFINE r == [q EXCEPT ![p] = Append(@, t)]
<1>1. q[p] \in Seq(Tasks)
  BY DEF Queues
<1>2. /\ Append(q[p], t) \in Seq(Tasks)
      /\ Len(Append(q[p], t)) = Len(q[p]) + 1
      /\ Append(q[p], t)[Len(q[p]) + 1] = t
      /\ \A i \in 1 .. Len(q[p]) : Append(q[p], t)[i] = q[p][i]
  BY <1>1, AppendProperties
<1>3. r \in Queues
  BY <1>2 DEF Queues
<1>4. \A l \in Level : /\ DOMAIN q[l] = 1 .. Len(q[l])
                       /\ Len(q[l]) \in Nat
  BY DEF Queues
<1>5. \A l \in Level : l # p => r[l] = q[l]
  BY DEF Queues
<1>6. r[p] = Append(q[p], t) /\ DOMAIN r[p] = 1 .. Len(q[p]) + 1
  BY <1>1, <1>2 DEF Queues
<1> HIDE DEF r
<1>7. \A x : Holds(r, x) <=> Holds(q, x) \/ x = t
  <2> SUFFICES ASSUME NEW x
               PROVE  Holds(r, x) <=> Holds(q, x) \/ x = t
    OBVIOUS
  <2>1. ASSUME Holds(q, x) PROVE Holds(r, x)
    <3> PICK l \in Level : \E i \in DOMAIN q[l] : q[l][i] = x
      BY <2>1 DEF Holds
    <3>1. CASE l = p
      BY <3>1, <1>2, <1>4, <1>6 DEF Holds
    <3>2. CASE l # p
      BY <3>2, <1>5 DEF Holds
    <3> QED BY <3>1, <3>2
  <2>2. Holds(r, t)
    BY <1>1, <1>2, <1>4, <1>6 DEF Holds
  <2>3. ASSUME Holds(r, x), x # t PROVE Holds(q, x)
    <3> PICK l \in Level : \E i \in DOMAIN r[l] : r[l][i] = x
      BY <2>3 DEF Holds
    <3>1. CASE l = p
      BY <3>1, <2>3, <1>2, <1>4, <1>6 DEF Holds
    <3>2. CASE l # p
      BY <3>2, <1>5 DEF Holds
    <3> QED BY <3>1, <3>2
  <2> QED BY <2>1, <2>2, <2>3
<1>8. ASSUME Distinct(q), ~Holds(q, t) PROVE Distinct(r)
  <2> SUFFICES ASSUME NEW l \in Level, NEW m \in Level,
                      NEW i \in DOMAIN r[l], NEW j \in DOMAIN r[m],
                      r[l][i] = r[m][j]
               PROVE  l = m /\ i = j
    BY DEF Distinct
  <2>1. \A k \in Level : \A n \in DOMAIN r[k] :
          \/ n \in DOMAIN q[k] /\ r[k][n] = q[k][n]
          \/ k = p /\ n = Len(q[p]) + 1 /\ r[k][n] = t
    <3> TAKE k \in Level
    <3> TAKE n \in DOMAIN r[k]
    <3>1. CASE k # p
      BY <3>1, <1>5
    <3>2. CASE k = p /\ n \in 1 .. Len(q[p])
      BY <3>2, <1>2, <1>4, <1>6
    <3>3. CASE k = p /\ n = Len(q[p]) + 1
      BY <3>3, <1>2, <1>6
    <3>4. k = p => n \in 1 .. Len(q[p]) \/ n = Len(q[p]) + 1
      BY <1>4, <1>6
    <3> QED BY <3>1, <3>2, <3>3, <3>4
  <2> QED BY <2>1, <1>8 DEF Distinct, Holds
<1> QED BY <1>3, <1>7, <1>8 DEF r

\* Taking the head of one queue removes exactly that task when no task is
\* queued twice (front() and pop() in loop()).
LEMMA PopQueue ==
  ASSUME NEW q \in Queues, NEW p \in Level, q[p] # <<>>
  PROVE  LET r == [q EXCEPT ![p] = Tail(@)]
         IN  /\ r \in Queues
             /\ Head(q[p]) \in Tasks
             /\ Holds(q, Head(q[p]))
             /\ Distinct(q) =>
                  /\ Distinct(r)
                  /\ \A x : Holds(r, x) <=> Holds(q, x) /\ x # Head(q[p])
<1> DEFINE r == [q EXCEPT ![p] = Tail(@)]
<1>1. q[p] \in Seq(Tasks)
  BY DEF Queues
<1>2. /\ Head(q[p]) \in Tasks
      /\ Tail(q[p]) \in Seq(Tasks)
      /\ Len(Tail(q[p])) = Len(q[p]) - 1
      /\ \A i \in 1 .. Len(Tail(q[p])) : Tail(q[p])[i] = q[p][i + 1]
  BY <1>1, HeadTailProperties
<1>3. r \in Queues
  BY <1>2 DEF Queues
<1>4. \A l \in Level : /\ DOMAIN q[l] = 1 .. Len(q[l])
                       /\ Len(q[l]) \in Nat
  BY DEF Queues
<1>5. \A l \in Level : l # p => r[l] = q[l]
  BY DEF Queues
<1>6. r[p] = Tail(q[p]) /\ DOMAIN r[p] = 1 .. Len(q[p]) - 1
  BY <1>1, <1>2 DEF Queues
<1>7. Head(q[p]) = q[p][1] /\ 1 \in DOMAIN q[p]
  BY <1>1, <1>4, EmptySeq
<1>8. Holds(q, Head(q[p]))
  BY <1>7 DEF Holds
<1> HIDE DEF r
<1>9. ASSUME Distinct(q)
      PROVE  /\ Distinct(r)
             /\ \A x : Holds(r, x) <=> Holds(q, x) /\ x # Head(q[p])
  <2>1. \A k \in Level : \A n \in DOMAIN r[k] :
          \/ k # p /\ n \in DOMAIN q[k] /\ r[k][n] = q[k][n]
          \/ k = p /\ n + 1 \in DOMAIN q[k] /\ n \in Nat \ {0} /\ r[k][n] = q[k][n + 1]
    <3>1. \A n \in DOMAIN r[p] : /\ n + 1 \in DOMAIN q[p]
                                 /\ n \in Nat \ {0}
                                 /\ r[p][n] = q[p][n + 1]
      BY <1>2, <1>4, <1>6
    <3> QED BY <3>1, <1>5
  <2>2. Distinct(r)
    <3> SUFFICES ASSUME NEW l \in Level, NEW m \in Level,
                        NEW i \in DOMAIN r[l], NEW j \in DOMAIN r[m],
                        r[l][i] = r[m][j]
                 PROVE  l = m /\ i = j
      BY DEF Distinct
    <3> QED BY <2>1, <1>9 DEF Distinct
  <2>3. ASSUME NEW x, Holds(r, x) PROVE Holds(q, x) /\ x # Head(q[p])
    <3>1. PICK l \in Level : \E i \in DOMAIN r[l] : r[l][i] = x
      BY <2>3 DEF Holds
    <3>2. PICK i \in DOMAIN r[l] : r[l][i] = x
      BY <3>1
    <3> QED BY <3>2, <2>1, <1>7, <1>9 DEF Holds, Distinct
  <2>4. ASSUME NEW x, Holds(q, x), x # Head(q[p]) PROVE Holds(r, x)
    <3>1. PICK l \in Level : \E i \in DOMAIN q[l] : q[l][i] = x
      BY <2>4 DEF Holds
    <3>2. PICK i \in DOMAIN q[l] : q[l][i] = x
      BY <3>1
    <3>3. CASE l # p
      BY <3>2, <3>3, <1>5 DEF Holds
    <3>4. CASE l = p
      <4>1. i \in 2 .. Len(q[p])
        BY <3>2, <3>4, <2>4, <1>4, <1>7
      <4>2. i - 1 \in DOMAIN r[p] /\ r[p][i - 1] = x
        BY <4>1, <1>2, <1>4, <1>6, <3>2, <3>4
      <4> QED BY <4>2 DEF Holds
    <3> QED BY <3>3, <3>4
  <2> QED BY <2>2, <2>3, <2>4
<1> QED BY <1>2, <1>3, <1>8, <1>9 DEF r

-----------------------------------------------------------------------------
(* The inductive invariant.                                                *)

\* stop_ is set by the destructor only, and threads start in the constructor.
OwnerDecides ==
  /\ stop_ <=> owner \in {"stopping", "joining", "destroyed"}
  /\ \A w \in Workers : pc[w] = "unborn" => owner = "spawning"

\* A worker that left loop() saw stop_ and empty queues; a task posted since
\* then leaves some other worker behind to run it.
ExitedDrained ==
  /\ At("exited") # {} => stop_
  /\ At("exited") = Workers => AllEmpty
  /\ owner = "destroyed" => At("exited") = Workers

IInv == /\ TypeOK
        /\ EveryTaskInOnePlace
        /\ OwnerDecides
        /\ ExitedDrained
        /\ NoSleepAfterStop

-----------------------------------------------------------------------------

\* The definitions the model is made of, in the vocabulary of the lemmas.
LEMMA PlacesAsQueues ==
  /\ Queued = {t \in Tasks : Holds(tasks_, t)}
  /\ EveryTaskInOnePlace <=>
       /\ Queued \cup InHand \cup done = posted
       /\ Distinct(tasks_)
       /\ \A w \in Workers : task[w] # NoTask => task[w] \notin Queued \cup done
       /\ \A v, w \in Workers : task[v] = task[w] /\ task[v] # NoTask => v = w
       /\ Queued \cap done = {}
BY DEF Queued, Holds, EveryTaskInOnePlace, Distinct

\* An action that leaves the queues, the tasks in hand and the finished tasks
\* alone leaves every task where it is.
LEMMA SamePlaces ==
  ASSUME EveryTaskInOnePlace, UNCHANGED <<tasks_, task, done, posted>>
  PROVE  EveryTaskInOnePlace' /\ Queued' = Queued /\ InHand' = InHand /\ (AllEmpty' <=> AllEmpty)
BY DEF EveryTaskInOnePlace, Queued, InHand, AllEmpty

\* The initial state satisfies the inductive invariant (the constructor's
\* member initialisers).
LEMMA InitIInv == Init => IInv
<1> SUFFICES ASSUME Init PROVE IInv
  OBVIOUS
<1>1. TypeOK
  BY EmptySeq DEF Init, TypeOK
<1>2. EveryTaskInOnePlace
  BY PoolAssumption DEF Init, EveryTaskInOnePlace, Queued, InHand
<1>3. OwnerDecides /\ NoSleepAfterStop
  BY DEF Init, OwnerDecides, NoSleepAfterStop
<1>4. ExitedDrained
  BY PoolAssumption DEF Init, ExitedDrained, At, AllEmpty
<1> QED BY <1>1, <1>2, <1>3, <1>4 DEF IInv

\* postPriority()'s critical section keeps the invariant.
LEMMA PushIInv ==
  ASSUME IInv, NEW c \in Callers, NEW t \in Tasks, NEW p \in Level, Push(c, t, p)
  PROVE  /\ IInv'
         /\ t \notin Queued
         /\ Queued' = Queued \cup {t}
<1> USE DEF IInv
<1>1. tasks_ \in Queues
  BY DEF TypeOK, Queues
<1>2. tasks_' = [tasks_ EXCEPT ![p] = Append(@, t)]
  BY DEF Push
<1>3. /\ tasks_' \in Queues
      /\ \A x : Holds(tasks_', x) <=> Holds(tasks_, x) \/ x = t
      /\ Distinct(tasks_) /\ ~Holds(tasks_, t) => Distinct(tasks_')
  BY <1>1, <1>2, PushQueue
<1>4. ~Holds(tasks_, t) /\ t \notin done /\ \A w \in Workers : task[w] # t
  <2>1. t \notin Queued \cup InHand \cup done
    BY DEF Push, EveryTaskInOnePlace
  <2>2. Holds(tasks_, t) => t \in Queued
    BY PlacesAsQueues
  <2>3. \A w \in Workers : task[w] = t => t \in InHand
    BY DEF InHand
  <2> QED BY <2>1, <2>2, <2>3
<1>5. /\ Queued' = Queued \cup {t}
      /\ Distinct(tasks_')
  <2>1. Queued = {x \in Tasks : Holds(tasks_, x)} /\ Distinct(tasks_)
    BY PlacesAsQueues
  <2>2. Queued' = {x \in Tasks : Holds(tasks_', x)}
    BY DEF Queued, Holds
  <2> QED BY <2>1, <2>2, <1>3, <1>4
<1>6. TypeOK'
  BY <1>3 DEF TypeOK, Push, WillNotify, Queues
<1>7. EveryTaskInOnePlace'
  <2>1. /\ \A w \in Workers : task'[w] # NoTask => task'[w] \notin Queued' \cup done'
        /\ \A v, w \in Workers : task'[v] = task'[w] /\ task'[v] # NoTask => v = w
        /\ Queued' \cap done' = {}
    BY <1>4, <1>5, PlacesAsQueues DEF Push
  <2>2. Queued' \cup InHand' \cup done' = posted'
    BY <1>5, PlacesAsQueues DEF Push, InHand
  <2> QED BY <2>1, <2>2, <1>5 DEF EveryTaskInOnePlace, Distinct
<1>8. OwnerDecides' /\ NoSleepAfterStop'
  BY DEF Push, OwnerDecides, NoSleepAfterStop, At
<1>9. ExitedDrained'
  <2>1. At("exited") # Workers
    BY PoolAssumption DEF Push, MayPost, At, OwnerDecides, ExitedDrained
  <2> QED BY <2>1 DEF ExitedDrained, Push, At
<1> QED BY <1>4, <1>5, <1>6, <1>7, <1>8, <1>9, PlacesAsQueues

\* Taking a task keeps the invariant.
LEMMA TakeIInv ==
  ASSUME IInv, NEW w \in Workers, WorkerTakes(w)
  PROVE  /\ IInv'
         /\ \E p \in Level : /\ MostUrgent(p)
                             /\ tasks_' = PopFrom(p)
                             /\ task' = [task EXCEPT ![w] = Head(tasks_[p])]
                             /\ Head(tasks_[p]) \in Queued
                             /\ Queued' = Queued \ {Head(tasks_[p])}
<1> USE DEF IInv
<1>1. PICK p \in Level : /\ MostUrgent(p)
                         /\ task' = [task EXCEPT ![w] = Head(tasks_[p])]
                         /\ tasks_' = PopFrom(p)
  BY DEF WorkerTakes
<1> DEFINE h == Head(tasks_[p])
<1>2. tasks_ \in Queues /\ tasks_[p] # <<>>
  BY <1>1 DEF TypeOK, Queues, MostUrgent
<1>3. tasks_' = [tasks_ EXCEPT ![p] = Tail(@)]
  BY <1>1 DEF PopFrom
<1>4. /\ tasks_' \in Queues
      /\ h \in Tasks
      /\ Holds(tasks_, h)
      /\ Distinct(tasks_) => /\ Distinct(tasks_')
                             /\ \A x : Holds(tasks_', x) <=> Holds(tasks_, x) /\ x # h
  BY <1>2, <1>3, PopQueue
<1>5. h \in Queued /\ Queued' = Queued \ {h} /\ Distinct(tasks_')
  BY <1>4, PlacesAsQueues DEF Queued, Holds
<1>6. task' = [task EXCEPT ![w] = h]
  BY <1>1
<1> HIDE DEF h
<1>7. task \in [Workers -> Tasks \cup {NoTask}] /\ task[w] = NoTask
  BY DEF TypeOK, WorkerTakes
<1>8. TypeOK'
  BY <1>4, <1>6, PoolAssumption DEF TypeOK, WorkerTakes, Queues
<1>9. EveryTaskInOnePlace'
  <2>1. \A v \in Workers : task[v] # h
    BY <1>4, <1>5, PoolAssumption, PlacesAsQueues
  <2>2. \A v \in Workers : task'[v] = IF v = w THEN h ELSE task[v]
    BY <1>6, <1>7
  <2>3. \A v \in Workers : task'[v] # NoTask => task'[v] \notin Queued' \cup done'
    BY <2>1, <2>2, <1>5, PlacesAsQueues DEF WorkerTakes
  <2>4. \A u, v \in Workers : task'[u] = task'[v] /\ task'[u] # NoTask => u = v
    BY <2>1, <2>2, PlacesAsQueues
  <2>5. Queued' \cap done' = {}
    BY <1>5, PlacesAsQueues DEF WorkerTakes
  <2>6. InHand' = InHand \cup {h}
    BY <1>4, <1>7, <2>2, PoolAssumption DEF InHand
  <2>7. Queued' \cup InHand' \cup done' = posted'
    BY <1>5, <2>6, PlacesAsQueues DEF WorkerTakes
  <2> QED BY <2>3, <2>4, <2>5, <2>7, <1>5 DEF EveryTaskInOnePlace, Distinct
<1>10. OwnerDecides' /\ NoSleepAfterStop'
  BY DEF WorkerTakes, OwnerDecides, NoSleepAfterStop, At, TypeOK
<1>11. ExitedDrained'
  <2>1. At("exited")' = At("exited") /\ w \notin At("exited")
    BY DEF WorkerTakes, At, TypeOK
  <2> QED BY <2>1 DEF ExitedDrained, WorkerTakes, At
<1> QED BY <1>1, <1>5, <1>8, <1>9, <1>10, <1>11 DEF h

\* The task's return, or the exception packaged_task keeps for the future,
\* keeps the invariant.
LEMMA ReturnIInv ==
  ASSUME IInv, NEW w \in Workers, TaskReturns(w)
  PROVE  /\ IInv'
         /\ task[w] \in InHand
         /\ InHand' = InHand \ {task[w]}
         /\ Queued' = Queued
<1> USE DEF IInv
<1>1. /\ task \in [Workers -> Tasks \cup {NoTask}]
      /\ task[w] # NoTask
      /\ task[w] \in Tasks
  BY DEF TypeOK, TaskReturns
<1>2. \A v \in Workers : task'[v] = IF v = w THEN NoTask ELSE task[v]
  BY <1>1 DEF TaskReturns, Dropped
<1>3. Queued' = Queued
  BY DEF TaskReturns, Queued
<1>4. TypeOK'
  BY <1>1 DEF TypeOK, TaskReturns, Dropped
<1>5. InHand' = InHand \ {task[w]} /\ task[w] \in InHand
  BY <1>1, <1>2, PoolAssumption, PlacesAsQueues DEF InHand
<1>6. EveryTaskInOnePlace'
  <2>1. Distinct(tasks_') /\ task[w] \notin Queued
    BY <1>1, PlacesAsQueues DEF TaskReturns
  <2>2. \A v \in Workers : task'[v] # NoTask => task'[v] \notin Queued' \cup done'
    BY <1>1, <1>2, <1>3, PlacesAsQueues DEF TaskReturns
  <2>3. \A u, v \in Workers : task'[u] = task'[v] /\ task'[u] # NoTask => u = v
    BY <1>2, PlacesAsQueues
  <2>4. Queued' \cap done' = {}
    BY <2>1, <1>3, PlacesAsQueues DEF TaskReturns
  <2>5. Queued' \cup InHand' \cup done' = posted'
    BY <1>3, <1>5, PlacesAsQueues DEF TaskReturns
  <2> QED BY <2>1, <2>2, <2>3, <2>4, <2>5 DEF EveryTaskInOnePlace, Distinct
<1>7. OwnerDecides' /\ NoSleepAfterStop'
  BY <1>1 DEF TaskReturns, OwnerDecides, NoSleepAfterStop, At, TypeOK
<1>8. ExitedDrained'
  <2>1. At("exited")' = At("exited") /\ w \notin At("exited")
    BY DEF TaskReturns, At, TypeOK
  <2> QED BY <2>1 DEF ExitedDrained, TaskReturns, At
<1> QED BY <1>3, <1>4, <1>5, <1>6, <1>7, <1>8

\* Every other step keeps the invariant and leaves every task where it is.
LEMMA QuietIInv ==
  ASSUME IInv,
         \/ OwnerStep
         \/ SetStop
         \/ \E w \in Workers : \/ SpawnWorker(w) \/ TornScan(w) \/ WorkerWaits(w)
                               \/ WorkerExits(w) \/ SpuriousWakeup(w)
         \/ \E c \in Callers : NotifyOne(c)
  PROVE  IInv' /\ UNCHANGED <<tasks_, task, done, posted>>
<1> USE DEF IInv
<1>1. UNCHANGED <<tasks_, task, done, posted>>
  BY DEF OwnerStep, BeginQueues, EndQueues, NotifyAll, JoinAll, SetStop, SpawnWorker,
         TornScan, WorkerWaits, WorkerExits, SpuriousWakeup, NotifyOne
<1>2. EveryTaskInOnePlace' /\ (AllEmpty' <=> AllEmpty)
  BY <1>1, SamePlaces
<1>3. ASSUME NEW w \in Workers, SpawnWorker(w) PROVE IInv'
  <2>1. TypeOK' /\ OwnerDecides'
    BY <1>3 DEF SpawnWorker, TypeOK, OwnerDecides
  <2>2. ExitedDrained' /\ NoSleepAfterStop'
    BY <1>2, <1>3 DEF SpawnWorker, TypeOK, OwnerDecides, ExitedDrained, NoSleepAfterStop, At
  <2> QED BY <2>1, <2>2, <1>2
<1>4. ASSUME NEW w \in Workers, TornScan(w) PROVE IInv'
  <2>1. TypeOK' /\ OwnerDecides'
    BY <1>4 DEF TornScan, TypeOK, OwnerDecides
  <2>2. ExitedDrained' /\ NoSleepAfterStop'
    BY <1>2, <1>4 DEF TornScan, TypeOK, OwnerDecides, ExitedDrained, NoSleepAfterStop, At
  <2> QED BY <2>1, <2>2, <1>2
<1>5. ASSUME NEW w \in Workers, WorkerWaits(w) PROVE IInv'
  <2>1. TypeOK' /\ OwnerDecides'
    BY <1>5 DEF WorkerWaits, TypeOK, OwnerDecides
  <2>2. ExitedDrained' /\ NoSleepAfterStop'
    BY <1>2, <1>5 DEF WorkerWaits, WaitPredicate, TypeOK, OwnerDecides, ExitedDrained,
                      NoSleepAfterStop, At
  <2> QED BY <2>1, <2>2, <1>2
<1>6. ASSUME NEW w \in Workers, WorkerExits(w) PROVE IInv'
  <2>1. TypeOK' /\ OwnerDecides'
    BY <1>6 DEF WorkerExits, TypeOK, OwnerDecides
  <2>2. NoSleepAfterStop'
    BY <1>6 DEF WorkerExits, TypeOK, NoSleepAfterStop, At
  <2>3. stop_' /\ AllEmpty' /\ At("exited") # Workers /\ owner' = owner
    BY <1>2, <1>6 DEF WorkerExits, ExitCondition, At
  <2> QED BY <2>1, <2>2, <2>3, <1>2 DEF ExitedDrained
<1>7. ASSUME NEW w \in Workers, SpuriousWakeup(w) PROVE IInv'
  <2>1. TypeOK' /\ OwnerDecides'
    BY <1>7 DEF SpuriousWakeup, TypeOK, OwnerDecides
  <2>2. ExitedDrained' /\ NoSleepAfterStop'
    BY <1>2, <1>7 DEF SpuriousWakeup, TypeOK, OwnerDecides, ExitedDrained, NoSleepAfterStop, At
  <2> QED BY <2>1, <2>2, <1>2
<1>8. ASSUME NEW c \in Callers, NotifyOne(c) PROVE IInv'
  <2>1. CASE pc' = pc
    BY <1>8, <2>1, <1>2 DEF NotifyOne, TypeOK, OwnerDecides, ExitedDrained,
                            NoSleepAfterStop, At
  <2>2. ASSUME NEW w \in Workers, Wakeable(w), pc' = [pc EXCEPT ![w] = "scan"]
        PROVE  IInv'
    <3>1. TypeOK' /\ OwnerDecides'
      BY <1>8, <2>2 DEF NotifyOne, Wakeable, TypeOK, OwnerDecides
    <3>2. ExitedDrained' /\ NoSleepAfterStop'
      BY <1>2, <1>8, <2>2 DEF NotifyOne, Wakeable, TypeOK, OwnerDecides, ExitedDrained,
                              NoSleepAfterStop, At
    <3> QED BY <3>1, <3>2, <1>2
  <2> QED BY <2>1, <2>2, <1>8 DEF NotifyOne
<1>9. ASSUME BeginQueues \/ EndQueues \/ JoinAll \/ SetStop PROVE IInv'
  <2>1. TypeOK' /\ pc' = pc
    BY <1>9 DEF BeginQueues, EndQueues, JoinAll, SetStop, TypeOK
  <2>2. OwnerDecides' /\ NoSleepAfterStop'
    BY <1>9, <2>1 DEF BeginQueues, EndQueues, JoinAll, SetStop, TypeOK, OwnerDecides,
                      NoSleepAfterStop, At
  <2>3. ExitedDrained'
    BY <1>9, <1>2, <2>1 DEF BeginQueues, EndQueues, JoinAll, SetStop, ExitedDrained, At
  <2> QED BY <2>1, <2>2, <2>3, <1>2
<1>10. ASSUME NotifyAll PROVE IInv'
  <2>1. TypeOK' /\ OwnerDecides'
    BY <1>10 DEF NotifyAll, AllWoken, TypeOK, OwnerDecides
  <2>2. At("exited")' = At("exited") /\ At("waiting")' = {}
    BY <1>10 DEF NotifyAll, AllWoken, TypeOK, At
  <2>3. ExitedDrained' /\ NoSleepAfterStop'
    BY <1>2, <1>10, <2>2 DEF NotifyAll, ExitedDrained, NoSleepAfterStop, At
  <2> QED BY <2>1, <2>3, <1>2
<1> QED BY <1>1, <1>3, <1>4, <1>5, <1>6, <1>7, <1>8, <1>9, <1>10 DEF OwnerStep

\* The invariant is inductive.
LEMMA NextIInv == IInv /\ [Next]_vars => IInv'
<1> SUFFICES ASSUME IInv, [Next]_vars PROVE IInv'
  OBVIOUS
<1>1. CASE UNCHANGED vars
  BY <1>1 DEF vars, IInv, TypeOK, EveryTaskInOnePlace, OwnerDecides,
              ExitedDrained, NoSleepAfterStop, At, AllEmpty, Queued, InHand
<1>2. CASE Next
  BY <1>2, PushIInv, TakeIInv, ReturnIInv, QuietIInv DEF Next, WorkerStep
<1> QED BY <1>1, <1>2

\* The pool's members, its workers' counters and their tasks keep their types.
THEOREM TypeCorrect == Spec => []TypeOK
<1>1. IInv => TypeOK
  BY DEF IInv
<1> QED BY <1>1, InitIInv, NextIInv, PTL DEF Spec

\* Every task ever pushed stays in exactly one place, queue, hand or history of
\* the finished ones, for any number of threads, tasks and levels: no pop loses
\* one and none is run twice.
THEOREM TasksNeitherLostNorDoubled == Spec => []EveryTaskInOnePlace
<1>1. IInv => EveryTaskInOnePlace
  BY DEF IInv
<1> QED BY <1>1, InitIInv, NextIInv, PTL DEF Spec

\* After the destructor's notify_all() no worker is asleep, so that the joins
\* depend on nothing but the tasks.
THEOREM NobodySleepsThroughStop == Spec => []NoSleepAfterStop
<1>1. IInv => NoSleepAfterStop
  BY DEF IInv
<1> QED BY <1>1, InitIInv, NextIInv, PTL DEF Spec

-----------------------------------------------------------------------------
(* No worker sleeps over work: the queued tasks are counted against the     *)
(* workers about to look and the notifications still to come.               *)

\* The three sets that NoSleepOverWork weighs are finite.
LEMMA FiniteSides ==
  ASSUME TypeOK
  PROVE  /\ IsFiniteSet(Queued) /\ Cardinality(Queued) \in Nat
         /\ IsFiniteSet(At("scan")) /\ Cardinality(At("scan")) \in Nat
         /\ IsFiniteSet(notifying) /\ Cardinality(notifying) \in Nat
<1>1. Queued \in SUBSET Tasks /\ At("scan") \in SUBSET Workers
  BY DEF Queued, At
<1>2. IsFiniteSet(Callers) /\ notifying \in SUBSET Callers
  BY PoolAssumption, FS_Union DEF Callers, TypeOK
<1> QED BY <1>1, <1>2, PoolAssumption, FS_Subset, FS_CardinalityType

\* One step keeps the balance.
LEMMA NextNoSleepOverWork ==
  ASSUME IInv, IInv', NoSleepOverWork, [Next]_vars
  PROVE  NoSleepOverWork'
<1> USE DEF NoSleepOverWork
<1> DEFINE q == Cardinality(Queued)
           s == Cardinality(At("scan"))
           n == Cardinality(notifying)
<1>1. /\ IsFiniteSet(Queued) /\ q \in Nat
      /\ IsFiniteSet(At("scan")) /\ s \in Nat
      /\ IsFiniteSet(notifying) /\ n \in Nat
  BY FiniteSides DEF IInv
<1>2. TypeOK
  BY DEF IInv
<1>3. ASSUME UNCHANGED <<tasks_, pc, notifying>> PROVE NoSleepOverWork'
  BY <1>3 DEF Queued, At
<1>4. ASSUME NEW c \in Callers, NEW t \in Tasks, NEW p \in Level, Push(c, t, p)
      PROVE  NoSleepOverWork'
  <2>1. Cardinality(Queued') = q + 1
    BY <1>1, <1>4, PushIInv, FS_AddElement
  <2>2. Cardinality(notifying') = n + 1
    BY <1>1, <1>4, FS_AddElement DEF Push, MayPost, WillNotify
  <2>3. At("scan")' = At("scan") /\ At("waiting")' = At("waiting")
    BY <1>4 DEF Push, At
  <2> HIDE DEF q, s, n
  <2> QED BY <2>1, <2>2, <2>3, <1>1 DEF q, s, n
<1>5. ASSUME NEW w \in Workers, WorkerTakes(w) PROVE NoSleepOverWork'
  <2>1. Cardinality(Queued') = q - 1
    BY <1>1, <1>5, TakeIInv, FS_RemoveElement
  <2>2. At("scan")' = At("scan") \ {w} /\ w \in At("scan") /\ At("waiting")' = At("waiting")
    BY <1>2, <1>5 DEF WorkerTakes, At, TypeOK
  <2>3. Cardinality(At("scan")') = s - 1
    BY <2>2, <1>1, FS_RemoveElement
  <2>4. notifying' = notifying
    BY <1>5 DEF WorkerTakes
  <2> QED BY <2>1, <2>2, <2>3, <2>4, <1>1
<1>6. ASSUME NEW w \in Workers, Queued' = Queued, notifying' = notifying,
             pc[w] # "scan", pc' = [pc EXCEPT ![w] = "scan"]
      PROVE  NoSleepOverWork'
  <2>1. At("scan")' = At("scan") \cup {w} /\ w \notin At("scan")
        /\ At("waiting")' \subseteq At("waiting")
    BY <1>2, <1>6 DEF At, TypeOK
  <2>2. Cardinality(At("scan")') = s + 1
    BY <2>1, <1>1, FS_AddElement
  <2> QED BY <2>1, <2>2, <1>1, <1>6
<1>7. ASSUME NEW w \in Workers, WorkerWaits(w) \/ WorkerExits(w) PROVE NoSleepOverWork'
  <2>1. Queued' = {}
    BY <1>7, EmptySeq DEF WorkerWaits, WaitPredicate, WorkerExits, ExitCondition, AllEmpty, Queued
  <2>2. At("scan")' \in SUBSET At("scan") /\ notifying' = notifying
    BY <1>2, <1>7 DEF WorkerWaits, WorkerExits, At, TypeOK
  <2>3. Cardinality(At("scan")') \in Nat
    BY <2>2, <1>1, FS_Subset, FS_CardinalityType
  <2> QED BY <2>1, <2>2, <2>3, <1>1, FS_EmptySet
<1>8. ASSUME NEW c \in Callers, NotifyOne(c) PROVE NoSleepOverWork'
  <2>1. Cardinality(notifying') = n - 1
    BY <1>1, <1>8, FS_RemoveElement DEF NotifyOne
  <2>2. CASE \A w \in Workers : ~Wakeable(w)
    BY <1>8, <2>2 DEF NotifyOne, Wakeable, At
  <2>3. ASSUME NEW w \in Workers, Wakeable(w), pc' = [pc EXCEPT ![w] = "scan"]
        PROVE  NoSleepOverWork'
    <3>1. At("scan")' = At("scan") \cup {w} /\ w \notin At("scan") /\ w \in At("waiting")
      BY <1>2, <2>3 DEF At, TypeOK, Wakeable
    <3>2. Cardinality(At("scan")') = s + 1
      BY <3>1, <1>1, FS_AddElement
    <3>3. Queued' = Queued
      BY <1>8 DEF NotifyOne, Queued
    <3> QED BY <2>1, <3>1, <3>2, <3>3, <1>1
  <2> QED BY <2>2, <2>3, <1>8 DEF NotifyOne
<1>9. ASSUME NotifyAll PROVE NoSleepOverWork'
  BY <1>2, <1>9 DEF NotifyAll, AllWoken, At, TypeOK
<1>10. ASSUME NEW w \in Workers, SpawnWorker(w) \/ SpuriousWakeup(w) \/ TaskReturns(w)
       PROVE  NoSleepOverWork'
  BY <1>6, <1>10 DEF SpawnWorker, SpuriousWakeup, TaskReturns, Queued
<1>11. ASSUME \/ BeginQueues \/ EndQueues \/ JoinAll \/ SetStop \/ UNCHANGED vars
              \/ \E w \in Workers : TornScan(w)
       PROVE  NoSleepOverWork'
  BY <1>3, <1>11 DEF BeginQueues, EndQueues, JoinAll, SetStop, TornScan, vars
<1> QED BY <1>4, <1>5, <1>7, <1>8, <1>9, <1>10, <1>11 DEF Next, OwnerStep, WorkerStep

\* A worker never sleeps while a task is queued that no awake worker and no
\* pending notify_one() answers for, whatever the number of workers: the
\* notification outside the lock (postPriority) loses no wakeup.
THEOREM NoWorkerSleepsOverWork == Spec => []NoSleepOverWork
<1>1. Init => NoSleepOverWork
  BY DEF Init, NoSleepOverWork, At
<1>2. IInv /\ NoSleepOverWork /\ [Next]_vars => (IInv /\ NoSleepOverWork)'
  BY NextIInv, NextNoSleepOverWork
<1> QED BY <1>1, <1>2, InitIInv, PTL DEF Spec

-----------------------------------------------------------------------------
(* The pool implements TaskService.                                        *)

\* The two modules mean the same by a queued task.
LEMMA QueuedIsInQueue == \A t \in Tasks : t \in Queued <=> Service!InQueue(t)
BY DEF Queued, Service!InQueue, Level, Service!Level

\* A pool under construction is an open service without work.
LEMMA InitService == Init => Service!Init
BY PoolAssumption DEF Init, Service!Init, InHand, Level, Service!Level

\* Every step of the pool is a step of the service or invisible to it.
LEMMA NextService == IInv /\ [Next]_vars => [Service!Next]_(Service!vars)
<1> SUFFICES ASSUME IInv, [Next]_vars PROVE [Service!Next]_(Service!vars)
  OBVIOUS
<1> USE DEF IInv
<1>1. ASSUME NEW c \in Callers, NEW t \in Tasks, NEW p \in Level, Push(c, t, p)
      PROVE  Service!Submit(t, p)
  <2>1. ~Service!Accepted(t)
    BY <1>1, QueuedIsInQueue DEF Push, EveryTaskInOnePlace, Service!Accepted
  <2>2. InHand' = InHand
    BY <1>1 DEF Push, InHand
  <2>3. owner = "alive" \/ (InHand # {} /\ owner # "destroyed")
    BY <1>1, PoolAssumption
    DEF Push, MayPost, TypeOK, InHand, ExitedDrained, At
  <2>4. owner \in {"spawning", "building", "alive", "stopping", "joining",
                   "destroyed", "crashed"}
    BY DEF TypeOK
  <2> QED BY <1>1, <2>1, <2>2, <2>3, <2>4 DEF Push, Service!Submit
<1>2. ASSUME NEW w \in Workers, WorkerTakes(w)
      PROVE  \E p \in Level : Service!Start(p)
  <2>1. PICK p \in Level : /\ MostUrgent(p)
                           /\ tasks_' = PopFrom(p)
                           /\ task' = [task EXCEPT ![w] = Head(tasks_[p])]
                           /\ Head(tasks_[p]) \in Queued
    BY <1>2, TakeIInv
  <2>2. task[w] = NoTask /\ task \in [Workers -> Tasks \cup {NoTask}]
    BY <1>2 DEF WorkerTakes, TypeOK
  <2>3. InHand' = InHand \cup {Head(tasks_[p])}
    BY <2>1, <2>2, PoolAssumption DEF InHand, Queued
  <2> QED BY <1>2, <2>1, <2>3
          DEF Service!Start, WorkerTakes, MostUrgent, PopFrom, Level, Service!Level
<1>3. ASSUME NEW w \in Workers, TaskReturns(w)
      PROVE  task[w] \in Tasks /\ Service!Finish(task[w])
  BY <1>3, ReturnIInv DEF TaskReturns, Service!Finish, InHand
<1>4. ASSUME SetStop PROVE Service!Close
  BY <1>4 DEF SetStop, Service!Close, InHand
<1>5. ASSUME JoinAll PROVE Service!Closed
  <2>1. Service!NothingWaits
    BY <1>5 DEF JoinAll, ExitedDrained, AllEmpty, Service!NothingWaits, Level, Service!Level
  <2>2. InHand = {}
    BY <1>5, PoolAssumption DEF JoinAll, At, TypeOK, InHand
  <2> QED BY <1>5, <2>1, <2>2 DEF JoinAll, Service!Closed, InHand
<1>6. ASSUME \/ BeginQueues \/ EndQueues \/ NotifyAll
             \/ \E w \in Workers : \/ SpawnWorker(w) \/ TornScan(w) \/ WorkerWaits(w)
                                   \/ WorkerExits(w) \/ SpuriousWakeup(w)
             \/ \E c \in Callers : NotifyOne(c)
      PROVE  UNCHANGED Service!vars
  BY <1>6 DEF BeginQueues, EndQueues, NotifyAll, SpawnWorker, TornScan, WorkerWaits,
              WorkerExits, SpuriousWakeup, NotifyOne, Service!vars, InHand
<1>7. ASSUME UNCHANGED vars PROVE UNCHANGED Service!vars
  BY <1>7 DEF vars, Service!vars, InHand
<1> QED BY <1>1, <1>2, <1>3, <1>4, <1>5, <1>6, <1>7
        DEF Next, OwnerStep, WorkerStep, Service!Next, Level, Service!Level

\* tl::ThreadPool is a levelled FIFO task service: what TaskService says of
\* order, urgency, single execution and draining on close holds of the pool
\* for every number of threads, tasks and levels.
THEOREM PoolImplementsService == Spec => ImplementsService
BY InitIInv, NextIInv, InitService, NextService, PTL
DEF Spec, ImplementsService, Service!Spec
=============================================================================
