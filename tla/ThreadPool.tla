----------------------------- MODULE ThreadPool -----------------------------
(***************************************************************************)
(* tl::ThreadPool (thread_pool.h, thread_pool.cc): worker threads that     *)
(* share one mutex, one condition variable and a vector of priority        *)
(* queues.  A critical section of tasks_mutex_ never blocks inside, so it  *)
(* is one action; what the code does outside the lock (notify_one after a  *)
(* push, notify_all after setting stop_, running the task) is an action of *)
(* its own, which is where the interleavings are.                          *)
(***************************************************************************)
EXTENDS Naturals, Sequences, FiniteSets

CONSTANTS
  Workers,   \* the threads of threads_
  Posters,   \* threads outside the pool that call post() and postPriority()
  Tasks,     \* the tasks that may be posted, each at most once
  Forever,   \* the tasks that never return (main.cc posts Dispatcher::dispatch)
  Levels,    \* priority_count
  NoTask     \* a worker's local "task" when it holds none

ASSUME PoolAssumption ==
  /\ IsFiniteSet(Workers)
  /\ Workers # {}
  /\ IsFiniteSet(Posters)
  /\ Workers \cap Posters = {}
  /\ IsFiniteSet(Tasks)
  /\ Forever \subseteq Tasks
  /\ NoTask \notin Tasks
  /\ Levels \in Nat \ {0}          \* assert(priority_count > 0)

Level == 0 .. Levels - 1
Callers == Workers \cup Posters

VARIABLES
  owner,      \* where the thread that owns the pool is: constructor, use, destructor
  tasks_,     \* [Level -> Seq(Tasks)]
  stop_,
  pc,         \* [Workers -> where the worker is in loop()]
  task,       \* [Workers -> the task it holds]
  notifying,  \* callers that pushed a task and have yet to call notify_one()
  done,       \* tasks that have returned
  posted      \* history: every task that was ever pushed

vars == <<owner, tasks_, stop_, pc, task, notifying, done, posted>>

-----------------------------------------------------------------------------

At(where) == {w \in Workers : pc[w] = where}

AllEmpty == \A p \in Level : tasks_[p] = <<>>

Queued == {t \in Tasks : \E p \in Level : \E i \in DOMAIN tasks_[p] : tasks_[p][i] = t}

InHand == {t \in Tasks : \E w \in Workers : task[w] = t}

Init ==
  /\ owner = "spawning"
  /\ tasks_ = [p \in Level |-> <<>>]
  /\ stop_ = FALSE
  /\ pc = [w \in Workers |-> "unborn"]
  /\ task = [w \in Workers |-> NoTask]
  /\ notifying = {}
  /\ done = {}
  /\ posted = {}

-----------------------------------------------------------------------------
(* Seeded faults, used only to show that the properties can fail.          *)

WaitPredicateIgnoresStop == ~AllEmpty
NotifyFirstOnly(c) == IF AllEmpty THEN {c} ELSE {}
WakeNobody == pc
ExitOnStopAlone == stop_
LeastUrgent(p) == tasks_[p] # <<>> /\ \A q \in Level : q > p => tasks_[q] = <<>>
PeekOnly(p) == tasks_
DropLevel(p) == [tasks_ EXCEPT ![p] = <<>>]

-----------------------------------------------------------------------------
(* The constructor starts the workers before tasks_ holds its queues.      *)

SpawnWorker(w) ==
  /\ owner = "spawning"
  /\ pc[w] = "unborn"
  /\ pc' = [pc EXCEPT ![w] = "scan"]
  /\ UNCHANGED <<owner, tasks_, stop_, task, notifying, done, posted>>

\* reserve() and the push_back() of the queues, not under tasks_mutex_.
BeginQueues ==
  /\ owner = "spawning"
  /\ At("unborn") = {}
  /\ owner' = "building"
  /\ UNCHANGED <<tasks_, stop_, pc, task, notifying, done, posted>>

EndQueues ==
  /\ owner = "building"
  /\ owner' = "alive"
  /\ UNCHANGED <<tasks_, stop_, pc, task, notifying, done, posted>>

\* A worker that iterates over tasks_ while reserve() replaces its storage
\* may pair the old begin() with the new end(): the process dies.  The other
\* outcome of the same race, an empty vector, is WorkerWaits.
TornScan(w) ==
  /\ owner = "building"
  /\ pc[w] = "scan"
  /\ owner' = "crashed"
  /\ UNCHANGED <<tasks_, stop_, pc, task, notifying, done, posted>>

-----------------------------------------------------------------------------
(* post() and postPriority(), called from outside or from a running task.  *)

MayPost(c) ==
  /\ c \notin notifying
  /\ \/ c \in Posters /\ owner = "alive"
     \/ c \in Workers /\ pc[c] = "running"

\* Every push is followed by a notify_one().
WillNotify(c) == {c}

Push(c, t, p) ==
  /\ MayPost(c)
  /\ t \notin posted
  /\ tasks_' = [tasks_ EXCEPT ![p] = Append(@, t)]
  /\ notifying' = notifying \cup WillNotify(c)
  /\ posted' = posted \cup {t}
  /\ UNCHANGED <<owner, stop_, pc, task, done>>

\* A worker notify_one() may pick.
Wakeable(w) == pc[w] = "waiting"

NotifyOne(c) ==
  /\ c \in notifying
  /\ notifying' = notifying \ {c}
  /\ \/ \E w \in Workers : /\ Wakeable(w)
                           /\ pc' = [pc EXCEPT ![w] = "scan"]
     \/ /\ \A w \in Workers : ~Wakeable(w)
        /\ pc' = pc
  /\ UNCHANGED <<owner, tasks_, stop_, task, done, posted>>

-----------------------------------------------------------------------------
(* loop(), one iteration of which starts at "scan" with the lock free.     *)

WaitPredicate == stop_ \/ ~AllEmpty

WorkerWaits(w) ==
  /\ pc[w] = "scan"
  /\ ~WaitPredicate
  /\ pc' = [pc EXCEPT ![w] = "waiting"]
  /\ UNCHANGED <<owner, tasks_, stop_, task, notifying, done, posted>>

\* condition_.wait() may return without a notification; the predicate is
\* evaluated again.
SpuriousWakeup(w) ==
  /\ pc[w] = "waiting"
  /\ pc' = [pc EXCEPT ![w] = "scan"]
  /\ UNCHANGED <<owner, tasks_, stop_, task, notifying, done, posted>>

\* "exit loop when stop and no more tasks"
ExitCondition == stop_ /\ AllEmpty

WorkerExits(w) ==
  /\ pc[w] = "scan"
  /\ WaitPredicate
  /\ ExitCondition
  /\ pc' = [pc EXCEPT ![w] = "exited"]
  /\ UNCHANGED <<owner, tasks_, stop_, task, notifying, done, posted>>

\* The level at which the scan over tasks_ finds its task.
MostUrgent(p) == tasks_[p] # <<>> /\ \A q \in Level : q < p => tasks_[q] = <<>>

PopFrom(p) == [tasks_ EXCEPT ![p] = Tail(@)]

WorkerTakes(w) ==
  /\ pc[w] = "scan"
  /\ WaitPredicate
  /\ ~ExitCondition
  /\ \E p \in Level : /\ MostUrgent(p)
                      /\ task' = [task EXCEPT ![w] = Head(tasks_[p])]
                      /\ tasks_' = PopFrom(p)
  /\ pc' = [pc EXCEPT ![w] = "running"]
  /\ UNCHANGED <<owner, stop_, notifying, done, posted>>

\* loop()'s local task dies with the iteration.
Dropped(w) == [task EXCEPT ![w] = NoTask]

\* The packaged_task returns or stores its exception in the future: loop()
\* goes on either way.
TaskReturns(w) ==
  /\ pc[w] = "running"
  /\ task[w] \notin Forever
  /\ w \notin notifying
  /\ done' = done \cup {task[w]}
  /\ task' = Dropped(w)
  /\ pc' = [pc EXCEPT ![w] = "scan"]
  /\ UNCHANGED <<owner, tasks_, stop_, notifying, posted>>

-----------------------------------------------------------------------------
(* The destructor, which no call from outside the pool may overlap.        *)

SetStop ==
  /\ owner = "alive"
  /\ Posters \cap notifying = {}
  /\ stop_' = TRUE
  /\ owner' = "stopping"
  /\ UNCHANGED <<tasks_, pc, task, notifying, done, posted>>

AllWoken == [w \in Workers |-> IF pc[w] = "waiting" THEN "scan" ELSE pc[w]]

NotifyAll ==
  /\ owner = "stopping"
  /\ pc' = AllWoken
  /\ owner' = "joining"
  /\ UNCHANGED <<tasks_, stop_, task, notifying, done, posted>>

\* t.join() on every thread, in an order that makes no difference.
JoinAll ==
  /\ owner = "joining"
  /\ At("exited") = Workers
  /\ owner' = "destroyed"
  /\ UNCHANGED <<tasks_, stop_, pc, task, notifying, done, posted>>

-----------------------------------------------------------------------------

OwnerStep == BeginQueues \/ EndQueues \/ NotifyAll \/ JoinAll

WorkerStep(w) == WorkerWaits(w) \/ WorkerExits(w) \/ WorkerTakes(w)

Next ==
  /\ owner # "crashed"
  /\ \/ OwnerStep
     \/ SetStop
     \/ \E w \in Workers : \/ SpawnWorker(w)
                           \/ TornScan(w)
                           \/ WorkerStep(w)
                           \/ SpuriousWakeup(w)
                           \/ TaskReturns(w)
     \/ \E c \in Callers : \/ NotifyOne(c)
                           \/ \E t \in Tasks, p \in Level : Push(c, t, p)

\* Every thread keeps running: the owner through the constructor and the
\* destructor it has entered, each worker whenever it holds or can take the
\* lock, each caller from its push to its notify_one(), and each task that
\* returns at all.  Posting and destroying the pool are the user's choice.
Fairness ==
  /\ WF_vars(OwnerStep)
  /\ \A w \in Workers : /\ WF_vars(SpawnWorker(w))
                        /\ WF_vars(WorkerStep(w))
                        /\ WF_vars(TaskReturns(w))
  /\ \A c \in Callers : WF_vars(NotifyOne(c))

Spec == Init /\ [][Next]_vars

FairSpec == Spec /\ Fairness

-----------------------------------------------------------------------------

\* Types of the pool's members and of the workers' program counters.  A worker
\* holds a task exactly while it runs it.
TypeOK ==
  /\ owner \in {"spawning", "building", "alive", "stopping", "joining",
                "destroyed", "crashed"}
  /\ tasks_ \in [Level -> Seq(Tasks)]
  /\ stop_ \in BOOLEAN
  /\ pc \in [Workers -> {"unborn", "scan", "waiting", "running", "exited"}]
  /\ task \in [Workers -> Tasks \cup {NoTask}]
  /\ notifying \subseteq Callers
  /\ done \subseteq Tasks
  /\ posted \subseteq Tasks
  /\ \A w \in Workers : pc[w] = "running" <=> task[w] # NoTask

\* Every task that was ever pushed, and no other, is somewhere, and in one
\* place only: at one position of one queue, in the hands of one worker, or
\* finished.  It is neither lost when the queues are popped by several workers
\* nor run a second time.
EveryTaskInOnePlace ==
  /\ Queued \cup InHand \cup done = posted
  /\ \A p, q \in Level : \A i \in DOMAIN tasks_[p], j \in DOMAIN tasks_[q] :
       tasks_[p][i] = tasks_[q][j] => p = q /\ i = j
  /\ \A w \in Workers : task[w] # NoTask => task[w] \notin Queued \cup done
  /\ \A v, w \in Workers : task[v] = task[w] /\ task[v] # NoTask => v = w
  /\ Queued \cap done = {}

\* A worker sleeps on condition_ only while every queued task is spoken for
\* by another worker about to look at the queues or by a notify_one() still
\* to come (push under the lock, notify_one() after it, thread_pool.h).
NoSleepOverWork ==
  At("waiting") # {} =>
    Cardinality(Queued) <= Cardinality(At("scan")) + Cardinality(notifying)

\* Once the destructor has told everyone to stop nobody goes back to sleep,
\* so that every join() it calls can return.
NoSleepAfterStop == owner \in {"joining", "destroyed"} => At("waiting") = {}

\* The pool implements the service its users see: tasks of a level start in
\* the order they were posted, none starts while a more urgent one is queued,
\* none starts twice, and the destructor returns only when all have finished.
Service == INSTANCE TaskService WITH
  phase <- CASE owner \in {"stopping", "joining"} -> "closing"
             [] owner = "destroyed" -> "closed"
             [] OTHER -> "open",
  waiting <- tasks_,
  serving <- InHand,
  finished <- done

ImplementsService == Service!Spec

\* A posted task is eventually picked up by a worker, as long as fewer tasks
\* than workers never return.  The exception is a shutdown with such a task:
\* what it posts after the other workers have left loop() stays in its queue.
EveryTaskStarts == \A t \in Tasks :
  t \in posted ~> t \in InHand \cup done \/ (stop_ /\ Forever \cap InHand # {})

\* The destructor returns unless a task that never returns holds a worker.
DestructorReturns == owner = "stopping" ~> owner = "destroyed" \/ Forever \cap posted # {}
=============================================================================
