---------------------------- MODULE TaskService ----------------------------
(***************************************************************************)
(* What tl::ThreadPool promises its users, with no threads, no lock and no *)
(* condition variable: tasks are accepted into levelled queues, the oldest *)
(* task of the most urgent level is the next to start, and the service is  *)
(* closed only when everything it ever accepted has finished.              *)
(***************************************************************************)
EXTENDS Naturals, Sequences

CONSTANTS Tasks,     \* the tasks users may submit, each at most once
          Levels     \* number of priority levels, 0 is the most urgent

Level == 0 .. Levels - 1

VARIABLES phase,     \* "open", "closing" or "closed"
          waiting,   \* [Level -> Seq(Tasks)] accepted, not started
          serving,   \* tasks started, not finished
          finished   \* tasks finished

vars == <<phase, waiting, serving, finished>>

InQueue(t) == \E p \in Level : \E i \in DOMAIN waiting[p] : waiting[p][i] = t

Accepted(t) == InQueue(t) \/ t \in serving \/ t \in finished

NothingWaits == \A p \in Level : waiting[p] = <<>>

Init == /\ phase = "open"
        /\ waiting = [p \in Level |-> <<>>]
        /\ serving = {}
        /\ finished = {}

\* A closing service accepts only what its own running tasks submit.
Submit(t, p) == /\ phase = "open" \/ (phase = "closing" /\ serving # {})
                /\ ~Accepted(t)
                /\ waiting' = [waiting EXCEPT ![p] = Append(@, t)]
                /\ UNCHANGED <<phase, serving, finished>>

Start(p) == /\ waiting[p] # <<>>
            /\ \A q \in Level : q < p => waiting[q] = <<>>
            /\ serving' = serving \cup {Head(waiting[p])}
            /\ waiting' = [waiting EXCEPT ![p] = Tail(@)]
            /\ UNCHANGED <<phase, finished>>

Finish(t) == /\ t \in serving
             /\ serving' = serving \ {t}
             /\ finished' = finished \cup {t}
             /\ UNCHANGED <<phase, waiting>>

Close == /\ phase = "open"
         /\ phase' = "closing"
         /\ UNCHANGED <<waiting, serving, finished>>

Closed == /\ phase = "closing"
          /\ NothingWaits
          /\ serving = {}
          /\ phase' = "closed"
          /\ UNCHANGED <<waiting, serving, finished>>

Next == \/ \E t \in Tasks, p \in Level : Submit(t, p)
        \/ \E p \in Level : Start(p)
        \/ \E t \in Tasks : Finish(t)
        \/ Close
        \/ Closed

Spec == Init /\ [][Next]_vars
=============================================================================
