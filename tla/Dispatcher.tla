----------------------------- MODULE Dispatcher -----------------------------
(***************************************************************************)
(* tl::Dispatcher (dispatcher.h, dispatcher.cc): any thread commits        *)
(* callbacks with post(); the thread inside dispatch() runs them, in the   *)
(* callback of a libevent event that is never added and only made active.  *)
(* stop() is itself a posted callback, join() waits on a condition         *)
(* variable.  The event base is libevent's: an event is taken off the      *)
(* active list before its callback runs, and the loop looks at event_break *)
(* after every callback.                                                   *)
(***************************************************************************)
EXTENDS Naturals, Sequences, FiniteSets

CONSTANTS
  Posters,       \* threads other than the loop's that call post() and stop()
  Loop,          \* the thread that runs dispatch()
  Joiners,       \* threads that call join()
  Callbacks,     \* the callbacks that may be posted, each at most once
  Stops,         \* those posted by stop()
  MaxDispatches  \* bound: how many times dispatch() is called

ASSUME DispatcherAssumption ==
  /\ Loop \notin Posters
  /\ Stops \subseteq Callbacks
  /\ IsFiniteSet(Stops)
  /\ MaxDispatches \in Nat

Threads == Posters \cup {Loop}

VARIABLES
  pc,               \* where the loop thread is
  post_callbacks_,  \* Seq(Callbacks), guarded by mu_
  cbs,              \* timerCB()'s local queue
  ev_timer_,        \* is the event on the base's active list?
  event_break,      \* the base's loopbreak flag
  posting,          \* <<thread, callback>>: pushed with do_post, yet to activate
  join,             \* [Joiners -> where the joiner is]
  dispatches,       \* how many times dispatch() was entered
  pushed,           \* history: every callback, in the order of its push
  executed          \* history: every callback, in the order it was started

queues == <<post_callbacks_, cbs, pushed, executed>>
base == <<ev_timer_, event_break>>
vars == <<pc, queues, base, posting, join, dispatches>>

-----------------------------------------------------------------------------

InSeq(c, s) == \E i \in DOMAIN s : s[i] = c

Pushed(c) == InSeq(c, pushed)
Ran(c) == InSeq(c, executed)

\* dispatch() has not been entered, or has returned.
LoopIsOut == pc \in {"off", "returned", "destroyed"}

Init ==
  /\ pc = "off"
  /\ post_callbacks_ = <<>>
  /\ cbs = <<>>
  /\ ev_timer_ = FALSE
  /\ event_break = FALSE
  /\ posting = {}
  /\ join = [j \in Joiners |-> "before"]
  /\ dispatches = 0
  /\ pushed = <<>>
  /\ executed = <<>>

Busy(th) == \E c \in Callbacks : <<th, c>> \in posting

-----------------------------------------------------------------------------
(* Seeded faults, used only to show that the properties can fail.          *)

EmptyAfterPush == FALSE
CopiedQueue == post_callbacks_
NeverBreaks(c) == event_break
StaleBreak == event_break

-----------------------------------------------------------------------------
(* post().                                                                 *)

\* The loop thread posts from the callback it runs, which is not stop()'s own,
\* or from another event's.
MayPost(th) ==
  /\ pc # "destroyed"
  /\ ~Busy(th)
  /\ th = Loop => pc = "poll" \/ (pc = "callback" /\ Head(cbs) \notin Stops)

WasEmpty == post_callbacks_ = <<>>

Push(th, c) ==
  /\ MayPost(th)
  /\ ~Pushed(c)
  /\ post_callbacks_' = Append(post_callbacks_, c)
  /\ pushed' = Append(pushed, c)
  /\ posting' = IF WasEmpty THEN posting \cup {<<th, c>>} ELSE posting
  /\ UNCHANGED <<pc, cbs, executed, base, join, dispatches>>

\* event_active(): outside mu_, under the base's own lock.
Activate(th) ==
  /\ Busy(th)
  /\ ev_timer_' = TRUE
  /\ posting' = {a \in posting : a[1] # th}
  /\ UNCHANGED <<pc, queues, event_break, join, dispatches>>

-----------------------------------------------------------------------------
(* dispatch() and event_base_loop().                                       *)

\* event_base_loop() forgets a break of an earlier call.
BreakOnEntry == FALSE

Dispatch ==
  /\ pc \in {"off", "returned"}
  /\ dispatches < MaxDispatches
  /\ dispatches' = dispatches + 1
  /\ event_break' = BreakOnEntry
  /\ pc' = "poll"
  /\ UNCHANGED <<queues, ev_timer_, posting, join>>

FireTimer ==
  /\ pc = "poll"
  /\ ~Busy(Loop)
  /\ ev_timer_
  /\ ev_timer_' = FALSE
  /\ pc' = "timerCB"
  /\ UNCHANGED <<queues, event_break, posting, join, dispatches>>

\* What the move leaves in post_callbacks_.
MovedFrom == <<>>

SwapQueue ==
  /\ pc = "timerCB"
  /\ cbs' = post_callbacks_
  /\ post_callbacks_' = MovedFrom
  /\ pc' = "drain"
  /\ UNCHANGED <<pushed, executed, base, posting, join, dispatches>>

\* The condition of timerCB()'s while.
BatchOver == cbs = <<>>

\* stop()'s callback is event_base_loopbreak().
BreakAfter(c) == event_break \/ c \in Stops

\* cbs.front()() runs before cbs.pop().
WhileItRuns == cbs

RunCallback ==
  /\ pc = "drain"
  /\ ~BatchOver
  /\ cbs' = WhileItRuns
  /\ executed' = Append(executed, Head(cbs))
  /\ event_break' = BreakAfter(Head(cbs))
  /\ pc' = "callback"
  /\ UNCHANGED <<post_callbacks_, pushed, ev_timer_, posting, join, dispatches>>

CallbackReturns ==
  /\ pc = "callback"
  /\ ~Busy(Loop)
  /\ cbs' = Tail(cbs)
  /\ pc' = "drain"
  /\ UNCHANGED <<post_callbacks_, pushed, executed, base, posting, join, dispatches>>

\* timerCB() returns, its local queue dies, and libevent looks at the flag.
EndBatch ==
  /\ pc = "drain"
  /\ BatchOver
  /\ cbs' = <<>>
  /\ pc' = IF event_break THEN "exit" ELSE "poll"
  /\ UNCHANGED <<post_callbacks_, pushed, executed, base, posting, join, dispatches>>

\* cond_.notify_all(), without mu_ and without any state to record it.
NotifyJoin ==
  /\ pc = "exit"
  /\ join' = [j \in Joiners |-> IF join[j] = "waiting" THEN "back" ELSE join[j]]
  /\ pc' = "returned"
  /\ UNCHANGED <<queues, base, posting, dispatches>>

-----------------------------------------------------------------------------
(* join(), called after a stop() has returned: cond_.wait() has no predicate.             *)

Join(j) ==
  /\ join[j] = "before"
  /\ pc # "destroyed"
  /\ \E c \in Stops : Pushed(c) /\ \A th \in Threads : <<th, c>> \notin posting
  /\ join' = [join EXCEPT ![j] = "waiting"]
  /\ UNCHANGED <<pc, queues, base, posting, dispatches>>

SpuriousWakeup(j) ==
  /\ join[j] = "waiting"
  /\ join' = [join EXCEPT ![j] = "back"]
  /\ UNCHANGED <<pc, queues, base, posting, dispatches>>

\* The destructor, which no other call may overlap.
Destroy ==
  /\ pc \in {"off", "returned"}
  /\ posting = {}
  /\ \A j \in Joiners : join[j] # "waiting"
  /\ pc' = "destroyed"
  /\ UNCHANGED <<queues, base, posting, join, dispatches>>

-----------------------------------------------------------------------------

LoopStep == \/ FireTimer \/ SwapQueue \/ RunCallback \/ CallbackReturns
            \/ EndBatch \/ NotifyJoin

Next ==
  \/ LoopStep
  \/ Dispatch
  \/ Destroy
  \/ \E th \in Threads : Activate(th) \/ \E c \in Callbacks : Push(th, c)
  \/ \E j \in Joiners : Join(j) \/ SpuriousWakeup(j)

\* The loop thread keeps running and callbacks return; a thread inside post()
\* reaches its event_active().
Fairness ==
  /\ WF_vars(LoopStep)
  /\ \A th \in Threads : WF_vars(Activate(th))

Spec == Init /\ [][Next]_vars

FairSpec == Spec /\ Fairness

-----------------------------------------------------------------------------

\* Types of the dispatcher's members, of the loop and of the joiners.  The
\* local queue lives inside timerCB() only, with the running callback in front.
TypeOK ==
  /\ pc \in {"off", "poll", "timerCB", "drain", "callback", "exit",
             "returned", "destroyed"}
  /\ post_callbacks_ \in Seq(Callbacks)
  /\ cbs \in Seq(Callbacks)
  /\ ev_timer_ \in BOOLEAN
  /\ event_break \in BOOLEAN
  /\ posting \subseteq Threads \X Callbacks
  /\ join \in [Joiners -> {"before", "waiting", "back"}]
  /\ dispatches \in 0 .. MaxDispatches
  /\ pushed \in Seq(Callbacks)
  /\ executed \in Seq(Callbacks)
  /\ pc \notin {"drain", "callback"} => cbs = <<>>
  /\ pc = "callback" => cbs # <<>>

\* post() activates the event only for the first callback of a batch, and does
\* so after it has released mu_.  Even so a queued callback always has a timer
\* callback ahead of it: already active, about to be activated, or fired and
\* yet to take the queue.
NoStrandedCallback ==
  post_callbacks_ # <<>> => ev_timer_ \/ posting # {} \/ pc = "timerCB"

\* The callbacks of the batch that have not been started.
Unstarted == IF pc = "callback" THEN Tail(cbs) ELSE cbs

\* Across batches, threads, stop() and a second dispatch(), callbacks are
\* started in the order in which post() queued them, each exactly once.
RunsInPostOrder == pushed = executed \o Unstarted \o post_callbacks_

\* A stop() ends at most one dispatch(), whether it is posted before that
\* dispatch() is entered, while it runs, or by a callback of its last batch:
\* no call returns on the strength of a stop() an earlier call has obeyed.
StopEndsOneDispatch ==
  Cardinality({c \in Stops : Ran(c)})
    >= IF pc \in {"exit", "returned", "destroyed"} THEN dispatches ELSE dispatches - 1

\* A posted callback runs, unless dispatch() returns.
EveryCallbackRuns == \A c \in Callbacks : Pushed(c) ~> Ran(c) \/ LoopIsOut

\* A stop() that the loop has not yet obeyed makes dispatch() return.
StopEndsDispatch == \A c \in Stops : Pushed(c) /\ ~Ran(c) ~> LoopIsOut

\* join() is documented to "wait dispatch loop to exit after call stop()": it
\* ends once the loop has exited.
JoinEnds ==
  \A j \in Joiners : join[j] = "waiting" /\ pc = "returned" ~> join[j] # "waiting"
=============================================================================
