-------------------------- MODULE DispatcherProofs --------------------------
(***************************************************************************)
(* Proofs about Dispatcher, for every set of threads and callbacks and any *)
(* number of dispatch() calls.                                             *)
(***************************************************************************)
EXTENDS Dispatcher, FiniteSetTheorems, SequenceTheorems, TLAPS

-----------------------------------------------------------------------------
(* Sequences.                                                              *)

\* Moving the head of one part of a concatenation to the end of the part
\* before it changes nothing (timerCB() starting a callback).
LEMMA ShiftHead ==
  ASSUME NEW S, NEW e \in Seq(S), NEW b \in Seq(S), b # <<>>, NEW q \in Seq(S)
  PROVE  Append(e, Head(b)) \o Tail(b) \o q = e \o b \o q
<1>1. /\ Head(b) \in S /\ Tail(b) \in Seq(S) /\ Len(Tail(b)) = Len(b) - 1
      /\ \A i \in 1 .. Len(Tail(b)) : Tail(b)[i] = b[i + 1]
      /\ Head(b) = b[1]
  BY HeadTailProperties
<1>2. /\ Append(e, Head(b)) \in Seq(S) /\ Len(Append(e, Head(b))) = Len(e) + 1
      /\ Append(e, Head(b))[Len(e) + 1] = Head(b)
      /\ \A i \in 1 .. Len(e) : Append(e, Head(b))[i] = e[i]
  BY <1>1, AppendProperties
<1>3. Len(e) \in Nat /\ Len(b) \in Nat \ {0}
  BY EmptySeq, LenProperties
<1> DEFINE l == Append(e, Head(b)) \o Tail(b)
           r == e \o b
<1>4. /\ l \in Seq(S) /\ Len(l) = Len(e) + Len(b)
      /\ \A i \in 1 .. Len(l) : l[i] = IF i <= Len(e) + 1 THEN Append(e, Head(b))[i]
                                       ELSE Tail(b)[i - (Len(e) + 1)]
  BY <1>1, <1>2, <1>3, ConcatProperties
<1>5. /\ r \in Seq(S) /\ Len(r) = Len(e) + Len(b)
      /\ \A i \in 1 .. Len(r) : r[i] = IF i <= Len(e) THEN e[i] ELSE b[i - Len(e)]
  BY ConcatProperties
<1> HIDE DEF l, r
<1>6. ASSUME NEW i \in 1 .. Len(r) PROVE l[i] = r[i]
  <2>1. i \in 1 .. Len(l) /\ i \in Nat /\ i >= 1 /\ i <= Len(e) + Len(b)
    BY <1>3, <1>4, <1>5
  <2>2. CASE i <= Len(e)
    <3>1. l[i] = Append(e, Head(b))[i] /\ i \in 1 .. Len(e)
      BY ONLY <2>1, <2>2, <1>3, <1>4
    <3> QED BY ONLY <3>1, <2>2, <1>2, <1>5, i \in 1 .. Len(r)
  <2>3. CASE i = Len(e) + 1
    <3>1. l[i] = b[1]
      BY ONLY <2>1, <2>3, <1>1, <1>2, <1>3, <1>4
    <3>2. ~(i <= Len(e)) /\ i - Len(e) = 1
      BY <2>3, <1>3
    <3> QED BY ONLY <3>1, <3>2, <1>5, i \in 1 .. Len(r)
  <2>4. CASE i > Len(e) + 1
    <3>1. /\ ~(i <= Len(e)) /\ ~(i <= Len(e) + 1)
          /\ i - (Len(e) + 1) \in 1 .. Len(b) - 1 /\ (i - (Len(e) + 1)) + 1 = i - Len(e)
      BY <2>1, <2>4, <1>3
    <3>2. l[i] = b[i - Len(e)]
      BY ONLY <3>1, <2>1, <1>1, <1>4
    <3> QED BY ONLY <3>1, <3>2, <1>5, i \in 1 .. Len(r)
  <2> QED BY <2>1, <2>2, <2>3, <2>4, <1>3
<1> QED BY <1>4, <1>5, <1>6, SeqEqual DEF l, r

\* Names for the provers to keep the terms of AppendLast apart.
Joined(s, t) == s \o t
Extended(s, x) == Append(s, x)

\* Appending to the last part of a concatenation appends to the whole (post()).
LEMMA AppendLast ==
  ASSUME NEW S, NEW e \in Seq(S), NEW q \in Seq(S), NEW c \in S
  PROVE  Extended(Joined(e, q), c) = Joined(e, Extended(q, c))
<1> DEFINE whole == e \o q
           longer == Append(q, c)
           l == Append(whole, c)
           r == e \o longer
<1>1. /\ whole \in Seq(S) /\ Len(whole) = Len(e) + Len(q)
      /\ \A i \in 1 .. Len(e) + Len(q) : whole[i] = IF i <= Len(e) THEN e[i] ELSE q[i - Len(e)]
  BY ConcatProperties
<1>2. /\ longer \in Seq(S) /\ Len(longer) = Len(q) + 1
      /\ longer[Len(q) + 1] = c
      /\ \A i \in 1 .. Len(q) : longer[i] = q[i]
  BY AppendProperties
<1>3. Len(e) \in Nat /\ Len(q) \in Nat
  BY LenProperties
<1> HIDE DEF whole, longer
<1>4. /\ l \in Seq(S) /\ Len(l) = Len(e) + Len(q) + 1
      /\ l[Len(e) + Len(q) + 1] = c
      /\ \A i \in 1 .. Len(e) + Len(q) : l[i] = whole[i]
  <2>1. whole \in Seq(S)
    BY <1>1
  <2>2. /\ l \in Seq(S) /\ Len(l) = Len(whole) + 1
        /\ l[Len(whole) + 1] = c
        /\ \A i \in 1 .. Len(whole) : l[i] = whole[i]
    BY ONLY <2>1, c \in S, AppendProperties
  <2> QED BY ONLY <2>2, <1>1
<1>5. /\ r \in Seq(S) /\ Len(r) = Len(e) + (Len(q) + 1)
      /\ \A i \in 1 .. Len(e) + (Len(q) + 1) :
           r[i] = IF i <= Len(e) THEN e[i] ELSE longer[i - Len(e)]
  <2>1. longer \in Seq(S)
    BY <1>2
  <2>2. /\ r \in Seq(S) /\ Len(r) = Len(e) + Len(longer)
        /\ \A i \in 1 .. Len(e) + Len(longer) :
             r[i] = IF i <= Len(e) THEN e[i] ELSE longer[i - Len(e)]
    BY ONLY <2>1, e \in Seq(S), ConcatProperties
  <2> QED BY ONLY <2>2, <1>2
<1> HIDE DEF l, r
<1>6. Len(r) = Len(e) + Len(q) + 1
  BY <1>3, <1>5
<1>7. ASSUME NEW i \in 1 .. Len(r) PROVE l[i] = r[i]
  <2>1. CASE i <= Len(e)
    <3>1. i \in 1 .. Len(e) + Len(q) /\ i \in 1 .. Len(e) + (Len(q) + 1)
      BY <2>1, <1>3, <1>6
    <3> QED BY ONLY <3>1, <2>1, <1>1, <1>4, <1>5
  <2>2. CASE i > Len(e) /\ i <= Len(e) + Len(q)
    <3>1. /\ i - Len(e) \in 1 .. Len(q) /\ i \in 1 .. Len(e) + Len(q) /\ ~(i <= Len(e))
          /\ i \in 1 .. Len(e) + (Len(q) + 1)
      BY <2>2, <1>3, <1>6
    <3> QED BY ONLY <3>1, <1>1, <1>2, <1>4, <1>5
  <2>3. CASE i = Len(e) + Len(q) + 1
    <3>1. i - Len(e) = Len(q) + 1 /\ ~(i <= Len(e)) /\ i \in 1 .. Len(e) + (Len(q) + 1)
      BY <2>3, <1>3
    <3> QED BY ONLY <3>1, <2>3, <1>2, <1>4, <1>5
  <2> QED BY ONLY <2>1, <2>2, <2>3, <1>3, <1>6, i \in 1 .. Len(r)
<1> QED BY <1>4, <1>5, <1>6, <1>7, SeqEqual DEF l, r, whole, longer, Joined, Extended

-----------------------------------------------------------------------------
(* The inductive invariant.                                                *)

IInv == TypeOK /\ NoStrandedCallback /\ RunsInPostOrder

-----------------------------------------------------------------------------

\* The initial state satisfies the invariant.
LEMMA InitIInv == Init => IInv
<1> SUFFICES ASSUME Init PROVE IInv
  OBVIOUS
<1>1. TypeOK
  <2>1. <<>> \in Seq(Callbacks) /\ 0 \in 0 .. MaxDispatches
    BY DispatcherAssumption
  <2> QED BY <2>1 DEF Init, TypeOK
<1>2. RunsInPostOrder
  BY DEF Init, RunsInPostOrder, Unstarted
<1> QED BY <1>1, <1>2 DEF Init, IInv, NoStrandedCallback

\* post()'s critical section keeps the invariant.
LEMMA PushIInv ==
  ASSUME IInv, NEW th \in Threads, NEW c \in Callbacks, Push(th, c)
  PROVE  IInv'
<1> USE DEF IInv
<1>1. TypeOK'
  BY AppendProperties DEF TypeOK, Push, base
<1>2. NoStrandedCallback'
  BY DEF NoStrandedCallback, Push, WasEmpty, base
<1>3. RunsInPostOrder'
  <2>1. Unstarted \in Seq(Callbacks) /\ Unstarted' = Unstarted
    BY HeadTailProperties DEF TypeOK, Unstarted, Push
  <2>2. executed \o Unstarted \in Seq(Callbacks)
    BY <2>1, ConcatProperties DEF TypeOK
  <2> DEFINE e == executed \o Unstarted
  <2>3. /\ e \in Seq(Callbacks) /\ post_callbacks_ \in Seq(Callbacks)
        /\ pushed = e \o post_callbacks_ /\ post_callbacks_' = Append(post_callbacks_, c)
    BY <2>2 DEF TypeOK, RunsInPostOrder, Push
  <2> HIDE DEF e
  <2>4. Extended(Joined(e, post_callbacks_), c) = Joined(e, Extended(post_callbacks_, c))
    BY <2>3, AppendLast
  <2>5. Append(pushed, c) = e \o post_callbacks_'
    BY <2>3, <2>4 DEF Joined, Extended
  <2> QED BY <2>1, <2>5 DEF RunsInPostOrder, Push, e
<1> QED BY <1>1, <1>2, <1>3

\* Every step of the loop thread keeps the invariant.
LEMMA LoopIInv ==
  ASSUME IInv, LoopStep
  PROVE  IInv'
<1> USE DEF IInv
<1>1. ASSUME FireTimer PROVE IInv'
  BY <1>1 DEF FireTimer, queues, TypeOK, NoStrandedCallback,
              RunsInPostOrder, Unstarted
<1>2. ASSUME SwapQueue PROVE IInv'
  <2>1. TypeOK' /\ NoStrandedCallback'
    BY <1>2, EmptySeq DEF SwapQueue, MovedFrom, base, TypeOK, NoStrandedCallback
  <2>2. RunsInPostOrder'
    <3>1. Unstarted = <<>> /\ Unstarted' = post_callbacks_ /\ post_callbacks_' = <<>>
      BY <1>2 DEF SwapQueue, MovedFrom, TypeOK, Unstarted
    <3>2. executed \o post_callbacks_ \in Seq(Callbacks)
      BY ConcatProperties DEF TypeOK
    <3> QED BY <1>2, <3>1, <3>2, ConcatEmptySeq DEF SwapQueue, RunsInPostOrder, TypeOK
  <2> QED BY <2>1, <2>2
<1>3. ASSUME RunCallback PROVE IInv'
  <2>1. cbs # <<>> /\ Head(cbs) \in Callbacks
    BY <1>3, HeadTailProperties DEF RunCallback, BatchOver, TypeOK
  <2>2. TypeOK' /\ NoStrandedCallback'
    BY <1>3, <2>1, AppendProperties
    DEF RunCallback, BreakAfter, WhileItRuns, TypeOK, NoStrandedCallback
  <2>3. RunsInPostOrder'
    <3>1. Unstarted = cbs /\ Unstarted' = Tail(cbs)
      BY <1>3 DEF RunCallback, WhileItRuns, Unstarted
    <3>2. /\ pushed = executed \o cbs \o post_callbacks_ /\ pushed' = pushed
          /\ executed' = Append(executed, Head(cbs)) /\ post_callbacks_' = post_callbacks_
      BY <1>3, <3>1 DEF RunCallback, RunsInPostOrder
    <3>3. executed \in Seq(Callbacks) /\ cbs \in Seq(Callbacks) /\ post_callbacks_ \in Seq(Callbacks)
      BY DEF TypeOK
    <3>4. Append(executed, Head(cbs)) \o Tail(cbs) \o post_callbacks_
            = executed \o cbs \o post_callbacks_
      BY ONLY <2>1, <3>3, ShiftHead, SMTT(40)
    <3> QED BY ONLY <3>1, <3>2, <3>4 DEF RunsInPostOrder
  <2> QED BY <2>2, <2>3
<1>4. ASSUME CallbackReturns PROVE IInv'
  <2>1. TypeOK' /\ NoStrandedCallback'
    BY <1>4, HeadTailProperties
    DEF CallbackReturns, base, TypeOK, NoStrandedCallback
  <2>2. RunsInPostOrder'
    BY <1>4 DEF CallbackReturns, RunsInPostOrder, Unstarted
  <2> QED BY <2>1, <2>2
<1>5. ASSUME EndBatch PROVE IInv'
  <2>1. TypeOK' /\ NoStrandedCallback'
    BY <1>5, EmptySeq DEF EndBatch, base, TypeOK, NoStrandedCallback
  <2>2. RunsInPostOrder'
    BY <1>5 DEF EndBatch, BatchOver, RunsInPostOrder, Unstarted
  <2> QED BY <2>1, <2>2
<1>6. ASSUME NotifyJoin PROVE IInv'
  BY <1>6 DEF NotifyJoin, queues, base, TypeOK, NoStrandedCallback,
              RunsInPostOrder, Unstarted
<1> QED BY <1>1, <1>2, <1>3, <1>4, <1>5, <1>6 DEF LoopStep

\* The invariant is inductive.
LEMMA NextIInv == IInv /\ [Next]_vars => IInv'
<1> SUFFICES ASSUME IInv, [Next]_vars PROVE IInv'
  OBVIOUS
<1> USE DEF IInv
<1>1. ASSUME NEW th \in Threads, Activate(th) PROVE IInv'
  BY <1>1 DEF Activate, queues, TypeOK, NoStrandedCallback, RunsInPostOrder,
              Unstarted
<1>2. ASSUME Dispatch PROVE IInv'
  <2>1. TypeOK'
    <3>1. dispatches + 1 \in 0 .. MaxDispatches
      BY <1>2, DispatcherAssumption DEF Dispatch, TypeOK
    <3> QED BY <3>1, <1>2 DEF Dispatch, BreakOnEntry, queues, TypeOK
  <2>2. NoStrandedCallback' /\ RunsInPostOrder'
    BY <1>2 DEF Dispatch, queues, NoStrandedCallback, RunsInPostOrder, Unstarted
  <2> QED BY <2>1, <2>2
<1>3. ASSUME Destroy \/ \E j \in Joiners : Join(j) \/ SpuriousWakeup(j) PROVE IInv'
  <2>1. UNCHANGED <<queues, base, posting, dispatches>> /\ TypeOK'
    BY <1>3 DEF Destroy, Join, SpuriousWakeup, queues, base, TypeOK
  <2>2. pc' = pc \/ (pc \in {"off", "returned"} /\ pc' = "destroyed")
    BY <1>3 DEF Destroy, Join, SpuriousWakeup
  <2> QED BY <2>1, <2>2 DEF queues, base, NoStrandedCallback,
                            RunsInPostOrder, Unstarted
<1>4. ASSUME UNCHANGED vars PROVE IInv'
  BY <1>4 DEF vars, queues, base, TypeOK, NoStrandedCallback,
              RunsInPostOrder, Unstarted
<1> QED BY <1>1, <1>2, <1>3, <1>4, PushIInv, LoopIInv DEF Next

\* The dispatcher's members, its loop and its joiners keep their types.
THEOREM TypeCorrect == Spec => []TypeOK
<1>1. IInv => TypeOK
  BY DEF IInv
<1> QED BY <1>1, InitIInv, NextIInv, PTL DEF Spec

\* However post() calls interleave with the loop, a queued callback has a timer
\* callback ahead of it, although only the first post of a batch activates the
\* event and does so outside the lock.
THEOREM NoCallbackIsStranded == Spec => []NoStrandedCallback
<1>1. IInv => NoStrandedCallback
  BY DEF IInv
<1> QED BY <1>1, InitIInv, NextIInv, PTL DEF Spec

\* Callbacks of all threads run in the order of their pushes, each once.
THEOREM CallbacksRunInPostOrder == Spec => []RunsInPostOrder
<1>1. IInv => RunsInPostOrder
  BY DEF IInv
<1> QED BY <1>1, InitIInv, NextIInv, PTL DEF Spec

-----------------------------------------------------------------------------
(* A stop() ends at most one dispatch().                                   *)

StopsRun == {c \in Stops : Ran(c)}

\* A callback is pushed once, so that the stops among the executed ones count.
PushedOnce == \A i, j \in DOMAIN pushed : pushed[i] = pushed[j] => i = j

\* Every dispatch() that was left, or is bound to be left, has run a stop of
\* its own.
StopsCounted ==
  Cardinality(StopsRun)
    >= IF pc = "exit" \/ LoopIsOut \/ event_break THEN dispatches ELSE dispatches - 1

StopsInv == IInv /\ PushedOnce /\ StopsCounted

\* The stops that have run are finitely many.
LEMMA StopsRunFinite == IsFiniteSet(StopsRun) /\ Cardinality(StopsRun) \in Nat
<1>1. StopsRun \in SUBSET Stops
  BY DEF StopsRun
<1> QED BY <1>1, DispatcherAssumption, FS_Subset, FS_CardinalityType

\* The callback in front of the batch has not been started before.
LEMMA NextIsNew ==
  ASSUME IInv, PushedOnce, pc = "drain", cbs # <<>>
  PROVE  ~Ran(Head(cbs))
<1> DEFINE behind == cbs \o post_callbacks_
           all == executed \o cbs \o post_callbacks_
<1>1. /\ cbs \in Seq(Callbacks) /\ executed \in Seq(Callbacks) /\ pushed \in Seq(Callbacks)
      /\ post_callbacks_ \in Seq(Callbacks) /\ pushed = all
  BY DEF IInv, TypeOK, RunsInPostOrder, Unstarted
<1>2. /\ executed \o cbs \in Seq(Callbacks) /\ Len(executed \o cbs) = Len(executed) + Len(cbs)
      /\ \A i \in 1 .. Len(executed) + Len(cbs) :
           (executed \o cbs)[i] = IF i <= Len(executed) THEN executed[i] ELSE cbs[i - Len(executed)]
  BY <1>1, ConcatProperties
<1>3. /\ Len(cbs) \in Nat \ {0} /\ Len(executed) \in Nat /\ Len(post_callbacks_) \in Nat
      /\ Head(cbs) = cbs[1]
  BY <1>1, EmptySeq, LenProperties, HeadTailProperties
<1> DEFINE front == executed \o cbs
<1> HIDE DEF front
<1>4. /\ all = front \o post_callbacks_ /\ front \in Seq(Callbacks)
      /\ Len(front) = Len(executed) + Len(cbs)
      /\ \A i \in 1 .. Len(front) :
           front[i] = IF i <= Len(executed) THEN executed[i] ELSE cbs[i - Len(executed)]
  BY <1>2 DEF front
<1> HIDE DEF all
<1>5. /\ Len(all) = Len(front) + Len(post_callbacks_)
      /\ \A i \in 1 .. Len(front) + Len(post_callbacks_) : i <= Len(front) => all[i] = front[i]
  BY <1>1, <1>4, ConcatProperties
<1>6. DOMAIN pushed = 1 .. Len(front) + Len(post_callbacks_) /\ DOMAIN executed = 1 .. Len(executed)
  BY <1>1, <1>5, LenProperties
<1> SUFFICES ASSUME NEW i \in DOMAIN executed, executed[i] = Head(cbs) PROVE FALSE
  BY DEF Ran, InSeq
<1>7. /\ i \in 1 .. Len(front) /\ i \in 1 .. Len(front) + Len(post_callbacks_) /\ i <= Len(front)
      /\ i <= Len(executed) /\ i # Len(executed) + 1
  BY <1>3, <1>4, <1>6
<1>8. /\ Len(executed) + 1 \in 1 .. Len(front) /\ Len(executed) + 1 <= Len(front)
      /\ Len(executed) + 1 \in 1 .. Len(front) + Len(post_callbacks_)
      /\ ~(Len(executed) + 1 <= Len(executed)) /\ Len(executed) + 1 - Len(executed) = 1
  BY <1>3, <1>4
<1>9. pushed[i] = executed[i]
  BY ONLY <1>1, <1>4, <1>5, <1>7
<1>10. pushed[Len(executed) + 1] = cbs[1]
  BY ONLY <1>1, <1>4, <1>5, <1>8
<1> QED BY <1>3, <1>6, <1>7, <1>8, <1>9, <1>10 DEF PushedOnce

\* One step keeps the count.
LEMMA NextStops == StopsInv /\ [Next]_vars => StopsInv'
<1> SUFFICES ASSUME StopsInv, [Next]_vars PROVE StopsInv'
  OBVIOUS
<1>1. IInv' /\ TypeOK /\ PushedOnce /\ StopsCounted
  BY NextIInv DEF StopsInv, IInv
<1>2. PushedOnce'
  <2>1. CASE pushed' = pushed
    BY <2>1, <1>1 DEF PushedOnce
  <2>2. ASSUME NEW th \in Threads, NEW c \in Callbacks, Push(th, c) PROVE PushedOnce'
    <3>1. /\ pushed \in Seq(Callbacks) /\ pushed' = Append(pushed, c)
          /\ \A i \in DOMAIN pushed : pushed[i] # c
      BY <2>2, <1>1 DEF Push, TypeOK, Pushed, InSeq
    <3>2. /\ DOMAIN pushed' = 1 .. Len(pushed) + 1 /\ pushed'[Len(pushed) + 1] = c
          /\ DOMAIN pushed = 1 .. Len(pushed) /\ Len(pushed) \in Nat
          /\ \A i \in 1 .. Len(pushed) : pushed'[i] = pushed[i]
      BY <3>1, AppendProperties, LenProperties
    <3>3. \A i \in DOMAIN pushed' : i \in DOMAIN pushed \/ i = Len(pushed) + 1
      BY <3>2
    <3> QED BY <1>1, <3>1, <3>2, <3>3 DEF PushedOnce
  <2>3. pushed' = pushed \/ \E th \in Threads, c \in Callbacks : Push(th, c)
    BY DEF Next, LoopStep, FireTimer, SwapQueue, RunCallback, CallbackReturns, EndBatch,
           NotifyJoin, Dispatch, Destroy, Activate, Join, SpuriousWakeup, queues, vars
  <2> QED BY <2>1, <2>2, <2>3
<1>3. Cardinality(StopsRun) \in Nat /\ dispatches \in Nat
  BY <1>1, StopsRunFinite, DispatcherAssumption DEF TypeOK
<1>4. ASSUME executed' = executed PROVE StopsRun' = StopsRun
  BY <1>4 DEF StopsRun, Ran, InSeq
<1>5. StopsCounted'
  <2>1. CASE RunCallback
    <3> DEFINE c == Head(cbs)
    <3>1. /\ pc = "drain" /\ pc' = "callback" /\ dispatches' = dispatches /\ cbs # <<>>
          /\ executed' = Append(executed, c) /\ event_break' = (event_break \/ c \in Stops)
      BY <2>1 DEF RunCallback, BatchOver, BreakAfter
    <3>2. ~Ran(c)
      BY <3>1, NextIsNew DEF StopsInv
    <3>3. c \in Callbacks /\ executed \in Seq(Callbacks)
      BY <1>1, <3>1, HeadTailProperties DEF TypeOK
    <3> HIDE DEF c
    <3>4. \A x : Ran(x)' <=> Ran(x) \/ x = c
      <4>1. /\ DOMAIN executed' = 1 .. Len(executed) + 1 /\ executed'[Len(executed) + 1] = c
            /\ DOMAIN executed = 1 .. Len(executed) /\ Len(executed) \in Nat
            /\ \A i \in 1 .. Len(executed) : executed'[i] = executed[i]
        BY <3>1, <3>3, AppendProperties, LenProperties
      <4>2. \A i \in DOMAIN executed' : i \in DOMAIN executed \/ i = Len(executed) + 1
        BY <4>1
      <4>3. Len(executed) + 1 \in DOMAIN executed' /\ \A i \in DOMAIN executed : i \in DOMAIN executed'
        BY <4>1
      <4> QED BY <4>1, <4>2, <4>3 DEF Ran, InSeq
    <3>5. CASE c \in Stops
      <4>1. StopsRun' = StopsRun \cup {c} /\ c \notin StopsRun
        BY <3>2, <3>4, <3>5 DEF StopsRun
      <4>2. Cardinality(StopsRun') = Cardinality(StopsRun) + 1
        BY <4>1, StopsRunFinite, FS_AddElement
      <4>3. Cardinality(StopsRun) >= dispatches - 1
        BY <1>1, <1>3 DEF StopsCounted
      <4> QED BY <3>1, <4>2, <4>3, <1>3 DEF StopsCounted
    <3>6. CASE c \notin Stops
      <4>1. StopsRun' = StopsRun
        BY <3>4, <3>6 DEF StopsRun
      <4> QED BY <1>1, <3>1, <3>6, <4>1 DEF StopsCounted, LoopIsOut
    <3> QED BY <3>5, <3>6
  <2>2. CASE Dispatch
    <3>1. /\ pc \in {"off", "returned"} /\ pc' = "poll" /\ dispatches' = dispatches + 1
          /\ executed' = executed /\ event_break' = FALSE
      BY <2>2 DEF Dispatch, BreakOnEntry, queues
    <3>2. Cardinality(StopsRun') >= dispatches
      BY <3>1, <1>1, <1>4 DEF StopsCounted, LoopIsOut
    <3> QED BY <3>1, <3>2, <1>3 DEF StopsCounted, LoopIsOut
  <2>3. CASE EndBatch
    <3>1. /\ pc = "drain" /\ pc' = IF event_break THEN "exit" ELSE "poll"
          /\ dispatches' = dispatches /\ executed' = executed /\ event_break' = event_break
      BY <2>3 DEF EndBatch, base
    <3> QED BY <3>1, <1>1, <1>4 DEF StopsCounted, LoopIsOut
  <2>4. CASE \/ FireTimer \/ SwapQueue \/ CallbackReturns \/ NotifyJoin \/ Destroy
             \/ \E th \in Threads : Activate(th) \/ \E c \in Callbacks : Push(th, c)
             \/ \E j \in Joiners : Join(j) \/ SpuriousWakeup(j)
             \/ UNCHANGED vars
    <3>1. /\ dispatches' = dispatches /\ executed' = executed /\ event_break' = event_break
      BY <2>4 DEF FireTimer, SwapQueue, CallbackReturns, NotifyJoin, Destroy, Activate, Push,
                  Join, SpuriousWakeup, queues, base, vars
    <3>2. (pc' = "exit" \/ LoopIsOut') <=> (pc = "exit" \/ LoopIsOut)
      BY <2>4 DEF FireTimer, SwapQueue, CallbackReturns, NotifyJoin, Destroy, Activate, Push,
                  Join, SpuriousWakeup, LoopIsOut, vars
    <3> QED BY <3>1, <3>2, <1>1, <1>4 DEF StopsCounted
  <2> QED BY <2>1, <2>2, <2>3, <2>4 DEF Next, LoopStep
<1> QED BY <1>1, <1>2, <1>5 DEF StopsInv

\* A stop() ends at most one dispatch(), for any number of threads, stops and
\* calls of dispatch(): event_base_loop() forgets an old break when it is
\* entered, and each stop() callback runs once.
THEOREM StopIsUsedOnce == Spec => []StopEndsOneDispatch
<1>1. Init => StopsInv
  <2> SUFFICES ASSUME Init PROVE PushedOnce /\ StopsCounted
    BY InitIInv DEF StopsInv
  <2>1. PushedOnce
    BY DEF Init, PushedOnce
  <2>2. dispatches = 0 /\ LoopIsOut
    BY DEF Init, LoopIsOut
  <2> QED BY <2>1, <2>2, StopsRunFinite DEF StopsCounted
<1>2. StopsInv => StopEndsOneDispatch
  <2> SUFFICES ASSUME StopsInv PROVE StopEndsOneDispatch
    OBVIOUS
  <2>1. Cardinality(StopsRun) \in Nat /\ dispatches \in Nat /\ StopsCounted
    BY StopsRunFinite, DispatcherAssumption DEF StopsInv, IInv, TypeOK
  <2>2. Cardinality(StopsRun)
          >= IF pc \in {"exit", "returned", "destroyed"} THEN dispatches ELSE dispatches - 1
    BY <2>1 DEF StopsCounted, LoopIsOut
  <2> QED BY <2>2 DEF StopEndsOneDispatch, StopsRun
<1> QED BY <1>1, <1>2, NextStops, PTL DEF Spec
=============================================================================
