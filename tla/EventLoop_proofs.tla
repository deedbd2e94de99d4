-------------------------- MODULE EventLoop_proofs --------------------------
(***************************************************************************)
(* Proofs about EventLoop, for any set of threads, functors and channels:  *)
(* the type invariant, NoLostWakeup, BatchOnlyShrinks, and that the loop   *)
(* implements the serial executor of module Executor.                      *)
(***************************************************************************)
EXTENDS EventLoop, SequenceTheorems, TLAPS

----------------------------------------------------------------------------
(* Types.                                                                  *)

LEMMA InitTypeOK == Init => TypeOK
BY EmptySeq DEF Init, TypeOK, Places

LEMMA NextTypeOK == TypeOK /\ [Next]_vars => TypeOK'
<1> SUFFICES ASSUME TypeOK, [Next]_vars PROVE TypeOK'
  OBVIOUS
<1> USE DEF TypeOK, Places
<1>1. ASSUME NEW t \in Threads, NEW f \in Functors, QueueInLoop(t, f)
      PROVE TypeOK'
  BY <1>1, AppendProperties DEF QueueInLoop, PushBack, MustWake
<1>2. ASSUME NEW t \in Threads, NEW f \in Functors, RunInLoop(t, f)
      PROVE TypeOK'
  BY <1>1, <1>2 DEF RunInLoop, RunInPlace
<1>3. ASSUME NEW t \in Threads, Quit(t) PROVE TypeOK'
  BY <1>3 DEF Quit, QuitWakes
<1>4. ASSUME NEW t \in Threads, Wakeup(t) PROVE TypeOK'
  BY <1>4 DEF Wakeup
<1>5. CASE Loop BY <1>5 DEF Loop
<1>6. CASE TestQuit BY <1>6 DEF TestQuit
<1>7. ASSUME NEW ready \in SUBSET Channels, Poll(ready) PROVE TypeOK'
  BY <1>7 DEF Poll
<1>8. CASE PollTimeout BY <1>8 DEF PollTimeout
<1>9. CASE HandleRead BY <1>9 DEF HandleRead
<1>10. ASSUME NEW c \in Channels, HandleEvent(c) PROVE TypeOK'
  BY <1>10 DEF HandleEvent
<1>11. CASE HandlerReturn BY <1>11 DEF HandlerReturn
<1>12. CASE SwapFunctors BY <1>12 DEF SwapFunctors, Swapped
<1>13. CASE RunFunctor
  BY <1>13, HeadTailProperties, AppendProperties DEF RunFunctor
<1>14. CASE FunctorReturn BY <1>14 DEF FunctorReturn
<1>15. CASE EndFunctors BY <1>15 DEF EndFunctors
<1>16. CASE UNCHANGED vars BY <1>16 DEF vars
<1> QED
  BY <1>1, <1>2, <1>3, <1>4, <1>5, <1>6, <1>7, <1>8, <1>9, <1>10, <1>11,
     <1>12, <1>13, <1>14, <1>15, <1>16
  DEF Next, Calls, Wakeups, LoopSteps

\* Every reachable state is well typed, whatever the threads call and when
\* (EventLoop.h, the members of EventLoop).
THEOREM TypeCorrect == Spec => []TypeOK
BY InitTypeOK, NextTypeOK, PTL DEF Spec

----------------------------------------------------------------------------
(* No lost wakeup.  NoLostWakeup speaks of poll() only.  It is inductive   *)
(* once it is known where the loop thread may leave a functor pending      *)
(* without a wakeup on its way (inside the handlers, since the batch that  *)
(* follows will take it) and that callingPendingFunctors marks exactly the *)
(* places where a functor queued by the loop thread would miss the batch.  *)

InFunctors == pc \in {"functors", "functor"}

PhaseInv == /\ callingPendingFunctors <=> InFunctors
            /\ ~InFunctors => functors = <<>>

PendingInv == pc \notin {"dispatch", "callback"} /\ pendingFunctors # <<>>
                => Awoken

QuitInv == pc = "poll" /\ quit => Awoken

Inv == TypeOK /\ PhaseInv /\ PendingInv /\ QuitInv

LEMMA InitInv == Init => Inv
<1> SUFFICES ASSUME Init PROVE PhaseInv /\ PendingInv /\ QuitInv
  BY InitTypeOK DEF Inv
<1>1. PhaseInv BY DEF Init, PhaseInv, InFunctors
<1>2. PendingInv /\ QuitInv BY DEF Init, PendingInv, QuitInv
<1> QED BY <1>1, <1>2

LEMMA NextInv == Inv /\ [Next]_vars => Inv'
<1> SUFFICES ASSUME Inv, [Next]_vars
             PROVE PhaseInv' /\ PendingInv' /\ QuitInv'
  BY NextTypeOK DEF Inv
<1> DEFINE Goal == PhaseInv /\ PendingInv /\ QuitInv
<1> USE DEF Inv, TypeOK, Places, PhaseInv, InFunctors, PendingInv, QuitInv,
            Awoken, At, MayCall
<1>1. ASSUME NEW t \in Threads, NEW f \in Functors, QueueInLoop(t, f)
      PROVE Goal'
  BY <1>1, ThreadAssumption DEF QueueInLoop, PushBack, MustWake
<1>2. ASSUME NEW t \in Threads, NEW f \in Functors, RunInLoop(t, f)
      PROVE Goal'
  BY <1>1, <1>2 DEF RunInLoop, RunInPlace
<1>3. ASSUME NEW t \in Threads, Quit(t) PROVE Goal'
  BY <1>3 DEF Quit, QuitWakes
<1>4. ASSUME NEW t \in Threads, Wakeup(t) PROVE Goal'
  BY <1>4 DEF Wakeup
<1>5. CASE Loop BY <1>5 DEF Loop
<1>6. CASE TestQuit BY <1>6 DEF TestQuit
<1>7. ASSUME NEW ready \in SUBSET Channels, Poll(ready) PROVE Goal'
  BY <1>7 DEF Poll
<1>8. CASE PollTimeout BY <1>8 DEF PollTimeout
<1>9. CASE HandleRead BY <1>9 DEF HandleRead
<1>10. ASSUME NEW c \in Channels, HandleEvent(c) PROVE Goal'
  BY <1>10 DEF HandleEvent
<1>11. CASE HandlerReturn BY <1>11 DEF HandlerReturn
<1>12. CASE SwapFunctors BY <1>12 DEF SwapFunctors, Swapped
<1>13. CASE RunFunctor BY <1>13 DEF RunFunctor
<1>14. CASE FunctorReturn BY <1>14 DEF FunctorReturn
<1>15. CASE EndFunctors BY <1>15 DEF EndFunctors
<1>16. CASE UNCHANGED vars BY <1>16 DEF vars
<1> QED
  BY <1>1, <1>2, <1>3, <1>4, <1>5, <1>6, <1>7, <1>8, <1>9, <1>10, <1>11,
     <1>12, <1>13, <1>14, <1>15, <1>16
  DEF Next, Calls, Wakeups, LoopSteps

LEMMA Invariance == Spec => []Inv
BY InitInv, NextInv, PTL DEF Spec

\* A loop in poll() with a functor pending or quit() called is about to be
\* woken, for any number of threads and functors (queueInLoop, quit, wakeup,
\* handleRead, doPendingFunctors).
THEOREM NoWakeupIsLost == Spec => []NoLostWakeup
<1>1. Inv => NoLostWakeup
  BY DEF Inv, PendingInv, QuitInv, NoLostWakeup
<1> QED BY <1>1, Invariance, PTL

\* No step of any thread lengthens the batch that is running: a functor queued
\* by a functor waits until the handlers have had their turn
\* (doPendingFunctors).
THEOREM BatchesOnlyShrink == Spec => BatchOnlyShrinks
<1>1. Inv /\ [Next]_vars =>
        [callingPendingFunctors /\ callingPendingFunctors' =>
           functors' = functors \/ functors' = Tail(functors)]_vars
  <2> SUFFICES ASSUME Inv, [Next]_vars,
                      callingPendingFunctors, callingPendingFunctors'
               PROVE functors' = functors \/ functors' = Tail(functors)
    OBVIOUS
  <2>1. ~SwapFunctors
    BY DEF Inv, PhaseInv, InFunctors, SwapFunctors, Swapped, At
  <2> QED
    BY <2>1 DEF Next, Calls, Wakeups, LoopSteps, QueueInLoop, RunInLoop,
       RunInPlace, Quit, Wakeup, Loop, TestQuit, Poll, PollTimeout, HandleRead,
       HandleEvent, HandlerReturn, RunFunctor, FunctorReturn, EndFunctors, vars
<1> QED BY <1>1, Invariance, PTL DEF Spec, BatchOnlyShrinks

----------------------------------------------------------------------------
(* The loop is a serial executor.  The executor's queue is the rest of the *)
(* running batch followed by pendingFunctors, so a swap is a stutter: that *)
(* needs PhaseInv, by which the old batch is used up when the next is      *)
(* taken.                                                                  *)

LEMMA ConcatAppend ==
  ASSUME NEW S, NEW s \in Seq(S), NEW u \in Seq(S), NEW e \in S
  PROVE  s \o Append(u, e) = Append(s \o u, e)
<1>1. /\ <<e>> \in Seq(S)
      /\ s \o u \in Seq(S)
  BY ConcatProperties
<1>2. Append(u, e) = u \o <<e>>
  BY AppendIsConcat
<1>3. Append(s \o u, e) = (s \o u) \o <<e>>
  BY <1>1, AppendIsConcat
<1> QED BY <1>1, <1>2, <1>3, ConcatAssociative

LEMMA ConcatHeadTail ==
  ASSUME NEW S, NEW s \in Seq(S), NEW u \in Seq(S), s # <<>>
  PROVE  /\ s \o u # <<>>
         /\ Head(s \o u) = Head(s)
         /\ Tail(s \o u) = Tail(s) \o u
<1>1. s \o u # <<>>
  BY ConcatEqualIffEmpty
<1>2. /\ s \o u \in Seq(S)
      /\ Len(s) \in Nat \ {0}
      /\ Len(u) \in Nat
      /\ Tail(s) \in Seq(S)
      /\ Len(Tail(s)) = Len(s) - 1
      /\ Tail(s) \o u \in Seq(S)
      /\ Tail(s \o u) \in Seq(S)
  BY <1>1, ConcatProperties, HeadTailProperties, EmptySeq, LenProperties
<1>3. Head(s \o u) = Head(s)
  BY <1>2, ConcatProperties
<1>4. /\ Len(Tail(s \o u)) = Len(Tail(s) \o u)
      /\ Len(Tail(s \o u)) = Len(s) - 1 + Len(u)
  BY <1>1, <1>2, ConcatProperties, HeadTailProperties
<1>5. ASSUME NEW i \in 1 .. Len(Tail(s \o u))
      PROVE  Tail(s \o u)[i] = (Tail(s) \o u)[i]
  <2>1. Tail(s \o u)[i] = (s \o u)[i + 1]
    BY <1>1, <1>2, HeadTailProperties
  <2>2. (s \o u)[i + 1] = IF i + 1 <= Len(s) THEN s[i + 1] ELSE u[i + 1 - Len(s)]
    BY <1>2, <1>4, ConcatProperties
  <2>3. (Tail(s) \o u)[i] = IF i <= Len(s) - 1 THEN Tail(s)[i]
                                              ELSE u[i - (Len(s) - 1)]
    BY <1>2, <1>4, ConcatProperties
  <2>4. i <= Len(s) - 1 => Tail(s)[i] = s[i + 1]
    BY <1>2, HeadTailProperties
  <2> QED BY <1>2, <1>4, <2>1, <2>2, <2>3, <2>4
<1>6. Tail(s \o u) = Tail(s) \o u
  BY <1>2, <1>4, <1>5, SeqEqual
<1> QED BY <1>1, <1>3, <1>6

LEMMA InitExecutor == Init => Abstract!Init
BY EmptySeq, ConcatEmptySeq DEF Init, Abstract!Init

LEMMA NextExecutor == Inv /\ [Next]_vars => [Abstract!Next]_(Abstract!vars)
<1> SUFFICES ASSUME Inv, [Next]_vars
             PROVE  Abstract!Next \/ UNCHANGED Abstract!vars
  OBVIOUS
<1> DEFINE q == functors \o pendingFunctors
<1>0. /\ functors \in Seq(Functors)
      /\ pendingFunctors \in Seq(Functors)
      /\ pc # "done" \/ pc = "done"
  BY DEF Inv, TypeOK
<1>1. ASSUME NEW t \in Threads, NEW f \in Functors, QueueInLoop(t, f)
      PROVE  Abstract!Next
  <2>1. q' = Append(q, f)
    BY <1>0, <1>1, ConcatAppend DEF QueueInLoop, PushBack
  <2>2. Range(q) = Range(functors) \cup Range(pendingFunctors)
    BY <1>0, RangeConcatenation
  <2>3. f \notin Range(q) \cup Range(ran)
    BY <1>1, <2>2 DEF QueueInLoop, Fresh
  <2>4. UNCHANGED <<ran, pc>>
    BY <1>1 DEF QueueInLoop
  <2>5. Abstract!Submit(f)
    BY <2>1, <2>3, <2>4 DEF Abstract!Submit, Abstract!Range, Range
  <2> QED BY <2>5 DEF Abstract!Next
<1>2. CASE RunFunctor
  <2>1. /\ q # <<>>
        /\ Head(q) = Head(functors)
        /\ Tail(q) = Tail(functors) \o pendingFunctors
    BY <1>0, <1>2, ConcatHeadTail DEF RunFunctor
  <2>2. /\ pc # "done" /\ pc' # "done"
        /\ ran' = Append(ran, Head(q))
        /\ q' = Tail(q)
    BY <1>2, <2>1 DEF RunFunctor, At
  <2>3. Abstract!Execute
    BY <2>1, <2>2 DEF Abstract!Execute
  <2> QED BY <2>3 DEF Abstract!Next
<1>3. CASE TestQuit
  <2>1. UNCHANGED <<functors, pendingFunctors, ran>> /\ pc # "done"
    BY <1>3 DEF TestQuit, At
  <2>2. CASE pc' = "done"
    BY <2>1, <2>2 DEF Abstract!Next, Abstract!Close
  <2>3. CASE pc' # "done"
    BY <2>1, <2>3 DEF Abstract!vars
  <2> QED BY <2>2, <2>3
<1>4. CASE SwapFunctors
  <2>1. functors = <<>> /\ pc # "done"
    BY <1>4 DEF Inv, PhaseInv, InFunctors, SwapFunctors, Swapped, At
  <2>2. functors' = pendingFunctors /\ pendingFunctors' = <<>>
        /\ ran' = ran /\ pc' # "done"
    BY <1>4 DEF SwapFunctors, Swapped
  <2>3. q' = q
    BY <1>0, <2>1, <2>2, ConcatEmptySeq
  <2> QED BY <2>1, <2>2, <2>3 DEF Abstract!vars
<1>5. ASSUME UNCHANGED <<functors, pendingFunctors, ran>>,
             (pc' = "done") <=> (pc = "done")
      PROVE  UNCHANGED Abstract!vars
  BY <1>5 DEF Abstract!vars
<1>6. ASSUME NEW t \in Threads, NEW f \in Functors, RunInPlace(t, f)
      PROVE  UNCHANGED Abstract!vars
  BY <1>5, <1>6 DEF RunInPlace
<1>7. ASSUME NEW t \in Threads, Quit(t) \/ Wakeup(t)
      PROVE  UNCHANGED Abstract!vars
  BY <1>5, <1>7 DEF Quit, Wakeup
<1>8. ASSUME NEW ready \in SUBSET Channels, Poll(ready)
      PROVE  UNCHANGED Abstract!vars
  BY <1>5, <1>8 DEF At, Poll
<1>9. ASSUME NEW c \in Channels, HandleEvent(c)
      PROVE  UNCHANGED Abstract!vars
  BY <1>5, <1>9 DEF At, HandleEvent
<1>10. CASE \/ Loop \/ PollTimeout \/ HandleRead \/ HandlerReturn
            \/ FunctorReturn \/ EndFunctors \/ UNCHANGED vars
  BY <1>5, <1>10 DEF At, Loop, PollTimeout, HandleRead, HandlerReturn,
     FunctorReturn, EndFunctors, vars
<1>11. CASE Calls
  BY <1>1, <1>6, <1>7, <1>11 DEF Calls, RunInLoop
<1>12. CASE LoopSteps
  BY <1>2, <1>3, <1>4, <1>8, <1>9, <1>10, <1>12 DEF LoopSteps
<1> QED
  BY <1>7, <1>8, <1>10, <1>11, <1>12 DEF Next, Wakeups

\* Functors run one at a time, each once, in the order queueInLoop took them
\* in, and none after loop() has returned: the loop implements Executor.
THEOREM EventLoopIsExecutor == Spec => IsExecutor
BY InitExecutor, NextExecutor, Invariance, PTL
DEF Spec, IsExecutor, Abstract!Spec
=============================================================================
