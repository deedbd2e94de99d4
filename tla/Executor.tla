------------------------------ MODULE Executor ------------------------------
(***************************************************************************)
(* What EventLoop promises to the threads that call runInLoop and          *)
(* queueInLoop (include/EventLoop.h: "Safe to call from other threads"):   *)
(* the loop is a serial executor.  Functors are taken in from any thread,  *)
(* run by one thread, each exactly once and in the order they were taken   *)
(* in, until the loop is closed by quit().                                 *)
(***************************************************************************)
EXTENDS Sequences, Functions

CONSTANT Functors    \* the closures handed over; every hand-over is a new one

VARIABLES
  queue,             \* taken in and not yet started, oldest first
  ran,               \* started, in the order they were started
  closed             \* loop() has returned

vars == <<queue, ran, closed>>

TypeOK == /\ queue \in Seq(Functors)
          /\ ran \in Seq(Functors)
          /\ closed \in BOOLEAN

Init == /\ queue = <<>>
        /\ ran = <<>>
        /\ closed = FALSE

Submit(f) == /\ f \notin Range(queue) \cup Range(ran)
             /\ queue' = Append(queue, f)
             /\ UNCHANGED <<ran, closed>>

Execute == /\ ~closed
           /\ queue # <<>>
           /\ ran' = Append(ran, Head(queue))
           /\ queue' = Tail(queue)
           /\ UNCHANGED closed

Close == /\ ~closed
         /\ closed' = TRUE
         /\ UNCHANGED <<queue, ran>>

Next == \/ \E f \in Functors : Submit(f)
        \/ Execute
        \/ Close

Spec == Init /\ [][Next]_vars

\* The promise includes progress: a loop that is not closed keeps executing.
FairSpec == Spec /\ WF_vars(Execute)
=============================================================================
