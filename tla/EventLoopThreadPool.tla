------------------------ MODULE EventLoopThreadPool ------------------------
(***************************************************************************)
(* How a server starts (TcpServer::start, EventLoopThreadPool.cpp,         *)
(* EventLoopThread.cpp, Thread.cpp).  The thread of the base loop, before  *)
(* it enters loop(), starts the threads of the pool one after the other    *)
(* and waits for each to have made its EventLoop; then it listens.         *)
(*                                                                         *)
(* A critical section of the mutex_ of an EventLoopThread is one step.     *)
(* pthread_create may fail, which is logged and otherwise ignored, and     *)
(* pthread_cond_wait may return unasked.  The base thread calls start()    *)
(* once, as main does; a second call finds everything done.                *)
(* Thread ids are taken to have at most five digits: cacheTid, which a     *)
(* thread comes to when it makes its EventLoop, asserts it, and a longer   *)
(* id ends the process there.                                              *)
(***************************************************************************)
EXTENDS Integers

CONSTANT NumThreads    \* numThreads_; 0: all I/O in the base loop

ASSUME NumThreadsAssumption == NumThreads \in Nat

Base == 0                     \* baseLoop_
Pool == 1 .. NumThreads       \* threads_, and the loops they make

VARIABLES
  started,     \* started_ of the server and of the pool
  thread,      \* how far each thread of the pool has come
  waiting,     \* the base thread is in cond_.wait()
  loops,       \* the size of loops_, which are the first of Pool
  listening,   \* listening_
  next         \* next_

poolVars == <<started, thread, waiting, loops, listening, next>>

PoolTypeOK ==
  /\ started \in BOOLEAN /\ waiting \in BOOLEAN /\ listening \in BOOLEAN
  /\ thread \in [Pool -> {"none", "failed", "spawned", "ready", "looping"}]
  /\ loops \in 0 .. NumThreads
  /\ next \in 0 .. (IF NumThreads = 0 THEN 0 ELSE NumThreads - 1)

PoolInit ==
  /\ started = FALSE /\ waiting = FALSE /\ listening = FALSE
  /\ thread = [t \in Pool |-> "none"]
  /\ loops = 0 /\ next = 0

----------------------------------------------------------------------------
(* The base thread.                                                        *)

Starting == started /\ ~listening

\* The head of both start()s.
Start ==
  /\ ~started
  /\ started' = TRUE
  /\ UNCHANGED <<thread, waiting, loops, listening, next>>

\* new EventLoopThread, and Thread::start.
StartThread(t) ==
  /\ Starting /\ t = loops + 1 /\ thread[t] = "none"
  /\ \E outcome \in {"spawned", "failed"} : thread' = [thread EXCEPT ![t] = outcome]
  /\ UNCHANGED <<started, waiting, loops, listening, next>>

\* Mutated form: the wait is left out.
LoopIsNullNever(t) == FALSE

\* loop_ == NULL
LoopIsNull(t) == thread[t] \notin {"ready", "looping"}

\* The while of startLoop, once round.
StartLoop(t) ==
  /\ Starting /\ t = loops + 1 /\ thread[t] # "none" /\ ~waiting
  /\ \/ LoopIsNull(t) /\ waiting' = TRUE /\ UNCHANGED loops
     \/ ~LoopIsNull(t) /\ loops' = t /\ UNCHANGED waiting
  /\ UNCHANGED <<started, thread, listening, next>>

WakesUnasked ==
  /\ waiting
  /\ waiting' = FALSE
  /\ UNCHANGED <<started, thread, loops, listening, next>>

\* Acceptor::listen; loop() follows.
Listen ==
  /\ Starting /\ loops = NumThreads
  /\ listening' = TRUE
  /\ UNCHANGED <<started, thread, waiting, loops, next>>

----------------------------------------------------------------------------
(* The threads of the pool.                                                *)

\* Mutated form: nobody is told.
NotifyNot(t) == waiting

\* cond_.notify(); the base thread waits for one thread at a time.
Notify(t) == waiting /\ t # loops + 1

\* threadFunc has made its EventLoop: it sets loop_.
PublishLoop(t) ==
  /\ thread[t] = "spawned"
  /\ thread' = [thread EXCEPT ![t] = "ready"]
  /\ waiting' = Notify(t)
  /\ UNCHANGED <<started, loops, listening, next>>

EnterLoop(t) ==
  /\ thread[t] = "ready"
  /\ thread' = [thread EXCEPT ![t] = "looping"]
  /\ UNCHANGED <<started, waiting, loops, listening, next>>

ThreadFunc(t) == PublishLoop(t) \/ EnterLoop(t)

\* What the base thread does of its own accord.
StartStep == Start \/ (\E t \in Pool : StartThread(t) \/ StartLoop(t)) \/ Listen

StartUp == StartStep \/ WakesUnasked \/ \E t \in Pool : ThreadFunc(t)

----------------------------------------------------------------------------
(* getNextLoop.                                                            *)

NextLoop == IF loops = 0 THEN Base ELSE next + 1

\* Mutated form: the pool wraps one loop late.
AdvanceLate == IF next + 1 > loops THEN 0 ELSE next + 1

Advance == IF next + 1 >= loops THEN 0 ELSE next + 1

----------------------------------------------------------------------------
(* Properties.                                                             *)

\* Every loop that is in loops_, and so may be given connections, exists: its
\* thread has made it.  And nobody can connect before all of them are there,
\* so that none is ever left out (EventLoopThread::startLoop, TcpServer::start).
LoopsReady ==
  /\ \A t \in 1 .. loops : thread[t] \in {"ready", "looping"}
  /\ listening => loops = NumThreads

\* start() comes to its end, no notify() being lost, unless a thread cannot be
\* made: then startLoop waits for ever.
StartCompletes == <>(listening \/ \E t \in Pool : thread[t] = "failed")
=============================================================================
