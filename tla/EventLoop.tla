------------------------------ MODULE EventLoop ------------------------------
(***************************************************************************)
(* One EventLoop (src/EventLoop.cpp): the loop thread that polls, handles  *)
(* the active channels and runs the pending functors, and the other        *)
(* threads that hand functors to it or ask it to quit.                     *)
(*                                                                         *)
(* Steps are cut where another thread can observe or change something: a   *)
(* critical section of mutex_ is one step, the write to the eventfd after  *)
(* it is another, and so is each test of quit_.  looping_,                 *)
(* callingPendingFunctors_ and activeChannels_ are touched by the loop     *)
(* thread alone, so their assignments join the neighbouring step.          *)
(* looping_ is not kept: it is TRUE exactly between the steps Loop and the *)
(* exit of TestQuit.                                                       *)
(*                                                                         *)
(* A callback (a channel's handler or a functor) is the user's code.  It   *)
(* stays in progress over any number of steps, in which it may call        *)
(* queueInLoop, runInLoop and quit, and then returns.  No code of the      *)
(* repository calls queueInLoop or quit from the loop thread outside a     *)
(* callback; runInLoop is also called before loop() (TcpServer::start).    *)
(***************************************************************************)
EXTENDS Naturals, Sequences, FiniteSets, Functions

CONSTANTS
  Threads,        \* the threads of the process that use this loop
  LoopThread,     \* the one that constructed it (threadId_)
  Functors,       \* closures; every call hands over one not used before
  Channels,       \* the user's channels in the poller
  WakeupChannel   \* wakeupChannel_, the channel of the eventfd

ASSUME ThreadAssumption == LoopThread \in Threads
ASSUME ChannelAssumption == WakeupChannel \notin Channels

VARIABLES
  pc,              \* where the loop thread is, see Places
  quit,            \* quit_
  callingPendingFunctors,
  pendingFunctors, \* guarded by mutex_, oldest first
  functors,        \* the batch of doPendingFunctors, from index i on
  wakeupFd,        \* 1 when the eventfd is readable: handleRead drops the count
  activeChannels,  \* the active channels still to be handled
  waking,          \* threads that are between unlock (or quit_ = true) and wakeup()
  ran,             \* history: functors started by doPendingFunctors, in order
  inlined          \* history: functors runInLoop ran in place

vars == <<pc, quit, callingPendingFunctors, pendingFunctors, functors,
          wakeupFd, activeChannels, waking, ran, inlined>>

\* created: constructed, loop() not entered; test: at while (!quit_); poll: in
\* poller_->poll(); dispatch: between two handlers; callback: in a handler;
\* functors: between two functors; functor: in one; done: loop() has returned.
Places == {"created", "test", "poll", "dispatch", "callback",
           "functors", "functor", "done"}

TypeOK ==
  /\ pc \in Places
  /\ quit \in BOOLEAN
  /\ callingPendingFunctors \in BOOLEAN
  /\ pendingFunctors \in Seq(Functors)
  /\ functors \in Seq(Functors)
  /\ wakeupFd \in {0, 1}
  /\ activeChannels \subseteq Channels \cup {WakeupChannel}
  /\ waking \subseteq Threads
  /\ ran \in Seq(Functors)
  /\ inlined \subseteq Functors

Init ==
  /\ pc = "created"
  /\ quit = FALSE
  /\ callingPendingFunctors = FALSE
  /\ pendingFunctors = <<>>
  /\ functors = <<>>
  /\ wakeupFd = 0
  /\ activeChannels = {}
  /\ waking = {}
  /\ ran = <<>>
  /\ inlined = {}

----------------------------------------------------------------------------
(* The calls any thread may make.                                          *)

\* A thread finishes one call before the next; the loop thread queues and
\* quits from inside a callback only.
MayCall(t) == /\ t \notin waking
              /\ t = LoopThread => pc \in {"callback", "functor"}

Fresh(f) == f \notin Range(pendingFunctors) \cup Range(functors)
                     \cup Range(ran) \cup inlined

\* Mutated form: wakeup() only for foreign threads.
MustWakeForeign(t) == t # LoopThread

\* !isInLoopThread() || callingPendingFunctors_
MustWake(t) == t # LoopThread \/ callingPendingFunctors

\* Mutated form: the new functor goes to the front of the vector.
PushFront(f) == <<f>> \o pendingFunctors

PushBack(f) == Append(pendingFunctors, f)

QueueInLoop(t, f) ==
  /\ MayCall(t) /\ Fresh(f)
  /\ pendingFunctors' = PushBack(f)
  /\ waking' = IF MustWake(t) THEN waking \cup {t} ELSE waking
  /\ UNCHANGED <<pc, quit, callingPendingFunctors, functors, wakeupFd,
                 activeChannels, ran, inlined>>

\* In the loop thread the functor runs in place, inside the current callback
\* or before loop() is entered, ahead of everything queued.
RunInPlace(t, f) ==
  /\ t = LoopThread /\ t \notin waking
  /\ pc \in {"created", "callback", "functor"}
  /\ Fresh(f)
  /\ inlined' = inlined \cup {f}
  /\ UNCHANGED <<pc, quit, callingPendingFunctors, pendingFunctors, functors,
                 wakeupFd, activeChannels, waking, ran>>

RunInLoop(t, f) == \/ RunInPlace(t, f)
                   \/ t # LoopThread /\ QueueInLoop(t, f)

\* Mutated form: quit() of another thread does not wake the loop.
QuitWakesNot(t) == FALSE

QuitWakes(t) == t # LoopThread

Quit(t) ==
  /\ MayCall(t)
  /\ quit' = TRUE
  /\ waking' = IF QuitWakes(t) THEN waking \cup {t} ELSE waking
  /\ UNCHANGED <<pc, callingPendingFunctors, pendingFunctors, functors,
                 wakeupFd, activeChannels, ran, inlined>>

Wakeup(t) ==
  /\ t \in waking
  /\ wakeupFd' = 1
  /\ waking' = waking \ {t}
  /\ UNCHANGED <<pc, quit, callingPendingFunctors, pendingFunctors, functors,
                 activeChannels, ran, inlined>>

----------------------------------------------------------------------------
(* The loop thread.                                                        *)

At(place) == pc = place /\ LoopThread \notin waking

\* loop() up to the while: quit_ is reset, whatever was asked before.
Loop ==
  /\ At("created")
  /\ pc' = "test"
  /\ quit' = FALSE
  /\ UNCHANGED <<callingPendingFunctors, pendingFunctors, functors, wakeupFd,
                 activeChannels, waking, ran, inlined>>

TestQuit ==
  /\ At("test")
  /\ pc' = IF quit THEN "done" ELSE "poll"
  /\ UNCHANGED <<quit, callingPendingFunctors, pendingFunctors, functors,
                 wakeupFd, activeChannels, waking, ran, inlined>>

\* poll() returns because descriptors are ready; ready are the user's.
Poll(ready) ==
  /\ At("poll")
  /\ ready # {} \/ wakeupFd = 1
  /\ activeChannels' = ready \cup (IF wakeupFd = 1 THEN {WakeupChannel} ELSE {})
  /\ pc' = "dispatch"
  /\ UNCHANGED <<quit, callingPendingFunctors, pendingFunctors, functors,
                 wakeupFd, waking, ran, inlined>>

\* poll() returns with nothing: kPollTimeMs elapsed, or a signal.
PollTimeout ==
  /\ At("poll")
  /\ wakeupFd = 0
  /\ activeChannels' = {}
  /\ pc' = "dispatch"
  /\ UNCHANGED <<quit, callingPendingFunctors, pendingFunctors, functors,
                 wakeupFd, waking, ran, inlined>>

\* The handler of the wakeup channel drains the eventfd.
HandleRead ==
  /\ At("dispatch")
  /\ WakeupChannel \in activeChannels
  /\ activeChannels' = activeChannels \ {WakeupChannel}
  /\ wakeupFd' = 0
  /\ UNCHANGED <<pc, quit, callingPendingFunctors, pendingFunctors, functors,
                 waking, ran, inlined>>

HandleEvent(c) ==
  /\ At("dispatch")
  /\ c \in activeChannels
  /\ activeChannels' = activeChannels \ {c}
  /\ pc' = "callback"
  /\ UNCHANGED <<quit, callingPendingFunctors, pendingFunctors, functors,
                 wakeupFd, waking, ran, inlined>>

HandlerReturn ==
  /\ At("callback")
  /\ pc' = "dispatch"
  /\ UNCHANGED <<quit, callingPendingFunctors, pendingFunctors, functors,
                 wakeupFd, activeChannels, waking, ran, inlined>>

\* Mutated form: the functors are moved out one by one and the vector is not
\* cleared, so that empty ones stay in it.
SwappedOneByOne == [k \in DOMAIN pendingFunctors |-> "empty"]

\* What functors.swap(pendingFunctors_) leaves in pendingFunctors_: the vector
\* that was functors, new and empty.
Swapped == <<>>

\* doPendingFunctors up to the end of the critical section.
SwapFunctors ==
  /\ At("dispatch") /\ activeChannels = {}
  /\ callingPendingFunctors' = TRUE
  /\ functors' = pendingFunctors
  /\ pendingFunctors' = Swapped
  /\ pc' = "functors"
  /\ UNCHANGED <<quit, wakeupFd, activeChannels, waking, ran, inlined>>

RunFunctor ==
  /\ At("functors") /\ functors # <<>>
  /\ ran' = Append(ran, Head(functors))
  /\ functors' = Tail(functors)
  /\ pc' = "functor"
  /\ UNCHANGED <<quit, callingPendingFunctors, pendingFunctors, wakeupFd,
                 activeChannels, waking, inlined>>

FunctorReturn ==
  /\ At("functor")
  /\ pc' = "functors"
  /\ UNCHANGED <<quit, callingPendingFunctors, pendingFunctors, functors,
                 wakeupFd, activeChannels, waking, ran, inlined>>

EndFunctors ==
  /\ At("functors") /\ functors = <<>>
  /\ callingPendingFunctors' = FALSE
  /\ pc' = "test"
  /\ UNCHANGED <<quit, pendingFunctors, functors, wakeupFd, activeChannels,
                 waking, ran, inlined>>

----------------------------------------------------------------------------
Calls == \E t \in Threads : \/ \E f \in Functors : QueueInLoop(t, f)
                            \/ \E f \in Functors : RunInLoop(t, f)
                            \/ Quit(t)

Wakeups == \E t \in Threads : Wakeup(t)

\* What the loop thread does of its own accord, without the help of ready user
\* descriptors or of the poll timeout.
LoopSteps ==
  \/ Loop \/ TestQuit \/ Poll({})
  \/ HandleRead \/ (\E c \in Channels : HandleEvent(c)) \/ HandlerReturn
  \/ SwapFunctors \/ RunFunctor \/ FunctorReturn \/ EndFunctors

Next == \/ Calls
        \/ Wakeups
        \/ LoopSteps
        \/ \E ready \in SUBSET Channels : Poll(ready)
        \/ PollTimeout

Spec == Init /\ [][Next]_vars

\* The scheduler runs the loop thread and lets a thread that is about to write
\* the eventfd do so; callbacks return.  Nothing is assumed of the callers, of
\* the user's descriptors or of the 10 s timeout of poll().
Fairness == /\ WF_vars(LoopSteps)
            /\ \A t \in Threads : WF_vars(Wakeup(t))

FairSpec == Spec /\ Fairness

----------------------------------------------------------------------------
(* Properties.                                                             *)

Awoken == wakeupFd = 1 \/ waking # {}

\* A loop that sits in poll() while a functor is pending, or while quit() has
\* been called, is sure to be woken: the eventfd is readable, or the thread
\* that queued the functor is about to write it.  Without this the functor
\* would wait for the 10 s timeout of poll (queueInLoop, quit, handleRead).
NoLostWakeup ==
  pc = "poll" /\ (pendingFunctors # <<>> \/ quit) => Awoken

\* The loop is a serial executor: functors run one at a time, each once, in the
\* order of the push_back in queueInLoop, and never after loop() has returned.
Abstract == INSTANCE Executor WITH queue <- functors \o pendingFunctors,
                                   closed <- (pc = "done")
IsExecutor == Abstract!Spec

\* And it makes progress as an executor must, wakeups alone being enough:
\* the timeout of poll is not fair here.
IsFairExecutor == Abstract!FairSpec

\* A functor queued while a batch is running waits for the next one, so that
\* handlers get their turn: doPendingFunctors only ever shortens its batch.
BatchOnlyShrinks ==
  [][callingPendingFunctors /\ callingPendingFunctors' =>
       functors' = functors \/ functors' = Tail(functors)]_vars

\* Once inside loop(), a quit() makes loop() return (EventLoop::quit, loop).
QuitReturns == quit /\ pc \notin {"created", "done"} ~> pc = "done"
=============================================================================
