----------------------------- MODULE TimerQueue -----------------------------
(***************************************************************************)
(* The timers of one loop (src/TimerQueue.cpp, Timer.cpp).  Everything but *)
(* addTimer of another thread runs in the loop thread.                     *)
(*                                                                         *)
(* Expirations are points of the wall clock (Timestamp::now), the timerfd  *)
(* counts down on the monotonic clock, and someone may set the wall clock. *)
(* One tick is the least time the timerfd is ever armed for (100           *)
(* microseconds).  Times are capped at MaxTime, where the wall clock stays *)
(* and a repeated timer is due again at once.                              *)
(*                                                                         *)
(* A callback is the user's code; it may add timers.  A timer object that  *)
(* was deleted is not used again, the next timer being another one.        *)
(***************************************************************************)
EXTENDS Integers, FiniteSets

CONSTANTS
  Timers,      \* Timer objects
  Intervals,   \* interval_; 0: the timer is not repeated
  MaxTime,     \* bound: the last point of time
  MaxSteps     \* bound: how often the wall clock is set

ASSUME TimeAssumption == MaxTime \in Nat \ {0} /\ MaxSteps \in Nat
ASSUME IntervalAssumption == Intervals \subseteq Nat

VARIABLES
  clock,        \* the wall clock
  steps,        \* how often it was set
  left,         \* ticks until the timerfd expires; 0: it is not armed
  readable,     \* it has expired and was not read or armed since
  reported,     \* poll() has put the timerfd's channel into activeChannels_
  created,      \* timers that were constructed
  deleted,      \* timers that were deleted
  expiration,   \* expiration_
  interval,     \* interval_
  adding,       \* timers whose addTimerInLoop is queued in the loop
  timers,       \* timers_
  expired,      \* what the running handleRead has moved out of timers_
  torun,        \* ... and has still to run
  now,          \* its now
  pc            \* "loop", or "handleRead" while that is running

clockVars == <<clock, steps>>
fdVars == <<left, readable>>
timerVars == <<created, deleted, expiration, interval>>
runVars == <<expired, torun, now, pc>>
vars == <<clockVars, fdVars, reported, timerVars, adding, timers, runVars>>

Time == 0 .. MaxTime

TypeOK ==
  /\ clock \in Time /\ steps \in 0 .. MaxSteps
  /\ left \in 0 .. MaxTime + 1
  /\ readable \in BOOLEAN /\ reported \in BOOLEAN
  /\ created \subseteq Timers /\ deleted \subseteq Timers
  /\ expiration \in [Timers -> Time] /\ interval \in [Timers -> Nat]
  /\ adding \subseteq Timers /\ timers \subseteq Timers
  /\ expired \subseteq Timers /\ torun \subseteq expired
  /\ now \in Time
  /\ pc \in {"loop", "handleRead"}

Init ==
  /\ clock \in Time /\ steps = 0
  /\ left = 0 /\ readable = FALSE /\ reported = FALSE
  /\ created = {} /\ deleted = {}
  /\ expiration = [t \in Timers |-> 0] /\ interval = [t \in Timers |-> 0]
  /\ adding = {} /\ timers = {}
  /\ expired = {} /\ torun = {} /\ now = 0
  /\ pc = "loop"

----------------------------------------------------------------------------
(* Helpers.                                                                *)

\* Mutated form: a time that has passed is not made up for.
HowMuchTimeFromNowRaw(when) == IF when = clock THEN 1 ELSE when - clock

\* howMuchTimeFromNow
HowMuchTimeFromNow(when) == IF when - clock < 1 THEN 1 ELSE when - clock

\* resetTimerfd: an expiration that was not read is forgotten.
ResetTimerfd(when) == left' = HowMuchTimeFromNow(when) /\ readable' = FALSE

\* addTime, capped.
AddTime(when, delta) == IF when + delta > MaxTime THEN MaxTime ELSE when + delta

\* Mutated form: the timerfd is only armed for the first timer.
EarliestChangedOnce(when) == timers = {}

\* insert: is the timer ahead of all others?
EarliestChanged(when) == \A u \in timers : when < expiration[u]

\* addTimerInLoop
Insert(t, when) ==
  /\ timers' = timers \cup {t}
  /\ IF EarliestChanged(when) THEN ResetTimerfd(when) ELSE UNCHANGED fdVars

NewTimer(t, when, i) ==
  /\ t \notin created
  /\ created' = created \cup {t}
  /\ expiration' = [expiration EXCEPT ![t] = when]
  /\ interval' = [interval EXCEPT ![t] = i]
  /\ UNCHANGED deleted

----------------------------------------------------------------------------
(* Adding timers.                                                          *)

\* addTimer in another thread.
AddTimer(t, when, i) ==
  /\ NewTimer(t, when, i)
  /\ adding' = adding \cup {t}
  /\ UNCHANGED <<clockVars, fdVars, reported, timers, runVars>>

\* The loop runs the functor.
AddTimerInLoop(t) ==
  /\ pc = "loop" /\ t \in adding
  /\ adding' = adding \ {t}
  /\ Insert(t, expiration[t])
  /\ UNCHANGED <<clockVars, reported, timerVars, runVars>>

\* addTimer in a callback of the loop, one of a timer included.
AddTimerHere(t, when, i) ==
  /\ NewTimer(t, when, i)
  /\ Insert(t, when)
  /\ UNCHANGED <<clockVars, reported, adding, runVars>>

----------------------------------------------------------------------------
(* handleRead.                                                             *)

Poll ==
  /\ pc = "loop" /\ readable /\ ~reported
  /\ reported' = TRUE
  /\ UNCHANGED <<clockVars, fdVars, timerVars, adding, timers, runVars>>

Due == {t \in timers : expiration[t] <= clock}

\* Up to getExpired.  The read finds nothing if another handler of this round
\* has armed the timerfd anew.
HandleRead ==
  /\ pc = "loop" /\ reported
  /\ reported' = FALSE /\ readable' = FALSE
  /\ now' = clock
  /\ expired' = Due /\ torun' = Due
  /\ timers' = timers \ Due
  /\ pc' = "handleRead"
  /\ UNCHANGED <<clockVars, left, timerVars, adding>>

Run(t) ==
  /\ pc = "handleRead" /\ t \in torun
  /\ \A u \in torun : expiration[t] <= expiration[u]
  /\ torun' = torun \ {t}
  /\ UNCHANGED <<clockVars, fdVars, reported, timerVars, adding, timers, expired,
                 now, pc>>

Repeated == {t \in expired : interval[t] > 0}

\* Mutated form: repeated timers are deleted, too.
DroppedAll == expired

Dropped == expired \ Repeated

\* Mutated form: repeated timers do not go back.
WaitingOnly == timers

Waiting == timers \cup Repeated

\* Mutated form: nothing is armed when nothing was due, as if that could not
\* happen.
MustArmIfRan == timers' # {} /\ expired # {}

\* !timers_.empty()
MustArm == timers' # {}

\* Repeated timers are restarted and go back, the others are deleted, and the
\* timerfd is armed for the earliest, if its expiration is valid.
Reset ==
  /\ pc = "handleRead" /\ torun = {}
  /\ expiration' = [t \in Timers |-> IF t \in Repeated
                                     THEN AddTime(now, interval[t])
                                     ELSE expiration[t]]
  /\ deleted' = deleted \cup Dropped
  /\ timers' = Waiting
  /\ \/ /\ MustArm
        /\ \E t \in timers' :
             /\ \A u \in timers' : expiration'[t] <= expiration'[u]
             /\ IF expiration'[t] > 0 THEN ResetTimerfd(expiration'[t])
                                      ELSE UNCHANGED fdVars
     \/ ~MustArm /\ UNCHANGED fdVars
  /\ expired' = {}
  /\ pc' = "loop"
  /\ UNCHANGED <<clockVars, reported, created, interval, adding, torun, now>>

----------------------------------------------------------------------------
(* Time.                                                                   *)

Tick ==
  /\ clock' = AddTime(clock, 1)
  /\ left' = IF left > 0 THEN left - 1 ELSE 0
  /\ readable' = (readable \/ left = 1)
  /\ UNCHANGED <<steps, reported, timerVars, adding, timers, runVars>>

\* Someone sets the wall clock.
SetClock ==
  /\ steps < MaxSteps
  /\ steps' = steps + 1
  /\ clock' \in Time
  /\ UNCHANGED <<fdVars, reported, timerVars, adding, timers, runVars>>

----------------------------------------------------------------------------
LoopSteps == \/ \E t \in Timers : AddTimerInLoop(t) \/ Run(t)
             \/ Poll \/ HandleRead \/ Reset

Next ==
  \/ \E t \in Timers, when \in Time, i \in Intervals :
       AddTimer(t, when, i) \/ AddTimerHere(t, when, i)
  \/ LoopSteps
  \/ Tick \/ SetClock

Spec == Init /\ [][Next]_vars

\* The loop runs, callbacks return, and time passes.  Between two rounds of
\* handlers the loop runs the queued functors (see IsFairExecutor of EventLoop),
\* hence the strong fairness of AddTimerInLoop.
FairSpec == /\ Spec
            /\ WF_vars(LoopSteps) /\ WF_vars(Tick)
            /\ \A t \in Timers : SF_vars(AddTimerInLoop(t))

----------------------------------------------------------------------------
(* Properties.                                                             *)

\* While a timer waits and handleRead is not running, the timerfd is going to
\* call handleRead, however timers were added and the wall clock was set.
Armed == pc = "loop" /\ timers # {} => left > 0 \/ readable \/ reported

\* And as long as nobody has set the wall clock, it does so no later than the
\* first tick at which a waiting timer is due.
NeverLate ==
  pc = "loop" /\ steps = 0 =>
    \A t \in timers : \/ readable \/ reported
                      \/ left > 0 /\ left <= HowMuchTimeFromNow(expiration[t])

\* Timers are raw pointers: one that was deleted is not in timers_, about to be
\* inserted or about to be run.
NoDangling == deleted \cap (timers \cup adding \cup expired) = {}

\* include/TimerQueue.h: "Schedules the callback to be run at given time,
\* repeats if interval > 0."  A timer that waits, or is about to be inserted, is
\* run, even if the wall clock is set; and a repeated one never ends.
EveryTimerRuns ==
  \A t \in Timers :
    /\ t \in timers \cup adding ~> t \in torun
    /\ t \in created /\ interval[t] > 0 ~> t \in timers
=============================================================================
