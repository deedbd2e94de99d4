-------------------------- MODULE TimerQueue_proofs --------------------------
(***************************************************************************)
(* Proofs about TimerQueue, for any timers, intervals and times.           *)
(*                                                                         *)
(* Armed and NeverLate speak of the time between two handleRead.  To carry *)
(* them over the Reset that ends one, the invariant adds where a timer can *)
(* be, and that a timer with the invalid expiration 0, for which Reset     *)
(* does not arm the timerfd, had it armed when it was added.               *)
(***************************************************************************)
EXTENDS TimerQueue, TLAPS

\* A timer is in one place at a time.
PlaceInv ==
  /\ timers \cup adding \cup expired \cup deleted \subseteq created
  /\ adding \cap (timers \cup expired \cup deleted) = {}
  /\ timers \cap (expired \cup deleted) = {}
  /\ expired \cap deleted = {}
  /\ pc = "loop" => expired = {} /\ torun = {}

\* A timer added by a running callback for the invalid time 0.
ZeroInv ==
  pc = "handleRead" => /\ ~reported
                       /\ (\E t \in timers : expiration[t] = 0) => readable \/ left = 1

Inv == TypeOK /\ PlaceInv /\ ZeroInv /\ Armed /\ NeverLate

LEMMA InitInv == Init => Inv
  <1> SUFFICES ASSUME Init PROVE Inv
    OBVIOUS
  <1> USE DEF Init
  <1>1. 0 \in Time /\ 0 \in Nat /\ 0 \in 0 .. MaxSteps /\ 0 \in 0 .. MaxTime + 1
    BY TimeAssumption DEF Time
  <1>2. TypeOK
    BY <1>1 DEF TypeOK
  <1>3. PlaceInv /\ ZeroInv /\ Armed /\ NeverLate
    BY DEF PlaceInv, ZeroInv, Armed, NeverLate
  <1> QED BY <1>2, <1>3 DEF Inv

\* What arming the timerfd for a time w achieves for every later time.
LEMMA ArmedFor ==
  ASSUME NEW w \in Time, TypeOK, ResetTimerfd(w)
  PROVE  /\ left' \in 1 .. MaxTime + 1
         /\ readable' = FALSE
         /\ left' = HowMuchTimeFromNow(w)
         /\ w = 0 => left' = 1
         /\ \A v \in Time : w <= v => left' <= HowMuchTimeFromNow(v)
  BY TimeAssumption DEF TypeOK, ResetTimerfd, HowMuchTimeFromNow, Time

\* Insert keeps the promises about the timerfd, for a timer t that expires at w.
LEMMA InsertPreserves ==
  ASSUME Inv, NEW t \in Timers, NEW w \in Time, t \notin timers,
         Insert(t, w), UNCHANGED <<clockVars, reported, runVars>>,
         expiration' \in [Timers -> Time],
         expiration'[t] = w,
         \A u \in timers : expiration'[u] = expiration[u]
  PROVE  /\ left' \in 0 .. MaxTime + 1 /\ readable' \in BOOLEAN
         /\ ZeroInv' /\ Armed' /\ NeverLate'
  <1> USE DEF Inv, TypeOK
  <1>1. CASE \A u \in timers : w < expiration[u]
    <2>1. ResetTimerfd(w) /\ timers' = timers \cup {t}
      BY <1>1 DEF Insert, EarliestChanged
    <2>2. /\ left' \in 1 .. MaxTime + 1
          /\ readable' = FALSE
          /\ w = 0 => left' = 1
          /\ \A v \in Time : w <= v => left' <= HowMuchTimeFromNow(v)
      BY <2>1, ArmedFor
    <2>3. \A u \in timers' : w <= expiration'[u] /\ expiration'[u] \in Time
      BY <1>1, <2>1 DEF Time
    <2>4. ZeroInv'
      BY <2>2, <2>3 DEF ZeroInv, runVars, Time
    <2>5. Armed' /\ NeverLate'
      BY <2>2, <2>3 DEF Armed, NeverLate, HowMuchTimeFromNow, clockVars
    <2>6. left' \in 0 .. MaxTime + 1
      BY <2>2, TimeAssumption
    <2>7. readable' \in BOOLEAN
      BY <2>2
    <2> QED BY <2>4, <2>5, <2>6, <2>7
  <1>2. CASE ~ \A u \in timers : w < expiration[u]
    <2>1. UNCHANGED fdVars /\ timers' = timers \cup {t}
      BY <1>2 DEF Insert, EarliestChanged
    <2>2. PICK u \in timers : expiration[u] <= w
      BY <1>2 DEF Time
    <2>3. ZeroInv'
      BY <2>1, <2>2 DEF ZeroInv, runVars, fdVars, Time
    <2>4. Armed'
      BY <2>1, <2>2 DEF Armed, runVars, fdVars
    <2>5. NeverLate'
      BY <2>1, <2>2 DEF NeverLate, HowMuchTimeFromNow, runVars, fdVars, clockVars, Time
    <2> QED BY <2>1, <2>3, <2>4, <2>5 DEF fdVars
  <1> QED BY <1>1, <1>2

LEMMA AddTimerPreserves ==
  ASSUME Inv, NEW t \in Timers, NEW w \in Time, NEW i \in Intervals, AddTimer(t, w, i)
  PROVE  Inv'
  <1> USE IntervalAssumption DEF Inv, AddTimer, NewTimer, clockVars, fdVars, runVars
  <1>1. TypeOK'
    BY DEF TypeOK
  <1>2. PlaceInv'
    BY DEF PlaceInv, TypeOK
  <1>3. \A u \in timers : expiration'[u] = expiration[u]
    BY DEF PlaceInv, TypeOK
  <1>4. ZeroInv' /\ Armed' /\ NeverLate'
    BY <1>3 DEF ZeroInv, Armed, NeverLate, HowMuchTimeFromNow
  <1> QED BY <1>1, <1>2, <1>4

LEMMA AddTimerInLoopPreserves ==
  ASSUME Inv, NEW t \in Timers, AddTimerInLoop(t)
  PROVE  Inv'
  <1> USE DEF Inv
  <1>1. t \notin timers /\ expiration[t] \in Time
    BY DEF AddTimerInLoop, PlaceInv, TypeOK
  <1>2. /\ left' \in 0 .. MaxTime + 1 /\ readable' \in BOOLEAN
        /\ ZeroInv' /\ Armed' /\ NeverLate'
    BY <1>1, InsertPreserves DEF AddTimerInLoop, timerVars, TypeOK
  <1>3. TypeOK'
    BY <1>2 DEF TypeOK, AddTimerInLoop, Insert, EarliestChanged, clockVars, timerVars, runVars
  <1>4. PlaceInv'
    BY DEF PlaceInv, TypeOK, AddTimerInLoop, Insert, EarliestChanged, timerVars, runVars
  <1> QED BY <1>2, <1>3, <1>4

LEMMA AddTimerHerePreserves ==
  ASSUME Inv, NEW t \in Timers, NEW w \in Time, NEW i \in Intervals, AddTimerHere(t, w, i)
  PROVE  Inv'
  <1> USE IntervalAssumption DEF Inv
  <1>1. /\ t \notin timers
        /\ expiration' \in [Timers -> Time] /\ expiration'[t] = w
        /\ \A u \in timers : expiration'[u] = expiration[u]
    BY DEF AddTimerHere, NewTimer, PlaceInv, TypeOK
  <1>2. /\ left' \in 0 .. MaxTime + 1 /\ readable' \in BOOLEAN
        /\ ZeroInv' /\ Armed' /\ NeverLate'
    BY <1>1, InsertPreserves DEF AddTimerHere
  <1>3. TypeOK'
    BY <1>2 DEF TypeOK, AddTimerHere, NewTimer, Insert, EarliestChanged, clockVars, runVars
  <1>4. PlaceInv'
    BY DEF PlaceInv, TypeOK, AddTimerHere, NewTimer, Insert, EarliestChanged, runVars
  <1> QED BY <1>2, <1>3, <1>4

LEMMA PollPreserves == Inv /\ Poll => Inv'
  BY DEF Inv, TypeOK, PlaceInv, ZeroInv, Armed, NeverLate, HowMuchTimeFromNow, Poll,
         clockVars, fdVars, timerVars, runVars

LEMMA HandleReadPreserves == Inv /\ HandleRead => Inv'
  <1> SUFFICES ASSUME Inv, HandleRead PROVE Inv'
    OBVIOUS
  <1> USE DEF Inv, HandleRead, Due, clockVars, timerVars
  <1>1. TypeOK'
    BY DEF TypeOK
  <1>2. PlaceInv'
    BY DEF PlaceInv, TypeOK
  <1>3. ZeroInv'
    BY DEF ZeroInv, TypeOK, Time
  <1>4. Armed' /\ NeverLate'
    BY DEF Armed, NeverLate
  <1> QED BY <1>1, <1>2, <1>3, <1>4

LEMMA RunPreserves ==
  ASSUME Inv, NEW t \in Timers, Run(t)
  PROVE  Inv'
  BY DEF Inv, TypeOK, PlaceInv, ZeroInv, Armed, NeverLate, HowMuchTimeFromNow, Run,
         clockVars, fdVars, timerVars

\* The restarted timers get a valid expiration.
LEMMA Restarted ==
  ASSUME Inv, Reset
  PROVE  /\ expiration' \in [Timers -> Time]
         /\ \A t \in Repeated : expiration'[t] > 0
         /\ \A t \in timers : expiration'[t] = expiration[t]
  <1> USE DEF Inv, TypeOK, Reset, Dropped, Waiting, MustArm
  <1>1. \A t \in Repeated : t \in Timers /\ AddTime(now, interval[t]) \in 1 .. MaxTime
    BY TimeAssumption DEF Repeated, AddTime, Time
  <1>2. \A t \in timers : t \notin Repeated
    BY DEF PlaceInv, Repeated
  <1> QED BY <1>1, <1>2 DEF Time

LEMMA ResetPreserves == Inv /\ Reset => Inv'
  <1> SUFFICES ASSUME Inv, Reset PROVE Inv'
    OBVIOUS
  <1> USE DEF Inv
  <1>1. /\ expiration' \in [Timers -> Time]
        /\ \A t \in Repeated : expiration'[t] > 0
        /\ \A t \in timers : expiration'[t] = expiration[t]
    BY Restarted
  <1>2. timers' = timers \cup Repeated /\ timers' \subseteq Timers
    BY DEF Reset, Dropped, Waiting, MustArm, Repeated, TypeOK
  <1>3. PlaceInv'
    BY <1>2 DEF PlaceInv, TypeOK, Reset, Dropped, Waiting, MustArm, Repeated
  <1>4. ZeroInv'
    BY DEF ZeroInv, Reset, Dropped, Waiting, MustArm
  <1>5. CASE timers' = {} /\ UNCHANGED fdVars
    BY <1>1, <1>2, <1>3, <1>4, <1>5
       DEF TypeOK, Armed, NeverLate, Reset, Dropped, Waiting, MustArm, clockVars, fdVars, Repeated
  <1>6. ASSUME NEW t \in timers',
               \A u \in timers' : expiration'[t] <= expiration'[u],
               IF expiration'[t] > 0 THEN ResetTimerfd(expiration'[t])
                                     ELSE UNCHANGED fdVars
        PROVE  Inv'
    <2>1. t \in Timers /\ expiration'[t] \in Time
      BY <1>1, <1>2
    <2>2. /\ left' \in 0 .. MaxTime + 1 /\ readable' \in BOOLEAN
          /\ \/ readable'
             \/ left' > 0 /\ \A u \in timers' : left' <= HowMuchTimeFromNow(expiration'[u])
      <3>1. CASE expiration'[t] > 0
        <4>1. ResetTimerfd(expiration'[t])
          BY <1>6, <3>1
        <4>2. /\ left' \in 1 .. MaxTime + 1
              /\ readable' = FALSE
              /\ \A v \in Time : expiration'[t] <= v => left' <= HowMuchTimeFromNow(v)
          BY <2>1, <4>1, ArmedFor
        <4>3. \A u \in timers' : expiration'[u] \in Time
          BY <1>1, <1>2
        <4>4. left' > 0 /\ left' \in 0 .. MaxTime + 1
          BY <4>2, TimeAssumption
        <4>5. readable' \in BOOLEAN
          BY <4>2
        <4>6. \A u \in timers' : left' <= HowMuchTimeFromNow(expiration'[u])
          BY <1>6, <4>2, <4>3
        <4> QED BY <4>4, <4>5, <4>6
      <3>2. CASE expiration'[t] = 0
        <4>1. UNCHANGED fdVars
          BY <1>6, <3>2
        <4>2. t \in timers /\ expiration[t] = 0
          BY <1>1, <1>2, <3>2
        <4>3. readable \/ left = 1
          BY <4>2 DEF ZeroInv, Reset, Dropped, Waiting, MustArm
        <4>4. \A u \in timers' : 1 <= HowMuchTimeFromNow(expiration'[u])
          BY <1>1, <1>2 DEF HowMuchTimeFromNow, TypeOK, Time
        <4> QED BY <4>1, <4>3, <4>4 DEF fdVars, TypeOK
      <3> QED BY <2>1, <3>1, <3>2 DEF Time
    <2>3. TypeOK'
      BY <1>1, <1>2, <2>2 DEF TypeOK, Reset, Dropped, Waiting, MustArm, clockVars, Repeated
    <2>4. Armed' /\ NeverLate'
      BY <2>2 DEF Armed, NeverLate, HowMuchTimeFromNow, Reset, Dropped, Waiting, MustArm, clockVars
    <2> QED BY <1>3, <1>4, <2>3, <2>4
  <1> QED BY <1>5, <1>6 DEF Reset, Dropped, Waiting, MustArm

LEMMA TickPreserves == Inv /\ Tick => Inv'
  <1> SUFFICES ASSUME Inv, Tick PROVE Inv'
    OBVIOUS
  <1> USE TimeAssumption DEF Inv, Tick, timerVars, runVars, AddTime, Time
  <1>1. TypeOK'
    <2>1. clock' \in Time /\ left' \in 0 .. MaxTime + 1
      BY DEF TypeOK
    <2>2. readable' \in BOOLEAN
      OBVIOUS
    <2> QED BY <2>1, <2>2 DEF TypeOK
  <1>2. PlaceInv'
    BY DEF PlaceInv
  <1>3. ZeroInv'
    <2>1. readable \/ left = 1 => readable'
      BY DEF TypeOK
    <2> QED BY <2>1 DEF ZeroInv
  <1>5. Armed'
    <2>1. left > 0 => left' > 0 \/ left = 1
      BY DEF TypeOK
    <2>2. (left = 1 => readable') /\ (readable => readable')
      OBVIOUS
    <2> QED BY <2>1, <2>2 DEF Armed
  <1>4. NeverLate'
    <2> SUFFICES ASSUME pc = "loop", steps = 0, NEW t \in timers, ~readable', ~reported
                 PROVE  left' > 0 /\ left' <= HowMuchTimeFromNow(expiration[t])'
      BY DEF NeverLate
    <2>1. left > 0 /\ left <= HowMuchTimeFromNow(expiration[t]) /\ left # 1
      BY DEF NeverLate, TypeOK
    <2>2. expiration[t] \in 0 .. MaxTime
      BY DEF TypeOK
    <2> QED BY <2>1, <2>2 DEF HowMuchTimeFromNow, TypeOK
  <1> QED BY <1>1, <1>2, <1>3, <1>4, <1>5

LEMMA SetClockPreserves == Inv /\ SetClock => Inv'
  BY TimeAssumption DEF Inv, TypeOK, PlaceInv, ZeroInv, Armed, NeverLate, SetClock,
     fdVars, timerVars, runVars

LEMMA NextInv == Inv /\ [Next]_vars => Inv'
  <1> SUFFICES ASSUME Inv, [Next]_vars PROVE Inv'
    OBVIOUS
  <1>1. CASE \E t \in Timers, w \in Time, i \in Intervals :
               AddTimer(t, w, i) \/ AddTimerHere(t, w, i)
    BY <1>1, AddTimerPreserves, AddTimerHerePreserves
  <1>2. CASE \E t \in Timers : AddTimerInLoop(t) \/ Run(t)
    BY <1>2, AddTimerInLoopPreserves, RunPreserves
  <1>3. CASE Poll \/ HandleRead \/ Reset
    BY <1>3, PollPreserves, HandleReadPreserves, ResetPreserves
  <1>4. CASE Tick \/ SetClock
    BY <1>4, TickPreserves, SetClockPreserves
  <1>5. CASE UNCHANGED vars
    BY <1>5 DEF Inv, TypeOK, PlaceInv, ZeroInv, Armed, NeverLate, HowMuchTimeFromNow,
                vars, clockVars, fdVars, timerVars, runVars
  <1> QED BY <1>1, <1>2, <1>3, <1>4, <1>5 DEF Next, LoopSteps

LEMMA Invariance == Spec => []Inv
  BY InitInv, NextInv, PTL DEF Spec

\* The state of the timer queue keeps its type.
THEOREM TypeCorrect == Spec => []TypeOK
  <1>1. Inv => TypeOK
    BY DEF Inv
  <1> QED BY <1>1, Invariance, PTL

\* A waiting timer always has the timerfd armed or expired (addTimerInLoop, reset),
\* whatever is done to the wall clock.
THEOREM AlwaysArmed == Spec => []Armed
  <1>1. Inv => Armed
    BY DEF Inv
  <1> QED BY <1>1, Invariance, PTL

\* And unless the wall clock is set, it expires by the tick at which a timer is due
\* (howMuchTimeFromNow, insert).
THEOREM IsNeverLate == Spec => []NeverLate
  <1>1. Inv => NeverLate
    BY DEF Inv
  <1> QED BY <1>1, Invariance, PTL

\* No timer is used after reset() has deleted it.
THEOREM NothingDangles == Spec => []NoDangling
  <1>1. Inv => NoDangling
    BY DEF Inv, PlaceInv, NoDangling
  <1> QED BY <1>1, Invariance, PTL
=============================================================================
