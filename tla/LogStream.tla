----------------------------- MODULE LogStream -----------------------------
(***************************************************************************)
(* The making of a log line (src/LogStream.cpp, src/Logging.cpp): a Logger *)
(* stamps the line with the time, its thread and its level, the caller     *)
(* streams strings and integers, and the destructor ends the line and      *)
(* hands it to g_output.  The line lives in a FixedBuffer that drops what  *)
(* does not fit, piece by piece, and the calendar time of the last second  *)
(* is kept per thread.                                                     *)
(*                                                                         *)
(* A piece that was appended is one item of text, whatever its length;     *)
(* cur_ and the sizes are the code's, in bytes.  Thread ids have at most   *)
(* five digits: cacheTid asserts it.  Doubles and pointers are left out.   *)
(* LOG_TRACE, LOG_DEBUG and LOG_INFO compare LogLevel(), a TRACE, and not  *)
(* logLevel(): every line is made, whatever setLogLevel was given.         *)
(***************************************************************************)
EXTENDS Integers, Sequences, SequencesExt

CONSTANTS
  Threads,
  Seconds,    \* bound: the readings of the clock
  Bits,       \* width of an integer
  Lengths,    \* bound: lengths of the strings that are streamed
  MaxPieces   \* bound: what a caller streams to a line

kSmallBuffer == 4000
kMaxNumericSize == 32

ASSUME SecondsAssumption == Seconds \subseteq Nat \ {0}
ASSUME BitsAssumption == Bits \in 1 .. 64
ASSUME LengthsAssumption == Lengths \subseteq Nat /\ MaxPieces \in Nat

\* bound: the values of the signed type, errno and __LINE__ among them
SignedInts == {-(2 ^ (Bits - 1)), 0, 2 ^ (Bits - 1) - 1}

\* bound: the integers that are streamed, up to the last of the unsigned type
Ints == SignedInts \cup {2 ^ Bits - 1}

VARIABLES
  lastSecond,   \* t_lastSecond
  time,         \* t_time, by the second it shows
  pc, second,   \* how far the thread's Logger is; the second of its time_
  level,
  buffer,       \* the FixedBuffer of its LogStream
  pieces        \* streamed so far

vars == <<lastSecond, time, pc, second, level, buffer, pieces>>

----------------------------------------------------------------------------
(* convert.                                                                *)

\* C's i / 10 and i % 10, which truncate towards 0.
Quotient(i) == IF i < 0 THEN -((-i) \div 10) ELSE i \div 10
Lsd(i) == i - 10 * Quotient(i)

\* The table of digits is mirrored: zero[-d] is the digit zero[d].
Zero(lsd) == IF lsd < 0 THEN -lsd ELSE lsd

\* Mutated form: while (i > 0).
MorePositive(i) == i > 0

\* while (i != 0)
More(i) == i # 0

\* The loop and the reversal.
Digits[i \in Int] ==
  (IF More(Quotient(i)) THEN Digits[Quotient(i)] ELSE <<>>) \o <<Zero(Lsd(i))>>

Convert(value) == [minus |-> value < 0, digits |-> Digits[value]]

Length(numeral) == Len(numeral.digits) + (IF numeral.minus THEN 1 ELSE 0)

----------------------------------------------------------------------------
(* FixedBuffer and LogStream.  reach is how far data_ was written.         *)

EmptyBuffer == [text |-> <<>>, cur |-> 0, reach |-> 0]

Avail(b) == kSmallBuffer - b.cur

Add(b, item, len, end) ==
  [text |-> Append(b.text, item), cur |-> b.cur + len, reach |-> b.cur + end]

\* Nothing is appended in part, and the last byte is never used.
BufferAppend(b, item, len) == IF Avail(b) > len THEN Add(b, item, len, len) ELSE b

\* Mutated form: an integer is taken while there is any room.
RoomForAny(b) == Avail(b) > 0

RoomForNumber(b) == Avail(b) >= kMaxNumericSize

\* convert writes to data_ itself, and a NUL at the end.
FormatInteger(b, v) ==
  LET numeral == Convert(v) IN
  IF RoomForNumber(b)
    THEN Add(b, <<"int", v, numeral>>, Length(numeral), Length(numeral) + 1)
    ELSE b

String(b, len) == BufferAppend(b, <<"string", len>>, len)

----------------------------------------------------------------------------
(* Logger.                                                                 *)

Init ==
  /\ lastSecond = [t \in Threads |-> 0] /\ time = [t \in Threads |-> 0]
  /\ pc = [t \in Threads |-> "idle"] /\ second = [t \in Threads |-> 0]
  /\ level = [t \in Threads |-> "INFO"]
  /\ buffer = [t \in Threads |-> EmptyBuffer] /\ pieces = [t \in Threads |-> 0]

\* Mutated form: the variables are not __thread, and all threads share them.
CacheShared(t) == CHOOSE u \in Threads : TRUE

\* The thread whose t_lastSecond and t_time a thread uses.
Cache(t) == t

\* Impl::Impl takes the time, and formatTime looks whether the second is new.
Construct(t) ==
  /\ pc[t] = "idle"
  /\ \E s \in Seconds, l \in {"INFO", "ERROR", "FATAL"} :
       /\ second' = [second EXCEPT ![t] = s]
       /\ level' = [level EXCEPT ![t] = l]
       /\ lastSecond' = [lastSecond EXCEPT ![Cache(t)] = s]
       /\ pc' = [pc EXCEPT ![t] = IF s # lastSecond[Cache(t)] THEN "gmtime" ELSE "stamp"]
  /\ UNCHANGED <<time, buffer, pieces>>

\* gmtime_r and snprintf into t_time
FormatSecond(t) ==
  /\ pc[t] = "gmtime"
  /\ time' = [time EXCEPT ![Cache(t)] = second[t]]
  /\ pc' = [pc EXCEPT ![t] = "stamp"]
  /\ UNCHANGED <<lastSecond, second, level, buffer, pieces>>

\* The date and microseconds, the thread, and the level.
Header(t) ==
  LET date == BufferAppend(EmptyBuffer, <<"time", time[Cache(t)]>>, 17)
  IN  String(String(String(date, 9), 5), IF level[t] = "INFO" THEN 4 ELSE 5)

\* strerror_tl(savedErrno) << " (errno=" << savedErrno << ") "
SavedErrno(b, errno) == String(FormatInteger(String(String(b, 17), 8), errno), 2)

\* The rest of the constructor: LOG_INFO and below add the function's name,
\* the LOG_SYS macros errno if it is not 0.
Stamp(t) ==
  /\ pc[t] = "stamp"
  /\ buffer' \in
       {[buffer EXCEPT ![t] = b] : b \in
          IF level[t] = "INFO" THEN {String(String(Header(t), 4), 1)}
          ELSE {Header(t)} \cup {SavedErrno(Header(t), errno) : errno \in SignedInts \ {0}}}
  /\ pc' = [pc EXCEPT ![t] = "stream"]
  /\ UNCHANGED <<lastSecond, time, second, level, pieces>>

\* operator<< of the caller
Stream(t) ==
  /\ pc[t] = "stream" /\ pieces[t] < MaxPieces
  /\ \/ \E v \in Ints : buffer' = [buffer EXCEPT ![t] = FormatInteger(@, v)]
     \/ \E len \in Lengths : buffer' = [buffer EXCEPT ![t] = String(@, len)]
  /\ pieces' = [pieces EXCEPT ![t] = @ + 1]
  /\ UNCHANGED <<lastSecond, time, pc, second, level>>

\* Impl::finish: " - " << basename_ << ":" << line_ << '\n'
Finish(b, line) ==
  BufferAppend(FormatInteger(String(String(String(b, 3), 13), 1), line), <<"newline">>, 1)

\* ~Logger: the line is ended and handed to g_output.
Output(t) ==
  /\ pc[t] = "stream"
  /\ \E line \in SignedInts : line > 0 /\ buffer' = [buffer EXCEPT ![t] = Finish(@, line)]
  /\ pc' = [pc EXCEPT ![t] = "output"]
  /\ UNCHANGED <<lastSecond, time, second, level, pieces>>

\* g_output has returned; a FATAL line is followed by g_flush, and no abort().
\* Both functions are outside of this module.
Destroy(t) ==
  /\ pc[t] = "output"
  /\ pc' = [pc EXCEPT ![t] = "idle"]
  /\ buffer' = [buffer EXCEPT ![t] = EmptyBuffer]
  /\ pieces' = [pieces EXCEPT ![t] = 0]
  /\ UNCHANGED <<lastSecond, time, second, level>>

Next == \E t \in Threads :
  Construct(t) \/ FormatSecond(t) \/ Stamp(t) \/ Stream(t) \/ Output(t) \/ Destroy(t)

Spec == Init /\ [][Next]_vars

----------------------------------------------------------------------------
(* Properties.                                                             *)

\* A line shows the second it was made in, whatever the other threads log
\* meanwhile and even if the clock was set back (Impl::formatTime).
ShowsItsSecond ==
  \A t \in Threads : pc[t] = "output" => Head(buffer[t].text) = <<"time", second[t]>>

\* The number that digits stand for.
Value(digits) ==
  LET value[n \in 0 .. Len(digits)] == IF n = 0 THEN 0 ELSE 10 * value[n - 1] + digits[n]
  IN  value[Len(digits)]

\* The number a numeral stands for.
ValueOf(numeral) == (IF numeral.minus THEN -1 ELSE 1) * Value(numeral.digits)

\* An integer is shown as the numeral that stands for it, without leading
\* zeros, the smallest and the greatest of the signed type, the greatest of the
\* unsigned one and 0 included (convert).
NumeralsRight ==
  \A t \in Threads : \A k \in DOMAIN buffer[t].text :
    LET item == buffer[t].text[k] IN
    Head(item) = "int" =>
      /\ ValueOf(item[3]) = item[2]
      /\ Len(item[3].digits) > 1 => Head(item[3].digits) # 0

\* However much is streamed to it, a line stays in its buffer, the NUL of
\* convert included; and it ends in a newline, without which it would run into
\* the next line of the log, unless it is filled to the last byte but one.
LineInBuffer ==
  \A t \in Threads :
    /\ buffer[t].reach <= kSmallBuffer
    /\ pc[t] = "output" /\ buffer[t].cur < kSmallBuffer - 1
         => Last(buffer[t].text) = <<"newline">>
=============================================================================
