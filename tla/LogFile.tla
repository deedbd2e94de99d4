------------------------------ MODULE LogFile ------------------------------
(***************************************************************************)
(* The log file and its rolling (src/LogFile.cpp).  A new file, named by   *)
(* the second, is begun when the current one has grown too large, or when  *)
(* the day has changed, which is looked at every kCheckTimeRoll_ + 2       *)
(* appends only.  The File that is rolled away is neither closed nor       *)
(* flushed: what stdio holds back of it stays there until the process      *)
(* exits.                                                                  *)
(*                                                                         *)
(* Data is a sequence of lines, and sizes count lines.  time() may return  *)
(* any reading, the wall clock being set forth and back, even between the  *)
(* two calls of one append: now is what append_unlocked reads, and then    *)
(* what rollFile reads.                                                    *)
(*                                                                         *)
(* stdio is taken to hold back as much as its buffer takes, and to lose    *)
(* what it holds back when a write(2) of it fails, as the GNU C library    *)
(* does, be it within fwrite, which may count those lines as written, or   *)
(* within fflush, whose result nobody looks at.  The lines lost within one *)
(* append are taken to be in one piece.                                    *)
(***************************************************************************)
EXTENDS Integers, Sequences, SequencesExt

CONSTANTS
  RollSize,        \* rollSize_
  FlushInterval,   \* flushInterval_
  CheckTimeRoll,   \* kCheckTimeRoll_
  RollPerSeconds,  \* kRollPerSeconds_
  StdioSize,       \* sizeof(buffer_) of a File
  Seconds          \* bound: the readings of time()

ASSUME RollAssumption ==
  /\ RollSize \in Nat /\ FlushInterval \in Nat /\ StdioSize \in Nat
  /\ CheckTimeRoll \in Nat /\ RollPerSeconds \in Nat \ {0}
ASSUME SecondsAssumption == Seconds \subseteq Nat \ {0}

VARIABLES
  files,           \* every File made, the last being file_
  count,           \* count_
  startOfPeriod, lastRoll, lastFlush,
  past,            \* the last append was at a time past lastRoll_
  failed,          \* fwrite or fflush has failed to write a line
  stale            \* history: appends in a row that went to the file of
                   \* another day, though the clock was past lastRoll_

logFileVars == <<files, count, startOfPeriod, lastRoll, lastFlush, past, failed,
                 stale>>

----------------------------------------------------------------------------
(* class File.  kernel counts the lines that the kernel has got for sure.  *)

\* ok: fopen has succeeded.  If not, assert(fp_) ends the process.
NewFile(t, ok) ==
  [name |-> t, data |-> <<>>, writtenBytes |-> 0, kernel |-> 0, fp |-> ok]

\* The length counts in full, be it written or not.
Written(f, data) == f.writtenBytes + Len(data)

\* Mutated form: the second write does not go on where the first one ended.
RetryFromStart(data, n, x) == SubSeq(data, 1, x)

\* write(logline + n, remain), which takes x lines more.
Retry(data, n, x) == SubSeq(data, n + 1, n + x)

\* What stdio has been given of f when File::append got n lines of data through,
\* and then x.
Taken(f, data, n, x) == f.data \o SubSeq(data, 1, n) \o Retry(data, n, x)

\* s without what comes after its first a and up to its first b lines.
Without(s, a, b) == SubSeq(s, 1, a) \o SubSeq(s, b + 1, Len(s))

\* File::append, in which stdio loses what comes after the first a and up to the
\* first b of the lines it has been given.
FileAppend(f, data, n, x, a, b) ==
  LET left == Without(Taken(f, data, n, x), a, b)
      sure == IF a < b THEN a ELSE f.kernel IN
  [f EXCEPT !.data = left, !.writtenBytes = Written(f, data),
            !.kernel = IF Len(left) - StdioSize > sure THEN Len(left) - StdioSize
                       ELSE sure]

\* File::flush, of which the kernel gets the first m lines.
FileFlush(f, m) == [f EXCEPT !.data = SubSeq(@, 1, m), !.kernel = m]

\* The files fs when file_ has become f.
SetLast(fs, f) == [fs EXCEPT ![Len(fs)] = f]

----------------------------------------------------------------------------
(* class LogFile.                                                          *)

Period(t) == (t \div RollPerSeconds) * RollPerSeconds

\* file_->flush() on the files fs; lost: fwrite has failed before.
Flush(fs, lost) ==
  \E m \in Last(fs).kernel .. Len(Last(fs).data) :
    /\ files' = SetLast(fs, FileFlush(Last(fs), m))
    /\ failed' = (lost \/ m < Len(Last(fs).data))

\* File names have seconds.
MayRoll(t) == t > lastRoll

RollFile(fs, t) ==
  \/ /\ MayRoll(t)
     /\ lastRoll' = t /\ lastFlush' = t /\ startOfPeriod' = Period(t)
     /\ \E ok \in BOOLEAN : files' = Append(fs, NewFile(t, ok))
  \/ /\ ~MayRoll(t)
     /\ files' = fs
     /\ UNCHANGED <<lastRoll, lastFlush, startOfPeriod>>

\* Mutated form: one append late.
TimeToCheckLate == count > CheckTimeRoll + 1

TimeToCheck == count > CheckTimeRoll

\* The rest of append_unlocked, once a look at the clock is due.
CheckTime(fs, lost, now, then) ==
  \/ Period(now) # startOfPeriod /\ RollFile(fs, then) /\ failed' = lost
  \/ /\ Period(now) = startOfPeriod
     /\ \/ /\ now - lastFlush > FlushInterval
           /\ lastFlush' = now
           /\ Flush(fs, lost)
        \/ /\ now - lastFlush <= FlushInterval
           /\ files' = fs /\ failed' = lost
           /\ UNCHANGED lastFlush
     /\ UNCHANGED <<lastRoll, startOfPeriod>>

\* append_unlocked, after file_->append has made the files fs.
AppendUnlocked(fs, lost, now, then) ==
  \/ /\ Last(fs).writtenBytes > RollSize
     /\ RollFile(fs, then)
     /\ failed' = lost
     /\ UNCHANGED count
  \/ /\ Last(fs).writtenBytes <= RollSize
     /\ \/ TimeToCheck /\ count' = 0 /\ CheckTime(fs, lost, now, then)
        \/ /\ ~TimeToCheck
           /\ count' = count + 1
           /\ files' = fs /\ failed' = lost
           /\ UNCHANGED <<lastRoll, lastFlush, startOfPeriod>>

LogFileAppend(data) ==
  \E n \in 0 .. Len(data) : \E x \in 0 .. Len(data) - n :
  \E a \in Last(files).kernel .. Len(Taken(Last(files), data, n, x)) :
  \E b \in a .. Len(Taken(Last(files), data, n, x)), now, then \in Seconds :
    /\ AppendUnlocked(SetLast(files, FileAppend(Last(files), data, n, x, a, b)),
                      failed \/ n + x < Len(data) \/ a < b, now, then)
    /\ past' = (now > lastRoll' /\ then > lastRoll')
    /\ stale' = IF \/ Len(files') > Len(files)
                   \/ now \div RollPerSeconds = startOfPeriod \div RollPerSeconds
                   \/ now <= lastRoll \/ then <= lastRoll
                THEN 0 ELSE stale + 1

LogFileFlush == Flush(files, failed)

\* The constructor: rollFile with all times 0.  The first fopen succeeds.
LogFileInit ==
  /\ lastRoll \in Seconds
  /\ files = <<NewFile(lastRoll, TRUE)>>
  /\ lastFlush = lastRoll /\ startOfPeriod = Period(lastRoll)
  /\ count = 0 /\ past = FALSE /\ failed = FALSE /\ stale = 0

----------------------------------------------------------------------------
(* Properties.                                                             *)

\* What the files hold, read one after the other.
Log == FlattenSeq([k \in DOMAIN files |-> files[k].data])

\* The names put the files into the order in which they were written, and no
\* two Files share one, whatever the clock does (LogFile::rollFile).
NamesInOrder == \A j, k \in DOMAIN files : j < k => files[j].name < files[k].name

\* A file is left behind in time.  Once the clock has passed the second of the
\* last roll, the current file has no more than rollSize_: one outgrows it only
\* within its first second, or while the clock is set back.  And after midnight
\* at most kCheckTimeRoll_ + 1 appends in a row still go to yesterday's file,
\* again unless the clock was set back; rolls for size in between do not hold
\* the check up (append_unlocked, rollFile).
RollsInTime ==
  /\ past => Len(Last(files).data) <= RollSize
  /\ stale <= CheckTimeRoll + 1
=============================================================================
