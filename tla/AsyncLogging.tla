---------------------------- MODULE AsyncLogging ----------------------------
(***************************************************************************)
(* The asynchronous log (src/AsyncLogging.cpp): front-end threads append   *)
(* lines to currentBuffer_ under mutex_, the logging thread takes the      *)
(* buffers over and writes them to its LogFile.                            *)
(*                                                                         *)
(* Buffers are raw pointers, so std::move copies the pointer and leaves    *)
(* its source as it was: nextBuffer_ is never NULL, the branch that makes  *)
(* a new Buffer is dead, and newBuffer2 is never given away.  The model    *)
(* follows the pointers.  A line is its number in the order in which the   *)
(* threads got the mutex, and buffers are measured in lines.  A buffer is  *)
(* read as a whole by the logging thread, which does not hold the mutex.   *)
(*                                                                         *)
(* The logging thread waits when no buffer is full, until notify() or for  *)
(* flushInterval_ seconds, once: what follows is the same either way, so   *)
(* the wait is no step of its own.                                         *)
(***************************************************************************)
EXTENDS LogFile

CONSTANTS
  Capacity,   \* lines a Buffer takes (kLargeBuffer bytes)
  MaxLines    \* bound: lines appended in a behaviour

ASSUME CapacityAssumption == Capacity \in Nat \ {0}
ASSUME MaxLinesAssumption == MaxLines \in Nat

Null == 0
Buffers == 1 .. 4    \* the two of the constructor, the two of threadFunc
newBuffer2 == 4

VARIABLES
  content,         \* the lines in each buffer
  currentBuffer, nextBuffer, buffers,   \* guarded by mutex_
  newBuffer1, buffersToWrite,           \* local to threadFunc
  pc,              \* where the logging thread is
  i,               \* buffers of buffersToWrite that have been written
  running,         \* running_
  appended,        \* lines appended so far
  aborted          \* an assert of threadFunc has failed

frontVars == <<currentBuffer, nextBuffer, buffers, appended>>
threadVars == <<newBuffer1, buffersToWrite, pc, i>>
vars == <<content, frontVars, threadVars, running, aborted, logFileVars>>

\* start() has returned, and threadFunc has come to its loop.
Init ==
  /\ content = [b \in Buffers |-> <<>>]
  /\ currentBuffer = 1 /\ nextBuffer = 2 /\ buffers = <<>>
  /\ newBuffer1 = 3 /\ buffersToWrite = <<>>
  /\ pc = "top" /\ i = 0
  /\ running = TRUE /\ aborted = FALSE
  /\ appended = 0
  /\ LogFileInit

----------------------------------------------------------------------------
(* The front end.                                                          *)

\* avail() > len
Fits(b) == Len(content[b]) < Capacity

\* FixedBuffer::append drops a line that does not fit.
BufferAppend(b, line) ==
  content' = [content EXCEPT ![b] = IF Fits(b) THEN Append(@, line) ELSE @]

\* Mutated form: a full buffer is not queued.
PushFullNot == buffers

\* buffers_.push_back(currentBuffer_)
PushFull == Append(buffers, currentBuffer)

\* A buffer that is full goes to the others; nextBuffer_, which stays set,
\* takes its place.
AppendLine ==
  /\ appended < MaxLines
  /\ \/ /\ Fits(currentBuffer)
        /\ BufferAppend(currentBuffer, appended + 1)
        /\ UNCHANGED <<buffers, currentBuffer>>
     \/ /\ ~Fits(currentBuffer)
        /\ buffers' = PushFull
        /\ currentBuffer' = nextBuffer
        /\ BufferAppend(nextBuffer, appended + 1)
  /\ appended' = appended + 1
  /\ UNCHANGED <<nextBuffer, threadVars, running, aborted, logFileVars>>

\* The first line of stop(); the join ends when pc is done.
Stop ==
  /\ running
  /\ running' = FALSE
  /\ UNCHANGED <<content, frontVars, threadVars, aborted, logFileVars>>

----------------------------------------------------------------------------
(* The logging thread.                                                     *)

Empty(b) == b # Null /\ content[b] = <<>>

\* Mutated form: running_ is not looked at.
GoOnAlways == TRUE

\* while (running_)
GoOn == running

\* The head of the loop and the asserts that follow it, or the last flush.
Top ==
  /\ pc = "top"
  /\ \/ /\ GoOn
        /\ pc' = "take"
        /\ aborted' = ~(Empty(newBuffer1) /\ Empty(newBuffer2)
                          /\ buffersToWrite = <<>>)
        /\ UNCHANGED <<files, failed>>
     \/ ~GoOn /\ pc' = "done" /\ LogFileFlush /\ UNCHANGED aborted
  /\ UNCHANGED <<content, frontVars, newBuffer1, buffersToWrite, i, running, count,
                 startOfPeriod, lastRoll, lastFlush, past, stale>>

\* Mutated form: without a full buffer the wait starts again.
WaitEndsFull == buffers # <<>>

\* waitForSeconds, which ends by itself if notify() does not come.
WaitEnds == TRUE

\* The critical section: currentBuffer_ goes with the full buffers and
\* newBuffer1 takes its place.
Take ==
  /\ pc = "take" /\ WaitEnds
  /\ buffersToWrite' = PushFull
  /\ buffers' = <<>>
  /\ currentBuffer' = newBuffer1
  /\ newBuffer1' = Null
  /\ i' = 0
  /\ pc' = "write"
  /\ UNCHANGED <<content, nextBuffer, appended, running, aborted, logFileVars>>

WriteBuffer ==
  /\ pc = "write" /\ i < Len(buffersToWrite)
  /\ i' = i + 1
  /\ UNCHANGED <<content, frontVars, newBuffer1, buffersToWrite, pc, running, aborted>>
  /\ LogFileAppend(content[buffersToWrite[i + 1]])

\* The last of the first two buffers that were written is kept for the next
\* round, the others are dropped.
Kept == buffersToWrite[IF Len(buffersToWrite) > 2 THEN 2 ELSE Len(buffersToWrite)]

\* Mutated form: the buffer is left as it is.
ResetNot(b) == content

\* newBuffer1->reset()
ResetBuffer(b) == [content EXCEPT ![b] = <<>>]

\* The end of a round.
Recycle ==
  /\ pc = "write" /\ i = Len(buffersToWrite)
  /\ newBuffer1' = Kept
  /\ content' = ResetBuffer(Kept)
  /\ buffersToWrite' = <<>>
  /\ i' = 0
  /\ pc' = "top"
  /\ LogFileFlush
  /\ UNCHANGED <<frontVars, running, aborted, count, startOfPeriod, lastRoll,
                 lastFlush, past, stale>>

----------------------------------------------------------------------------
LoggingThread == Top \/ Take \/ WriteBuffer \/ Recycle

\* No assert has failed: neither one of threadFunc nor the one of File.
Alive == ~aborted /\ Last(files).fp

Next == Alive /\ (AppendLine \/ Stop \/ LoggingThread)

Spec == Init /\ [][Next]_vars

\* The logging thread runs; its wait ends after flushInterval_ at the latest.
FairSpec == Spec /\ WF_vars(Alive /\ LoggingThread)

----------------------------------------------------------------------------
(* Properties.                                                             *)

Contents(bs) == FlattenSeq([k \in DOMAIN bs |-> content[bs[k]]])

\* No line is lost, doubled or moved on its way, as long as writes succeed:
\* what is in the files in the order of their names, what the logging thread
\* has still to write, the full buffers and the current one make up the lines
\* in the order they were appended.
InOrderOnce ==
  /\ NamesInOrder
  /\ ~failed => Log \o Contents(SubSeq(buffersToWrite, i + 1, Len(buffersToWrite)))
                    \o Contents(buffers) \o content[currentBuffer]
                  = [k \in 1 .. appended |-> k]

\* The asserts of threadFunc: the buffers it is about to hand out are empty.
AssertsHold == ~aborted

\* Whatever fails, no line is doubled or moved: the files, what the logging
\* thread has still to write, the full buffers and the current one hold lines in
\* the order they were appended, each at most once.  File::append goes on where
\* its first write ended, and no line that fflush failed to write is given to
\* a File again.
NeverDoubled ==
  LET all == Log \o Contents(SubSeq(buffersToWrite, i + 1, Len(buffersToWrite)))
                 \o Contents(buffers) \o content[currentBuffer]
  IN \A j, k \in DOMAIN all : j < k => all[j] < all[k]

\* A line that was appended gets into a file, unless a write or an fopen fails or
\* stop() is called.
EventuallyWritten ==
  \A line \in 1 .. MaxLines :
    appended >= line ~> \/ failed \/ ~running \/ ~Last(files).fp
                        \/ \E k \in DOMAIN files : Contains(files[k].data, line)

\* stop() returns: its join is not left waiting, unless fopen fails, which ends
\* the process.
StopReturns == ~running ~> pc = "done" \/ ~Last(files).fp
=============================================================================
