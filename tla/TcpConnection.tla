---------------------------- MODULE TcpConnection ----------------------------
(***************************************************************************)
(* The output side of one established connection (src/TcpConnection.cpp):  *)
(* send and shutdown, called in the connection's loop or by other threads  *)
(* that hold a TcpConnectionPtr, the functors they leave in the loop, and  *)
(* handleWrite; and how the connection ends meanwhile.                     *)
(*                                                                         *)
(* The kernel takes bytes as long as the socket has room, which the peer   *)
(* makes by reading.  The functors of send and shutdown are bound to the   *)
(* raw this, the one of connectDestroyed to a shared pointer.  The test of *)
(* state_, its assignment and the queueing are separate steps of a foreign *)
(* thread.                                                                 *)
(*                                                                         *)
(* broken tells what has ended the process: a failed assert, or a functor  *)
(* that ran on a connection that was gone.  The write-complete callback,   *)
(* which the program does not set, is left out.                            *)
(***************************************************************************)
EXTENDS Naturals, Sequences, SequencesExt, FiniteSets, FiniteSetsExt

CONSTANTS
  Threads,    \* the foreign threads
  MsgSize,    \* bytes in a message
  Room,       \* bytes the socket buffers
  MaxMsgs     \* bound: messages sent in a behaviour

ASSUME SizeAssumption == MsgSize \in Nat \ {0} /\ Room \in Nat \ {0}
ASSUME MaxMsgsAssumption == MaxMsgs \in Nat
ASSUME ThreadsAssumption == IsFiniteSet(Threads)

VARIABLES
  state,         \* state_
  registered,    \* the channel is in the poller
  polled,        \* ... and its entry is not ignored; it then reads, too
  writing,       \* channel_->isWriting()
  outputBuffer,  \* outputBuffer_
  wire,          \* history: the bytes the kernel has taken
  sent,          \* history: the bytes of the messages sendInLoop was given
  room,          \* free bytes in the socket
  fin,           \* shutdownWrite() was called
  peer,          \* the other end: "open" or "closed"
  inMap,         \* the server's map refers to the connection
  closing,       \* handleClose has asked the server to remove it
  pending,       \* pendingFunctors_ of the loop, those of this connection
  batch,         \* what doPendingFunctors has still to run
  phase,         \* the loop is at its "handlers" or at its "functors"
  held,          \* the running batch holds a TcpConnectionPtr
  call,          \* where each foreign thread is
  msgs,          \* messages sent so far
  broken         \* "no", "assert" or "freed"

connVars == <<state, registered, polled, writing>>
dataVars == <<outputBuffer, wire, sent, room, fin>>
lifeVars == <<inMap, closing>>
loopVars == <<batch, phase, held>>
vars == <<connVars, dataVars, peer, lifeVars, pending, loopVars, call, msgs, broken>>

Bytes(m) == [k \in 1 .. MsgSize |-> <<m, k>>]
Byte == (1 .. MaxMsgs) \X (1 .. MsgSize)

SendFunctor(m) == [call |-> "sendInLoop", msg |-> m]
ShutdownFunctor == [call |-> "shutdownInLoop", msg |-> 0]
DestroyFunctor == [call |-> "connectDestroyed", msg |-> 0]
Functor == {SendFunctor(m) : m \in 1 .. MaxMsgs} \cup {ShutdownFunctor, DestroyFunctor}

TypeOK ==
  /\ state \in {"kConnected", "kDisconnecting", "kDisconnected"}
  /\ registered \in BOOLEAN /\ polled \in BOOLEAN /\ writing \in BOOLEAN
  /\ outputBuffer \in Seq(Byte) /\ wire \in Seq(Byte) /\ sent \in Seq(Byte)
  /\ room \in 0 .. Room
  /\ fin \in BOOLEAN /\ inMap \in BOOLEAN /\ closing \in BOOLEAN
  /\ peer \in {"open", "closed"}
  /\ pending \in Seq(Functor) /\ batch \in Seq(Functor)
  /\ phase \in {"handlers", "functors"} /\ held \in BOOLEAN
  /\ call \in [Threads -> {"idle", "send", "shutdown", "disconnecting", "gone"}]
  /\ msgs \in 0 .. MaxMsgs
  /\ broken \in {"no", "assert", "freed"}

\* connectEstablished has run.
Init ==
  /\ state = "kConnected"
  /\ registered = TRUE /\ polled = TRUE /\ writing = FALSE
  /\ outputBuffer = <<>> /\ wire = <<>> /\ sent = <<>>
  /\ room = Room /\ fin = FALSE /\ peer = "open"
  /\ inMap = TRUE /\ closing = FALSE
  /\ pending = <<>> /\ batch = <<>> /\ phase = "handlers" /\ held = FALSE
  /\ call = [t \in Threads |-> "idle"]
  /\ msgs = 0 /\ broken = "no"

\* Something refers to the connection object.
Alive == \/ inMap \/ held
         \/ Contains(pending, DestroyFunctor)
         \/ \E t \in Threads : call[t] # "gone"

----------------------------------------------------------------------------
(* ::write(2) on the non-blocking socket.                                  *)

\* How many of len bytes it may take.
Taken(len) == IF fin THEN {}
              ELSE IF len = 0 THEN {0}
              ELSE {n \in 1 .. len : n <= room}

\* It may return -1: no room, FIN already sent, or the peer is gone.
WriteFails(len) == (len > 0 /\ room = 0) \/ fin \/ peer = "closed"

----------------------------------------------------------------------------
(* In the loop thread.                                                     *)

\* channel_->enableWriting(); updateChannel asserts that the channel is known.
EnableWriting == /\ writing' = TRUE
                 /\ broken' = IF registered THEN "no" ELSE "assert"

\* What was not written goes to outputBuffer_.
Leave(rest) ==
  /\ outputBuffer' = outputBuffer \o rest
  /\ \/ rest # <<>> /\ ~writing /\ EnableWriting
     \/ (rest = <<>> \/ writing) /\ UNCHANGED <<writing, broken>>

\* Mutated form: as many bytes as the message has, counted from the first that
\* was not written, and so beyond its end.
RestTooLong(m, n) == [k \in IF n < MsgSize THEN 1 .. MsgSize ELSE {} |-> <<m, n + k>>]

\* message.data()+nwrote, message.size()-nwrote
Rest(m, n) == SubSeq(Bytes(m), n + 1, MsgSize)

\* Nothing is waiting, so the message is written directly, up to its first NUL
\* (strlen), and the rest is left.
WriteDirectly(m) ==
  \E len \in 0 .. MsgSize :
    \/ \E n \in Taken(len) :
         /\ wire' = wire \o SubSeq(Bytes(m), 1, n)
         /\ room' = room - n
         /\ sent' = sent \o Bytes(m)
         /\ Leave(Rest(m, n))
    \/ /\ WriteFails(len)
       /\ broken' = "assert"
       /\ UNCHANGED <<wire, room, sent, outputBuffer, writing>>

\* Mutated form: output that is waiting is not looked at.
NothingWaitsEver == TRUE

\* outputBuffer_.readableBytes() == 0 && !channel_->isWriting()
NothingWaits == outputBuffer = <<>> /\ ~writing

SendInLoop(m) ==
  /\ \/ NothingWaits /\ WriteDirectly(m)
     \/ /\ ~NothingWaits
        /\ sent' = sent \o Bytes(m)
        /\ Leave(Bytes(m))
        /\ UNCHANGED <<wire, room>>
  /\ UNCHANGED <<state, registered, polled, fin>>

\* Mutated form: FIN is sent at once.
MayShutDownNow == TRUE

\* !channel_->isWriting()
MayShutDown == ~writing

ShutdownInLoop ==
  /\ fin' = (fin \/ MayShutDown)
  /\ UNCHANGED <<outputBuffer, wire, sent, room>>

ConnectDestroyed ==
  /\ broken' = IF state \in {"kConnected", "kDisconnecting"} THEN "no" ELSE "assert"
  /\ state' = "kDisconnected"
  /\ writing' = FALSE /\ polled' = FALSE /\ registered' = FALSE

InHandlers == phase = "handlers" /\ polled

MaySend == msgs + Cardinality({t \in Threads : call[t] = "send"}) < MaxMsgs

\* A callback of the connection sends; data that came before the peer closed is
\* handed to the callback afterwards, too.
SendHere ==
  /\ InHandlers
  /\ state = "kConnected" /\ MaySend
  /\ msgs' = msgs + 1
  /\ SendInLoop(msgs + 1)
  /\ UNCHANGED <<peer, lifeVars, pending, loopVars, call>>

\* A callback of the connection shuts it down.
ShutdownHere ==
  /\ InHandlers
  /\ state = "kConnected"
  /\ state' = "kDisconnecting"
  /\ ShutdownInLoop
  /\ UNCHANGED <<registered, polled, writing, peer, lifeVars, pending, loopVars,
                 call, msgs, broken>>

\* ::write takes n bytes, and outputBuffer_.retrieve(n).
Retrieve(n) ==
  /\ wire' = wire \o SubSeq(outputBuffer, 1, n)
  /\ room' = room - n
  /\ outputBuffer' = SubSeq(outputBuffer, n + 1, Len(outputBuffer))

\* Mutated form: writing stays enabled when everything has been written.
KeepWritingOn == TRUE

\* There is still output after the retrieve.
KeepWriting == outputBuffer' # <<>>

\* Mutated form: the shutdown that waited for the output is forgotten.
ShutDownAfterNot == FALSE

\* Everything is written and shutdown() has been called: shutdownInLoop, with
\* writing disabled.
ShutDownAfter == outputBuffer' = <<>> /\ state = "kDisconnecting"

\* The socket is writable.  A write that fails is logged and changes nothing.
HandleWrite ==
  /\ InHandlers /\ writing
  /\ \E n \in Taken(Len(outputBuffer)) :
       /\ n > 0
       /\ Retrieve(n)
       /\ writing' = KeepWriting
       /\ fin' = (fin \/ ShutDownAfter)
  /\ UNCHANGED <<state, registered, polled, sent, peer, lifeVars, pending,
                 loopVars, call, msgs, broken>>

\* The end of file: handleClose, and removeConnection asked of the base loop.
HandleClose ==
  /\ InHandlers /\ peer = "closed"
  /\ broken' = IF state = "kDisconnected" THEN "assert" ELSE "no"
  /\ writing' = FALSE /\ polled' = FALSE
  /\ closing' = TRUE
  /\ UNCHANGED <<state, registered, dataVars, peer, inMap, pending, loopVars, call,
                 msgs>>

SwapFunctors ==
  /\ phase = "handlers" /\ pending # <<>>
  /\ batch' = pending
  /\ held' = Contains(pending, DestroyFunctor)
  /\ pending' = <<>>
  /\ phase' = "functors"
  /\ UNCHANGED <<connVars, dataVars, peer, lifeVars, call, msgs, broken>>

RunFunctor ==
  /\ phase = "functors" /\ batch # <<>>
  /\ batch' = Tail(batch)
  /\ \/ /\ ~Alive
        /\ broken' = "freed"
        /\ UNCHANGED <<connVars, dataVars>>
     \/ /\ Alive
        /\ \/ /\ Head(batch).call = "sendInLoop"
              /\ SendInLoop(Head(batch).msg)
           \/ /\ Head(batch) = ShutdownFunctor
              /\ ShutdownInLoop
              /\ UNCHANGED <<connVars, broken>>
           \/ /\ Head(batch) = DestroyFunctor
              /\ ConnectDestroyed
              /\ UNCHANGED dataVars
  /\ UNCHANGED <<peer, lifeVars, pending, phase, held, call, msgs>>

EndFunctors ==
  /\ phase = "functors" /\ batch = <<>>
  /\ phase' = "handlers"
  /\ held' = FALSE
  /\ UNCHANGED <<connVars, dataVars, peer, lifeVars, pending, batch, call, msgs, broken>>

----------------------------------------------------------------------------
(* Other threads: the base loop, and the holders of a TcpConnectionPtr.    *)

RemoveConnectionInLoop ==
  /\ closing /\ inMap
  /\ inMap' = FALSE
  /\ pending' = Append(pending, DestroyFunctor)
  /\ UNCHANGED <<connVars, dataVars, peer, closing, loopVars, call, msgs, broken>>

Goes(t, from, to) == call[t] = from /\ call' = [call EXCEPT ![t] = to]

\* send() sees kConnected ...
Send(t) ==
  /\ Goes(t, "idle", "send")
  /\ state = "kConnected" /\ MaySend
  /\ UNCHANGED <<connVars, dataVars, peer, lifeVars, pending, loopVars, msgs, broken>>

\* ... and hands sendInLoop to the loop.
SendQueues(t) ==
  /\ Goes(t, "send", "idle")
  /\ msgs' = msgs + 1
  /\ pending' = Append(pending, SendFunctor(msgs + 1))
  /\ UNCHANGED <<connVars, dataVars, peer, lifeVars, loopVars, broken>>

\* shutdown() sees kConnected ...
Shutdown(t) ==
  /\ Goes(t, "idle", "shutdown")
  /\ state = "kConnected"
  /\ UNCHANGED <<connVars, dataVars, peer, lifeVars, pending, loopVars, msgs, broken>>

\* ... sets kDisconnecting, whatever has happened to the state since ...
ShutdownSets(t) ==
  /\ Goes(t, "shutdown", "disconnecting")
  /\ state' = "kDisconnecting"
  /\ UNCHANGED <<registered, polled, writing, dataVars, peer, lifeVars, pending,
                 loopVars, msgs, broken>>

\* ... and hands shutdownInLoop to the loop.
ShutdownQueues(t) ==
  /\ Goes(t, "disconnecting", "idle")
  /\ pending' = Append(pending, ShutdownFunctor)
  /\ UNCHANGED <<connVars, dataVars, peer, lifeVars, loopVars, msgs, broken>>

\* The thread lets go of its TcpConnectionPtr.
Release(t) ==
  /\ Goes(t, "idle", "gone")
  /\ UNCHANGED <<connVars, dataVars, peer, lifeVars, pending, loopVars, msgs, broken>>

----------------------------------------------------------------------------
(* The peer.                                                               *)

PeerReads ==
  /\ room < Room /\ peer = "open"
  /\ room' = room + 1
  /\ UNCHANGED <<connVars, outputBuffer, wire, sent, fin, peer, lifeVars, pending,
                 loopVars, call, msgs, broken>>

PeerCloses ==
  /\ peer = "open"
  /\ peer' = "closed"
  /\ UNCHANGED <<connVars, dataVars, lifeVars, pending, loopVars, call, msgs, broken>>

----------------------------------------------------------------------------
LoopSteps == HandleWrite \/ HandleClose \/ SwapFunctors \/ RunFunctor \/ EndFunctors

\* What a thread does to finish a call it has begun.
Finishes(t) == SendQueues(t) \/ ShutdownSets(t) \/ ShutdownQueues(t)

Next ==
  /\ broken = "no"
  /\ \/ LoopSteps \/ SendHere \/ ShutdownHere
     \/ RemoveConnectionInLoop
     \/ \E t \in Threads : Send(t) \/ Shutdown(t) \/ Finishes(t) \/ Release(t)
     \/ PeerReads \/ PeerCloses

Spec == Init /\ [][Next]_vars

\* The loop and the threads are scheduled; nothing is assumed of the peer.
FairSpec == /\ Spec
            /\ WF_vars(broken = "no" /\ LoopSteps)
            /\ \A t \in Threads : WF_vars(broken = "no" /\ Finishes(t))

----------------------------------------------------------------------------
(* Properties.  Those of a running process are stated for broken = "no".   *)

\* The bytes of the messages go out in the order in which sendInLoop was
\* given them, none lost or doubled between the direct write, outputBuffer_ and
\* handleWrite, whatever part of each write the kernel takes.
InOrder == broken = "no" => wire \o outputBuffer = sent

\* While the connection is polled, it waits for the socket to become writable
\* exactly when there is output: else the output would be stuck, or poll()
\* would return at once for ever.
WritingIffOutput == broken = "no" /\ polled => (writing <=> outputBuffer # <<>>)

\* shutdown() does not cut off output: when FIN has been sent, and the peer has
\* not closed first, everything handed to sendInLoop went before it.
FinIsLast == broken = "no" /\ fin /\ polled => wire = sent

\* After shutdown(), FIN goes out if the peer keeps reading, be there output to
\* wait for or not, unless the connection closes first.
ShutdownCompletes ==
  []<>(room > 0) =>
    (state = "kDisconnecting" ~> fin \/ ~polled \/ broken # "no")

\* src/TcpConnection.cpp:166: assert(nwrote >= 0), and the asserts of
\* connectDestroyed, handleClose and updateChannel.
NoAssertFails == broken # "assert"
=============================================================================
