------------------------ MODULE TcpConnection_proofs ------------------------
(***************************************************************************)
(* The output side of a connection, proved for any threads, messages and   *)
(* sizes: the bytes leave in order, the channel waits for the socket       *)
(* exactly when there is output, and FIN is last.  The bound on messages   *)
(* counts a send from its look at state_ on.                               *)
(***************************************************************************)
EXTENDS TcpConnection, SequenceTheorems, FiniteSetTheorems, TLAPS

\* The threads between the look at state_ and the queueing of sendInLoop.
Senders == {t \in Threads : call[t] = "send"}

\* A thread that has seen kConnected has its message counted, so that the
\* number it gets when it is queued is in bounds.
CountOK ==
  /\ call \in [Threads -> {"idle", "send", "shutdown", "disconnecting", "gone"}]
  /\ msgs \in Nat /\ msgs + Cardinality(Senders) <= MaxMsgs

QueuesOK == pending \in Seq(Functor) /\ batch \in Seq(Functor)

\* The variables that are neither counted nor queued.
RestOK ==
  /\ state \in {"kConnected", "kDisconnecting", "kDisconnected"}
  /\ registered \in BOOLEAN /\ polled \in BOOLEAN /\ writing \in BOOLEAN
  /\ room \in 0 .. Room
  /\ fin \in BOOLEAN /\ inMap \in BOOLEAN /\ closing \in BOOLEAN
  /\ peer \in {"open", "closed"}
  /\ phase \in {"handlers", "functors"} /\ held \in BOOLEAN
  /\ broken \in {"no", "assert", "freed"}

\* While poll() looks at the connection: writing is enabled exactly when there
\* is output, and once FIN is out there is none and none can come.
PolledInv == polled => /\ writing <=> outputBuffer # <<>>
                       /\ fin => outputBuffer = <<>>

\* The bytes that are out and those that wait are those that were sent.
DataInv == /\ outputBuffer \in Seq(Byte) /\ wire \in Seq(Byte)
           /\ sent \in Seq(Byte)
           /\ broken = "no" => wire \o outputBuffer = sent /\ PolledInv

IInv == QueuesOK /\ DataInv

----------------------------------------------------------------------------
(* Sequences.                                                              *)

\* A sequence is the first n of its elements and then the others.
LEMMA SplitSeq ==
  ASSUME NEW S, NEW s \in Seq(S), NEW n \in 0 .. Len(s)
  PROVE  /\ SubSeq(s, 1, n) \in Seq(S) /\ SubSeq(s, n + 1, Len(s)) \in Seq(S)
         /\ SubSeq(s, 1, n) \o SubSeq(s, n + 1, Len(s)) = s
<1> DEFINE a == SubSeq(s, 1, n)
           b == SubSeq(s, n + 1, Len(s))
<1>1. /\ \A k \in 1 .. n : s[k] \in S
      /\ \A k \in n + 1 .. Len(s) : s[k] \in S
  OBVIOUS
<1>2. /\ a \in Seq(S) /\ Len(a) = IF 1 <= n THEN n - 1 + 1 ELSE 0
      /\ \A k \in 1 .. n - 1 + 1 : a[k] = s[1 + k - 1]
  BY <1>1, SubSeqProperties
<1>3. /\ b \in Seq(S)
      /\ Len(b) = IF n + 1 <= Len(s) THEN Len(s) - (n + 1) + 1 ELSE 0
      /\ \A k \in 1 .. Len(s) - (n + 1) + 1 : b[k] = s[(n + 1) + k - 1]
  BY <1>1, SubSeqProperties
<1> HIDE DEF a, b
<1>4. Len(a) = n /\ Len(b) = Len(s) - n
  BY <1>2, <1>3
<1>5. /\ \A k \in 1 .. n : a[k] = s[k]
      /\ \A k \in 1 .. Len(s) - n : b[k] = s[n + k]
  BY <1>2, <1>3
<1>6. /\ a \o b \in Seq(S) /\ Len(a \o b) = Len(a) + Len(b)
      /\ \A k \in 1 .. Len(a) + Len(b) :
           (a \o b)[k] = IF k <= Len(a) THEN a[k] ELSE b[k - Len(a)]
  BY <1>2, <1>3, ConcatProperties
<1>7. Len(a \o b) = Len(s) /\ \A k \in 1 .. Len(s) : (a \o b)[k] = s[k]
  <2>1. Len(a \o b) = Len(s)
    BY <1>4, <1>6
  <2>2. ASSUME NEW k \in 1 .. Len(s), k <= n PROVE (a \o b)[k] = s[k]
    BY <1>4, <1>5, <1>6, <2>2
  <2>3. ASSUME NEW k \in 1 .. Len(s), ~(k <= n) PROVE (a \o b)[k] = s[k]
    <3>1. k \in 1 .. Len(a) + Len(b) /\ ~(k <= Len(a))
      BY <1>4, <2>3
    <3>2. (a \o b)[k] = b[k - n]
      BY <1>4, <1>6, <3>1
    <3>3. k - n \in 1 .. Len(s) - n /\ n + (k - n) = k
      BY <2>3
    <3>4. b[k - n] = s[n + (k - n)]
      BY <1>5, <3>3
    <3> QED
      BY <3>2, <3>3, <3>4
  <2> QED
    BY <2>1, <2>2, <2>3
<1>8. a \o b = s
  BY <1>6, <1>7, SeqEqual
<1> QED
  BY <1>2, <1>3, <1>8 DEF a, b

LEMMA BytesOK ==
  ASSUME NEW m \in 1 .. MaxMsgs
  PROVE  Bytes(m) \in Seq(Byte) /\ Len(Bytes(m)) = MsgSize /\ Bytes(m) # <<>>
BY SizeAssumption DEF Bytes, Byte

----------------------------------------------------------------------------
(* The operations.                                                         *)

\* What is left of a message goes behind the output, with writing enabled.
LEMMA LeaveWaits ==
  ASSUME outputBuffer \in Seq(Byte), NEW rest \in Seq(Byte), Leave(rest),
         polled => (writing <=> outputBuffer # <<>>), UNCHANGED polled
  PROVE  /\ outputBuffer' = outputBuffer \o rest
         /\ outputBuffer' \in Seq(Byte)
         /\ broken' = "no" /\ polled' => (writing' <=> outputBuffer' # <<>>)
<1>1. outputBuffer' = outputBuffer \o rest
  BY DEF Leave
<1>2. outputBuffer' \in Seq(Byte)
  BY <1>1, ConcatProperties
<1>3. outputBuffer' = <<>> <=> outputBuffer = <<>> /\ rest = <<>>
  BY <1>1
<1>4. CASE rest # <<>> /\ ~writing /\ EnableWriting
  BY <1>1, <1>2, <1>3, <1>4, Zenon DEF EnableWriting
<1>5. CASE (rest = <<>> \/ writing) /\ UNCHANGED <<writing, broken>>
  <2>1. (writing' <=> writing) /\ (polled' <=> polled)
    BY <1>5
  <2>2. CASE rest = <<>>
    BY <1>1, <1>2, <1>3, <2>1, <2>2, Zenon
  <2>3. CASE writing
    BY <1>1, <1>2, <1>3, <2>1, <2>3, Zenon
  <2> QED
    BY <1>5, <2>2, <2>3
<1> QED
  BY <1>4, <1>5 DEF Leave

\* The direct write: nothing waits, so that the bytes the kernel takes are next,
\* and none are taken after FIN.
LEMMA WriteDirectlyInOrder ==
  ASSUME DataInv, broken = "no", NEW m \in 1 .. MaxMsgs, NothingWaits, WriteDirectly(m),
         UNCHANGED <<polled, fin>>
  PROVE  DataInv'
<1>1. PICK len \in 0 .. MsgSize :
        \/ \E n \in Taken(len) :
             /\ wire' = wire \o SubSeq(Bytes(m), 1, n)
             /\ sent' = sent \o Bytes(m)
             /\ Leave(SubSeq(Bytes(m), n + 1, MsgSize))
        \/ broken' = "assert" /\ UNCHANGED <<wire, sent, outputBuffer>>
  BY DEF WriteDirectly, Rest
<1>2. CASE broken' = "assert" /\ UNCHANGED <<wire, sent, outputBuffer>>
  BY <1>2 DEF DataInv
<1>3. ASSUME NEW n \in Taken(len),
             wire' = wire \o SubSeq(Bytes(m), 1, n),
             sent' = sent \o Bytes(m),
             Leave(SubSeq(Bytes(m), n + 1, MsgSize))
      PROVE  DataInv'
  <2>1. ~fin /\ n \in 0 .. MsgSize
    BY SizeAssumption DEF Taken
  <2>2. Bytes(m) \in Seq(Byte) /\ Len(Bytes(m)) = MsgSize
    BY BytesOK
  <2> DEFINE a == SubSeq(Bytes(m), 1, n)
             b == SubSeq(Bytes(m), n + 1, MsgSize)
  <2>3. a \in Seq(Byte) /\ b \in Seq(Byte) /\ a \o b = Bytes(m)
    BY <2>1, <2>2, SplitSeq
  <2>4. wire' = wire \o a /\ Leave(b)
    BY <1>3
  <2> HIDE DEF a, b
  <2>5. wire \in Seq(Byte) /\ sent \in Seq(Byte) /\ outputBuffer = <<>>
    BY DEF DataInv, NothingWaits
  <2>6. sent = wire
    BY <2>5, ConcatEmptySeq DEF DataInv
  <2>7. polled => (writing <=> outputBuffer # <<>>)
    BY Zenon DEF DataInv, PolledInv
  <2>8. /\ outputBuffer' = outputBuffer \o b
        /\ outputBuffer' \in Seq(Byte)
        /\ broken' = "no" /\ polled' => (writing' <=> outputBuffer' # <<>>)
    BY <2>3, <2>4, <2>7, LeaveWaits DEF DataInv
  <2>9. outputBuffer' = b
    BY <2>3, <2>5, <2>8, ConcatEmptySeq
  <2>10. wire' \in Seq(Byte) /\ sent' \in Seq(Byte)
    BY <1>3, <2>2, <2>3, <2>4, <2>5, ConcatProperties
  <2>11. (wire \o a) \o b = wire \o (a \o b)
    <3>1. wire \in Seq(Byte) /\ a \in Seq(Byte) /\ b \in Seq(Byte)
      BY <2>3, <2>5
    <3> QED
      BY <3>1
  <2>12. wire' \o outputBuffer' = sent'
    BY <1>3, <2>3, <2>4, <2>6, <2>9, <2>11
  <2>13. ~fin'
    BY <2>1
  <2> QED
    BY <2>8, <2>10, <2>12, <2>13, Zenon DEF DataInv, PolledInv
<1> QED
  BY <1>1, <1>2, <1>3

LEMMA SendInOrder ==
  ASSUME DataInv, broken = "no", NEW m \in 1 .. MaxMsgs, SendInLoop(m)
  PROVE  DataInv'
<1>1. CASE NothingWaits /\ WriteDirectly(m)
  BY <1>1, WriteDirectlyInOrder DEF SendInLoop
<1>2. CASE ~NothingWaits /\ sent' = sent \o Bytes(m) /\ Leave(Bytes(m)) /\ UNCHANGED wire
  <2>1. Bytes(m) \in Seq(Byte)
    BY BytesOK
  <2>2. polled => (writing <=> outputBuffer # <<>>)
    BY Zenon DEF DataInv, PolledInv
  <2>3. polled' = polled /\ fin' = fin /\ wire' = wire
    BY <1>2 DEF SendInLoop
  <2>4. /\ outputBuffer' = outputBuffer \o Bytes(m)
        /\ outputBuffer' \in Seq(Byte)
        /\ broken' = "no" /\ polled' => (writing' <=> outputBuffer' # <<>>)
    BY <1>2, <2>1, <2>2, <2>3, LeaveWaits DEF DataInv
  <2>5. polled => ~fin
    BY <1>2, <2>2, Zenon DEF DataInv, PolledInv, NothingWaits
  <2>6. sent' \in Seq(Byte)
    BY <1>2, <2>1, ConcatProperties DEF DataInv
  <2>7. wire \o (outputBuffer \o Bytes(m)) = (wire \o outputBuffer) \o Bytes(m)
    <3>1. outputBuffer \in Seq(Byte) /\ wire \in Seq(Byte)
      BY DEF DataInv
    <3> QED
      BY <2>1, <3>1
  <2>8. wire' \o outputBuffer' = sent'
    BY <1>2, <2>3, <2>4, <2>7 DEF DataInv
  <2>9. PolledInv' \/ broken' # "no"
    BY <2>3, <2>4, <2>5, Zenon DEF PolledInv
  <2>10. wire' \in Seq(Byte)
    BY <2>3 DEF DataInv
  <2> QED
    BY <2>4, <2>6, <2>8, <2>9, <2>10, Zenon DEF DataInv
<1> QED
  BY <1>1, <1>2 DEF SendInLoop

\* FIN is only sent while writing is disabled.
LEMMA ShutdownKeepsOrder ==
  ASSUME DataInv, broken = "no", ShutdownInLoop, UNCHANGED <<polled, writing, broken>>
  PROVE  DataInv'
<1>1. UNCHANGED <<outputBuffer, wire, sent>> /\ fin' = (fin \/ ~writing)
  BY DEF ShutdownInLoop, MayShutDown
<1>2. PolledInv
  BY DEF DataInv
<1>3. PolledInv'
  BY <1>1, <1>2, Zenon DEF PolledInv
<1> QED
  BY <1>1, <1>3 DEF DataInv

\* handleWrite moves bytes from the front of the output to the socket.
LEMMA HandleWriteInOrder ==
  ASSUME DataInv, broken = "no", HandleWrite
  PROVE  DataInv'
<1>1. PICK n \in Taken(Len(outputBuffer)) :
        /\ n > 0 /\ Retrieve(n) /\ writing' = KeepWriting
        /\ fin' = (fin \/ ShutDownAfter)
  BY DEF HandleWrite
<1>2. outputBuffer \in Seq(Byte) /\ wire \in Seq(Byte)
  BY DEF DataInv
<1>3. ~fin /\ n \in 0 .. Len(outputBuffer)
  BY <1>2 DEF Taken
<1> DEFINE a == SubSeq(outputBuffer, 1, n)
           b == SubSeq(outputBuffer, n + 1, Len(outputBuffer))
<1>4. a \in Seq(Byte) /\ b \in Seq(Byte) /\ a \o b = outputBuffer
  BY <1>2, <1>3, SplitSeq
<1>5. wire' = wire \o a /\ outputBuffer' = b
  BY <1>1 DEF Retrieve
<1> HIDE DEF a, b
<1>6. wire' \in Seq(Byte)
  BY <1>2, <1>4, <1>5, ConcatProperties
<1>7. (wire \o a) \o b = wire \o (a \o b)
  <2>1. wire \in Seq(Byte) /\ a \in Seq(Byte) /\ b \in Seq(Byte)
    BY <1>2, <1>4
  <2> QED
    BY <2>1
<1>8. wire' \o outputBuffer' = sent' /\ sent' \in Seq(Byte)
  BY <1>4, <1>5, <1>7 DEF DataInv, HandleWrite
<1>9. PolledInv'
  BY <1>1, <1>3, Zenon DEF PolledInv, KeepWriting, ShutDownAfter
<1> QED
  BY <1>4, <1>5, <1>6, <1>8, <1>9, Zenon DEF DataInv

\* A connection that is no longer polled is out of the invariant's reach.
LEMMA NotPolled ==
  ASSUME DataInv, broken = "no", ~polled', UNCHANGED <<outputBuffer, wire, sent>>
  PROVE  DataInv'
BY DEF DataInv, PolledInv

LEMMA DataKept ==
  ASSUME DataInv, UNCHANGED <<connVars, outputBuffer, wire, sent, fin, broken>>
  PROVE  DataInv'
BY DEF DataInv, PolledInv, connVars

----------------------------------------------------------------------------
(* The invariant.                                                          *)

\* As long as a thread is between the look and the queueing, or may begin, one
\* more message is in bounds.
LEMMA MayCount ==
  ASSUME CountOK, MaySend \/ \E t \in Threads : call[t] = "send"
  PROVE  msgs + 1 \in 1 .. MaxMsgs /\ Cardinality(Senders) \in Nat
<1>1. IsFiniteSet(Senders)
  BY ThreadsAssumption, FS_Subset DEF Senders
<1>2. Cardinality(Senders) \in Nat /\ (Senders # {} => Cardinality(Senders) # 0)
  BY <1>1, FS_CardinalityType, FS_EmptySet
<1>3. CASE MaySend
  BY <1>2, <1>3, MaxMsgsAssumption DEF MaySend, CountOK, Senders
<1>4. CASE Senders # {}
  BY <1>2, <1>4, MaxMsgsAssumption DEF CountOK
<1> QED
  BY <1>3, <1>4 DEF Senders

\* send() is counted from its look at state_ on.
LEMMA CountKept == CountOK /\ [Next]_vars => CountOK'
<1> SUFFICES ASSUME CountOK, [Next]_vars PROVE CountOK'
  OBVIOUS
<1>1. IsFiniteSet(Senders)
  BY ThreadsAssumption, FS_Subset DEF Senders
<1>2. CASE SendHere
  <2>1. msgs' = msgs + 1 /\ UNCHANGED call /\ MaySend
    BY <1>2 DEF SendHere
  <2>2. Senders' = Senders /\ Cardinality(Senders) \in Nat
    BY <2>1, MayCount DEF Senders
  <2>3. msgs + Cardinality(Senders) < MaxMsgs
    BY <2>1 DEF MaySend, Senders
  <2> QED
    BY <2>1, <2>2, <2>3, MaxMsgsAssumption DEF CountOK
<1>3. ASSUME NEW t \in Threads, Send(t) PROVE CountOK'
  <2>1. /\ call' = [call EXCEPT ![t] = "send"] /\ call[t] = "idle" /\ UNCHANGED msgs
        /\ MaySend
    BY <1>3 DEF Send, Goes
  <2>2. Senders' = Senders \cup {t} /\ t \notin Senders
    BY <2>1 DEF Senders, CountOK
  <2>3. Cardinality(Senders') = Cardinality(Senders) + 1
    BY <1>1, <2>2, FS_AddElement
  <2>4. Cardinality(Senders) \in Nat /\ msgs + Cardinality(Senders) < MaxMsgs
    BY <2>1, MayCount DEF MaySend, Senders
  <2>5. msgs' + Cardinality(Senders') <= MaxMsgs
    BY <2>1, <2>3, <2>4, MaxMsgsAssumption DEF CountOK
  <2> QED
    BY <2>1, <2>5 DEF CountOK
<1>4. ASSUME NEW t \in Threads, SendQueues(t) PROVE CountOK'
  <2>1. /\ call' = [call EXCEPT ![t] = "idle"] /\ call[t] = "send" /\ msgs' = msgs + 1
    BY <1>4 DEF SendQueues, Goes
  <2>2. Senders' = Senders \ {t} /\ t \in Senders
    BY <2>1 DEF Senders, CountOK
  <2>3. Cardinality(Senders') = Cardinality(Senders) - 1
    BY <1>1, <2>2, FS_RemoveElement
  <2>4. Cardinality(Senders) \in Nat
    BY <2>1, MayCount
  <2>5. msgs' + Cardinality(Senders') <= MaxMsgs
    BY <2>1, <2>3, <2>4, MaxMsgsAssumption DEF CountOK
  <2> QED
    BY <2>1, <2>5 DEF CountOK
<1>5. ASSUME NEW t \in Threads, UNCHANGED msgs, NEW from, NEW to, Goes(t, from, to),
             from # "send", to \in {"idle", "shutdown", "disconnecting", "gone"}
      PROVE  CountOK'
  <2>1. Senders' = Senders /\ call' \in [Threads -> {"idle", "send", "shutdown", "disconnecting", "gone"}]
    BY <1>5 DEF Goes, Senders, CountOK
  <2> QED
    BY <1>5, <2>1 DEF CountOK
<1>6. CASE UNCHANGED <<call, msgs>>
  BY <1>6 DEF CountOK, Senders
<1>7. ASSUME NEW t \in Threads, Shutdown(t) \/ ShutdownSets(t) \/ ShutdownQueues(t) \/ Release(t)
      PROVE  CountOK'
  BY <1>5, <1>7 DEF Shutdown, ShutdownSets, ShutdownQueues, Release
<1>8. CASE LoopSteps \/ ShutdownHere \/ RemoveConnectionInLoop \/ PeerReads \/ PeerCloses
  BY <1>6, <1>8 DEF LoopSteps, HandleWrite, HandleClose, SwapFunctors, RunFunctor, EndFunctors,
                    ShutdownHere, RemoveConnectionInLoop, PeerReads, PeerCloses
<1> QED
  BY <1>2, <1>3, <1>4, <1>6, <1>7, <1>8 DEF Next, Finishes, vars

\* A write takes no more than there is room for.
LEMMA RoomTaken ==
  ASSUME room \in 0 .. Room, NEW len \in Nat, NEW n \in Taken(len)
  PROVE  room - n \in 0 .. Room
BY SizeAssumption DEF Taken

LEMMA SendKeepsRest ==
  ASSUME RestOK, NEW m, SendInLoop(m)
  PROVE  /\ room' \in 0 .. Room /\ writing' \in BOOLEAN
         /\ broken' \in {"no", "assert", "freed"}
         /\ UNCHANGED <<state, registered, polled, fin>>
<1>1. ASSUME NEW rest, Leave(rest)
      PROVE  writing' \in BOOLEAN /\ broken' \in {"no", "assert", "freed"}
  BY <1>1 DEF Leave, EnableWriting, RestOK
<1>2. CASE WriteDirectly(m)
  <2>1. PICK len \in 0 .. MsgSize :
          \/ \E n \in Taken(len) : room' = room - n /\ \E rest : Leave(rest)
          \/ broken' = "assert" /\ UNCHANGED <<room, writing>>
    BY <1>2 DEF WriteDirectly
  <2>2. len \in Nat
    BY SizeAssumption
  <2> QED
    BY <1>1, <2>1, <2>2, RoomTaken DEF RestOK, SendInLoop
<1>3. CASE Leave(Bytes(m)) /\ UNCHANGED room
  BY <1>1, <1>3 DEF RestOK, SendInLoop
<1> QED
  BY <1>2, <1>3 DEF SendInLoop

\* The state, the flags and the room in the socket.
LEMMA RestKept == QueuesOK /\ DataInv /\ RestOK /\ [Next]_vars => RestOK'
<1> SUFFICES ASSUME DataInv, RestOK, [Next]_vars PROVE RestOK'
  OBVIOUS
<1>1. CASE HandleWrite
  <2>1. PICK n \in Taken(Len(outputBuffer)) :
          room' = room - n /\ writing' = KeepWriting /\ fin' = (fin \/ ShutDownAfter)
    BY <1>1 DEF HandleWrite, Retrieve
  <2>2. writing' \in BOOLEAN /\ fin' \in BOOLEAN
    BY <2>1, Zenon DEF KeepWriting
  <2>3. Len(outputBuffer) \in Nat
    BY DEF DataInv
  <2>4. room' \in 0 .. Room
    BY <2>1, <2>3, RoomTaken DEF RestOK
  <2> QED
    BY <1>1, <2>2, <2>4 DEF HandleWrite, RestOK, lifeVars, loopVars
<1>2. CASE HandleClose
  BY <1>2 DEF HandleClose, RestOK, dataVars, loopVars
<1>3. CASE SwapFunctors
  <2>1. held' \in BOOLEAN
    BY <1>3, Zenon DEF SwapFunctors, Contains
  <2> QED
    BY <1>3, <2>1 DEF SwapFunctors, RestOK, connVars, dataVars, lifeVars
<1>4. CASE RunFunctor
  <2>1. UNCHANGED <<peer, inMap, closing, phase, held>>
    BY <1>4 DEF RunFunctor, lifeVars
  <2>2. CASE broken' = "freed" /\ UNCHANGED <<connVars, dataVars>>
    BY <2>1, <2>2 DEF RestOK, connVars, dataVars
  <2>3. CASE SendInLoop(Head(batch).msg)
    BY <2>1, <2>3, SendKeepsRest DEF RestOK
  <2>4. CASE ShutdownInLoop /\ UNCHANGED <<connVars, broken>>
    <3>1. fin' \in BOOLEAN
      BY <2>4, Zenon DEF ShutdownInLoop
    <3> QED
      BY <2>1, <2>4, <3>1 DEF RestOK, ShutdownInLoop, connVars
  <2>5. CASE ConnectDestroyed /\ UNCHANGED dataVars
    BY <2>1, <2>5 DEF RestOK, ConnectDestroyed, dataVars
  <2> QED
    BY <1>4, <2>2, <2>3, <2>4, <2>5 DEF RunFunctor
<1>5. CASE EndFunctors
  BY <1>5 DEF EndFunctors, RestOK, connVars, dataVars, lifeVars
<1>6. CASE SendHere
  BY <1>6, SendKeepsRest DEF SendHere, RestOK, lifeVars, loopVars
<1>7. CASE ShutdownHere
  <2>1. fin' \in BOOLEAN
    BY <1>7, Zenon DEF ShutdownHere, ShutdownInLoop
  <2> QED
    BY <1>7, <2>1 DEF ShutdownHere, ShutdownInLoop, RestOK, lifeVars, loopVars
<1>8. CASE RemoveConnectionInLoop
  BY <1>8 DEF RemoveConnectionInLoop, RestOK, connVars, dataVars, loopVars
<1>9. ASSUME NEW t \in Threads, Send(t) \/ Shutdown(t) \/ Finishes(t) \/ Release(t)
      PROVE  RestOK'
  <2>1. /\ UNCHANGED <<registered, polled, writing, dataVars, peer, lifeVars, loopVars, broken>>
        /\ state' = state \/ state' = "kDisconnecting"
    BY <1>9 DEF Send, Shutdown, Finishes, Release, SendQueues, ShutdownSets, ShutdownQueues,
                connVars
  <2> QED
    BY <2>1 DEF RestOK, dataVars, lifeVars, loopVars
<1>10. CASE PeerReads
  BY <1>10, SizeAssumption DEF PeerReads, RestOK, connVars, lifeVars, loopVars
<1>11. CASE PeerCloses
  BY <1>11 DEF PeerCloses, RestOK, connVars, dataVars, lifeVars, loopVars
<1>12. CASE UNCHANGED vars
  BY <1>12 DEF vars, RestOK, connVars, dataVars, lifeVars, loopVars
<1> QED
  BY <1>1, <1>2, <1>3, <1>4, <1>5, <1>6, <1>7, <1>8, <1>9, <1>10, <1>11, <1>12
     DEF Next, LoopSteps

\* A functor more in the queue.
LEMMA Queued ==
  ASSUME QueuesOK, NEW f \in Functor, pending' = Append(pending, f),
         UNCHANGED batch
  PROVE  QueuesOK'
<1>1. pending \in Seq(Functor)
  BY DEF QueuesOK
<1>2. Append(pending, f) \in Seq(Functor)
  BY <1>1, AppendProperties
<1> QED
  BY <1>2 DEF QueuesOK

LEMMA FunctorsOK ==
  /\ ShutdownFunctor \in Functor /\ DestroyFunctor \in Functor
  /\ \A m \in 1 .. MaxMsgs : SendFunctor(m) \in Functor
BY DEF ShutdownFunctor, DestroyFunctor, SendFunctor, Functor

LEMMA RunKeepsInv ==
  ASSUME IInv, broken = "no", RunFunctor PROVE IInv'
<1>1. batch \in Seq(Functor) /\ batch # <<>> /\ pending \in Seq(Functor)
  BY DEF RunFunctor, IInv, QueuesOK
<1>2. Tail(batch) \in Seq(Functor) /\ Head(batch) \in Functor
  BY <1>1
<1>3. QueuesOK'
  BY <1>1, <1>2 DEF RunFunctor, IInv, QueuesOK
<1>4. CASE broken' = "freed" /\ UNCHANGED <<connVars, dataVars>>
  BY <1>3, <1>4 DEF IInv, DataInv, dataVars
<1>5. CASE Head(batch).call = "sendInLoop" /\ SendInLoop(Head(batch).msg)
  <2>1. Head(batch).msg \in 1 .. MaxMsgs
    BY <1>2, <1>5 DEF Functor, SendFunctor, ShutdownFunctor, DestroyFunctor
  <2> QED
    BY <1>3, <1>5, <2>1, SendInOrder DEF IInv
<1>6. CASE ShutdownInLoop /\ UNCHANGED <<connVars, broken>>
  BY <1>3, <1>6, ShutdownKeepsOrder DEF IInv, connVars
<1>7. CASE ConnectDestroyed /\ UNCHANGED dataVars
  <2>1. ~polled'
    BY <1>7 DEF ConnectDestroyed
  <2> QED
    BY <1>3, <1>7, <2>1, NotPolled DEF IInv, dataVars
<1> QED
  BY <1>4, <1>5, <1>6, <1>7 DEF RunFunctor

LEMMA LoopKeepsInv ==
  ASSUME IInv, broken = "no", LoopSteps PROVE IInv'
<1>1. CASE HandleWrite
  BY <1>1, HandleWriteInOrder DEF IInv, QueuesOK, HandleWrite, loopVars
<1>2. CASE HandleClose
  <2>1. ~polled'
    BY <1>2 DEF HandleClose
  <2> QED
    BY <1>2, <2>1, NotPolled DEF IInv, QueuesOK, HandleClose, dataVars, loopVars
<1>3. CASE SwapFunctors
  <2>1. DataInv'
    BY <1>3, DataKept DEF SwapFunctors, IInv, dataVars
  <2>2. QueuesOK'
    BY <1>3 DEF SwapFunctors, IInv, QueuesOK
  <2> QED
    BY <2>1, <2>2 DEF IInv
<1>4. CASE EndFunctors
  BY <1>4, DataKept DEF EndFunctors, IInv, QueuesOK, dataVars
<1>5. CASE RunFunctor
  BY <1>5, RunKeepsInv
<1> QED
  BY <1>1, <1>2, <1>3, <1>4, <1>5 DEF LoopSteps

\* Other threads reach the bytes only through the functors they leave.
LEMMA ThreadsKeepInv ==
  ASSUME IInv, CountOK, NEW t \in Threads,
         Send(t) \/ Shutdown(t) \/ Finishes(t) \/ Release(t)
  PROVE  IInv'
<1>1. DataInv'
  <2>1. UNCHANGED <<registered, polled, writing, dataVars, broken>>
    BY DEF Send, Shutdown, Finishes, Release, SendQueues, ShutdownSets, ShutdownQueues,
           connVars
  <2> QED
    BY <2>1 DEF IInv, DataInv, PolledInv, dataVars
<1>2. CASE Send(t) \/ Shutdown(t) \/ ShutdownSets(t) \/ Release(t)
  BY <1>1, <1>2 DEF IInv, QueuesOK, Send, Shutdown, ShutdownSets, Release, loopVars
<1>3. CASE SendQueues(t)
  <2>1. msgs + 1 \in 1 .. MaxMsgs
    BY <1>3, MayCount DEF SendQueues, Goes
  <2>2. SendFunctor(msgs + 1) \in Functor
    BY <2>1, FunctorsOK
  <2>3. /\ pending' = Append(pending, SendFunctor(msgs + 1))
        /\ batch' = batch
    BY <1>3 DEF SendQueues, loopVars
  <2> QED
    BY <1>1, <2>1, <2>2, <2>3, Queued DEF IInv
<1>4. CASE ShutdownQueues(t)
  <2>1. /\ pending' = Append(pending, ShutdownFunctor)
        /\ batch' = batch
    BY <1>4 DEF ShutdownQueues, loopVars, IInv, QueuesOK
  <2> QED
    BY <1>1, <2>1, Queued, FunctorsOK DEF IInv
<1> QED
  BY <1>2, <1>3, <1>4 DEF Finishes

LEMMA IInvInductive == CountOK /\ IInv /\ [Next]_vars => IInv'
<1> SUFFICES ASSUME CountOK, IInv, [Next]_vars PROVE IInv'
  OBVIOUS
<1>1. CASE broken = "no" /\ LoopSteps
  BY <1>1, LoopKeepsInv
<1>2. CASE broken = "no" /\ SendHere
  <2>1. msgs + 1 \in 1 .. MaxMsgs
    BY <1>2, MayCount DEF SendHere
  <2>2. DataInv'
    BY <1>2, <2>1, SendInOrder DEF SendHere, IInv
  <2> QED
    BY <1>2, <2>1, <2>2 DEF SendHere, IInv, QueuesOK, loopVars
<1>3. CASE broken = "no" /\ ShutdownHere
  <2>1. DataInv'
    BY <1>3, ShutdownKeepsOrder DEF ShutdownHere, IInv
  <2> QED
    BY <1>3, <2>1 DEF ShutdownHere, IInv, QueuesOK, loopVars
<1>4. CASE RemoveConnectionInLoop
  <2>1. DataInv'
    BY <1>4, DataKept DEF RemoveConnectionInLoop, IInv, dataVars
  <2>2. /\ pending' = Append(pending, DestroyFunctor)
        /\ batch' = batch
    BY <1>4 DEF RemoveConnectionInLoop, loopVars, IInv, QueuesOK
  <2> QED
    BY <2>1, <2>2, Queued, FunctorsOK DEF IInv
<1>5. ASSUME NEW t \in Threads, Send(t) \/ Shutdown(t) \/ Finishes(t) \/ Release(t)
      PROVE  IInv'
  BY <1>5, ThreadsKeepInv
<1>6. CASE PeerReads \/ PeerCloses
  BY <1>6, DataKept DEF PeerReads, PeerCloses, IInv, QueuesOK, dataVars, loopVars
<1>7. CASE UNCHANGED vars
  BY <1>7, DataKept DEF vars, IInv, QueuesOK, dataVars, loopVars
<1> QED
  BY <1>1, <1>2, <1>3, <1>4, <1>5, <1>6, <1>7 DEF Next

LEMMA IInvInit == Init => CountOK /\ RestOK /\ IInv
<1> SUFFICES ASSUME Init PROVE CountOK /\ RestOK /\ IInv
  OBVIOUS
<1>1. QueuesOK
  <2>1. <<>> \in Seq(Functor)
    BY EmptySeq
  <2> QED
    BY <2>1 DEF Init, QueuesOK
<1>2. /\ outputBuffer = <<>> /\ wire = <<>> /\ sent = <<>>
      /\ ~writing /\ ~fin
  BY DEF Init
<1>3. <<>> \in Seq(Byte) /\ <<>> \o <<>> = <<>>
  BY ConcatEmptySeq
<1>4. PolledInv
  BY <1>2, Zenon DEF PolledInv
<1>5. IInv
  BY <1>1, <1>2, <1>3, <1>4 DEF IInv, DataInv
<1>6. CountOK
  <2>1. Senders = {} /\ msgs = 0
    BY DEF Init, Senders
  <2>2. Cardinality(Senders) = 0
    BY <2>1, FS_EmptySet
  <2> QED
    BY <2>1, <2>2, MaxMsgsAssumption DEF Init, CountOK
<1>7. RestOK
  <2>1. room \in 0 .. Room
    BY SizeAssumption DEF Init
  <2>2. registered \in BOOLEAN /\ polled \in BOOLEAN /\ writing \in BOOLEAN
        /\ fin \in BOOLEAN /\ inMap \in BOOLEAN /\ closing \in BOOLEAN /\ held \in BOOLEAN
    BY Zenon DEF Init
  <2> QED
    BY <2>1, <2>2 DEF Init, RestOK
<1> QED
  BY <1>5, <1>6, <1>7

LEMMA Invariant == Spec => [](CountOK /\ RestOK /\ IInv)
<1>1. IInv => QueuesOK /\ DataInv
  BY DEF IInv
<1> QED
  BY <1>1, IInvInit, IInvInductive, CountKept, RestKept, PTL DEF Spec

\* Every variable of a connection keeps its type, for any finite number of
\* threads: what waits are bytes of messages, the socket never takes more than
\* it has room for, and a functor carries a message there is, although it gets
\* its number only when it is queued.
THEOREM TypeCorrect == Spec => []TypeOK
<1>1. CountOK /\ RestOK /\ IInv => TypeOK
  <2>1. CountOK => msgs \in 0 .. MaxMsgs
    <3>1. IsFiniteSet(Senders)
      BY ThreadsAssumption, FS_Subset DEF Senders
    <3>2. Cardinality(Senders) \in Nat
      BY <3>1, FS_CardinalityType
    <3> QED
      BY <3>2, MaxMsgsAssumption DEF CountOK
  <2> QED
    BY <2>1 DEF CountOK, RestOK, IInv, QueuesOK, DataInv, TypeOK
<1> QED
  BY <1>1, Invariant, PTL

\* Whatever the kernel takes of each write and whoever sends, no byte is lost,
\* doubled or overtaken on its way through sendInLoop and handleWrite.
THEOREM BytesInOrder == Spec => []InOrder
<1>1. IInv => InOrder
  BY DEF IInv, DataInv, InOrder
<1> QED
  BY <1>1, Invariant, PTL

\* The connection waits for the socket exactly when it has output.
THEOREM WritesWhatWaits == Spec => []WritingIffOutput
<1>1. IInv => WritingIffOutput
  BY Zenon DEF IInv, DataInv, PolledInv, WritingIffOutput
<1> QED
  BY <1>1, Invariant, PTL

\* When FIN has been sent, all output went before it (shutdownInLoop, and the
\* shutdown at the end of handleWrite).
THEOREM NothingAfterFin == Spec => []FinIsLast
<1>1. IInv => FinIsLast
  <2> SUFFICES ASSUME IInv, broken = "no", fin, polled PROVE wire = sent
    BY DEF FinIsLast
  <2>1. outputBuffer = <<>>
    BY Zenon DEF IInv, DataInv, PolledInv
  <2>2. wire \in Seq(Byte) /\ wire \o outputBuffer = sent
    BY DEF IInv, DataInv
  <2> QED
    BY <2>1, <2>2, ConcatEmptySeq
<1> QED
  BY <1>1, Invariant, PTL
=============================================================================
