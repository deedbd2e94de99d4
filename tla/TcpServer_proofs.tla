------------------------- MODULE TcpServer_proofs -------------------------
(***************************************************************************)
(* The start-up of a server, the life of its connections, and that of the  *)
(* connections of the program, which removes some of its own accord:       *)
(* proved for any number of threads, of loops and of connections.          *)
(*                                                                         *)
(* LifeInv is what keeps the objects alive under everything, the program's *)
(* removals included.  OnceInv is what the server alone guarantees         *)
(* besides: no two functors about one connection are ever on their way, so *)
(* that each finds the connection in the state its asserts ask for.        *)
(***************************************************************************)
EXTENDS TransferServer, SequenceTheorems, TLAPS

----------------------------------------------------------------------------
(* Queues of functors.                                                     *)

Call(name, c) == [call |-> name, conn |-> c]
\* The functors there are.
Calls == {"connectEstablished", "connectDestroyed", "removeConnectionInLoop"}
\* What a loop has still to run: the rest of its batch, and its queue.
Work(l) == Range(batch[l]) \cup Range(pending[l])
\* The connections there are.
Known == 1 .. nextConnId - 1

\* An entry that is appended is the only new one, and a queue without duplicates
\* stays so if the entry is new.
LEMMA AppendAdds ==
  ASSUME NEW S, NEW q \in Seq(S), NEW e \in S
  PROVE  /\ Append(q, e) \in Seq(S)
         /\ Range(Append(q, e)) = Range(q) \cup {e}
         /\ IsInjective(q) /\ e \notin Range(q) => IsInjective(Append(q, e))
<1>1. /\ Append(q, e) \in Seq(S)
      /\ DOMAIN Append(q, e) = DOMAIN q \cup {Len(q) + 1}
      /\ \A i \in DOMAIN q : Append(q, e)[i] = q[i]
      /\ Append(q, e)[Len(q) + 1] = e
      /\ Len(q) + 1 \notin DOMAIN q
  BY AppendProperties
<1>2. Range(Append(q, e)) = Range(q) \cup {e}
  BY <1>1 DEF Range
<1> QED
  BY <1>1, <1>2, Zenon DEF IsInjective, Range

\* Tail takes one entry away, for good if there are no duplicates.
LEMMA TailTakes ==
  ASSUME NEW S, NEW q \in Seq(S), q # <<>>
  PROVE  /\ Head(q) \in S
         /\ Tail(q) \in Seq(S)
         /\ Range(q) = {Head(q)} \cup Range(Tail(q))
         /\ IsInjective(q) => IsInjective(Tail(q)) /\ Head(q) \notin Range(Tail(q))
<1>1. /\ Head(q) \in S /\ Head(q) = q[1]
      /\ Tail(q) \in Seq(S)
      /\ DOMAIN Tail(q) = 1 .. Len(q) - 1
      /\ \A i \in 1 .. Len(q) - 1 : Tail(q)[i] = q[i + 1]
      /\ DOMAIN q = 1 .. Len(q) /\ Len(q) \in Nat \ {0}
  BY HeadTailProperties
<1>2. Range(q) \subseteq {Head(q)} \cup Range(Tail(q))
  <2> SUFFICES ASSUME NEW i \in 1 .. Len(q) PROVE q[i] \in {Head(q)} \cup Range(Tail(q))
    BY <1>1 DEF Range
  <2>1. CASE i = 1
    BY <1>1, <2>1
  <2>2. CASE i # 1
    <3>1. i - 1 \in DOMAIN Tail(q) /\ Tail(q)[i - 1] = q[i]
      BY <1>1, <2>2
    <3> QED
      BY <3>1 DEF Range
  <2> QED
    BY <2>1, <2>2
<1>3. {Head(q)} \cup Range(Tail(q)) \subseteq Range(q)
  BY <1>1 DEF Range
<1>4. ASSUME IsInjective(q) PROVE IsInjective(Tail(q)) /\ Head(q) \notin Range(Tail(q))
  BY <1>1, <1>4 DEF IsInjective, Range
<1> QED
  BY <1>1, <1>2, <1>3, <1>4

\* A functor is its call and its connection ...
LEMMA CallFields ==
  ASSUME NEW name \in Calls, NEW c \in Conns
  PROVE  /\ Call(name, c) \in Functor
         /\ Call(name, c).call = name /\ Call(name, c).conn = c
BY DEF Call, Calls, Functor

\* ... and nothing besides.
LEMMA FunctorIsCall ==
  ASSUME NEW f \in Functor
  PROVE  f = Call(f.call, f.conn) /\ f.call \in Calls /\ f.conn \in Conns
BY DEF Call, Calls, Functor

\* An empty queue.
LEMMA RangeOfEmpty == Range(<<>>) = {} /\ IsInjective(<<>>) /\ ConnsIn(<<>>) = {}
BY DEF Range, IsInjective, ConnsIn

\* The connections of a queue, by its entries.
LEMMA ConnsOfRange == \A q : ConnsIn(q) = {f.conn : f \in Range(q)}
BY Zenon DEF ConnsIn, Range

\* queueInLoop adds one functor to one queue.
LEMMA QueueAdds ==
  ASSUME pending \in [Loops -> Seq(Functor)], NEW k \in Loops, NEW name \in Calls,
         NEW c \in Conns, Queue(k, name, c)
  PROVE  /\ pending' \in [Loops -> Seq(Functor)]
         /\ Range(pending'[k]) = Range(pending[k]) \cup {Call(name, c)}
         /\ \A l \in Loops \ {k} : pending'[l] = pending[l]
         /\ IsInjective(pending[k]) /\ Call(name, c) \notin Range(pending[k])
              => IsInjective(pending'[k])
<1>1. Call(name, c) \in Functor
  BY CallFields
<1>2. pending[k] \in Seq(Functor)
  OBVIOUS
<1>3. Append(pending[k], Call(name, c)) \in Seq(Functor)
  BY <1>1, <1>2, AppendAdds
<1>4. pending' = [pending EXCEPT ![k] = Append(pending[k], Call(name, c))]
  BY DEF Queue, Call
<1> HIDE DEF Functor
<1>5. pending' \in [Loops -> Seq(Functor)] /\ pending'[k] = Append(pending[k], Call(name, c))
       /\ \A l \in Loops \ {k} : pending'[l] = pending[l]
  BY <1>3, <1>4
<1> QED
  BY <1>1, <1>2, <1>5, AppendAdds

----------------------------------------------------------------------------
(* The start-up.                                                           *)

\* The pool's part of the invariant.  The loops are ready because they enter
\* loops_ one by one, after the look at loop_, and a thread that has made its
\* loop keeps it.
PoolInv == PoolTypeOK /\ LoopsReady

\* What the loops do leaves the pool alone, but for getNextLoop, whose counter
\* stays within loops_.
LEMMA LoopsKeepPool ==
  ASSUME PoolInv, UNCHANGED <<started, thread, waiting, loops, listening>>,
         next' = next \/ next' = Advance
  PROVE  PoolInv'
<1>1. next' \in 0 .. (IF NumThreads = 0 THEN 0 ELSE NumThreads - 1)
  BY NumThreadsAssumption DEF PoolInv, PoolTypeOK, Advance
<1> QED
  BY <1>1 DEF PoolInv, PoolTypeOK, LoopsReady

\* A step of the start-up keeps the loops of loops_ ready, since startLoop only
\* returns a loop_ that is set and threads never go back.
LEMMA StartUpKeepsPool == ASSUME PoolInv, StartUp PROVE PoolInv'
<1> USE NumThreadsAssumption
<1>1. CASE Start
  BY <1>1 DEF PoolInv, PoolTypeOK, LoopsReady, Start, Pool
<1>2. ASSUME NEW t \in Pool, StartThread(t) PROVE PoolInv'
  <2>1. PICK outcome \in {"spawned", "failed"} : thread' = [thread EXCEPT ![t] = outcome]
    BY <1>2 DEF StartThread
  <2>2. PoolTypeOK'
    BY <1>2, <2>1 DEF PoolInv, PoolTypeOK, StartThread, Pool
  <2>3. \A u \in 1 .. loops : thread'[u] = thread[u]
    BY <1>2, <2>1 DEF PoolInv, PoolTypeOK, StartThread, Pool
  <2> QED
    BY <1>2, <2>2, <2>3 DEF PoolInv, PoolTypeOK, LoopsReady, StartThread, Starting
<1>3. ASSUME NEW t \in Pool, StartLoop(t) PROVE PoolInv'
  <2>1. CASE LoopIsNull(t) /\ waiting' = TRUE /\ UNCHANGED loops
    BY <1>3, <2>1 DEF PoolInv, PoolTypeOK, LoopsReady, StartLoop
  <2>2. CASE ~LoopIsNull(t) /\ loops' = t /\ UNCHANGED waiting
    <3>1. PoolTypeOK'
      BY <1>3, <2>2 DEF PoolInv, PoolTypeOK, StartLoop, Pool
    <3>2. thread[t] \in {"ready", "looping"}
      BY <2>2 DEF LoopIsNull
    <3>3. \A u \in 1 .. loops' : u \in 1 .. loops \/ u = t
      BY <1>3, <2>2 DEF PoolInv, PoolTypeOK, StartLoop
    <3> QED
      BY <1>3, <3>1, <3>2, <3>3 DEF PoolInv, LoopsReady, StartLoop, Starting
  <2> QED
    BY <1>3, <2>1, <2>2 DEF StartLoop
<1>4. CASE Listen
  BY <1>4 DEF PoolInv, PoolTypeOK, LoopsReady, Listen
<1>5. CASE WakesUnasked
  BY <1>5 DEF PoolInv, PoolTypeOK, LoopsReady, WakesUnasked
<1>6. ASSUME NEW t \in Pool, ThreadFunc(t) PROVE PoolInv'
  <2>1. /\ \/ thread' = [thread EXCEPT ![t] = "ready"]
           \/ thread' = [thread EXCEPT ![t] = "looping"]
        /\ UNCHANGED <<started, loops, listening, next>>
    BY <1>6 DEF ThreadFunc, PublishLoop, EnterLoop
  <2>2. waiting' \in BOOLEAN
    BY <1>6, Zenon DEF ThreadFunc, PublishLoop, EnterLoop, Notify, PoolInv, PoolTypeOK
  <2>3. /\ thread' \in [Pool -> {"none", "failed", "spawned", "ready", "looping"}]
        /\ \A u \in Pool : thread[u] \in {"ready", "looping"}
                             => thread'[u] \in {"ready", "looping"}
    BY <2>1 DEF PoolInv, PoolTypeOK
  <2>4. PoolTypeOK'
    BY <2>1, <2>2, <2>3 DEF PoolInv, PoolTypeOK
  <2>5. 1 .. loops \subseteq Pool
    BY DEF PoolInv, PoolTypeOK, Pool
  <2> QED
    BY <2>1, <2>3, <2>4, <2>5 DEF PoolInv, LoopsReady
<1> QED
  BY <1>1, <1>2, <1>3, <1>4, <1>5, <1>6 DEF StartUp, StartStep

\* A step of a loop leaves the pool alone but for getNextLoop.
LEMMA StepKeepsPool ==
  ASSUME PoolInv, NEW l \in Loops,
         LoopStep(l) \/ Arrivals(l) \/ \E c \in Conns : HandleMessage(l, c)
  PROVE  PoolInv'
<1>1. CASE HandleAccept
  BY <1>1, LoopsKeepPool DEF HandleAccept, NewConnection, AcceptFails
<1>2. CASE ~HandleAccept
  <2>1. UNCHANGED poolVars
    BY <1>2 DEF LoopStep, Poll, HandleReadError, HandleReadEof, SwapFunctors,
                RunFunctor, EndFunctors, Arrivals, HandleMessage
  <2> QED
    BY <2>1, LoopsKeepPool DEF poolVars
<1> QED
  BY <1>1, <1>2

----------------------------------------------------------------------------
(* Types.                                                                  *)

\* removeConnection, from whatever loop and whoever calls it.
LEMMA RemovalTypes ==
  ASSUME TypeOK, NEW l \in Loops, NEW c \in Conns, RemoveConnection(l, c)
  PROVE  connections' \subseteq Conns /\ pending' \in [Loops -> Seq(Functor)]
         /\ aborted' \in BOOLEAN
<1> USE DEF TypeOK
<1>1. CASE l = Base /\ RemoveConnectionInLoop(c)
  <2>1. Queue(loopOf[c], "connectDestroyed", c) /\ loopOf[c] \in Loops
    BY <1>1 DEF RemoveConnectionInLoop, QueueDestroyed
  <2>2. pending' \in [Loops -> Seq(Functor)]
    BY <2>1, QueueAdds DEF Calls
  <2>3. aborted' \in BOOLEAN
    BY <1>1, Zenon DEF RemoveConnectionInLoop
  <2> QED
    BY <1>1, <2>2, <2>3 DEF RemoveConnectionInLoop, Erase
<1>2. CASE /\ l # Base
           /\ Queue(Base, "removeConnectionInLoop", c)
           /\ UNCHANGED <<connections, aborted>>
  <2>1. pending' \in [Loops -> Seq(Functor)]
    BY <1>2, QueueAdds DEF Calls, Loops
  <2> QED
    BY <1>2, <2>1
<1> QED
  BY <1>1, <1>2 DEF RemoveConnection

\* The vector of functors refers to connections.
LEMMA ConnsTyped ==
  ASSUME NEW q \in Seq(Functor)
  PROVE  ConnsIn(q) \subseteq Conns
<1>1. \A f \in Range(q) : f.conn \in Conns
  <2>1. Range(q) \subseteq Functor
    BY RangeOfSeq
  <2> QED
    BY <2>1, FunctorIsCall
<1> QED
  BY <1>1, ConnsOfRange

\* One step of a loop keeps the types; what the pool does is seen to elsewhere.
LEMMA StepTypes ==
  ASSUME TypeOK, NEW l \in Loops, PoolTypeOK',
         LoopStep(l) \/ Arrivals(l) \/ \E c \in Conns : HandleMessage(l, c)
  PROVE  TypeOK'
<1> USE DEF TypeOK
<1>1. ASSUME NEW data \in SUBSET (Conns \cup {Acceptor}), Poll(l, data) PROVE TypeOK'
  <2>1. Gone(l) \in SUBSET (Conns \cup {Acceptor})
    BY DEF Gone
  <2> QED
    BY <1>1, <2>1 DEF Poll, connVars, chanVars
<1>2. CASE HandleAccept
  <2>1. /\ batch' \in [Loops -> Seq(Functor)] /\ held' \in [Loops -> SUBSET Conns]
        /\ pc' \in [Loops -> {"poll", "dispatch", "functors"}]
        /\ active' \in [Loops -> SUBSET (Conns \cup {Acceptor})]
        /\ peer' \in [Conns -> {"open", "reset", "closed"}]
    BY <1>2 DEF HandleAccept, Handled
  <2>2. CASE nextConnId <= MaxConns /\ NewConnection
    <3> DEFINE c == nextConnId
    <3>1. nextConnId \in Conns /\ nextConnId' \in 1 .. MaxConns + 1
      BY <2>2, MaxConnsAssumption DEF NewConnection, Conns
    <3>2. NextLoop \in Loops
      BY NumThreadsAssumption DEF PoolTypeOK, NextLoop, Loops, Pool
    <3>3. /\ loopOf' \in [Conns -> Loops]
          /\ connections' \subseteq Conns
          /\ aborted' \in BOOLEAN
      BY <2>2, <3>1, <3>2 DEF NewConnection
    <3>4. /\ state' \in [Conns -> {"none", "kConnecting", "kConnected", "kDisconnected"}]
          /\ registered' \subseteq Conns /\ interest' \subseteq registered'
      BY <2>2, <3>1 DEF NewConnection
    <3>5. pending' \in [Loops -> Seq(Functor)]
      BY <2>2, <3>1, <3>2, QueueAdds DEF NewConnection, Calls
    <3> QED
      BY <2>1, <3>1, <3>3, <3>4, <3>5
  <2>3. CASE AcceptFails
    BY <2>1, <2>3 DEF AcceptFails, connVars, chanVars
  <2> QED
    BY <1>2, <2>2, <2>3 DEF HandleAccept
<1>3. ASSUME NEW c \in Conns, HandleReadError(l, c) \/ HandleMessage(l, c) PROVE TypeOK'
  <2>1. /\ Handled(l, c)
        /\ UNCHANGED <<connVars, chanVars, pending, aborted>>
    BY <1>3 DEF HandleReadError, HandleMessage
  <2>2. peer' \in [Conns -> {"open", "reset", "closed"}]
    BY <1>3 DEF HandleReadError, HandleMessage
  <2> QED
    BY <2>1, <2>2 DEF Handled, connVars, chanVars
<1>4. ASSUME NEW c \in Conns, HandleReadEof(l, c) PROVE TypeOK'
  <2>1. /\ batch' \in [Loops -> Seq(Functor)] /\ held' \in [Loops -> SUBSET Conns]
        /\ pc' \in [Loops -> {"poll", "dispatch", "functors"}]
        /\ active' \in [Loops -> SUBSET (Conns \cup {Acceptor})]
        /\ peer' \in [Conns -> {"open", "reset", "closed"}]
        /\ UNCHANGED <<nextConnId, loopOf, state, registered>>
    BY <1>4 DEF HandleReadEof, Handled
  <2>2. connections' \subseteq Conns /\ pending' \in [Loops -> Seq(Functor)]
         /\ aborted' \in BOOLEAN
    BY <1>4, RemovalTypes DEF HandleReadEof, HandleClose
  <2>3. interest' \subseteq registered
    BY <1>4 DEF HandleReadEof, HandleClose, DisableAll
  <2> QED
    BY <2>1, <2>2, <2>3
<1>5. CASE SwapFunctors(l)
  <2>1. ConnsIn(pending[l]) \subseteq Conns
    <3>1. pending[l] \in Seq(Functor)
      OBVIOUS
    <3> QED
      BY <3>1, ConnsTyped
  <2>2. <<>> \in Seq(Functor)
    BY EmptySeq
  <2> QED
    BY <1>5, <2>1, <2>2 DEF SwapFunctors, connVars, chanVars
<1>6. CASE RunFunctor(l)
  <2> DEFINE f == Head(batch[l])
  <2>1. /\ f \in Functor /\ Tail(batch[l]) \in Seq(Functor)
        /\ batch' = [batch EXCEPT ![l] = Tail(batch[l])]
        /\ UNCHANGED <<nextConnId, loopOf, held, active, pc, peer>>
    BY <1>6, TailTakes DEF RunFunctor
  <2>2. f.conn \in Conns
    BY <2>1, FunctorIsCall
  <2>3. batch' \in [Loops -> Seq(Functor)]
    BY <2>1
  <2>4. CASE ConnectEstablished(f.conn) /\ UNCHANGED <<connections, pending>>
    <3>1. aborted' \in BOOLEAN
      BY <2>4, Zenon DEF ConnectEstablished
    <3> HIDE DEF f
    <3> QED
      BY <2>1, <2>2, <2>3, <2>4, <3>1 DEF ConnectEstablished
  <2>5. CASE ConnectDestroyed(f.conn) /\ UNCHANGED <<connections, pending>>
    <3>1. aborted' \in BOOLEAN
      BY <2>5, Zenon DEF ConnectDestroyed
    <3> HIDE DEF f
    <3> QED
      BY <2>1, <2>2, <2>3, <2>5, <3>1 DEF ConnectDestroyed, Unregister
  <2>6. CASE RemoveConnectionInLoop(f.conn) /\ UNCHANGED <<state, chanVars>>
    <3>1. RemoveConnection(Base, f.conn) /\ Base \in Loops
      BY <2>6 DEF RemoveConnection, Loops
    <3>2. connections' \subseteq Conns /\ pending' \in [Loops -> Seq(Functor)]
          /\ aborted' \in BOOLEAN
      BY <2>2, <3>1, RemovalTypes
    <3> QED
      BY <2>1, <2>3, <2>6, <3>2 DEF chanVars
  <2> QED
    BY <1>6, <2>4, <2>5, <2>6 DEF RunFunctor
<1>7. CASE EndFunctors(l)
  BY <1>7 DEF EndFunctors, DropFunctors, connVars, chanVars
<1>8. CASE Arrivals(l)
  <2>1. Quiet(l) \cup (IF l = Base THEN {Acceptor} ELSE {}) \subseteq Conns \cup {Acceptor}
    BY DEF Quiet
  <2> QED
    BY <1>1, <1>8, <2>1 DEF Arrivals
<1> QED
  BY <1>1, <1>2, <1>3, <1>4, <1>5, <1>6, <1>7, <1>8 DEF LoopStep

----------------------------------------------------------------------------
(* What keeps a connection object alive.                                   *)

\* Rounds and batches: handlers and functors of a loop do not overlap; the vector
\* that is being run holds its connections; and a handler is only due for a
\* channel in the poller of this loop.
RoundInv ==
  \A l \in Loops :
    /\ pc[l] = "functors" => active[l] = {}
    /\ pc[l] # "functors" => batch[l] = <<>>
    /\ ConnsIn(batch[l]) \subseteq held[l]
    /\ \A c \in active[l] \ {Acceptor} : c \in registered /\ loopOf[c] = l

\* Functors are about connections there are, and connectDestroyed waits in the
\* loop of the connection.
WorkInv ==
  \A l \in Loops : \A f \in Work(l) :
    f.conn \in Known /\ (f.call = "connectDestroyed" => loopOf[f.conn] = l)

\* A connection that has left the map is down or its connectDestroyed is on its
\* way: this is what keeps the object.
ConnInv ==
  /\ connections \subseteq Known
  /\ registered \subseteq Known
  /\ \A c \in registered : state[c] = "kConnected"
  /\ \A c \in Known \ connections :
       state[c] # "kDisconnected"
         => Call("connectDestroyed", c) \in Work(loopOf[c])

LifeInv == RoundInv /\ WorkInv /\ ConnInv

\* Why it is enough: the functor that destroys a connection refers to it.
LEMMA LifeAlive == TypeOK /\ LifeInv => ChannelsAlive
<1> SUFFICES ASSUME TypeOK, LifeInv PROVE ChannelsAlive
  OBVIOUS
<1>1. ASSUME NEW c \in registered PROVE c \in Alive
  <2>1. CASE c \in connections
    BY <2>1 DEF Alive
  <2>2. CASE c \notin connections
    <3>1. c \in Conns /\ loopOf[c] \in Loops
      BY DEF TypeOK
    <3>2. Call("connectDestroyed", c) \in Work(loopOf[c])
      BY <2>2 DEF LifeInv, ConnInv
    <3>3. Call("connectDestroyed", c).conn = c
      BY <3>1, CallFields DEF Calls
    <3>4. CASE Call("connectDestroyed", c) \in Range(batch[loopOf[c]])
      <4>1. c \in ConnsIn(batch[loopOf[c]])
        BY <3>3, <3>4, ConnsOfRange
      <4> QED
        BY <3>1, <4>1 DEF LifeInv, RoundInv, Alive
    <3>5. CASE Call("connectDestroyed", c) \in Range(pending[loopOf[c]])
      <4>1. c \in ConnsIn(pending[loopOf[c]])
        BY <3>3, <3>5, ConnsOfRange
      <4> QED
        BY <3>1, <4>1 DEF Alive
    <3> QED
      BY <3>2, <3>4, <3>5 DEF Work
  <2> QED
    BY <2>1, <2>2
<1> QED
  BY <1>1 DEF ChannelsAlive, LifeInv, RoundInv

\* Steps that leave the map, the states, the poller and the queues alone.
LEMMA LifeKept ==
  ASSUME LifeInv, UNCHANGED <<connVars, registered, pending, batch, held, pc>>,
         \A l \in Loops : active'[l] \subseteq active[l]
  PROVE  LifeInv'
<1> USE DEF connVars, LifeInv
<1>1. RoundInv'
  BY DEF RoundInv
<1>2. WorkInv' /\ ConnInv'
  BY Zenon DEF WorkInv, ConnInv, Work, Known
<1> QED
  BY <1>1, <1>2

\* A functor more, about a connection there is, in the loop it belongs to.
LEMMA QueueKeepsWork ==
  ASSUME TypeOK, WorkInv, NEW k \in Loops, NEW c \in Conns, NEW name \in Calls,
         Queue(k, name, c), c \in Known', name = "connectDestroyed" => loopOf'[c] = k,
         Known \subseteq Known', \A b \in Known : loopOf'[b] = loopOf[b],
         UNCHANGED batch
  PROVE  /\ WorkInv'
         /\ \A l \in Loops : Work(l) \subseteq Work(l)'
         /\ Call(name, c) \in Work(k)'
<1>1. pending \in [Loops -> Seq(Functor)]
  BY DEF TypeOK
<1>2. /\ Range(pending'[k]) = Range(pending[k]) \cup {Call(name, c)}
      /\ \A l \in Loops \ {k} : pending'[l] = pending[l]
  BY <1>1, QueueAdds
<1>3. /\ Work(k)' = Work(k) \cup {Call(name, c)}
      /\ \A l \in Loops \ {k} : Work(l)' = Work(l)
  BY <1>2, Zenon DEF Work
<1>4. Call(name, c).call = name /\ Call(name, c).conn = c
  BY CallFields
<1>5. ASSUME NEW l \in Loops, NEW f \in Work(l)'
      PROVE  f.conn \in Known' /\ (f.call = "connectDestroyed" => loopOf'[f.conn] = l)
  <2>1. CASE f \in Work(l)
    BY <2>1 DEF WorkInv
  <2>2. CASE f \notin Work(l)
    BY <1>3, <1>4, <1>5, <2>2
  <2> QED
    BY <2>1, <2>2
<1>6. WorkInv'
  BY <1>5 DEF WorkInv
<1> QED
  BY <1>3, <1>6

\* Connections there are have a number and a loop.
LEMMA KnownConns == TypeOK => Known \subseteq Conns /\ \A c \in Known : loopOf[c] \in Loops
BY MaxConnsAssumption DEF TypeOK, Known, Conns

\* removeConnection keeps LifeInv, whoever calls it and however often: the
\* connection leaves the map as its connectDestroyed enters the queue.
LEMMA RemovalKeepsLife ==
  ASSUME TypeOK, LifeInv, NEW l \in Loops, NEW c \in Known, RemoveConnection(l, c),
         UNCHANGED <<nextConnId, loopOf, state, registered, batch, held, pc>>,
         \A k \in Loops : active'[k] \subseteq active[k]
  PROVE  LifeInv'
<1>1. RoundInv'
  BY DEF LifeInv, RoundInv
<1>2. Known' = Known /\ c \in Conns /\ loopOf[c] \in Loops
  BY KnownConns DEF Known
<1>3. CASE l = Base /\ RemoveConnectionInLoop(c)
  <2>1. /\ connections' = connections \ {c}
        /\ Queue(loopOf[c], "connectDestroyed", c)
    BY <1>3 DEF RemoveConnectionInLoop, QueueDestroyed, Erase
  <2>2. /\ WorkInv' /\ \A k \in Loops : Work(k) \subseteq Work(k)'
        /\ \A k \in Loops : k = loopOf[c] => Call("connectDestroyed", c) \in Work(k)'
    BY <1>2, <2>1, QueueKeepsWork DEF LifeInv, Calls
  <2>3. ConnInv'
    BY <1>2, <2>1, <2>2, KnownConns DEF LifeInv, ConnInv
  <2> QED
    BY <1>1, <2>2, <2>3 DEF LifeInv
<1>4. CASE /\ l # Base
           /\ Queue(Base, "removeConnectionInLoop", c)
           /\ UNCHANGED <<connections, aborted>>
  <2>1. WorkInv' /\ \A k \in Loops : Work(k) \subseteq Work(k)'
    BY <1>2, <1>4, QueueKeepsWork DEF LifeInv, Calls, Loops
  <2>2. ConnInv'
    BY <1>2, <1>4, <2>1, KnownConns DEF LifeInv, ConnInv
  <2> QED
    BY <1>1, <2>1, <2>2 DEF LifeInv
<1> QED
  BY <1>3, <1>4 DEF RemoveConnection

\* getNextLoop returns a loop.
LEMMA NextLoopIsLoop == PoolTypeOK => NextLoop \in Loops
BY NumThreadsAssumption DEF PoolTypeOK, NextLoop, Loops, Pool

\* A new connection has a new number, and the others stay as they are.
LEMMA NewConnectionIsNew ==
  ASSUME TypeOK, nextConnId <= MaxConns, NewConnection
  PROVE  /\ nextConnId \in Conns /\ nextConnId \notin Known
         /\ Known' = Known \cup {nextConnId}
         /\ \A b \in Conns : b # nextConnId => loopOf'[b] = loopOf[b] /\ state'[b] = state[b]
         /\ loopOf'[nextConnId] = NextLoop
         /\ connections' = connections \cup {nextConnId}
<1>1. /\ nextConnId \in Conns /\ nextConnId \notin Known
      /\ Known' = Known \cup {nextConnId}
  BY MaxConnsAssumption DEF TypeOK, NewConnection, Conns, Known
<1>2. /\ loopOf'[nextConnId] = NextLoop
      /\ connections' = connections \cup {nextConnId}
      /\ \A b \in Conns : b # nextConnId => loopOf'[b] = loopOf[b]
  BY <1>1 DEF TypeOK, NewConnection
<1>3. \A b \in Conns : b # nextConnId => state'[b] = state[b]
  BY <1>1 DEF TypeOK, NewConnection
<1> QED
  BY <1>1, <1>2, <1>3

\* A new connection is in the map, and nothing else refers to it yet but its
\* connectEstablished.
LEMMA AcceptKeepsLife ==
  ASSUME TypeOK, LifeInv, HandleAccept
  PROVE  LifeInv'
<1>1. /\ UNCHANGED <<batch, held, pc>>
      /\ \A l \in Loops : active'[l] \subseteq active[l]
  BY DEF HandleAccept, Handled, TypeOK
<1>2. CASE AcceptFails
  BY <1>1, <1>2, LifeKept DEF AcceptFails, connVars, chanVars
<1>3. CASE nextConnId <= MaxConns /\ NewConnection
  <2> DEFINE c == nextConnId
             k == NextLoop
  <2>1. /\ c \in Conns /\ c \notin Known /\ Known' = Known \cup {c}
        /\ \A b \in Conns : b # c => loopOf'[b] = loopOf[b] /\ state'[b] = state[b]
        /\ loopOf'[c] = k /\ connections' = connections \cup {c}
    BY <1>3, NewConnectionIsNew
  <2>2. k \in Loops
    BY NextLoopIsLoop DEF TypeOK
  <2>3. \/ /\ state'[c] = "kConnected"
           /\ registered' = registered \cup {c} /\ UNCHANGED pending
        \/ UNCHANGED registered /\ Queue(k, "connectEstablished", c)
    BY <1>3, <2>1 DEF NewConnection, TypeOK
  <2> HIDE DEF c, k
  <2>4. registered \subseteq Known
    BY DEF LifeInv, ConnInv
  <2>5. \A b \in Known : b \in Conns /\ b # c /\ loopOf'[b] = loopOf[b] /\ state'[b] = state[b]
    BY <2>1, KnownConns
  <2>6. RoundInv'
    BY <1>1, <2>3, <2>4, <2>5 DEF LifeInv, RoundInv
  <2>7. WorkInv' /\ \A l \in Loops : Work(l) \subseteq Work(l)'
    <3>1. CASE UNCHANGED pending
      <4>1. \A l \in Loops : Work(l)' = Work(l)
        BY <1>1, <3>1 DEF Work
      <4> QED
        BY <2>1, <2>5, <4>1 DEF LifeInv, WorkInv
    <3>2. CASE Queue(k, "connectEstablished", c)
      BY <1>1, <2>1, <2>2, <2>5, <3>2, QueueKeepsWork DEF LifeInv, Calls
    <3> QED
      BY <2>3, <3>1, <3>2
  <2>8. ConnInv'
    BY <2>1, <2>3, <2>5, <2>7, KnownConns DEF LifeInv, ConnInv
  <2> QED
    BY <2>6, <2>7, <2>8 DEF LifeInv
<1> QED
  BY <1>2, <1>3 DEF HandleAccept

\* poll() reports channels of the poller of this loop.
LEMMA PollKeepsLife ==
  ASSUME TypeOK, LifeInv, NEW l \in Loops, NEW data, Poll(l, data),
         data \subseteq Quiet(l) \cup {Acceptor}
  PROVE  LifeInv'
<1>1. /\ UNCHANGED <<connVars, registered, pending, batch, held>>
      /\ active' = [active EXCEPT ![l] = Gone(l) \cup data]
      /\ pc' = [pc EXCEPT ![l] = "dispatch"] /\ pc[l] = "poll"
  BY DEF Poll, chanVars
<1>2. \A c \in (Gone(l) \cup data) \ {Acceptor} : c \in registered /\ loopOf[c] = l
  BY DEF Gone, Quiet, TypeOK
<1>3. RoundInv'
  BY <1>1, <1>2 DEF LifeInv, RoundInv, connVars, TypeOK
<1>4. WorkInv' /\ ConnInv'
  BY <1>1, Zenon DEF LifeInv, WorkInv, ConnInv, Work, Known, connVars
<1> QED
  BY <1>3, <1>4 DEF LifeInv

\* The swap moves functors from one vector to the other, which then holds the
\* connections.
LEMMA SwapKeepsLife ==
  ASSUME TypeOK, LifeInv, NEW l \in Loops, SwapFunctors(l)
  PROVE  LifeInv'
<1>1. /\ pc[l] = "dispatch" /\ active[l] = {}
      /\ UNCHANGED <<connVars, registered, active>>
      /\ batch' = [batch EXCEPT ![l] = pending[l]]
      /\ held' = [held EXCEPT ![l] = ConnsIn(pending[l])]
      /\ pending' = [pending EXCEPT ![l] = <<>>]
      /\ pc' = [pc EXCEPT ![l] = "functors"]
  BY DEF SwapFunctors, chanVars
<1>2. batch[l] = <<>>
  BY <1>1 DEF LifeInv, RoundInv
<1>3. RoundInv'
  BY <1>1 DEF LifeInv, RoundInv, connVars, TypeOK
<1>4. \A k \in Loops : Work(k)' = Work(k)
  <2>1. ASSUME NEW k \in Loops, k # l PROVE Work(k)' = Work(k)
    BY <1>1, <2>1 DEF Work, TypeOK
  <2>2. batch'[l] = pending[l] /\ pending'[l] = <<>>
    BY <1>1 DEF TypeOK
  <2>3. Work(l)' = Work(l)
    BY <1>2, <2>2, RangeOfEmpty DEF Work
  <2> QED
    BY <2>1, <2>3
<1>5. WorkInv'
  BY <1>1, <1>4, Zenon DEF LifeInv, WorkInv, Known, connVars
<1>6. ConnInv'
  BY <1>1, <1>4, KnownConns DEF LifeInv, ConnInv, Known, connVars
<1> QED
  BY <1>3, <1>5, <1>6 DEF LifeInv

\* The vector is destroyed when nothing of it is left to run.
LEMMA EndKeepsLife ==
  ASSUME TypeOK, LifeInv, NEW l \in Loops, EndFunctors(l)
  PROVE  LifeInv'
<1>1. /\ UNCHANGED <<connVars, registered, pending, batch, active>>
      /\ batch[l] = <<>>
      /\ held' = [held EXCEPT ![l] = {}]
      /\ pc' = [pc EXCEPT ![l] = "poll"]
  BY DEF EndFunctors, DropFunctors, chanVars
<1>2. RoundInv'
  BY <1>1, RangeOfEmpty DEF LifeInv, RoundInv, connVars, TypeOK
<1>3. WorkInv' /\ ConnInv'
  BY <1>1, Zenon DEF LifeInv, WorkInv, ConnInv, Work, Known, connVars
<1> QED
  BY <1>2, <1>3 DEF LifeInv

\* What is left of a batch.
LEMMA RunTakes ==
  ASSUME TypeOK, NEW l \in Loops, batch[l] # <<>>, batch' = [batch EXCEPT ![l] = Tail(batch[l])]
  PROVE  /\ Head(batch[l]) \in Functor /\ Head(batch[l]) \in Work(l)
         /\ Range(batch[l]) = {Head(batch[l])} \cup Range(batch'[l])
         /\ \A k \in Loops \ {l} : batch'[k] = batch[k]
         /\ ConnsIn(batch'[l]) \subseteq ConnsIn(batch[l])
         /\ batch'[l] = Tail(batch[l])
         /\ IsInjective(batch[l])
              => IsInjective(batch'[l]) /\ Head(batch[l]) \notin Range(batch'[l])
<1>1. batch'[l] = Tail(batch[l]) /\ batch[l] \in Seq(Functor)
       /\ \A k \in Loops \ {l} : batch'[k] = batch[k]
  BY DEF TypeOK
<1>2. /\ Head(batch[l]) \in Functor
      /\ Range(batch[l]) = {Head(batch[l])} \cup Range(batch'[l])
      /\ IsInjective(batch[l])
           => IsInjective(batch'[l]) /\ Head(batch[l]) \notin Range(batch'[l])
  BY <1>1, TailTakes
<1>3. ConnsIn(batch'[l]) \subseteq ConnsIn(batch[l])
  BY <1>2, ConnsOfRange
<1> QED
  BY <1>1, <1>2, <1>3 DEF Work

\* A functor keeps LifeInv unless an assert fails: a connection that is
\* established after its removal still has its connectDestroyed to come, and no
\* handler of the round is left when a channel leaves the poller.
LEMMA RunKeepsLife ==
  ASSUME TypeOK, LifeInv, NEW l \in Loops, RunFunctor(l), ~aborted'
  PROVE  LifeInv'
<1> DEFINE f == Head(batch[l])
           c == f.conn
<1>1. /\ pc[l] = "functors" /\ batch[l] # <<>>
      /\ batch' = [batch EXCEPT ![l] = Tail(batch[l])]
      /\ UNCHANGED <<nextConnId, loopOf, held, active, pc>>
  BY DEF RunFunctor
<1>2. /\ f \in Functor /\ f \in Work(l)
      /\ Range(batch[l]) = {f} \cup Range(batch'[l])
      /\ \A k \in Loops \ {l} : batch'[k] = batch[k]
      /\ ConnsIn(batch'[l]) \subseteq ConnsIn(batch[l])
  BY <1>1, RunTakes
<1>3. c \in Known /\ c \in Conns /\ loopOf[c] \in Loops /\ Known' = Known
  BY <1>1, <1>2, KnownConns DEF LifeInv, WorkInv, Known
<1>4. active[l] = {}
  BY <1>1 DEF LifeInv, RoundInv
<1>5. \A k \in Loops \ {l} : pc'[k] # "functors" => batch'[k] = <<>>
  BY <1>1, <1>2 DEF LifeInv, RoundInv
<1> HIDE DEF f
<1>6. CASE /\ f.call = "connectEstablished"
           /\ ConnectEstablished(c)
           /\ UNCHANGED <<connections, pending>>
  <2>1. /\ state[c] = "kConnecting"
        /\ state'[c] = "kConnected" /\ \A b \in Conns : b # c => state'[b] = state[b]
        /\ registered' = registered \cup {c}
    BY <1>3, <1>6 DEF ConnectEstablished, TypeOK
  <2>2. RoundInv'
    BY <1>1, <1>2, <1>4, <1>5, <2>1 DEF LifeInv, RoundInv
  <2>3. \A k \in Loops : Work(k) \subseteq Work(k)' \cup {f} /\ Work(k)' \subseteq Work(k)
    BY <1>2, <1>6 DEF Work
  <2>4. WorkInv'
    BY <1>1, <1>3, <2>3 DEF LifeInv, WorkInv
  <2>5. \A b \in Conns : Call("connectDestroyed", b) # f
    BY <1>6, CallFields DEF Calls
  <2>6. ConnInv'
    BY <1>1, <1>3, <1>6, <2>1, <2>3, <2>5, KnownConns DEF LifeInv, ConnInv
  <2> QED
    BY <2>2, <2>4, <2>6 DEF LifeInv
<1>7. CASE /\ f.call = "connectDestroyed"
           /\ ConnectDestroyed(c)
           /\ UNCHANGED <<connections, pending>>
  <2>1. /\ state'[c] = "kDisconnected" /\ \A b \in Conns : b # c => state'[b] = state[b]
        /\ registered' = registered \ {c}
    BY <1>3, <1>7 DEF ConnectDestroyed, Unregister, TypeOK
  <2>2. loopOf[c] = l
    BY <1>2, <1>7 DEF LifeInv, WorkInv
  <2>3. RoundInv'
    BY <1>1, <1>2, <1>4, <1>5, <2>1, <2>2 DEF LifeInv, RoundInv
  <2>4. \A k \in Loops : Work(k) \subseteq Work(k)' \cup {f} /\ Work(k)' \subseteq Work(k)
    BY <1>2, <1>7 DEF Work
  <2>5. WorkInv'
    BY <1>1, <1>3, <2>4 DEF LifeInv, WorkInv
  <2>6. \A b \in Conns : b # c => Call("connectDestroyed", b) # f
    BY <1>7, CallFields DEF Calls
  <2>7. ConnInv'
    BY <1>1, <1>3, <1>7, <2>1, <2>4, <2>6, KnownConns DEF LifeInv, ConnInv
  <2> QED
    BY <2>3, <2>5, <2>7 DEF LifeInv
<1>8. CASE /\ f.call = "removeConnectionInLoop"
           /\ RemoveConnectionInLoop(c)
           /\ UNCHANGED <<state, chanVars>>
  <2>1. /\ connections' = connections \ {c}
        /\ Queue(loopOf[c], "connectDestroyed", c)
        /\ UNCHANGED <<state, registered>>
    BY <1>8 DEF RemoveConnectionInLoop, QueueDestroyed, Erase, chanVars
  <2>2. RoundInv'
    BY <1>1, <1>2, <1>4, <1>5, <2>1 DEF LifeInv, RoundInv
  <2>3. /\ Range(pending'[loopOf[c]]) = Range(pending[loopOf[c]]) \cup {Call("connectDestroyed", c)}
        /\ \A k \in Loops \ {loopOf[c]} : pending'[k] = pending[k]
    BY <1>3, <2>1, QueueAdds DEF TypeOK, Calls
  <2>4. \A k \in Loops :
          /\ Work(k) \subseteq Work(k)' \cup {f}
          /\ \A g \in Work(k)' : g \in Work(k) \/ (k = loopOf[c] /\ g = Call("connectDestroyed", c))
          /\ k = loopOf[c] => Call("connectDestroyed", c) \in Work(k)'
    BY <1>2, <2>3 DEF Work
  <2>5. Call("connectDestroyed", c).conn = c
    BY <1>3, CallFields DEF Calls
  <2>6. WorkInv'
    BY <1>1, <1>3, <2>4, <2>5 DEF LifeInv, WorkInv
  <2>7. \A b \in Conns : Call("connectDestroyed", b) # f
    BY <1>8, CallFields DEF Calls
  <2>8. ConnInv'
    BY <1>1, <1>3, <2>1, <2>4, <2>7, KnownConns DEF LifeInv, ConnInv
  <2> QED
    BY <2>2, <2>6, <2>8 DEF LifeInv
<1> QED
  BY <1>6, <1>7, <1>8 DEF RunFunctor, f

\* The round of handlers only gets shorter.
LEMMA HandledShrinks ==
  ASSUME TypeOK, NEW l \in Loops, NEW c, Handled(l, c)
  PROVE  /\ \A k \in Loops : active'[k] \subseteq active[k]
         /\ c \in active[l] /\ UNCHANGED <<batch, held, pc>>
BY DEF Handled, TypeOK

\* A connection whose handler is due is connected.
LEMMA ActiveIsKnown ==
  ASSUME LifeInv, NEW l \in Loops, NEW c \in Conns, c \in active[l]
  PROVE  c \in Known /\ c \in registered /\ state[c] = "kConnected" /\ loopOf[c] = l
BY DEF LifeInv, RoundInv, ConnInv, Acceptor, Conns

\* Every step of a loop keeps LifeInv, as long as no assert fails.
LEMMA StepKeepsLife ==
  ASSUME TypeOK, LifeInv, NEW l \in Loops,
         LoopStep(l) \/ Arrivals(l) \/ \E c \in Conns : HandleMessage(l, c), ~aborted'
  PROVE  LifeInv'
<1>1. ASSUME NEW c \in Conns, HandleReadEof(l, c) PROVE LifeInv'
  <2>1. /\ \A k \in Loops : active'[k] \subseteq active[k]
        /\ c \in active[l] /\ UNCHANGED <<batch, held, pc>>
    BY <1>1, HandledShrinks DEF HandleReadEof
  <2>2. c \in Known
    BY <2>1, ActiveIsKnown
  <2>3. RemoveConnection(l, c) /\ UNCHANGED <<nextConnId, loopOf, state, registered>>
    BY <1>1 DEF HandleReadEof, HandleClose
  <2> QED
    BY <2>1, <2>2, <2>3, RemovalKeepsLife
<1>2. ASSUME NEW c \in Conns, HandleReadError(l, c) \/ HandleMessage(l, c) PROVE LifeInv'
  <2>1. Handled(l, c) /\ UNCHANGED <<connVars, chanVars, pending>>
    BY <1>2 DEF HandleReadError, HandleMessage
  <2> QED
    BY <2>1, HandledShrinks, LifeKept DEF chanVars
<1>3. CASE Poll(l, {})
  BY <1>3, PollKeepsLife
<1>4. CASE Arrivals(l)
  BY <1>4, PollKeepsLife DEF Arrivals
<1> QED
  BY <1>1, <1>2, <1>3, <1>4, AcceptKeepsLife, SwapKeepsLife, RunKeepsLife, EndKeepsLife
     DEF LoopStep

----------------------------------------------------------------------------
(* What the server alone guarantees.                                       *)

\* No functor is queued twice.
QueueInv ==
  \A l \in Loops : /\ IsInjective(batch[l]) /\ IsInjective(pending[l])
                   /\ Range(batch[l]) \cap Range(pending[l]) = {}

\* What each functor relies on: a connection that still waits to be established,
\* ...
DueEstablish(l, c) == loopOf[c] = l /\ state[c] = "kConnecting" /\ c \in connections
\* ... one that has been closed, in another loop than the base loop, ...
DueRemove(l, c) == l = Base /\ c \in registered \ interest /\ c \in connections
\* ... and one that was taken out of the map after its close.
DueDestroy(c) == c \in registered \ interest /\ c \notin connections

\* So there is at most one functor about a connection at any time.
FunctorInv ==
  \A l \in Loops : \A f \in Work(l) :
    \/ f.call = "connectEstablished" /\ DueEstablish(l, f.conn)
    \/ f.call = "removeConnectionInLoop" /\ DueRemove(l, f.conn)
    \/ f.call = "connectDestroyed" /\ DueDestroy(f.conn)

\* Only connections in the map have their events enabled, and only those are
\* handled.
StateInv ==
  /\ interest \subseteq connections
  /\ \A l \in Loops : active[l] \ {Acceptor} \subseteq interest
  /\ \A c \in connections : state[c] # "kDisconnected"

OnceInv == QueueInv /\ FunctorInv /\ StateInv

\* The inductive invariant of the server.
IInv == PoolInv /\ TypeOK /\ ~aborted /\ LifeInv /\ OnceInv

USE DEF DueEstablish, DueRemove, DueDestroy

\* Steps that leave connections, channels and queues alone.
LEMMA OnceKept ==
  ASSUME OnceInv, UNCHANGED <<connVars, chanVars, pending, batch>>,
         \A l \in Loops : active'[l] \ {Acceptor} \subseteq interest
  PROVE  OnceInv'
<1>1. QueueInv' /\ FunctorInv'
  BY Zenon DEF OnceInv, QueueInv, FunctorInv, Work, connVars, chanVars
<1>2. StateInv'
  BY DEF OnceInv, StateInv, connVars, chanVars
<1> QED
  BY <1>1, <1>2 DEF OnceInv

\* A functor that is not yet queued is queued once.
LEMMA QueueOnce ==
  ASSUME TypeOK, QueueInv, NEW k \in Loops, NEW c \in Conns, NEW name \in Calls,
         Queue(k, name, c), Call(name, c) \notin Work(k), UNCHANGED batch
  PROVE  /\ QueueInv'
         /\ Work(k)' = Work(k) \cup {Call(name, c)}
         /\ \A l \in Loops \ {k} : Work(l)' = Work(l)
<1>1. pending \in [Loops -> Seq(Functor)]
  BY DEF TypeOK
<1>2. /\ Range(pending'[k]) = Range(pending[k]) \cup {Call(name, c)}
      /\ \A l \in Loops \ {k} : pending'[l] = pending[l]
      /\ IsInjective(pending'[k])
  BY <1>1, QueueAdds DEF QueueInv, Work
<1>3. QueueInv'
  <2>1. Range(batch[k]) \cap Range(pending'[k]) = {}
    BY <1>2 DEF QueueInv, Work
  <2> QED
    BY <1>2, <2>1 DEF QueueInv
<1> QED
  BY <1>2, <1>3 DEF Work

\* A new connection: its connectEstablished is the first functor about it.
LEMMA AcceptOnce ==
  ASSUME IInv, HandleAccept
  PROVE  OnceInv' /\ ~aborted'
<1> USE DEF IInv
<1>1. /\ UNCHANGED batch
      /\ \A l \in Loops : active'[l] \subseteq active[l]
  BY DEF HandleAccept, Handled, TypeOK
<1>2. CASE AcceptFails
  BY <1>1, <1>2, OnceKept DEF AcceptFails, OnceInv, StateInv
<1>3. CASE nextConnId <= MaxConns /\ NewConnection
  <2>0. PICK c \in Conns : c = nextConnId
    BY <1>3, NewConnectionIsNew
  <2>2. PICK k \in Loops : k = NextLoop
    BY NextLoopIsLoop DEF TypeOK
  <2>1. /\ c \notin Known /\ Known' = Known \cup {c}
        /\ \A b \in Conns : b # c => loopOf'[b] = loopOf[b] /\ state'[b] = state[b]
        /\ loopOf'[c] = k /\ connections' = connections \cup {c}
    BY <1>3, <2>0, <2>2, NewConnectionIsNew
  <2>3. \/ /\ state'[c] = "kConnected" /\ UNCHANGED pending
           /\ registered' = registered \cup {c} /\ interest' = interest \cup {c}
        \/ /\ state'[c] = "kConnecting" /\ Queue(k, "connectEstablished", c)
           /\ UNCHANGED <<registered, interest>>
    BY <1>3, <2>0, <2>2 DEF NewConnection, TypeOK
  <2>4. ~aborted'
    BY <1>3 DEF NewConnection
  <2>5. \A l \in Loops : \A f \in Work(l) : f.conn \in Conns /\ f.conn # c
    BY <2>1, KnownConns DEF LifeInv, WorkInv
  <2>6. StateInv'
    BY <1>1, <2>1, <2>3, KnownConns DEF OnceInv, StateInv, LifeInv, ConnInv
  <2>7. CASE UNCHANGED pending
    <3>1. QueueInv' /\ \A l \in Loops : Work(l)' = Work(l)
      BY <1>1, <2>7, Zenon DEF OnceInv, QueueInv, Work
    <3>2. FunctorInv'
      BY <2>1, <2>3, <2>5, <3>1 DEF OnceInv, FunctorInv
    <3> QED
      BY <2>4, <2>6, <3>1, <3>2 DEF OnceInv
  <2>8. CASE state'[c] = "kConnecting" /\ Queue(k, "connectEstablished", c)
             /\ UNCHANGED <<registered, interest>>
    <3>1. "connectEstablished" \in Calls
      BY DEF Calls
    <3>2. Call("connectEstablished", c).call = "connectEstablished"
          /\ Call("connectEstablished", c).conn = c
      BY <2>1, <3>1, CallFields
    <3>3. Call("connectEstablished", c) \notin Work(k)
      BY <2>2, <2>5, <3>2
    <3>4. /\ QueueInv'
          /\ Work(k)' = Work(k) \cup {Call("connectEstablished", c)}
          /\ \A l \in Loops \ {k} : Work(l)' = Work(l)
      BY <1>1, <2>1, <2>2, <2>8, <3>1, <3>3, QueueOnce DEF OnceInv
    <3>5. FunctorInv'
      BY <2>1, <2>2, <2>5, <2>8, <3>2, <3>4 DEF OnceInv, FunctorInv
    <3> QED
      BY <2>4, <2>6, <3>4, <3>5 DEF OnceInv
  <2> QED
    BY <2>3, <2>7, <2>8
<1> QED
  BY <1>2, <1>3 DEF HandleAccept

\* handleClose: no functor about an open connection is queued, so the one it
\* queues is the only one, and disableAll sees to it that it comes once.
LEMMA EofOnce ==
  ASSUME IInv, NEW l \in Loops, NEW c \in Conns, HandleReadEof(l, c)
  PROVE  OnceInv' /\ ~aborted'
<1> USE DEF IInv
<1>1. c \in active[l] /\ UNCHANGED <<batch, loopOf, state, registered>>
      /\ active' = [active EXCEPT ![l] = active[l] \ {c}]
  BY DEF HandleReadEof, Handled
<1>2. c \in Known /\ c \in registered /\ state[c] = "kConnected" /\ loopOf[c] = l
  BY <1>1, ActiveIsKnown
<1>3. c \in interest /\ c \in connections
  BY <1>1 DEF OnceInv, StateInv, Acceptor, Conns
<1>4. RemoveConnection(l, c) /\ interest' = interest \ {c}
  BY <1>2 DEF HandleReadEof, HandleClose, DisableAll
<1>5. \A k \in Loops : \A f \in Work(k) : f.conn # c
  BY <1>2, <1>3 DEF OnceInv, FunctorInv
<1>6. \A k \in Loops : active'[k] \ {Acceptor} \subseteq interest'
  BY <1>1, <1>2, <1>4 DEF OnceInv, StateInv, LifeInv, RoundInv, TypeOK
<1>7. \A name \in Calls : /\ Call(name, c).call = name /\ Call(name, c).conn = c
                          /\ \A k \in Loops : Call(name, c) \notin Work(k)
  BY <1>5, CallFields
<1>8. CASE l = Base /\ RemoveConnectionInLoop(c)
  <2>1. /\ connections' = connections \ {c} /\ ~aborted'
        /\ Queue(l, "connectDestroyed", c)
    BY <1>2, <1>3, <1>8 DEF RemoveConnectionInLoop, QueueDestroyed, Erase
  <2>2. /\ QueueInv'
        /\ Work(l)' = Work(l) \cup {Call("connectDestroyed", c)}
        /\ \A k \in Loops \ {l} : Work(k)' = Work(k)
    BY <1>1, <1>7, <2>1, QueueOnce DEF OnceInv, Calls
  <2>3. FunctorInv'
    BY <1>1, <1>2, <1>4, <1>5, <1>7, <2>1, <2>2 DEF OnceInv, FunctorInv, Calls
  <2>4. StateInv'
    BY <1>1, <1>4, <1>6, <2>1 DEF OnceInv, StateInv
  <2> QED
    BY <2>1, <2>2, <2>3, <2>4 DEF OnceInv
<1>9. CASE /\ l # Base
           /\ Queue(Base, "removeConnectionInLoop", c)
           /\ UNCHANGED <<connections, aborted>>
  <2>1. Base \in Loops
    BY DEF Loops
  <2>2. /\ QueueInv'
        /\ Work(Base)' = Work(Base) \cup {Call("removeConnectionInLoop", c)}
        /\ \A k \in Loops \ {Base} : Work(k)' = Work(k)
    BY <1>1, <1>7, <1>9, <2>1, QueueOnce DEF OnceInv, Calls
  <2>3. FunctorInv'
    BY <1>1, <1>2, <1>3, <1>4, <1>5, <1>7, <1>9, <2>1, <2>2 DEF OnceInv, FunctorInv, Calls
  <2>4. StateInv'
    BY <1>1, <1>4, <1>6, <1>9 DEF OnceInv, StateInv
  <2> QED
    BY <1>9, <2>2, <2>3, <2>4 DEF OnceInv
<1> QED
  BY <1>4, <1>8, <1>9 DEF RemoveConnection

\* The swap.
LEMMA SwapOnce ==
  ASSUME IInv, NEW l \in Loops, SwapFunctors(l)
  PROVE  OnceInv' /\ ~aborted'
<1> USE DEF IInv
<1>1. /\ pc[l] = "dispatch" /\ UNCHANGED <<connVars, chanVars, active, aborted>>
      /\ batch' = [batch EXCEPT ![l] = pending[l]]
      /\ pending' = [pending EXCEPT ![l] = <<>>]
  BY DEF SwapFunctors
<1>2. batch[l] = <<>>
  BY <1>1 DEF LifeInv, RoundInv
<1>3. /\ batch'[l] = pending[l] /\ pending'[l] = <<>>
      /\ \A k \in Loops \ {l} : batch'[k] = batch[k] /\ pending'[k] = pending[k]
  BY <1>1 DEF TypeOK
<1>4. \A k \in Loops : Work(k)' = Work(k)
  BY <1>2, <1>3, RangeOfEmpty DEF Work
<1>5. QueueInv'
  BY <1>3, RangeOfEmpty DEF OnceInv, QueueInv
<1>6. FunctorInv' /\ StateInv'
  BY <1>1, <1>4, Zenon DEF OnceInv, FunctorInv, StateInv, connVars, chanVars
<1> QED
  BY <1>1, <1>5, <1>6 DEF OnceInv

\* A functor finds the connection in the state its asserts ask for, and was the
\* only one about it.
LEMMA RunOnce ==
  ASSUME IInv, NEW l \in Loops, RunFunctor(l)
  PROVE  OnceInv' /\ ~aborted'
<1> USE DEF IInv
<1> DEFINE f == Head(batch[l])
           c == f.conn
<1>1. /\ pc[l] = "functors" /\ batch[l] # <<>>
      /\ batch' = [batch EXCEPT ![l] = Tail(batch[l])]
      /\ UNCHANGED <<loopOf, active>>
  BY DEF RunFunctor
<1>2. /\ f \in Functor /\ f \in Work(l)
      /\ Range(batch[l]) = {f} \cup Range(batch'[l])
      /\ \A k \in Loops \ {l} : batch'[k] = batch[k]
      /\ IsInjective(batch'[l]) /\ f \notin Range(batch'[l])
  BY <1>1, RunTakes DEF OnceInv, QueueInv
<1>3. /\ f = Call(f.call, c) /\ c \in Conns
      /\ \A k \in Loops : \A g \in Work(k) : g = Call(g.call, g.conn) /\ g.conn \in Conns
  <2>1. \A k \in Loops : Work(k) \subseteq Functor
    BY RangeOfSeq DEF Work, TypeOK
  <2> QED
    BY <1>2, <2>1, FunctorIsCall
<1>4. f \notin Range(pending[l])
  BY <1>2 DEF OnceInv, QueueInv
<1> HIDE DEF f
<1>5. CASE /\ \/ f.call = "connectEstablished" /\ ConnectEstablished(c)
              \/ f.call = "connectDestroyed" /\ ConnectDestroyed(c)
           /\ UNCHANGED <<connections, pending>>
  <2>1. QueueInv'
    BY <1>2, <1>5 DEF OnceInv, QueueInv
  <2>2. Work(l)' = Work(l) \ {f} /\ \A k \in Loops \ {l} : Work(k)' = Work(k)
    BY <1>2, <1>4, <1>5 DEF Work
  <2>3. CASE f.call = "connectEstablished" /\ ConnectEstablished(c)
    <3>1. DueEstablish(l, c)
      BY <1>2, <2>3 DEF OnceInv, FunctorInv
    <3>2. /\ ~aborted' /\ registered' = registered \cup {c} /\ interest' = interest \cup {c}
          /\ \A b \in Conns : b # c => state'[b] = state[b]
          /\ state'[c] = "kConnected"
      BY <1>3, <2>3, <3>1 DEF ConnectEstablished, TypeOK
    <3>3. \A k \in Loops : \A g \in Work(k)' : g \in Work(k) /\ g.conn # c
      <4> SUFFICES ASSUME NEW k \in Loops, NEW g \in Work(k)', g.conn = c PROVE FALSE
        BY <2>2
      <4>1. g \in Work(k) /\ (k = l => g # f)
        BY <2>2
      <4>2. g.call = "connectEstablished" /\ k = l
        BY <3>1, <4>1 DEF OnceInv, FunctorInv, LifeInv, ConnInv
      <4> QED
        BY <1>3, <2>3, <4>1, <4>2
    <3>4. FunctorInv'
      BY <1>1, <1>3, <1>5, <3>2, <3>3 DEF OnceInv, FunctorInv
    <3>5. StateInv'
      BY <1>1, <1>5, <3>1, <3>2 DEF OnceInv, StateInv, TypeOK
    <3> QED
      BY <2>1, <3>2, <3>4, <3>5 DEF OnceInv
  <2>4. CASE f.call = "connectDestroyed" /\ ConnectDestroyed(c)
    <3>1. DueDestroy(c) /\ state[c] = "kConnected" /\ loopOf[c] = l
      BY <1>2, <2>4 DEF OnceInv, FunctorInv, LifeInv, ConnInv, WorkInv
    <3>2. /\ ~aborted' /\ registered' = registered \ {c} /\ interest' = interest
          /\ \A b \in Conns : b # c => state'[b] = state[b]
      BY <1>3, <2>4, <3>1 DEF ConnectDestroyed, Unregister, TypeOK
    <3>3. \A k \in Loops : \A g \in Work(k)' : g \in Work(k) /\ g.conn # c
      <4> SUFFICES ASSUME NEW k \in Loops, NEW g \in Work(k)', g.conn = c PROVE FALSE
        BY <2>2
      <4>1. g \in Work(k) /\ (k = l => g # f)
        BY <2>2
      <4>2. g.call = "connectDestroyed" /\ k = l
        BY <3>1, <4>1 DEF OnceInv, FunctorInv, LifeInv, WorkInv
      <4> QED
        BY <1>3, <2>4, <4>1, <4>2
    <3>4. FunctorInv'
      BY <1>1, <1>3, <1>5, <3>2, <3>3 DEF OnceInv, FunctorInv
    <3>5. StateInv'
      BY <1>1, <1>5, <3>1, <3>2 DEF OnceInv, StateInv, TypeOK
    <3> QED
      BY <2>1, <3>2, <3>4, <3>5 DEF OnceInv
  <2> QED
    BY <1>5, <2>3, <2>4
<1>6. CASE /\ f.call = "removeConnectionInLoop"
           /\ RemoveConnectionInLoop(c)
           /\ UNCHANGED <<state, chanVars>>
  <2> DEFINE d == Call("connectDestroyed", c)
             k == loopOf[c]
  <2>1. DueRemove(l, c)
    BY <1>2, <1>6 DEF OnceInv, FunctorInv
  <2>2. /\ connections' = connections \ {c} /\ ~aborted' /\ k \in Loops
        /\ Queue(k, "connectDestroyed", c) /\ UNCHANGED <<state, registered, interest>>
    BY <1>3, <1>6, <2>1 DEF RemoveConnectionInLoop, QueueDestroyed, Erase, TypeOK, chanVars
  <2>3. d.call = "connectDestroyed" /\ d.conn = c
    BY <1>3, CallFields DEF Calls
  <2>4. \A j \in Loops : d \notin Work(j)
    BY <2>1, <2>3 DEF OnceInv, FunctorInv
  <2>5. /\ Range(pending'[k]) = Range(pending[k]) \cup {d}
        /\ \A j \in Loops \ {k} : pending'[j] = pending[j]
        /\ IsInjective(pending'[k])
    BY <1>3, <2>2, <2>4, QueueAdds DEF TypeOK, Calls, OnceInv, QueueInv, Work
  <2> HIDE DEF d, k
  <2>6. QueueInv'
    <3>1. \A j \in Loops : Range(batch'[j]) \subseteq Range(batch[j]) /\ d \notin Range(batch[j])
      BY <1>2, <2>4 DEF Work
    <3>2. \A j \in Loops : IsInjective(batch'[j]) /\ IsInjective(pending'[j])
      BY <1>2, <2>5 DEF OnceInv, QueueInv
    <3>3. \A j \in Loops : Range(pending'[j]) \subseteq Range(pending[j]) \cup {d}
      BY <2>5
    <3> QED
      BY <3>1, <3>2, <3>3 DEF OnceInv, QueueInv
  <2>7. \A j \in Loops : \A g \in Work(j)' :
           (g = d /\ j = k) \/ (g \in Work(j) /\ (j = l => g # f))
    BY <1>2, <1>4, <2>5 DEF Work
  <2>8. \A j \in Loops : \A g \in Work(j)' : (g = d /\ j = k) \/ (g \in Work(j) /\ g.conn # c)
    <3> SUFFICES ASSUME NEW j \in Loops, NEW g \in Work(j), g.conn = c, j = l => g # f PROVE FALSE
      BY <2>7
    <3>1. g.call = "removeConnectionInLoop" /\ j = l
      BY <2>1 DEF OnceInv, FunctorInv, LifeInv, ConnInv
    <3> QED
      BY <1>3, <1>6, <3>1
  <2>9. FunctorInv'
    BY <1>1, <1>3, <2>1, <2>2, <2>3, <2>8 DEF OnceInv, FunctorInv, k
  <2>10. StateInv'
    BY <1>1, <2>1, <2>2 DEF OnceInv, StateInv
  <2> QED
    BY <2>2, <2>6, <2>9, <2>10 DEF OnceInv
<1> QED
  BY <1>5, <1>6 DEF RunFunctor, f

\* Every step of a loop.
LEMMA StepOnce ==
  ASSUME IInv, NEW l \in Loops,
         LoopStep(l) \/ Arrivals(l) \/ \E c \in Conns : HandleMessage(l, c)
  PROVE  OnceInv' /\ ~aborted'
<1>1. ASSUME NEW data, Poll(l, data), data \subseteq Quiet(l) \cup {Acceptor}
      PROVE  OnceInv' /\ ~aborted'
  <2>1. /\ UNCHANGED <<connVars, chanVars, pending, batch, aborted>>
        /\ active' = [active EXCEPT ![l] = Gone(l) \cup data]
    BY <1>1 DEF Poll
  <2>2. \A k \in Loops : active'[k] \ {Acceptor} \subseteq interest
    BY <1>1, <2>1 DEF Gone, Quiet, IInv, OnceInv, StateInv, TypeOK
  <2> QED
    BY <2>1, <2>2, OnceKept DEF IInv
<1>2. ASSUME NEW c \in Conns, HandleReadError(l, c) \/ HandleMessage(l, c)
      PROVE  OnceInv' /\ ~aborted'
  <2>1. Handled(l, c) /\ UNCHANGED <<connVars, chanVars, pending, aborted>>
    BY <1>2 DEF HandleReadError, HandleMessage
  <2>2. UNCHANGED batch /\ \A k \in Loops : active'[k] \ {Acceptor} \subseteq interest
    BY <2>1, HandledShrinks DEF IInv, OnceInv, StateInv
  <2> QED
    BY <2>1, <2>2, OnceKept DEF IInv
<1>3. CASE EndFunctors(l)
  <2>1. UNCHANGED <<connVars, chanVars, pending, batch, active, aborted>>
    BY <1>3 DEF EndFunctors
  <2> QED
    BY <2>1, OnceKept DEF IInv, OnceInv, StateInv
<1>4. CASE Poll(l, {})
  BY <1>1, <1>4
<1>5. CASE Arrivals(l)
  BY <1>1, <1>5 DEF Arrivals
<1> QED
  BY <1>2, <1>3, <1>4, <1>5, AcceptOnce, EofOnce, SwapOnce, RunOnce DEF LoopStep

\* The invariant holds at the start ...
LEMMA InitOK == Init => IInv
<1> SUFFICES ASSUME Init PROVE IInv
  OBVIOUS
<1>1. PoolInv
  <2>1. PoolTypeOK
    <3>1. started \in BOOLEAN /\ waiting \in BOOLEAN /\ listening \in BOOLEAN
      BY Zenon DEF Init, PoolInit
    <3>2. thread \in [Pool -> {"none", "failed", "spawned", "ready", "looping"}]
      BY DEF Init, PoolInit
    <3>3. loops \in 0 .. NumThreads
          /\ next \in 0 .. (IF NumThreads = 0 THEN 0 ELSE NumThreads - 1)
      BY NumThreadsAssumption DEF Init, PoolInit
    <3> QED
      BY <3>1, <3>2, <3>3, Zenon DEF PoolTypeOK
  <2>2. listening = FALSE /\ 1 .. loops = {}
    BY DEF Init, PoolInit
  <2> QED
    BY <2>1, <2>2, Zenon DEF PoolInv, LoopsReady
<1>2. TypeOK
  <2>1. <<>> \in Seq(Functor)
    BY EmptySeq
  <2>2. pending \in [Loops -> Seq(Functor)] /\ batch \in [Loops -> Seq(Functor)]
    BY <2>1 DEF Init
  <2>3. aborted \in BOOLEAN
    BY Zenon DEF Init
  <2>4. nextConnId \in 1 .. MaxConns + 1
    BY MaxConnsAssumption DEF Init
  <2> QED
    BY <1>1, <2>2, <2>3, <2>4 DEF Init, TypeOK, PoolInv, Loops
<1>3. Known = {} /\ ~aborted /\ \A l \in Loops : Work(l) = {}
  BY RangeOfEmpty DEF Init, Known, Work
<1>4. LifeInv
  <2>1. RoundInv
    BY RangeOfEmpty DEF Init, RoundInv
  <2> QED
    BY <1>3, <2>1 DEF Init, LifeInv, WorkInv, ConnInv
<1>5. OnceInv
  <2>1. QueueInv
    BY RangeOfEmpty DEF Init, QueueInv
  <2> QED
    BY <1>3, <2>1 DEF Init, OnceInv, FunctorInv, StateInv
<1> QED
  BY <1>1, <1>2, <1>3, <1>4, <1>5 DEF IInv

\* ... is kept by every step ...
LEMMA NextOK == IInv /\ [Next]_vars => IInv'
<1> SUFFICES ASSUME IInv, [Next]_vars PROVE IInv'
  OBVIOUS
<1>1. ASSUME NEW l \in Loops,
             LoopStep(l) \/ Arrivals(l) \/ \E c \in Conns : HandleMessage(l, c)
      PROVE  IInv'
  <2>1. PoolInv'
    BY <1>1, StepKeepsPool DEF IInv
  <2>2. TypeOK'
    BY <1>1, <2>1, StepTypes DEF IInv, PoolInv
  <2>3. OnceInv' /\ ~aborted'
    BY <1>1, StepOnce
  <2>4. LifeInv'
    BY <1>1, <2>3, StepKeepsLife DEF IInv
  <2> QED
    BY <2>1, <2>2, <2>3, <2>4 DEF IInv
<1>2. ASSUME UNCHANGED <<connVars, chanVars, pending, loopVars, aborted>>, PoolInv',
             peer' \in [Conns -> {"open", "reset", "closed"}]
      PROVE  IInv'
  <2>1. TypeOK'
    BY <1>2 DEF IInv, TypeOK, PoolInv, connVars, chanVars, loopVars
  <2>2. LifeInv'
    BY <1>2, LifeKept DEF IInv, chanVars, loopVars
  <2>3. OnceInv'
    BY <1>2, OnceKept DEF IInv, OnceInv, StateInv, loopVars
  <2> QED
    BY <1>2, <2>1, <2>2, <2>3 DEF IInv
<1>3. CASE StartUp /\ UNCHANGED serverVars
  BY <1>2, <1>3, StartUpKeepsPool DEF serverVars, IInv, TypeOK
<1>4. ASSUME NEW c \in Conns, PeerCloses(c) PROVE IInv'
  <2>1. PoolInv'
    BY <1>4, LoopsKeepPool DEF PeerCloses, poolVars, IInv
  <2>2. peer' \in [Conns -> {"open", "reset", "closed"}]
    BY <1>4 DEF PeerCloses, IInv, TypeOK
  <2> QED
    BY <1>2, <1>4, <2>1, <2>2 DEF PeerCloses
<1>5. CASE UNCHANGED vars
  <2>1. PoolInv'
    BY <1>5, LoopsKeepPool DEF vars, poolVars, IInv
  <2> QED
    BY <1>2, <1>5, <2>1 DEF vars, serverVars, IInv, TypeOK
<1> QED
  BY <1>1, <1>3, <1>4, <1>5 DEF Next

\* ... and so holds always.
LEMMA Invariance == Spec => []IInv
BY InitOK, NextOK, PTL DEF Spec

----------------------------------------------------------------------------
(* The server.                                                             *)

\* Whatever threads come up, fail or wake unasked, and whatever the server does
\* meanwhile, every loop that getNextLoop may return has been made by its
\* thread, and nothing is accepted before all of them are there.
THEOREM LoopsAreReady == Spec => []LoopsReady
<1>1. IInv => LoopsReady
  BY DEF IInv, PoolInv
<1> QED
  BY <1>1, Invariance, PTL

\* Every variable of a server keeps its type, for any number of threads and of
\* connections: the queues hold functors, and the poller and the rounds known
\* connections.
THEOREM TypeCorrect == Spec => []TypeOK
<1>1. IInv => TypeOK
  BY DEF IInv
<1> QED
  BY <1>1, Invariance, PTL

\* No assert of TcpServer or TcpConnection fails, for any number of threads and
\* of connections, and however peers come and go: a connection is established
\* once, closed while it is connected, removed once from the map, and destroyed
\* once and after it was established.  That is because no more than one functor
\* about a connection is ever on its way.
THEOREM NoAssertFails == Spec => []NoAbort
<1>1. IInv => NoAbort
  BY DEF IInv, NoAbort
<1> QED
  BY <1>1, Invariance, PTL

\* The poller and the handlers of a round never hold a channel whose connection
\* object is gone: until connectDestroyed has taken the channel out of the
\* poller, the map or the functor itself keeps the object.
THEOREM ChannelsStayAlive == Spec => []ChannelsAlive
<1>1. IInv => ChannelsAlive
  BY LifeAlive DEF IInv
<1> QED
  BY <1>1, Invariance, PTL

\* Handed, by the entries of the queues.
LEMMA HandedIsWork ==
  ASSUME NEW l, NEW name, NEW c \in Conns
  PROVE  c \in Handed(l, name) <=> Call(name, c) \in Work(l)
BY Zenon DEF Handed, Work, Range, Call

\* A connection goes down one way: in the map, then about to be destroyed in its
\* own loop, then down, and none of these together.
THEOREM EndsOnce == Spec => []OneWayDown
<1>1. IInv => OneWayDown
  <2> SUFFICES ASSUME IInv, NEW c \in Known
               PROVE  /\ c \in connections => state[c] # "kDisconnected"
                      /\ c \in Handed(loopOf[c], "connectDestroyed") => c \notin connections
                      /\ c \notin connections =>
                           (c \in Handed(loopOf[c], "connectDestroyed")
                              <=> state[c] # "kDisconnected")
    BY DEF OneWayDown, Known
  <2> USE DEF IInv
  <2>1. c \in Conns /\ loopOf[c] \in Loops
    BY KnownConns
  <2>2. c \in Handed(loopOf[c], "connectDestroyed")
          <=> Call("connectDestroyed", c) \in Work(loopOf[c])
    BY <2>1, HandedIsWork
  <2>3. Call("connectDestroyed", c) \in Work(loopOf[c]) => DueDestroy(c)
    BY <2>1, CallFields DEF OnceInv, FunctorInv, Calls
  <2> QED
    BY <2>2, <2>3 DEF OnceInv, StateInv, LifeInv, ConnInv, DueDestroy
<1> QED
  BY <1>1, Invariance, PTL

----------------------------------------------------------------------------
(* The program.                                                            *)

\* The dispatcher visits connections of the map it copied.
VisitInv == visiting \in [Loops -> SUBSET Known]

\* The invariant of the program.
AppInv == PoolInv /\ TypeOK /\ VisitInv /\ (~aborted => LifeInv)

\* The server's own steps forget no connection the dispatcher is to visit.
LEMMA ServerKeepsVisits ==
  ASSUME TypeOK, VisitInv, NEW l \in Loops, LoopStep(l) \/ Arrivals(l), UNCHANGED visiting
  PROVE  VisitInv'
<1>1. nextConnId' = nextConnId \/ nextConnId' = nextConnId + 1
  BY DEF LoopStep, Arrivals, Poll, HandleAccept, NewConnection, AcceptFails, HandleReadError,
         HandleReadEof, SwapFunctors, RunFunctor, EndFunctors, connVars
<1>2. Known \subseteq Known'
  BY <1>1 DEF Known, TypeOK
<1> QED
  BY <1>2 DEF VisitInv

\* onMessage, up to the removal of a client that answered wrongly.
LEMMA OnMessageKeeps ==
  ASSUME AppInv, ~aborted, NEW l \in Loops, NEW c \in Conns, OnMessage(l, c)
  PROVE  AppInv'
<1> USE DEF AppInv
<1>1. /\ \A k \in Loops : active'[k] \subseteq active[k]
      /\ c \in active[l] /\ UNCHANGED <<batch, held, pc>>
      /\ active' = [active EXCEPT ![l] = active[l] \ {c}]
      /\ UNCHANGED <<poolVars, nextConnId, loopOf, state, registered, interest, peer>>
  BY HandledShrinks DEF OnMessage, Handled, chanVars
<1>2. PoolInv'
  BY <1>1, LoopsKeepPool DEF poolVars
<1>3. c \in Known /\ connections \subseteq Known /\ Known' = Known
  BY <1>1, ActiveIsKnown DEF LifeInv, ConnInv, Known
<1>4. VisitInv'
  BY <1>3 DEF OnMessage, FirstMessage, SecondMessage, Dispatcher, VisitInv
<1>5. UNCHANGED <<connections, pending, aborted>> \/ RemoveConnection(l, c)
  BY DEF OnMessage, FirstMessage, SecondMessage, Dispatcher
<1>6. connections' \subseteq Conns /\ pending' \in [Loops -> Seq(Functor)] /\ aborted' \in BOOLEAN
  BY <1>5, RemovalTypes DEF TypeOK
<1>7. TypeOK'
  BY <1>1, <1>2, <1>6 DEF TypeOK, PoolInv
<1>8. LifeInv'
  BY <1>1, <1>3, <1>5, LifeKept, RemovalKeepsLife DEF connVars
<1> QED
  BY <1>2, <1>4, <1>7, <1>8

\* One turn of the dispatcher, with the removal of an unregistered client, in
\* whatever loop that client lives.
LEMMA VisitKeeps ==
  ASSUME AppInv, ~aborted, NEW l \in Loops, NEW v \in Conns, Visit(l, v)
  PROVE  AppInv'
<1> USE DEF AppInv
<1>1. UNCHANGED <<poolVars, nextConnId, loopOf, state, chanVars, loopVars, peer>>
  BY DEF Visit
<1>2. PoolInv'
  BY <1>1, LoopsKeepPool DEF poolVars
<1>3. v \in Known /\ Known' = Known
  BY <1>1 DEF Visit, VisitInv, Known
<1>4. VisitInv'
  BY <1>3 DEF Visit, VisitInv
<1>5. UNCHANGED <<connections, pending, aborted>> \/ RemoveConnection(l, v)
  BY DEF Visit
<1>6. connections' \subseteq Conns /\ pending' \in [Loops -> Seq(Functor)] /\ aborted' \in BOOLEAN
  BY <1>5, RemovalTypes DEF TypeOK
<1>7. TypeOK'
  BY <1>1, <1>2, <1>6 DEF TypeOK, PoolInv, chanVars, loopVars
<1>8. LifeInv'
  BY <1>1, <1>3, <1>5, LifeKept, RemovalKeepsLife DEF connVars, chanVars, loopVars
<1> QED
  BY <1>2, <1>4, <1>7, <1>8

\* Every step of the program keeps AppInv.
LEMMA AppNextOK == AppInv /\ [AppNext]_allVars => AppInv'
<1> SUFFICES ASSUME AppInv, [AppNext]_allVars PROVE AppInv'
  OBVIOUS
<1>1. ASSUME NEW l \in Loops, LoopStep(l) \/ Arrivals(l), UNCHANGED appVars, ~aborted
      PROVE  AppInv'
  <2>1. PoolInv'
    BY <1>1, StepKeepsPool DEF AppInv
  <2>2. TypeOK'
    BY <1>1, <2>1, StepTypes DEF AppInv, PoolInv
  <2>3. VisitInv'
    BY <1>1, ServerKeepsVisits DEF AppInv, appVars
  <2>4. ~aborted' => LifeInv'
    BY <1>1, StepKeepsLife DEF AppInv
  <2> QED
    BY <2>1, <2>2, <2>3, <2>4 DEF AppInv
<1>2. ASSUME UNCHANGED <<connVars, chanVars, pending, loopVars, aborted>>, PoolInv',
             peer' \in [Conns -> {"open", "reset", "closed"}], UNCHANGED appVars
      PROVE  AppInv'
  <2>1. TypeOK'
    BY <1>2 DEF AppInv, TypeOK, PoolInv, connVars, chanVars, loopVars
  <2>2. ~aborted' => LifeInv'
    BY <1>2, LifeKept DEF AppInv, chanVars, loopVars
  <2>3. VisitInv'
    BY <1>2 DEF AppInv, VisitInv, Known, appVars, connVars
  <2> QED
    BY <1>2, <2>1, <2>2, <2>3 DEF AppInv
<1>3. CASE StartUp /\ UNCHANGED <<serverVars, appVars>>
  BY <1>2, <1>3, StartUpKeepsPool DEF serverVars, AppInv, TypeOK
<1>4. ASSUME NEW c \in Conns, PeerCloses(c), UNCHANGED appVars PROVE AppInv'
  <2>1. PoolInv'
    BY <1>4, LoopsKeepPool DEF PeerCloses, poolVars, AppInv
  <2>2. peer' \in [Conns -> {"open", "reset", "closed"}]
    BY <1>4 DEF PeerCloses, AppInv, TypeOK
  <2> QED
    BY <1>2, <1>4, <2>1, <2>2 DEF PeerCloses
<1>5. CASE UNCHANGED allVars
  <2>1. PoolInv'
    BY <1>5, LoopsKeepPool DEF allVars, vars, poolVars, AppInv
  <2> QED
    BY <1>2, <1>5, <2>1 DEF allVars, vars, serverVars, AppInv, TypeOK
<1> QED
  BY <1>1, <1>3, <1>4, <1>5, OnMessageKeeps, VisitKeeps DEF AppNext, Ended, AppLoopStep

\* The same of the whole program, whose message callback removes connections of
\* any loop, before they are established, while they are being closed, or twice:
\* as long as the process runs, no handler and no poller outlives the object.
\* The order of the functors does not matter for it; where the order is wrong an
\* assert stops the process.
THEOREM AppChannelsStayAlive == AppSpec => []AppChannelsAlive
<1>1. AppInit => AppInv
  <2> SUFFICES ASSUME AppInit PROVE AppInv
    OBVIOUS
  <2>1. IInv
    BY InitOK DEF AppInit
  <2>2. VisitInv
    BY DEF AppInit, VisitInv
  <2> QED
    BY <2>1, <2>2 DEF IInv, AppInv
<1>2. AppInv => AppChannelsAlive
  BY LifeAlive DEF AppInv, AppChannelsAlive
<1> QED
  BY <1>1, <1>2, AppNextOK, PTL DEF AppSpec
=============================================================================
