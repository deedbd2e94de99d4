------------------------------ MODULE TcpServer ------------------------------
(***************************************************************************)
(* A TcpServer from its start on, and the life of its connections: the     *)
(* base loop accepts them and keeps the map connections_, the loops of the *)
(* pool handle their channels, and the two talk through the functor queues *)
(* of the loops (src/TcpServer.cpp, TcpConnection.cpp, Acceptor.cpp; the   *)
(* start itself is in module EventLoopThreadPool).                         *)
(*                                                                         *)
(* Each loop repeats: poll, handle the active channels, run the functors   *)
(* that were queued when the handlers were done.  Module EventLoop is      *)
(* about how functors are handed over and the loop is woken; here a loop   *)
(* in poll() sees a queued functor as a reason to return, and a poll that  *)
(* times out, which changes nothing, is left out.  Handlers and functors   *)
(* of one loop do not overlap, so each is one step.                        *)
(*                                                                         *)
(* A connection object lives as long as something refers to it: the map, a *)
(* queued functor, or a functor of the running batch, whose vector is only *)
(* destroyed when the batch ends.  Its destructor closes the socket.       *)
(*                                                                         *)
(* An assert that fails ends the process (the build does not set NDEBUG):  *)
(* aborted.  The payload, shutdown() and the output side are not here.     *)
(***************************************************************************)
EXTENDS EventLoopThreadPool, Sequences

CONSTANT MaxConns       \* bound: connections accepted in a behaviour

ASSUME MaxConnsAssumption == MaxConns \in Nat

Loops == {Base} \cup Pool
Conns == 1 .. MaxConns        \* by the number in the name, nextConnId_
Acceptor == 0                 \* stands for acceptChannel_ among active channels

VARIABLES
  connections,   \* connections_
  nextConnId,
  loopOf,        \* loop_ of each connection
  state,         \* state_; "none" before the constructor
  registered,    \* connections whose channel is in the poller of their loop
  interest,      \* ... and has events enabled, so that poll() reports it
  pending,       \* pendingFunctors_ of each loop
  batch,         \* what doPendingFunctors has still to run
  held,          \* connections the functors of the running batch refer to
  active,        \* activeChannels_ still to be handled
  pc,            \* what each loop is doing
  peer,          \* the other end: "open", "reset" (RST not yet read), "closed"
  aborted

connVars == <<connections, nextConnId, loopOf, state>>
chanVars == <<registered, interest>>
loopVars == <<batch, held, active, pc>>
serverVars == <<connVars, chanVars, pending, loopVars, peer, aborted>>
vars == <<poolVars, serverVars>>

Functor == [call : {"connectEstablished", "connectDestroyed",
                    "removeConnectionInLoop"},
            conn : Conns]

TypeOK ==
  /\ PoolTypeOK
  /\ connections \subseteq Conns
  /\ nextConnId \in 1 .. MaxConns + 1
  /\ loopOf \in [Conns -> Loops]
  /\ state \in [Conns -> {"none", "kConnecting", "kConnected", "kDisconnected"}]
  /\ registered \subseteq Conns
  /\ interest \subseteq registered
  /\ pending \in [Loops -> Seq(Functor)]
  /\ batch \in [Loops -> Seq(Functor)]
  /\ held \in [Loops -> SUBSET Conns]
  /\ active \in [Loops -> SUBSET (Conns \cup {Acceptor})]
  /\ pc \in [Loops -> {"poll", "dispatch", "functors"}]
  /\ peer \in [Conns -> {"open", "reset", "closed"}]
  /\ aborted \in BOOLEAN

Init ==
  /\ PoolInit
  /\ connections = {}
  /\ nextConnId = 1
  /\ loopOf = [c \in Conns |-> Base]
  /\ state = [c \in Conns |-> "none"]
  /\ registered = {}
  /\ interest = {}
  /\ pending = [l \in Loops |-> <<>>]
  /\ batch = [l \in Loops |-> <<>>]
  /\ held = [l \in Loops |-> {}]
  /\ active = [l \in Loops |-> {}]
  /\ pc = [l \in Loops |-> "poll"]
  /\ peer = [c \in Conns |-> "open"]
  /\ aborted = FALSE

ConnsIn(q) == {q[i].conn : i \in DOMAIN q}

\* The connection objects something refers to.
Alive == connections \cup (UNION {held[l] : l \in Loops})
                     \cup (UNION {ConnsIn(pending[l]) : l \in Loops})

Queue(l, name, c) ==
  pending' = [pending EXCEPT ![l] = Append(@, [call |-> name, conn |-> c])]

----------------------------------------------------------------------------
(* TcpConnection, called in the connection's loop.  Each says whether its  *)
(* asserts fail.                                                           *)

ConnectEstablished(c) ==
  /\ aborted' = (state[c] # "kConnecting")
  /\ state' = [state EXCEPT ![c] = "kConnected"]
  /\ registered' = registered \cup {c}
  /\ interest' = interest \cup {c}

\* Mutated form: the channel is left in the poller.
UnregisterNot(c) == registered

\* EventLoop::removeChannel
Unregister(c) == registered \ {c}

ConnectDestroyed(c) ==
  /\ aborted' = (state[c] # "kConnected" \/ c \notin registered)
  /\ state' = [state EXCEPT ![c] = "kDisconnected"]
  /\ interest' = interest \ {c}
  /\ registered' = Unregister(c)

----------------------------------------------------------------------------
(* TcpServer.                                                              *)

\* connectEstablished runs at once when the connection lives in the base loop.
NewConnection ==
  LET c == nextConnId
      ioLoop == NextLoop IN
  /\ nextConnId' = nextConnId + 1
  /\ next' = Advance
  /\ loopOf' = [loopOf EXCEPT ![c] = ioLoop]
  /\ connections' = connections \cup {c}
  /\ \/ /\ ioLoop = Base
        /\ state' = [state EXCEPT ![c] = "kConnected"]
        /\ registered' = registered \cup {c}
        /\ interest' = interest \cup {c}
        /\ UNCHANGED pending
     \/ /\ ioLoop # Base
        /\ state' = [state EXCEPT ![c] = "kConnecting"]
        /\ Queue(ioLoop, "connectEstablished", c)
        /\ UNCHANGED <<registered, interest>>
  /\ UNCHANGED aborted

\* Mutated form: the connection stays in the map.
EraseNot(c) == connections

\* connections_.erase
Erase(c) == connections \ {c}

\* Mutated form: the map lets go of the object, and that is all.
QueueDestroyedNot(c) == UNCHANGED pending

\* queueInLoop, even in the same loop, of a functor that holds the connection.
QueueDestroyed(c) == Queue(loopOf[c], "connectDestroyed", c)

RemoveConnectionInLoop(c) ==
  /\ connections' = Erase(c)
  /\ aborted' = (c \notin connections)
  /\ QueueDestroyed(c)

\* Called in loop l: from handleClose of c, or by the application.
RemoveConnection(l, c) ==
  \/ l = Base /\ RemoveConnectionInLoop(c)
  \/ /\ l # Base
     /\ Queue(Base, "removeConnectionInLoop", c)
     /\ UNCHANGED <<connections, aborted>>

\* Mutated form: the channel keeps its events, so that the end of file is
\* reported again.
DisableAllNot(c) == interest

\* channel_->disableAll()
DisableAll(c) == interest \ {c}

\* Mutated form: an end of file is not treated as a close.
HandleCloseNot(l, c) == UNCHANGED <<interest, connections, pending, aborted>>

HandleClose(l, c) ==
  IF state[c] # "kConnected"
  THEN aborted' = TRUE /\ UNCHANGED <<interest, connections, pending>>
  ELSE RemoveConnection(l, c) /\ interest' = DisableAll(c)

----------------------------------------------------------------------------
(* The loops.                                                              *)

\* poll() reports every channel whose peer is gone, and those of the others
\* that happen to have data.
Gone(l) == {c \in interest : loopOf[c] = l /\ peer[c] # "open"}
Quiet(l) == {c \in interest : loopOf[c] = l /\ peer[c] = "open"}

\* The thread of the loop has entered loop().
Looping(l) == IF l = Base THEN listening ELSE thread[l] = "looping"

Poll(l, data) ==
  /\ pc[l] = "poll" /\ Looping(l)
  /\ Gone(l) \cup data # {} \/ pending[l] # <<>>
  /\ active' = [active EXCEPT ![l] = Gone(l) \cup data]
  /\ pc' = [pc EXCEPT ![l] = "dispatch"]
  /\ UNCHANGED <<poolVars, connVars, chanVars, pending, batch, held, peer, aborted>>

Handled(l, c) == /\ pc[l] = "dispatch"
                 /\ c \in active[l]
                 /\ active' = [active EXCEPT ![l] = @ \ {c}]
                 /\ UNCHANGED <<batch, held, pc>>

\* sockets::accept returns -1: the client is gone, or descriptors or memory are
\* short.  It is logged whatever the error, LOG_FATAL included.
AcceptFails == UNCHANGED <<connVars, chanVars, pending, aborted, next>>

\* Acceptor::handleRead
HandleAccept ==
  /\ Handled(Base, Acceptor)
  /\ (nextConnId <= MaxConns /\ NewConnection) \/ AcceptFails
  /\ UNCHANGED <<started, thread, waiting, loops, listening, peer>>

\* TcpConnection::handleRead, read() > 0: the message callback.
HandleMessage(l, c) ==
  /\ c \in Conns /\ peer[c] = "open"
  /\ Handled(l, c)
  /\ UNCHANGED <<poolVars, connVars, chanVars, pending, peer, aborted>>

\* read() < 0: the reset came after poll(); handleError reports it.
HandleReadError(l, c) ==
  /\ c \in Conns /\ peer[c] = "reset"
  /\ Handled(l, c)
  /\ peer' = [peer EXCEPT ![c] = "closed"]
  /\ UNCHANGED <<poolVars, connVars, chanVars, pending, aborted>>

\* read() = 0.  After a reset that poll() has reported, handleEvent first calls
\* handleError, which clears the error.
HandleReadEof(l, c) ==
  /\ c \in Conns /\ peer[c] # "open"
  /\ Handled(l, c)
  /\ peer' = [peer EXCEPT ![c] = "closed"]
  /\ HandleClose(l, c)
  /\ UNCHANGED <<poolVars, nextConnId, loopOf, state, registered>>

\* doPendingFunctors takes over the queue.
SwapFunctors(l) ==
  /\ pc[l] = "dispatch" /\ active[l] = {}
  /\ batch' = [batch EXCEPT ![l] = pending[l]]
  /\ held' = [held EXCEPT ![l] = ConnsIn(pending[l])]
  /\ pending' = [pending EXCEPT ![l] = <<>>]
  /\ pc' = [pc EXCEPT ![l] = "functors"]
  /\ UNCHANGED <<poolVars, connVars, chanVars, active, peer, aborted>>

RunFunctor(l) ==
  /\ pc[l] = "functors" /\ batch[l] # <<>>
  /\ LET c == Head(batch[l]).conn IN
       \/ /\ Head(batch[l]).call = "connectEstablished"
          /\ ConnectEstablished(c)
          /\ UNCHANGED <<connections, pending>>
       \/ /\ Head(batch[l]).call = "connectDestroyed"
          /\ ConnectDestroyed(c)
          /\ UNCHANGED <<connections, pending>>
       \/ /\ Head(batch[l]).call = "removeConnectionInLoop"
          /\ RemoveConnectionInLoop(c)
          /\ UNCHANGED <<state, chanVars>>
  /\ batch' = [batch EXCEPT ![l] = Tail(@)]
  /\ UNCHANGED <<poolVars, nextConnId, loopOf, held, active, pc, peer>>

\* Mutated form: the vector is a member, overwritten by the next batch only.
DropFunctorsNot(l) == held

\* The vector of functors is destroyed, and with it the last reference to a
\* connection that was destroyed in this batch.
DropFunctors(l) == [held EXCEPT ![l] = {}]

EndFunctors(l) ==
  /\ pc[l] = "functors" /\ batch[l] = <<>>
  /\ held' = DropFunctors(l)
  /\ pc' = [pc EXCEPT ![l] = "poll"]
  /\ UNCHANGED <<poolVars, connVars, chanVars, pending, batch, active, peer, aborted>>

\* What the loop does of its own accord; no data and no client is needed.
LoopStep(l) ==
  \/ Poll(l, {})
  \/ l = Base /\ HandleAccept
  \/ \E c \in Conns : HandleReadError(l, c) \/ HandleReadEof(l, c)
  \/ SwapFunctors(l) \/ RunFunctor(l) \/ EndFunctors(l)

\* The kernel also has data for some connections, or a client to accept.
Arrivals(l) ==
  \E data \in SUBSET (Quiet(l) \cup IF l = Base THEN {Acceptor} ELSE {}) :
    data # {} /\ Poll(l, data)

\* The other end closes, orderly or not.
PeerCloses(c) ==
  /\ c < nextConnId /\ peer[c] = "open"
  /\ \E how \in {"reset", "closed"} : peer' = [peer EXCEPT ![c] = how]
  /\ UNCHANGED <<poolVars, connVars, chanVars, pending, loopVars, aborted>>

Next ==
  /\ ~aborted
  /\ \/ StartUp /\ UNCHANGED serverVars
     \/ \E l \in Loops : \/ LoopStep(l)
                         \/ Arrivals(l)
                         \/ \E c \in Conns : HandleMessage(l, c)
     \/ \E c \in Conns : PeerCloses(c)

Spec == Init /\ [][Next]_vars

\* Threads run, and a message callback returns.
Fairness ==
  /\ WF_vars(StartStep /\ UNCHANGED serverVars)
  /\ \A t \in Pool : WF_vars(ThreadFunc(t) /\ UNCHANGED serverVars)
  /\ \A l \in Loops :
       WF_vars(~aborted /\ (LoopStep(l) \/ \E c \in Conns : HandleMessage(l, c)))

FairSpec == Spec /\ Fairness

----------------------------------------------------------------------------
(* Properties.                                                             *)

\* No assert of the server or of a connection fails: a connection is
\* established once, closed only while it is connected, removed from the map
\* once, and destroyed after it was established (TcpConnection.h: "should be
\* called only once").
NoAbort == ~aborted

\* The poller, and the handlers of the current round, only ever hold channels
\* of connections that still exist: their callbacks are bound to the raw this.
\* This is what queueInLoop, rather than runInLoop, in removeConnectionInLoop
\* and the reference inside the functor are for.
ChannelsAlive ==
  /\ registered \subseteq Alive
  /\ \A l \in Loops : active[l] \ {Acceptor} \subseteq registered

Handed(l, name) ==
  {c \in Conns : \E q \in {batch[l], pending[l]} :
                   \E i \in DOMAIN q : q[i] = [call |-> name, conn |-> c]}

\* A live connection has exactly one owner of its end: it is in the map, or
\* its connectDestroyed is on its way to the loop of the connection, or it is
\* down.
OneWayDown ==
  \A c \in 1 .. nextConnId - 1 :
    /\ c \in connections => state[c] # "kDisconnected"
    /\ c \in Handed(loopOf[c], "connectDestroyed") => c \notin connections
    /\ c \notin connections =>
         (c \in Handed(loopOf[c], "connectDestroyed")
            <=> state[c] # "kDisconnected")

\* When the peer has gone, the connection is released: removed from the map
\* and from the poller, and its object destroyed, so that its descriptor is
\* closed.
ClosedIsReleased ==
  \A c \in Conns : c \in connections /\ peer[c] # "open" ~> c \notin Alive
=============================================================================
