--------------------------- MODULE TransferServer ---------------------------
(***************************************************************************)
(* The server program (src/test_multithreads.cc): TcpServer with onMessage *)
(* as message callback and the RegisterTable it decides by.                *)
(*                                                                         *)
(* A client's first message registers it, its second answers the           *)
(* challenge, and from the third on a message is passed to every other     *)
(* connection of a copy of the server's map.  A client that answers        *)
(* wrongly is removed, and so is every connection of the copy that is not  *)
(* registered.  The copy, and the unlocked accesses to the table, are      *)
(* taken to be atomic; with more than one loop the code leaves that to     *)
(* chance.  Clients have distinct addresses, so the table is kept by       *)
(* connection.  What is sent is not modelled.                              *)
(***************************************************************************)
EXTENDS TcpServer

CONSTANT MaxPending   \* bound: a loop handles no message while another's
                      \* queue is longer

ASSUME MaxPendingAssumption == MaxPending \in Nat

VARIABLES
  reg,        \* getValue() of each connection's address; 0: not in the table
  snapshot,   \* connections the running onMessage of each loop refers to
  visiting,   \* those its dispatcher has still to visit
  terminated  \* an exception nobody catches has ended the process

appVars == <<reg, snapshot, visiting, terminated>>
allVars == <<vars, appVars>>

AppInit == /\ Init
           /\ reg = [c \in Conns |-> 0]
           /\ snapshot = [l \in Loops |-> {}]
           /\ visiting = [l \in Loops |-> {}]
           /\ terminated = FALSE

InCallback(l) == visiting[l] # {}

\* myRegister, then getValue.
Registered(c) == IF reg[c] = 0 THEN 1 ELSE reg[c]

\* A message of fewer than 20 bytes makes std::string::copy throw.
FirstMessage(l, c) ==
  /\ Registered(c) = 1
  /\ reg' = [reg EXCEPT ![c] = 2]
  /\ terminated' \in BOOLEAN
  /\ UNCHANGED <<connections, pending, aborted, snapshot, visiting>>

\* The answer to the challenge is right, or the client is removed.
SecondMessage(l, c) ==
  /\ Registered(c) = 2
  /\ \/ /\ reg' = [reg EXCEPT ![c] = 3]
        /\ UNCHANGED <<connections, pending, aborted>>
     \/ /\ RemoveConnection(l, c)
        /\ reg' = [reg EXCEPT ![c] = 0]
  /\ UNCHANGED <<snapshot, visiting, terminated>>

Dispatcher(l, c) ==
  /\ Registered(c) = 3
  /\ visiting' = [visiting EXCEPT ![l] = connections \ {c}]
  /\ snapshot' = [snapshot EXCEPT ![l] =
                    IF connections \ {c} = {} THEN {} ELSE connections \cup {c}]
  /\ UNCHANGED <<connections, pending, aborted, reg, terminated>>

\* A message may still be unread when the peer has closed.  That there is none
\* behind an RST that was read is not told apart.
OnMessage(l, c) ==
  /\ ~InCallback(l)
  /\ \A k \in Loops \ {l} : Len(pending[k]) <= MaxPending
  /\ c \in Conns /\ peer[c] # "reset"
  /\ Handled(l, c)
  /\ FirstMessage(l, c) \/ SecondMessage(l, c) \/ Dispatcher(l, c)
  /\ UNCHANGED <<poolVars, nextConnId, loopOf, state, chanVars, peer>>

\* One turn of the dispatcher's for.
Visit(l, v) ==
  /\ v \in visiting[l]
  /\ \/ reg[v] = 0 /\ RemoveConnection(l, v)
     \/ reg[v] # 0 /\ UNCHANGED <<connections, pending, aborted>>
  /\ visiting' = [visiting EXCEPT ![l] = @ \ {v}]
  /\ snapshot' = [snapshot EXCEPT ![l] = IF visiting[l] = {v} THEN {} ELSE @]
  /\ UNCHANGED <<poolVars, nextConnId, loopOf, state, chanVars, loopVars, peer,
                 reg, terminated>>

\* A loop's own steps, those of the application among them.
AppLoopStep(l) ==
  \/ ~InCallback(l) /\ LoopStep(l) /\ UNCHANGED appVars
  \/ \E c \in Conns : OnMessage(l, c) \/ Visit(l, c)

Ended == aborted \/ terminated

AppNext ==
  /\ ~Ended
  /\ \/ StartUp /\ UNCHANGED <<serverVars, appVars>>
     \/ \E l \in Loops : \/ AppLoopStep(l)
                         \/ ~InCallback(l) /\ Arrivals(l) /\ UNCHANGED appVars
     \/ \E c \in Conns : PeerCloses(c) /\ UNCHANGED appVars

AppSpec == AppInit /\ [][AppNext]_allVars

AppFairSpec == /\ AppSpec
               /\ \A l \in Loops : WF_allVars(~Ended /\ AppLoopStep(l))

----------------------------------------------------------------------------
(* Properties.                                                             *)

\* However the application and the peers remove connections, the poller and
\* the handlers only hold channels of existing ones, as long as the process
\* runs (removeConnection called with a connection of another loop).
AppChannelsAlive == ~aborted => ChannelsAlive

\* A connection the application has removed is destroyed in the end, even if
\* its removal overtook its connectEstablished, or the process has ended.
RemovedIsReleased ==
  \A c \in Conns : c < nextConnId /\ c \notin connections
                     ~> c \notin Alive \/ Ended
=============================================================================
