------------------------------- MODULE Poller -------------------------------
(***************************************************************************)
(* The Poller of one loop and the Channels registered with it              *)
(* (src/Poller.cpp, include/Channel.h).  Everything here runs in the loop  *)
(* thread, so an operation is one step.                                    *)
(*                                                                         *)
(* A channel knows its place in pollfds_ (index_), the map channels_ leads *)
(* from a descriptor back to the channel, and a channel that wants no      *)
(* events keeps its entry with the descriptor fd stored as -fd-1, which    *)
(* poll(2) skips.  Removal moves the last entry into the hole.             *)
(*                                                                         *)
(* The callers' side is what src/ does: a channel starts with              *)
(* enableReading, is removed straight after disableAll (connectDestroyed)  *)
(* and not used afterwards, and its descriptor is closed once it has been  *)
(* removed (the destructor of TcpConnection); the kernel may then give the *)
(* same number to the next channel.                                        *)
(***************************************************************************)
EXTENDS Integers, Sequences, FiniteSets, Functions

CONSTANTS
  Channels,    \* Channel objects; one that was destroyed stands for a new one
  Fds          \* descriptor numbers

ASSUME FdAssumption == Fds \subseteq Nat

VARIABLES
  open,            \* channels whose object exists and whose descriptor is open
  fd,              \* fd_ of each channel
  events,          \* events_
  index,           \* index_, -1 before registration; counts from 0
  pollfds,         \* pollfds_: the fd and events of each entry
  channels,        \* channels_, a function on the registered descriptors
  activeChannels   \* what the last poll() reported

vars == <<open, fd, events, index, pollfds, channels, activeChannels>>

Interest == SUBSET {"read", "write"}
Ignored(n) == -n - 1
PollFd == [fd : Fds \cup {Ignored(n) : n \in Fds}, events : Interest]

Registered == Range(channels)

TypeOK ==
  /\ open \subseteq Channels
  /\ fd \in [Channels -> Fds]
  /\ events \in [Channels -> Interest]
  /\ index \in [Channels -> Int]
  /\ pollfds \in Seq(PollFd)
  /\ DOMAIN channels \subseteq Fds
  /\ channels \in [DOMAIN channels -> Channels]
  /\ activeChannels \subseteq Channels

Init ==
  /\ open = {}
  /\ fd \in [Channels -> Fds]
  /\ events = [c \in Channels |-> {}]
  /\ index = [c \in Channels |-> -1]
  /\ pollfds = <<>>
  /\ channels = <<>>
  /\ activeChannels = {}

----------------------------------------------------------------------------
(* A channel and its descriptor.                                           *)

\* The constructor, on a descriptor the kernel has just handed out.
Open(c, n) ==
  /\ c \notin open
  /\ n \notin {fd[d] : d \in open}
  /\ open' = open \cup {c}
  /\ fd' = [fd EXCEPT ![c] = n]
  /\ events' = [events EXCEPT ![c] = {}]
  /\ index' = [index EXCEPT ![c] = -1]
  /\ UNCHANGED <<pollfds, channels, activeChannels>>

\* The destructor of the connection closes the descriptor.
Close(c) ==
  /\ c \in open \ Registered
  /\ index[c] >= 0
  /\ open' = open \ {c}
  /\ activeChannels' = activeChannels \ {c}
  /\ UNCHANGED <<fd, events, index, pollfds, channels>>

----------------------------------------------------------------------------
(* updateChannel, for a channel whose events_ have just become ev.         *)

Extend(f, x, y) == [z \in DOMAIN f \cup {x} |-> IF z = x THEN y ELSE f[z]]

AddPollFd(c, ev) ==
  /\ pollfds' = Append(pollfds, [fd |-> fd[c], events |-> ev])
  /\ index' = [index EXCEPT ![c] = Len(pollfds)]
  /\ channels' = Extend(channels, fd[c], c)

\* Mutated form: the entry is turned over, so that a second disableAll undoes
\* the first.
StoredTurned(c, ev, old) == IF ev = {} THEN Ignored(old) ELSE old

\* Mutated form: -fd instead of -fd-1.
StoredMinus(c, ev, old) == IF ev = {} THEN -fd[c] ELSE old

\* The descriptor an entry holds that held old.  An ignored entry is not given
\* its descriptor back.
Stored(c, ev, old) == IF ev = {} THEN Ignored(fd[c]) ELSE old

ChangePollFd(c, ev) ==
  /\ pollfds' = [pollfds EXCEPT ![index[c] + 1] =
                   [fd |-> Stored(c, ev, @.fd), events |-> ev]]
  /\ UNCHANGED <<index, channels>>

Update(c, ev) ==
  /\ events' = [events EXCEPT ![c] = ev]
  /\ \/ index[c] < 0 /\ AddPollFd(c, ev)
     \/ index[c] >= 0 /\ ChangePollFd(c, ev)
  /\ UNCHANGED <<open, fd, activeChannels>>

EnableReading(c) ==  /\ c \in open /\ index[c] < 0
                     /\ Update(c, events[c] \cup {"read"})

EnableWriting(c) ==  /\ c \in open \cap Registered /\ "write" \notin events[c]
                     /\ Update(c, events[c] \cup {"write"})

DisableWriting(c) == /\ c \in open \cap Registered /\ "write" \in events[c]
                     /\ Update(c, events[c] \ {"write"})

DisableAll(c) ==     /\ c \in open \cap Registered
                     /\ Update(c, {})

----------------------------------------------------------------------------
(* removeChannel.                                                          *)

MayRemove(c) == c \in open \cap Registered /\ events[c] = {}

Last == pollfds[Len(pollfds)]

\* channelAtEnd: the descriptor of the last entry, ignored or not.
ChannelAtEnd == IF Last.fd < 0 THEN Ignored(Last.fd) ELSE Last.fd

Without(x) == [n \in DOMAIN channels \ {x} |-> channels[n]]

PopBack(s) == SubSeq(s, 1, Len(s) - 1)

\* Mutated form: the moved channel is not told its new place.
IndicesKept(c) == index

\* The last entry's channel is told its new place; the removed channel's index_
\* keeps its value.
Indices(c) == IF index[c] = Len(pollfds) - 1 THEN index
              ELSE [index EXCEPT ![channels[ChannelAtEnd]] = index[c]]

RemoveChannel(c) ==
  /\ MayRemove(c)
  /\ channels' = Without(fd[c])
  /\ index' = Indices(c)
  /\ pollfds' = PopBack([pollfds EXCEPT ![index[c] + 1] = Last])
  /\ UNCHANGED <<open, fd, events, activeChannels>>

----------------------------------------------------------------------------
(* poll and fillActiveChannels: the kernel reports some of the entries it  *)
(* is not told to skip, and each is mapped back to its channel.            *)

Polled == {n \in Fds : \E i \in DOMAIN pollfds : pollfds[i].fd = n}

Poll(ready) ==
  /\ activeChannels' = {channels[n] : n \in ready}
  /\ UNCHANGED <<open, fd, events, index, pollfds, channels>>

----------------------------------------------------------------------------
Next == \/ \E c \in Channels :
             \/ \E n \in Fds : Open(c, n)
             \/ Close(c)
             \/ EnableReading(c) \/ EnableWriting(c)
             \/ DisableWriting(c) \/ DisableAll(c)
             \/ RemoveChannel(c)
        \/ \E ready \in SUBSET Polled : Poll(ready)

Spec == Init /\ [][Next]_vars

----------------------------------------------------------------------------
(* Properties.                                                             *)

Entry(c) == pollfds[index[c] + 1]
Places == 0 .. Len(pollfds) - 1

\* The asserts at the head of updateChannel, for a channel that may be updated.
UpdateAsserts(c) ==
  IF index[c] < 0
  THEN fd[c] \notin DOMAIN channels
  ELSE /\ fd[c] \in DOMAIN channels /\ channels[fd[c]] = c
       /\ index[c] \in Places
       /\ Entry(c).fd \in {fd[c], Ignored(fd[c])}

\* The asserts of removeChannel, and that channels_[channelAtEnd] is there.
RemoveAsserts(c) ==
  /\ fd[c] \in DOMAIN channels /\ channels[fd[c]] = c
  /\ index[c] \in Places
  /\ Entry(c) = [fd |-> Ignored(fd[c]), events |-> events[c]]
  /\ index[c] # Len(pollfds) - 1 =>
       ChannelAtEnd \in DOMAIN channels \ {fd[c]}

\* The asserts of fillActiveChannels, for every entry the kernel may report.
FillAsserts == \A n \in Polled : n \in DOMAIN channels /\ fd[channels[n]] = n

\* No assert of the poller can fail, whatever the order in which channels are
\* registered, changed, removed and their descriptor numbers reused.
NoAssertFails ==
  /\ \A c \in open : index[c] < 0 \/ c \in Registered => UpdateAsserts(c)
  /\ \A c \in Channels : MayRemove(c) => RemoveAsserts(c)
  /\ FillAsserts

\* pollfds_ and the channels mirror each other: each entry is the place of one
\* registered channel, whose interest it holds, and whose descriptor, as it is
\* or stored as -fd-1.  The entry of a channel that wants no event is always of
\* the second form, so that poll(2) skips it (updateChannel, removeChannel).
Mirrored ==
  /\ \A c \in Registered :
       /\ index[c] \in Places
       /\ Entry(c).events = events[c]
       /\ Entry(c).fd \in {fd[c], Ignored(fd[c])}
       /\ events[c] = {} => Entry(c).fd = Ignored(fd[c])
  /\ \A i \in Places : \E c \in Registered : index[c] = i
  /\ \A c, d \in Registered : index[c] = index[d] => c = d

\* A channel that has disabled all its events is never reported, not even for
\* a hang-up the kernel reports unasked: handleClose relies on it to run once
\* for a connection (src/TcpConnection.cpp:105).
DisabledIsSilent ==
  [][\A c \in activeChannels' \ activeChannels :
        c \in open /\ events[c] # {}]_vars
=============================================================================
