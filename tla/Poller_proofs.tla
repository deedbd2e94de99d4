---------------------------- MODULE Poller_proofs ----------------------------
(***************************************************************************)
(* Proofs about Poller, for any set of channels and of descriptor numbers: *)
(* the type invariant, Mirrored, NoAssertFails and DisabledIsSilent.       *)
(***************************************************************************)
EXTENDS Poller, SequenceTheorems, TLAPS

----------------------------------------------------------------------------
(* The inductive invariant.  Mirrored alone does not survive a removal: to *)
(* move the last entry one has to know that its descriptor leads back to   *)
(* the channel that has the last place.  That is MapInv (the map is the    *)
(* inverse of fd on the registered channels) with EntryInv (an entry holds *)
(* the descriptor of its channel, negated if no event is wanted), PlaceInv *)
(* is the rest of Mirrored, and all of it stands on OpenInv: two open      *)
(* channels never share a descriptor.                                      *)

OpenInv == /\ Registered \subseteq open
           /\ \A c, d \in open : fd[c] = fd[d] => c = d

MapInv == /\ \A n \in DOMAIN channels : fd[channels[n]] = n
          /\ \A c \in Registered : index[c] >= 0

EntryInv == \A c \in Registered :
              /\ index[c] \in Places
              /\ Entry(c).fd \in {fd[c], Ignored(fd[c])}
              /\ events[c] = {} => Entry(c).fd = Ignored(fd[c])

PlaceInv ==
  /\ \A c \in Registered : index[c] \in Places /\ Entry(c).events = events[c]
  /\ \A i \in Places : \E c \in Registered : index[c] = i
  /\ \A c, d \in Registered : index[c] = index[d] => c = d

Inv == TypeOK /\ OpenInv /\ MapInv /\ EntryInv /\ PlaceInv

\* A registered channel is the one its descriptor leads to.
LEMMA RegisteredByFd ==
  ASSUME TypeOK, MapInv, NEW c
  PROVE  c \in Registered <=> /\ c \in Channels
                              /\ fd[c] \in DOMAIN channels
                              /\ channels[fd[c]] = c
BY DEF TypeOK, MapInv, Registered, Range

LEMMA PopBackProperties ==
  ASSUME NEW S, NEW s \in Seq(S), s # <<>>
  PROVE  /\ PopBack(s) \in Seq(S)
         /\ Len(PopBack(s)) = Len(s) - 1
         /\ \A i \in 1 .. Len(s) - 1 : PopBack(s)[i] = s[i]
<1>1. Len(s) \in Nat \ {0} /\ \A i \in 1 .. Len(s) : s[i] \in S
  BY EmptySeq, ElementOfSeq
<1>2. Len(s) - 1 \in Int /\ 1 \in Int /\ \A i \in 1 .. Len(s) - 1 : s[i] \in S
  BY <1>1
<1>3. /\ SubSeq(s, 1, Len(s) - 1) \in Seq(S)
      /\ Len(SubSeq(s, 1, Len(s) - 1)) =
           IF 1 <= Len(s) - 1 THEN (Len(s) - 1) - 1 + 1 ELSE 0
      /\ \A i \in 1 .. (Len(s) - 1) - 1 + 1 :
            SubSeq(s, 1, Len(s) - 1)[i] = s[1 + i - 1]
  BY <1>2, SubSeqProperties
<1>4. Len(SubSeq(s, 1, Len(s) - 1)) = Len(s) - 1
  <2>1. \A k \in Nat \ {0} : (IF 1 <= k - 1 THEN (k - 1) - 1 + 1 ELSE 0) = k - 1
    OBVIOUS
  <2> QED BY <1>1, <1>3, <2>1, Zenon
<1>5. ASSUME NEW i \in 1 .. Len(s) - 1
      PROVE  SubSeq(s, 1, Len(s) - 1)[i] = s[i]
  <2>1. i \in 1 .. (Len(s) - 1) - 1 + 1 /\ 1 + i - 1 = i
    BY <1>1, <1>5
  <2> QED BY <1>3, <2>1
<1> QED BY <1>3, <1>4, <1>5, Zenon DEF PopBack

LEMMA InitInv == Init => Inv
<1> SUFFICES ASSUME Init PROVE Inv
  OBVIOUS
<1>1. DOMAIN channels = {} /\ Registered = {} /\ Len(pollfds) = 0
  BY DEF Init, Registered, Range
<1>2. TypeOK
  BY <1>1, EmptySeq DEF Init, TypeOK, Interest
<1>3. OpenInv /\ MapInv /\ EntryInv /\ PlaceInv
  BY <1>1 DEF Init, OpenInv, MapInv, EntryInv, PlaceInv, Places
<1> QED BY <1>2, <1>3 DEF Inv

----------------------------------------------------------------------------
(* One lemma per operation.                                                *)

LEMMA OpenPreserves ==
  ASSUME Inv, NEW c \in Channels, NEW n \in Fds, Open(c, n)
  PROVE  Inv'
<1> USE DEF Inv, Open
<1>1. Registered' = Registered /\ c \notin Registered /\ c \notin open
  BY DEF OpenInv, Registered, Range
<1>2. /\ \A d \in Registered : /\ d # c
                               /\ d \in Channels
                               /\ index'[d] = index[d]
                               /\ events'[d] = events[d]
                               /\ fd'[d] = fd[d]
      /\ Places' = Places
  BY <1>1 DEF TypeOK, OpenInv, Places, Registered, Range
<1>3. \A d \in Registered : Entry(d)' = Entry(d)
  BY <1>2 DEF Entry
<1>4. TypeOK'
  BY DEF TypeOK, Interest
<1>5. OpenInv'
  BY <1>1 DEF OpenInv, TypeOK
<1>6. MapInv'
  BY <1>1, <1>2 DEF MapInv, Registered, Range
<1>7. EntryInv'
  BY <1>1, <1>2, <1>3 DEF EntryInv
<1>8. PlaceInv'
  BY <1>1, <1>2, <1>3 DEF PlaceInv
<1> QED BY <1>4, <1>5, <1>6, <1>7, <1>8

LEMMA ClosePreserves ==
  ASSUME Inv, NEW c \in Channels, Close(c)
  PROVE  Inv'
<1> USE DEF Inv, Close
<1>1. Registered' = Registered /\ Places' = Places
  BY DEF Registered, Range, Places
<1>2. \A d : Entry(d)' = Entry(d)
  BY DEF Entry
<1>3. TypeOK' /\ OpenInv' /\ MapInv'
  BY <1>1 DEF TypeOK, OpenInv, MapInv
<1>4. EntryInv' /\ PlaceInv'
  BY <1>1, <1>2 DEF EntryInv, PlaceInv
<1> QED BY <1>3, <1>4

\* updateChannel for a channel that is new: the entry goes to the end.
LEMMA AddPreserves ==
  ASSUME Inv, NEW c \in Channels, NEW ev \in Interest, ev # {},
         c \in open, index[c] < 0, Update(c, ev)
  PROVE  Inv'
<1> DEFINE e == [fd |-> fd[c], events |-> ev]
<1> USE DEF Inv
<1>1. /\ AddPollFd(c, ev)
      /\ events' = [events EXCEPT ![c] = ev]
      /\ UNCHANGED <<open, fd, activeChannels>>
  BY DEF Update, TypeOK
<1>2. c \notin Registered /\ fd[c] \notin DOMAIN channels
  <2>1. c \notin Registered
    BY DEF MapInv, TypeOK
  <2>2. ASSUME fd[c] \in DOMAIN channels PROVE FALSE
    <3>1. channels[fd[c]] \in Registered
      BY <2>2 DEF Registered, Range
    <3>2. fd[channels[fd[c]]] = fd[c]
      BY <2>2 DEF MapInv
    <3> QED BY <2>1, <3>1, <3>2 DEF OpenInv
  <2> QED BY <2>1, <2>2
<1>3. /\ e \in PollFd
      /\ pollfds \in Seq(PollFd)
      /\ Len(pollfds) \in Nat
  BY DEF TypeOK, PollFd, Interest
<1>4. /\ pollfds' \in Seq(PollFd)
      /\ Len(pollfds') = Len(pollfds) + 1
      /\ \A i \in 1 .. Len(pollfds) : pollfds'[i] = pollfds[i]
      /\ pollfds'[Len(pollfds) + 1] = e
  BY <1>1, <1>3, AppendProperties DEF AddPollFd
<1>5. /\ DOMAIN channels' = DOMAIN channels \cup {fd[c]}
      /\ channels'[fd[c]] = c
      /\ \A n \in DOMAIN channels : channels'[n] = channels[n]
      /\ channels' \in [DOMAIN channels' -> Channels]
      /\ Registered' = Registered \cup {c}
  BY <1>1, <1>2 DEF AddPollFd, Extend, TypeOK, Registered, Range
<1>6. /\ index' = [index EXCEPT ![c] = Len(pollfds)]
      /\ index'[c] = Len(pollfds)
      /\ events'[c] = ev
      /\ \A d \in Registered : /\ d # c /\ d \in Channels
                               /\ index'[d] = index[d]
                               /\ events'[d] = events[d]
  BY <1>1, <1>2 DEF AddPollFd, TypeOK, Registered, Range
<1>7. /\ Places' = Places \cup {Len(pollfds)}
      /\ Len(pollfds) \notin Places
      /\ \A d \in Registered : index[d] \in Places /\ index[d] + 1 \in 1 .. Len(pollfds)
  BY <1>3, <1>4 DEF Places, EntryInv
<1>8. /\ Entry(c)' = e
      /\ \A d \in Registered : Entry(d)' = Entry(d)
  BY <1>3, <1>4, <1>6, <1>7 DEF Entry
<1>9. TypeOK'
  BY <1>1, <1>3, <1>4, <1>5, <1>6 DEF TypeOK
<1>10. OpenInv'
  BY <1>1, <1>5 DEF OpenInv
<1>11. MapInv'
  BY <1>1, <1>2, <1>3, <1>5, <1>6 DEF MapInv
<1>12. EntryInv'
  BY <1>1, <1>5, <1>6, <1>7, <1>8 DEF EntryInv
<1>13. PlaceInv'
  BY <1>5, <1>6, <1>7, <1>8 DEF PlaceInv
<1> QED BY <1>9, <1>10, <1>11, <1>12, <1>13

\* updateChannel for a registered channel: its entry alone changes.
LEMMA ChangePreserves ==
  ASSUME Inv, NEW c \in Channels, NEW ev \in Interest,
         c \in Registered, Update(c, ev)
  PROVE  Inv'
<1> DEFINE i == index[c] + 1
           e == [fd |-> IF ev = {} THEN Ignored(fd[c]) ELSE pollfds[i].fd,
                 events |-> ev]
<1> USE DEF Inv
<1>1. /\ index[c] >= 0 /\ index[c] \in Int
      /\ ChangePollFd(c, ev)
      /\ events' = [events EXCEPT ![c] = ev]
      /\ UNCHANGED <<open, fd, activeChannels>>
  BY DEF Update, TypeOK, MapInv
<1>2. /\ pollfds \in Seq(PollFd)
      /\ Len(pollfds) \in Nat
      /\ i \in 1 .. Len(pollfds)
      /\ pollfds[i].fd \in {fd[c], Ignored(fd[c])}
  BY <1>1 DEF TypeOK, EntryInv, Entry, Places
<1>3. e \in PollFd
  BY <1>2 DEF TypeOK, PollFd
<1>4. /\ pollfds' = [pollfds EXCEPT ![i] = e]
      /\ UNCHANGED <<index, channels>>
  BY <1>1 DEF ChangePollFd, Stored
<1>5. /\ pollfds' \in Seq(PollFd)
      /\ Len(pollfds') = Len(pollfds)
      /\ \A j \in 1 .. Len(pollfds) : pollfds'[j] = IF j = i THEN e ELSE pollfds[j]
  BY <1>2, <1>3, <1>4, ExceptSeq
<1>6. /\ Registered' = Registered
      /\ Places' = Places
      /\ events'[c] = ev
      /\ \A d \in Registered : /\ d \in Channels
                               /\ d # c => events'[d] = events[d]
                               /\ d # c => index[d] # index[c]
                               /\ index[d] \in Int
                               /\ index[d] + 1 \in 1 .. Len(pollfds)
  BY <1>1, <1>2, <1>4, <1>5
     DEF Registered, Range, Places, TypeOK, PlaceInv, EntryInv
<1>7. /\ Entry(c)' = e
      /\ \A d \in Registered : d # c => Entry(d)' = Entry(d)
  BY <1>1, <1>2, <1>4, <1>5, <1>6 DEF Entry
<1>8. TypeOK'
  BY <1>1, <1>4, <1>5 DEF TypeOK
<1>9. OpenInv' /\ MapInv'
  BY <1>1, <1>4, <1>6 DEF OpenInv, MapInv
<1>10. EntryInv'
  <2> SUFFICES ASSUME NEW d \in Registered
               PROVE  /\ index[d] \in Places
                      /\ Entry(d)'.fd \in {fd[d], Ignored(fd[d])}
                      /\ events'[d] = {} => Entry(d)'.fd = Ignored(fd[d])
    BY <1>1, <1>4, <1>6 DEF EntryInv
  <2>1. CASE d = c
    BY <2>1, <1>2, <1>6, <1>7 DEF EntryInv
  <2>2. CASE d # c
    BY <2>2, <1>6, <1>7 DEF EntryInv
  <2> QED BY <2>1, <2>2
<1>11. PlaceInv'
  <2>1. \A d \in Registered : Entry(d)'.events = events'[d]
    BY <1>6, <1>7 DEF PlaceInv
  <2> QED BY <1>4, <1>6, <2>1 DEF PlaceInv
<1> QED BY <1>8, <1>9, <1>10, <1>11

\* The last entry belongs to the channel m that channelAtEnd leads to.
LEMMA LastEntry ==
  ASSUME Inv, Registered # {}
  PROVE  \E m \in Registered : /\ index[m] = Len(pollfds) - 1
                               /\ Entry(m) = Last
                               /\ ChannelAtEnd = fd[m]
                               /\ channels[ChannelAtEnd] = m
                               /\ ChannelAtEnd \in DOMAIN channels
<1> USE DEF Inv
<1>1. Len(pollfds) \in Nat \ {0} /\ Len(pollfds) - 1 \in Places
  <2>1. Len(pollfds) \in Nat
    BY DEF TypeOK
  <2>2. Places # {}
    BY DEF EntryInv
  <2> QED BY <2>1, <2>2 DEF Places
<1>2. PICK m \in Registered : index[m] = Len(pollfds) - 1
  BY <1>1 DEF PlaceInv
<1>3. Entry(m) = Last
  BY <1>1, <1>2 DEF Entry, Last
<1>4. fd[m] \in Nat /\ Last.fd \in {fd[m], Ignored(fd[m])}
  BY <1>3, FdAssumption DEF EntryInv, TypeOK, Registered, Range
<1>5. ChannelAtEnd = fd[m]
  BY <1>4 DEF ChannelAtEnd, Ignored
<1> QED BY <1>2, <1>3, <1>5, RegisteredByFd

LEMMA RemovePreserves ==
  ASSUME Inv, NEW c \in Channels, RemoveChannel(c)
  PROVE  Inv'
<1> DEFINE k == index[c]
           L == Len(pollfds)
           filled == [pollfds EXCEPT ![k + 1] = Last]
<1> USE DEF Inv
<1>1. /\ c \in open /\ c \in Registered
      /\ channels' = Without(fd[c])
      /\ index' = IF k = L - 1 THEN index
                  ELSE [index EXCEPT ![channels[ChannelAtEnd]] = k]
      /\ pollfds' = PopBack(filled)
      /\ UNCHANGED <<open, fd, events, activeChannels>>
  BY DEF RemoveChannel, Indices, MayRemove
<1>2. PICK m \in Registered : /\ index[m] = L - 1
                              /\ Entry(m) = Last
                              /\ channels[ChannelAtEnd] = m
  BY <1>1, LastEntry
<1>3. /\ pollfds \in Seq(PollFd)
      /\ L \in Nat \ {0}
      /\ k \in 0 .. L - 1 /\ k + 1 \in 1 .. L
      /\ Last \in PollFd
  <2>1. pollfds \in Seq(PollFd) /\ L \in Nat
    BY DEF TypeOK
  <2>2. k \in 0 .. L - 1
    BY <1>1 DEF EntryInv, Places
  <2> QED BY <2>1, <2>2, ElementOfSeq DEF Last
<1>4. /\ filled \in Seq(PollFd)
      /\ Len(filled) = L
      /\ \A j \in 1 .. L : filled[j] = IF j = k + 1 THEN Last ELSE pollfds[j]
  BY <1>3, ExceptSeq
<1>5. filled # <<>>
  BY <1>3, <1>4
<1>6. /\ pollfds' \in Seq(PollFd)
      /\ Len(pollfds') = L - 1
      /\ \A j \in 1 .. L - 1 :
            pollfds'[j] = IF j = k + 1 THEN Last ELSE pollfds[j]
  <2> HIDE DEF filled, L, k
  <2>1. /\ PopBack(filled) \in Seq(PollFd)
        /\ Len(PopBack(filled)) = Len(filled) - 1
        /\ \A j \in 1 .. Len(filled) - 1 : PopBack(filled)[j] = filled[j]
    BY <1>4, <1>5, PopBackProperties
  <2> QED BY <1>1, <1>3, <1>4, <2>1
<1>7. /\ DOMAIN channels' = DOMAIN channels \ {fd[c]}
      /\ \A n \in DOMAIN channels' : channels'[n] = channels[n]
      /\ channels' \in [DOMAIN channels' -> Channels]
  BY <1>1 DEF Without, TypeOK
<1>8. Registered' = Registered \ {c}
  <2>1. fd[c] \in DOMAIN channels /\ channels[fd[c]] = c
    BY <1>1, RegisteredByFd
  <2>2. \A n \in DOMAIN channels : channels[n] = c => n = fd[c]
    BY DEF MapInv
  <2> QED BY <1>7, <2>1, <2>2 DEF Registered, Range
<1>9. \A d \in Registered :
        /\ d \in Channels /\ index[d] \in 0 .. L - 1
        /\ d # c => index[d] # k
        /\ d # m => index[d] # L - 1
  BY <1>1, <1>2 DEF EntryInv, PlaceInv, Places, TypeOK, Registered, Range
<1>10. \A d \in Registered \ {c} :
         /\ index'[d] = IF d = m THEN k ELSE index[d]
         /\ index'[d] \in 0 .. L - 2
         /\ Entry(d)' = Entry(d)
  <2> SUFFICES ASSUME NEW d \in Registered, d # c
               PROVE  /\ index'[d] = IF d = m THEN k ELSE index[d]
                      /\ index'[d] \in 0 .. L - 2
                      /\ pollfds'[index'[d] + 1] = Entry(d)
    BY DEF Entry
  <2>1. CASE d = m
    <3>1. k # L - 1
      BY <1>2, <1>9, <2>1
    <3>2. index'[d] = k /\ k \in 0 .. L - 2 /\ k + 1 \in 1 .. L - 1
      BY <1>1, <1>2, <1>3, <1>9, <2>1, <3>1 DEF TypeOK
    <3> QED BY <1>2, <1>6, <2>1, <3>2
  <2>2. CASE d # m
    <3>1. index'[d] = index[d]
      BY <1>1, <1>2, <1>9, <2>2 DEF TypeOK
    <3>2. index[d] \in 0 .. L - 2 /\ index[d] # k /\ index[d] + 1 \in 1 .. L - 1
      BY <1>3, <1>9, <2>2
    <3>3. pollfds'[index[d] + 1] = pollfds[index[d] + 1]
      BY <1>3, <1>6, <3>2
    <3> QED BY <2>2, <3>1, <3>2, <3>3 DEF Entry
  <2> QED BY <2>1, <2>2
<1>11. Places' = 0 .. L - 2
  BY <1>3, <1>6 DEF Places
<1>12. TypeOK'
  <2>1. index' \in [Channels -> Int]
    BY <1>1, <1>3 DEF TypeOK
  <2> QED BY <1>1, <1>6, <1>7, <2>1 DEF TypeOK
<1>13. OpenInv'
  BY <1>1, <1>8 DEF OpenInv
<1>14. MapInv'
  BY <1>1, <1>7, <1>8, <1>10, <1>3 DEF MapInv
<1>15. EntryInv'
  BY <1>1, <1>8, <1>10, <1>11 DEF EntryInv
<1>16. PlaceInv'
  <2>1. \A d \in Registered' : index'[d] \in Places' /\ Entry(d)'.events = events'[d]
    BY <1>1, <1>8, <1>10, <1>11 DEF PlaceInv
  <2>2. ASSUME NEW i \in Places' PROVE \E d \in Registered' : index'[d] = i
    <3>1. i \in Places /\ i # L - 1
      BY <1>3, <1>11 DEF Places
    <3>2. PICK d \in Registered : index[d] = i
      BY <3>1 DEF PlaceInv
    <3>3. CASE d = c
      <4>1. m # c
        BY <1>2, <3>1, <3>2, <3>3
      <4> QED BY <1>8, <1>10, <3>2, <3>3, <4>1
    <3>4. CASE d # c
      <4>1. d # m
        BY <1>2, <3>1, <3>2
      <4> QED BY <1>8, <1>10, <3>2, <3>4, <4>1
    <3> QED BY <3>3, <3>4
  <2>3. \A d, b \in Registered' : index'[d] = index'[b] => d = b
    BY <1>8, <1>9, <1>10 DEF PlaceInv
  <2> QED BY <2>1, <2>2, <2>3 DEF PlaceInv
<1> QED BY <1>12, <1>13, <1>14, <1>15, <1>16

----------------------------------------------------------------------------
(* Theorems.                                                               *)

\* An entry the kernel may report belongs to a registered channel that wants
\* events.
LEMMA PolledChannel ==
  ASSUME Inv, NEW n \in Polled
  PROVE  /\ n \in DOMAIN channels
         /\ fd[channels[n]] = n
         /\ channels[n] \in open
         /\ events[channels[n]] # {}
<1>1. PICK i \in DOMAIN pollfds : pollfds[i].fd = n
  BY DEF Polled
<1>2. i - 1 \in Places /\ i \in Nat
  BY <1>1, LenProperties DEF Inv, TypeOK, Places
<1>3. PICK c \in Registered : index[c] = i - 1
  BY <1>2 DEF Inv, PlaceInv
<1>4. Entry(c).fd = n /\ n \in Nat /\ fd[c] \in Nat
  BY <1>1, <1>2, <1>3, FdAssumption
     DEF Entry, Polled, Inv, TypeOK, Registered, Range
<1>5. n = fd[c] /\ events[c] # {}
  BY <1>4 DEF Inv, EntryInv, Ignored
<1>6. n \in DOMAIN channels /\ channels[n] = c
  BY <1>5, RegisteredByFd DEF Inv
<1> QED BY <1>3, <1>5, <1>6 DEF Inv, OpenInv

LEMMA NextInv == Inv /\ [Next]_vars => Inv'
<1> SUFFICES ASSUME Inv, [Next]_vars PROVE Inv'
  OBVIOUS
<1>1. ASSUME NEW c \in Channels, EnableReading(c) PROVE Inv'
  <2>1. events[c] \cup {"read"} \in Interest /\ events[c] \cup {"read"} # {}
    BY DEF Inv, TypeOK, Interest
  <2> QED BY <1>1, <2>1, AddPreserves DEF EnableReading
<1>2. ASSUME NEW c \in Channels,
             EnableWriting(c) \/ DisableWriting(c) \/ DisableAll(c)
      PROVE  Inv'
  <2>1. /\ events[c] \cup {"write"} \in Interest
        /\ events[c] \ {"write"} \in Interest
        /\ {} \in Interest
    BY DEF Inv, TypeOK, Interest
  <2> QED
    BY <1>2, <2>1, ChangePreserves DEF EnableWriting, DisableWriting, DisableAll
<1>3. ASSUME NEW ready \in SUBSET Polled, Poll(ready) PROVE Inv'
  <2>1. /\ UNCHANGED <<Registered, Places>>
        /\ \A c : Entry(c)' = Entry(c)
    BY <1>3 DEF Poll, Registered, Range, Places, Entry
  <2>2. \A n \in Polled : n \in DOMAIN channels
    BY PolledChannel
  <2>3. TypeOK'
    BY <1>3, <2>2 DEF Poll, Inv, TypeOK
  <2>4. OpenInv' /\ MapInv' /\ EntryInv' /\ PlaceInv'
    BY <1>3, <2>1 DEF Poll, Inv, OpenInv, MapInv, EntryInv, PlaceInv
  <2> QED BY <2>3, <2>4 DEF Inv
<1>4. CASE UNCHANGED vars
  BY <1>4 DEF vars, Inv, TypeOK, OpenInv, MapInv, EntryInv, PlaceInv,
     Registered, Range, Places, Entry
<1> QED
  BY <1>1, <1>2, <1>3, <1>4, OpenPreserves, ClosePreserves, RemovePreserves
  DEF Next

LEMMA Invariance == Spec => []Inv
BY InitInv, NextInv, PTL DEF Spec

\* The members of Poller and Channel keep their types; in particular channels_
\* never gains an entry for a number that is no descriptor (removeChannel).
THEOREM TypeCorrect == Spec => []TypeOK
<1>1. Inv => TypeOK
  BY DEF Inv
<1> QED BY <1>1, Invariance, PTL

\* pollfds_ and the registered channels mirror each other, however many there
\* are (updateChannel, removeChannel).
THEOREM AlwaysMirrored == Spec => []Mirrored
<1>1. Inv => Mirrored
  BY DEF Inv, EntryInv, PlaceInv, Mirrored
<1> QED BY <1>1, Invariance, PTL

\* No assert of Poller.cpp fails, for any number of channels, any descriptor
\* numbers and any order of the operations the callers use.
THEOREM AssertsHold == Spec => []NoAssertFails
<1>1. Inv => NoAssertFails
  <2> SUFFICES ASSUME Inv PROVE NoAssertFails
    OBVIOUS
  <2>1. ASSUME NEW c \in open, index[c] < 0 PROVE fd[c] \notin DOMAIN channels
    <3>1. c \notin Registered /\ c \in Channels
      BY <2>1 DEF Inv, MapInv, TypeOK
    <3>2. ASSUME fd[c] \in DOMAIN channels PROVE FALSE
      BY <3>1, <3>2 DEF Inv, MapInv, OpenInv, Registered, Range
    <3> QED BY <3>2
  <2>2. ASSUME NEW c \in Registered, index[c] >= 0 PROVE UpdateAsserts(c)
    BY <2>2, RegisteredByFd DEF Inv, TypeOK, EntryInv, UpdateAsserts
  <2>3. ASSUME NEW c \in Registered PROVE index[c] >= 0 /\ index[c] \in Int
    BY <2>3 DEF Inv, MapInv, TypeOK, Registered, Range
  <2>4. \A c \in open : index[c] < 0 \/ c \in Registered => UpdateAsserts(c)
    BY <2>1, <2>2, <2>3 DEF UpdateAsserts
  <2>5. ASSUME NEW c \in Channels, MayRemove(c) PROVE RemoveAsserts(c)
    <3>1. c \in Registered /\ events[c] = {}
      BY <2>5 DEF MayRemove
    <3>2. /\ fd[c] \in DOMAIN channels /\ channels[fd[c]] = c
          /\ index[c] \in Places
          /\ Entry(c).fd = Ignored(fd[c]) /\ Entry(c).events = events[c]
      BY <3>1, RegisteredByFd DEF Inv, EntryInv, PlaceInv
    <3>3. Entry(c) \in PollFd
      <4>1. index[c] + 1 \in 1 .. Len(pollfds) /\ pollfds \in Seq(PollFd)
        BY <3>2 DEF Places, Inv, TypeOK
      <4> QED BY <4>1, ElementOfSeq DEF Entry
    <3>4. Entry(c) = [fd |-> Ignored(fd[c]), events |-> events[c]]
      BY <3>2, <3>3 DEF PollFd
    <3>5. PICK m \in Registered : /\ index[m] = Len(pollfds) - 1
                                  /\ ChannelAtEnd = fd[m]
                                  /\ channels[ChannelAtEnd] = m
                                  /\ ChannelAtEnd \in DOMAIN channels
      BY <3>1, LastEntry
    <3>6. index[c] # Len(pollfds) - 1 => ChannelAtEnd \in DOMAIN channels \ {fd[c]}
      BY <3>2, <3>5
    <3> QED BY <3>2, <3>4, <3>6 DEF RemoveAsserts
  <2>6. FillAsserts
    BY PolledChannel DEF FillAsserts
  <2> QED BY <2>4, <2>5, <2>6 DEF NoAssertFails
<1> QED BY <1>1, Invariance, PTL

\* poll() reports only open channels that want events: after disableAll a
\* channel stays silent (updateChannel, fillActiveChannels).
THEOREM DisabledStaysSilent == Spec => DisabledIsSilent
<1>1. Inv /\ [Next]_vars =>
        [\A c \in activeChannels' \ activeChannels :
            c \in open /\ events[c] # {}]_vars
  <2> SUFFICES ASSUME Inv, [Next]_vars,
                      NEW c \in activeChannels' \ activeChannels
               PROVE  c \in open /\ events[c] # {}
    OBVIOUS
  <2>1. ASSUME NEW ready \in SUBSET Polled, Poll(ready)
        PROVE  c \in open /\ events[c] # {}
    BY <2>1, PolledChannel DEF Poll
  <2>2. ASSUME NEW d \in Channels, NEW n \in Fds, Open(d, n) PROVE FALSE
    BY <2>2 DEF Open
  <2>3. ASSUME NEW d \in Channels,
               \/ Close(d) \/ EnableReading(d) \/ EnableWriting(d)
               \/ DisableWriting(d) \/ DisableAll(d) \/ RemoveChannel(d)
        PROVE  FALSE
    BY <2>3 DEF Close, EnableReading, EnableWriting, DisableWriting,
       DisableAll, RemoveChannel, Update
  <2>4. ASSUME UNCHANGED vars PROVE FALSE
    BY <2>4 DEF vars
  <2> QED BY <2>1, <2>2, <2>3, <2>4 DEF Next
<1> QED BY <1>1, Invariance, PTL DEF Spec, DisabledIsSilent
=============================================================================
