-------------------------- MODULE ReactServerProofs --------------------------
(***************************************************************************)
(* ReactServer, for every number of clients, slots, queued connections and *)
(* unread messages.                                                        *)
(*                                                                         *)
(* The inductive invariant is IInv: the types, the properties that the     *)
(* runs check, and four facts that tie the backlog, the handlers, the      *)
(* descriptors and the clients to each other.  What is not a matter of     *)
(* following the assignments is which descriptor accept returns: that one  *)
(* is free at all, and that it is low enough, are both counting arguments. *)
(***************************************************************************)
EXTENDS ReactServer, FiniteSetTheorems, TLAPS

\* The clients in the backlog are those that wait, each once.
BacklogQueued == /\ \A i \in 1..Len(backlog) : link[backlog[i]] = "queued"
                 /\ \A i, j \in 1..Len(backlog) : backlog[i] = backlog[j] => i = j

\* Only the listening socket has acceptClient, and it is dispatched only while a
\* client waits, so that accept has a client to take.
ListenerAccepts == /\ \A fd \in Fds : handlers[fd] = "acceptClient" <=> fd = ServerFd
                   /\ spc = "dispatch" /\ ServerFd \in temp_fds => backlog # <<>>

\* A client has at most one descriptor, and while the server runs a connected one
\* has one.
OneFdEach == /\ \A fd, g \in ClientFds : conn[fd] = conn[g] /\ conn[fd] # Nobody => fd = g
             /\ spc # "exited" => \A c \in Clients :
                                    link[c] = "connected" => \E fd \in ClientFds : conn[fd] = c

\* As long as no client was disconnected, the reactor knows open descriptors only.
KnownOpen == spc # "exited" /\ (\A c \in Clients : link[c] # "closed") => read_fds \subseteq OpenFds

IInv == /\ TypeOK
        /\ NoStaleDispatch /\ SlotsMatch /\ FdBound /\ ExitsOnlyAfterDisconnect
        /\ BacklogQueued /\ ListenerAccepts /\ OneFdEach /\ KnownOpen

-----------------------------------------------------------------------------
(* Counting.                                                               *)

\* Every set of numbers that is not empty has a lowest member.
LEMMA LowestIsLowest ==
  ASSUME NEW S \in SUBSET Nat, S # {}
  PROVE  Lowest(S) \in S /\ \A y \in S : Lowest(S) <= y
<1> DEFINE Less == {ss \in Nat \X Nat : ss[1] < ss[2]}
<1>1. IsWellFoundedOn(Less, Nat)
  BY NatLessThanWellFounded DEF OpToRel
<1>2. \E x \in S : \A y \in S : x <= y
  <2>1. PICK x \in S : \A y \in S : ~(<<y, x>> \in Less)
    <3> HIDE DEF Less
    <3> QED
      BY <1>1, WFMin
  <2>2. ASSUME NEW y \in S PROVE x <= y
    <3>1. <<y, x>> \in Nat \X Nat /\ ~(<<y, x>> \in Less)
      BY <2>1
    <3> QED
      BY <3>1
  <2> QED
    BY <2>2
<1> QED
  BY <1>2 DEF Lowest

\* There is always a descriptor that no client has: there is one more than clients.
LEMMA FdLeft ==
  ASSUME TypeOK, OneFdEach
  PROVE  /\ NewFd \in ClientFds \ OpenFds
         /\ \A fd \in ClientFds : fd < NewFd => fd \in OpenFds
<1> USE ReactAssumption
<1> DEFINE n == Cardinality(Clients)
<1>1. n \in Nat
  BY FS_CardinalityType
<1>2. ClientFds \subseteq Nat
  BY <1>1 DEF ClientFds, ServerFd
<1>3. ClientFds \ OpenFds # {}
  <2>1. SUFFICES ASSUME ClientFds \subseteq OpenFds PROVE FALSE
    OBVIOUS
  <2>2. conn \in [ClientFds -> Clients] /\ \A fd, g \in ClientFds : conn[fd] = conn[g] => fd = g
    <3>1. \A fd \in ClientFds : conn[fd] \in Clients
      <4>1. ServerFd \notin ClientFds
        BY <1>1 DEF ClientFds, ServerFd
      <4> QED
        BY <4>1, <2>1 DEF TypeOK, OpenFds
    <3> QED
      BY <3>1 DEF TypeOK, OneFdEach
  <2>3. Cardinality(ClientFds) <= n
    BY <2>2, FS_Injection DEF Injection, IsInjective
  <2>4. Cardinality(ClientFds) = n + 1
    BY <1>1, FS_Interval DEF ClientFds, ServerFd
  <2> QED
    BY <1>1, <2>3, <2>4
<1>4. NewFd \in ClientFds \ OpenFds /\ \A y \in ClientFds \ OpenFds : NewFd <= y
  BY <1>2, <1>3, LowestIsLowest DEF NewFd
<1> QED
  BY <1>2, <1>4

\* While a slot is free, the descriptor that accept returns is one of the lowest
\* MAX_CLIENTS: each one below it is open and takes a slot.
LEMMA FdLow ==
  ASSUME TypeOK, OneFdEach, SlotsMatch, spc # "exited", FreeSlots # {}
  PROVE  NewFd <= ServerFd + MAX_CLIENTS
<1> USE ReactAssumption
<1> DEFINE Lows == (ServerFd + 1)..(ServerFd + MAX_CLIENTS)
<1>1. NewFd \in Nat
  BY FdLeft, FS_CardinalityType DEF ClientFds, ServerFd
<1>2. SUFFICES ASSUME NewFd > ServerFd + MAX_CLIENTS PROVE FALSE
  BY <1>1 DEF ServerFd
<1>3. Lows \subseteq OpenFds \ {ServerFd}
  <2>1. SUFFICES ASSUME NEW fd \in Lows PROVE fd \in OpenFds /\ fd # ServerFd
    OBVIOUS
  <2>2. fd \in ClientFds
    BY <1>1, <1>2, FdLeft, FS_CardinalityType DEF ClientFds, ServerFd
  <2> QED
    BY <1>1, <1>2, <2>2, FdLeft DEF ServerFd
<1>4. PICK free \in Slots : client_sockets[free] = 0
  BY DEF FreeSlots
<1>5. \A fd \in Lows : \E i \in Slots \ {free} : client_sockets[i] = fd
  <2>1. TAKE fd \in Lows
  <2>2. PICK i \in Slots : client_sockets[i] = fd
    BY <1>3 DEF SlotsMatch
  <2> QED
    BY <1>4, <2>2 DEF ServerFd
<1> DEFINE slot == [fd \in Lows |-> CHOOSE i \in Slots \ {free} : client_sockets[i] = fd]
<1>6. \A fd \in Lows : slot[fd] \in Slots \ {free} /\ client_sockets[slot[fd]] = fd
  BY <1>5
<1>7. slot \in Injection(Lows, Slots \ {free})
  BY <1>6 DEF Injection, IsInjective
<1>8. IsFiniteSet(Slots) /\ Cardinality(Slots) = MAX_CLIENTS
  BY FS_Interval DEF Slots
<1>9. IsFiniteSet(Slots \ {free}) /\ Cardinality(Slots \ {free}) = MAX_CLIENTS - 1
  BY <1>8, FS_RemoveElement
<1>10. Cardinality(Lows) <= Cardinality(Slots \ {free})
  BY <1>7, <1>9, FS_Injection
<1>11. Cardinality(Lows) = MAX_CLIENTS
  BY FS_Interval DEF ServerFd
<1> QED
  BY <1>9, <1>10, <1>11

\* The lowest free slot is a free slot.
LEMMA SlotFree == FreeSlots # {} => Lowest(FreeSlots) \in FreeSlots
  BY LowestIsLowest DEF FreeSlots, Slots

-----------------------------------------------------------------------------
(* IInv is inductive.                                                      *)

\* IInv holds once main has set everything up.
LEMMA InitInv == Init => IInv
<1> SUFFICES ASSUME Init PROVE IInv
  OBVIOUS
<1> USE ReactAssumption DEF Init
<1>1. ServerFd \in Fds /\ ServerFd \notin ClientFds /\ 0 \notin ClientFds
  BY FS_CardinalityType DEF Fds, ClientFds, ServerFd
<1>2. TypeOK
  BY <1>1 DEF TypeOK, Links, Endings
<1>3. OpenFds = {ServerFd}
  BY DEF OpenFds
<1>4. SlotsMatch /\ NoStaleDispatch /\ ExitsOnlyAfterDisconnect
  BY <1>3 DEF SlotsMatch, NoStaleDispatch, ExitsOnlyAfterDisconnect
<1>5. FdBound
  BY DEF FdBound, ServerFd
<1>6. BacklogQueued /\ ListenerAccepts /\ OneFdEach /\ KnownOpen
  BY <1>3 DEF BacklogQueued, ListenerAccepts, OneFdEach, KnownOpen
<1> QED
  BY <1>2, <1>4, <1>5, <1>6 DEF IInv

\* The steps of the clients.
LEMMA ClientInv == ASSUME IInv, NEW c \in Clients, Client(c) PROVE IInv'
<1> USE ReactAssumption DEF IInv, serverVars
<1>1. OpenFds' = OpenFds /\ Watched' = Watched
  BY DEF Client, Connect, Send, Leave, OpenFds, Watched
<1>2. CASE Connect(c)
  <2> USE <1>2 DEF Connect
  <2>1. TypeOK'
    BY DEF TypeOK, Links
  <2>2. \A d \in Clients : /\ link[d] \in {"connected", "closed"} => link'[d] = link[d]
                           /\ link'[d] \in {"connected", "closed"} => link'[d] = link[d]
    BY DEF TypeOK
  <2>3. SlotsMatch' /\ OneFdEach' /\ KnownOpen' /\ ExitsOnlyAfterDisconnect'
    BY <1>1, <2>2 DEF TypeOK, SlotsMatch, OneFdEach, KnownOpen, ExitsOnlyAfterDisconnect, OpenFds
  <2>4. BacklogQueued'
    <3>1. /\ Len(backlog') = Len(backlog) + 1 /\ backlog'[Len(backlog')] = c
          /\ \A i \in 1..Len(backlog) : /\ backlog'[i] = backlog[i] /\ backlog[i] \in Clients
                                       /\ link[backlog[i]] = "queued" /\ backlog[i] # c
      BY DEF TypeOK, BacklogQueued
    <3>2. \A i \in 1..Len(backlog') : link'[backlog'[i]] = "queued"
      BY <3>1 DEF TypeOK
    <3>3. \A i, j \in 1..Len(backlog') : backlog'[i] = backlog'[j] => i = j
      BY <3>1 DEF TypeOK, BacklogQueued
    <3> QED
      BY <3>2, <3>3 DEF BacklogQueued
  <2>5. NoStaleDispatch' /\ FdBound'
    BY <1>1 DEF NoStaleDispatch, FdBound
  <2>6. backlog' # <<>>
    BY DEF TypeOK
  <2>7. ListenerAccepts'
    BY <2>6 DEF ListenerAccepts
  <2> QED
    BY <2>1, <2>3, <2>4, <2>5, <2>7
<1>3. CASE Send(c)
  <2> USE <1>3 DEF Send
  <2>1. TypeOK'
    BY DEF TypeOK
  <2> QED
    BY <1>1, <2>1 DEF SlotsMatch, OneFdEach, KnownOpen, ExitsOnlyAfterDisconnect, BacklogQueued,
                      NoStaleDispatch, FdBound, ListenerAccepts
<1>4. CASE Leave(c)
  <2> USE <1>4 DEF Leave
  <2>1. TypeOK'
    BY DEF TypeOK, Endings
  <2> QED
    BY <1>1, <2>1 DEF SlotsMatch, OneFdEach, KnownOpen, ExitsOnlyAfterDisconnect, BacklogQueued,
                      NoStaleDispatch, FdBound, ListenerAccepts
<1> QED
  BY <1>2, <1>3, <1>4 DEF Client

\* select, which returns what is ready or fails.
LEMMA SelectInv == ASSUME IInv, Select PROVE IInv'
<1> USE DEF IInv, Select, reactorVars
<1>1. OpenFds' = OpenFds /\ Watched' = Watched
  BY DEF OpenFds, Watched
<1>2. TypeOK'
  BY DEF TypeOK, Watched
<1>3. NoStaleDispatch' /\ ListenerAccepts'
  BY <1>1 DEF NoStaleDispatch, ListenerAccepts, Readable
<1>4. SlotsMatch' /\ OneFdEach' /\ KnownOpen' /\ ExitsOnlyAfterDisconnect' /\ BacklogQueued' /\ FdBound'
  BY <1>1 DEF SlotsMatch, OneFdEach, KnownOpen, ExitsOnlyAfterDisconnect, BacklogQueued, FdBound
<1> QED
  BY <1>2, <1>3, <1>4

\* A select that fails ends the process; every connection ends with it.
LEMMA SelectFailsInv == ASSUME IInv, SelectFails PROVE IInv'
<1> USE DEF IInv, SelectFails, reactorVars
<1>1. TypeOK'
  BY DEF TypeOK, Links
<1>2. \E c \in Clients : link[c] = "closed"
  BY DEF KnownOpen, Watched
<1>3. ExitsOnlyAfterDisconnect'
  BY <1>2 DEF ExitsOnlyAfterDisconnect, TypeOK
<1>4. NoStaleDispatch' /\ SlotsMatch' /\ KnownOpen' /\ ListenerAccepts' /\ BacklogQueued'
  BY DEF NoStaleDispatch, SlotsMatch, KnownOpen, ListenerAccepts, BacklogQueued
<1>5. OneFdEach' /\ FdBound'
  BY DEF OneFdEach, FdBound
<1> QED
  BY <1>1, <1>3, <1>4, <1>5

\* acceptClient runs for the listening socket only, and finds a client that waits;
\* whatever becomes of it, the backlog behind it is as it should be.
LEMMA TakesFirst ==
  ASSUME IInv, NEW fd \in Fds, Dispatched(fd), handlers[fd] = "acceptClient"
  PROVE  /\ fd = ServerFd /\ ServerFd \notin temp_fds'
         /\ Head(backlog) \in Clients /\ link[Head(backlog)] = "queued"
         /\ Tail(backlog) \in Seq(Clients)
         /\ \A result :
              link' = [link EXCEPT ![Head(backlog)] = result] /\ backlog' = Tail(backlog)
                => BacklogQueued'
<1> USE DEF IInv, Dispatched
<1>1. fd = ServerFd /\ backlog # <<>> /\ backlog \in Seq(Clients) /\ link \in [Clients -> Links]
  BY DEF ListenerAccepts, TypeOK
<1>2. Len(backlog) \in Nat /\ Len(backlog) >= 1 /\ Head(backlog) = backlog[1] /\ backlog[1] \in Clients
  BY <1>1
<1>3. \A i \in 1..Len(Tail(backlog)) :
        /\ i + 1 \in 2..Len(backlog)
        /\ Tail(backlog)[i] = backlog[i + 1] /\ backlog[i + 1] \in Clients
        /\ backlog[i + 1] # backlog[1]
  BY <1>1, <1>2 DEF BacklogQueued
<1>4. ASSUME NEW result, link' = [link EXCEPT ![Head(backlog)] = result], backlog' = Tail(backlog)
      PROVE  BacklogQueued'
  <2>1. \A i \in 1..Len(backlog') : link'[backlog'[i]] = "queued"
    BY <1>1, <1>2, <1>3, <1>4 DEF BacklogQueued
  <2>2. ASSUME NEW i \in 1..Len(backlog'), NEW j \in 1..Len(backlog'), backlog'[i] = backlog'[j]
        PROVE  i = j
    <3>1. i + 1 = j + 1
      BY <1>2, <1>3, <1>4, <2>2 DEF BacklogQueued
    <3> QED
      BY <3>1
  <2> QED
    BY <2>1, <2>2 DEF BacklogQueued
<1>5. Tail(backlog) \in Seq(Clients)
  BY <1>1
<1>6. link[Head(backlog)] = "queued"
  BY <1>2 DEF BacklogQueued
<1>7. ServerFd \notin temp_fds'
  BY <1>1
<1> QED
  BY <1>1, <1>2, <1>4, <1>5, <1>6, <1>7

\* A client that is turned away or lost leaves everything else as it was.
LEMMA TurnedAway ==
  ASSUME IInv, NEW fd \in Fds, AcceptFails(fd) \/ AcceptRefuses(fd)
  PROVE  IInv'
<1> DEFINE first == Head(backlog)
<1>1. PICK result \in {"aborted", "refused"} : link' = [link EXCEPT ![first] = result]
  BY DEF AcceptFails, AcceptRefuses
<1>2. /\ Dispatched(fd) /\ handlers[fd] = "acceptClient" /\ backlog' = Tail(backlog)
      /\ UNCHANGED <<reactorVars, client_sockets, conn, ending, unread>>
  BY DEF AcceptFails, AcceptRefuses
<1>3. /\ ServerFd \notin temp_fds'
      /\ first \in Clients /\ link[first] = "queued" /\ Tail(backlog) \in Seq(Clients)
      /\ BacklogQueued'
  BY <1>1, <1>2, TakesFirst
<1> HIDE DEF first
<1> USE DEF IInv, reactorVars, Dispatched
<1>4. OpenFds' = OpenFds /\ Watched' = Watched
  BY <1>2 DEF OpenFds, Watched
<1>5. TypeOK'
  BY <1>1, <1>2, <1>3 DEF TypeOK, Links
<1>6. \A c \in Clients : /\ link[c] \in {"connected", "closed"} => link'[c] = link[c]
                         /\ link'[c] \in {"connected", "closed"} => link'[c] = link[c]
  BY <1>1, <1>3 DEF TypeOK
<1>7. SlotsMatch' /\ OneFdEach' /\ KnownOpen' /\ ExitsOnlyAfterDisconnect'
  <2>1. \A g \in OpenFds \ {ServerFd} : conn[g] \in Clients
    BY DEF TypeOK, OpenFds
  <2> QED
    BY <1>2, <1>4, <1>6, <2>1 DEF SlotsMatch, OneFdEach, KnownOpen, ExitsOnlyAfterDisconnect
<1>8. NoStaleDispatch' /\ FdBound' /\ ListenerAccepts'
  BY <1>2, <1>3, <1>4 DEF NoStaleDispatch, FdBound, ListenerAccepts
<1> QED
  BY <1>3, <1>5, <1>7, <1>8

\* A client that is accepted gets a free slot and a free descriptor.
LEMMA RegistersInv == ASSUME IInv, NEW fd \in Fds, AcceptRegisters(fd) PROVE IInv'
<1> DEFINE first == Head(backlog)
           new == NewFd
           slot == Lowest(FreeSlots)
<1>1. /\ Dispatched(fd) /\ handlers[fd] = "acceptClient"
      /\ client_sockets' = [client_sockets EXCEPT ![slot] = new]
      /\ read_fds' = read_fds \cup {new} /\ max_fd' = IF new > max_fd THEN new ELSE max_fd
      /\ handlers' = [handlers EXCEPT ![new] = "handleClient"]
      /\ conn' = [conn EXCEPT ![new] = first]
      /\ link' = [link EXCEPT ![first] = "connected"]
      /\ backlog' = Tail(backlog) /\ UNCHANGED <<ending, unread>>
  BY DEF AcceptRegisters, AddFd
<1>2. /\ ServerFd \notin temp_fds'
      /\ first \in Clients /\ link[first] = "queued" /\ Tail(backlog) \in Seq(Clients)
      /\ BacklogQueued'
  BY <1>1, TakesFirst
<1>3. slot \in Slots /\ client_sockets[slot] = 0
  BY SlotFree DEF AcceptRegisters, FreeSlots
<1>4. new \in ClientFds /\ new \notin OpenFds /\ new <= ServerFd + MAX_CLIENTS
  BY FdLeft, FdLow DEF AcceptRegisters, IInv, Dispatched
<1> HIDE DEF first, new, slot
<1> USE DEF IInv, Dispatched
<1>5. /\ ServerFd \in Nat /\ ServerFd \notin ClientFds /\ 0 \notin ClientFds /\ 0 # ServerFd
      /\ ClientFds \subseteq Nat /\ Fds = {ServerFd} \cup ClientFds
  BY ReactAssumption, FS_CardinalityType DEF ClientFds, ServerFd, Fds
<1>6. conn[new] = Nobody /\ Nobody \notin Clients
  BY <1>4, ReactAssumption DEF OpenFds
<1>7. TypeOK'
  BY <1>1, <1>2, <1>3, <1>4, <1>5 DEF TypeOK, Links
<1>8. OpenFds' = OpenFds \cup {new}
  BY <1>1, <1>2, <1>4, <1>6 DEF TypeOK, OpenFds
<1>9. Watched \cup {new} \subseteq Watched'
  <2>1. max_fd \in Nat /\ read_fds \subseteq Nat /\ new \in Nat
    BY <1>4, <1>5 DEF TypeOK
  <2>2. max_fd' \in Nat /\ max_fd <= max_fd' /\ new <= max_fd'
    BY <1>1, <2>1
  <2>3. ASSUME NEW g \in Watched \cup {new} PROVE g \in read_fds' /\ g <= max_fd'
    BY <1>1, <2>1, <2>2, <2>3 DEF Watched
  <2> QED
    BY <2>3 DEF Watched
<1>10. \A g \in ClientFds : conn[g] # first
  BY <1>1, <1>2, <1>5, <1>6, ReactAssumption DEF SlotsMatch, OpenFds
<1>11. SlotsMatch'
  <2>1. \A i \in Slots : client_sockets[i] # new
    BY <1>1, <1>4, <1>5 DEF SlotsMatch
  <2>2. \A i, j \in Slots : client_sockets'[i] = client_sockets'[j] /\ client_sockets'[i] # 0 => i = j
    BY <1>1, <1>3, <2>1 DEF TypeOK, SlotsMatch
  <2>3. {client_sockets'[i] : i \in Slots} \ {0} = OpenFds' \ {ServerFd}
    <3>1. \A i \in Slots : client_sockets'[i] = IF i = slot THEN new ELSE client_sockets[i]
      BY <1>1 DEF TypeOK
    <3>2. {client_sockets[i] : i \in Slots} \ {0} = OpenFds \ {ServerFd}
      BY <1>1 DEF SlotsMatch
    <3>3. {client_sockets'[i] : i \in Slots} \ {0} = ({client_sockets[i] : i \in Slots} \ {0}) \cup {new}
      BY <1>3, <1>4, <1>5, <3>1
    <3> QED
      BY <1>4, <1>5, <1>8, <3>2, <3>3
  <2>4. ASSUME NEW g \in OpenFds' \ {ServerFd}
        PROVE  /\ g \in Watched' /\ handlers'[g] = "handleClient"
               /\ link'[conn'[g]] = "connected"
    BY <1>1, <1>2, <1>4, <1>5, <1>8, <1>9 DEF TypeOK, SlotsMatch, OpenFds
  <2> QED
    BY <2>2, <2>3, <2>4 DEF SlotsMatch
<1>12. OneFdEach'
  <2>1. \A g, h \in ClientFds : conn'[g] = conn'[h] /\ conn'[g] # Nobody => g = h
    BY <1>1, <1>10 DEF TypeOK, OneFdEach
  <2>2. \A c \in Clients : link'[c] = "connected" => \E g \in ClientFds : conn'[g] = c
    <3>1. ASSUME NEW c \in Clients, c # first, link[c] = "connected"
          PROVE  \E g \in ClientFds : conn'[g] = c
      <4>1. PICK g \in ClientFds : conn[g] = c
        BY <1>1, <3>1 DEF OneFdEach
      <4> QED
        BY <1>1, <1>6, <4>1 DEF TypeOK
    <3> QED
      BY <1>1, <1>4, <3>1 DEF TypeOK
  <2> QED
    BY <2>1, <2>2 DEF OneFdEach
<1>13. KnownOpen'
  BY <1>1, <1>2, <1>8 DEF KnownOpen, TypeOK
<1>14. ListenerAccepts'
  BY <1>1, <1>2, <1>4, <1>5 DEF ListenerAccepts, TypeOK
<1>15. NoStaleDispatch' /\ FdBound' /\ ExitsOnlyAfterDisconnect'
  BY <1>1, <1>4, <1>8 DEF NoStaleDispatch, FdBound, ExitsOnlyAfterDisconnect
<1> QED
  BY <1>2, <1>7, <1>11, <1>12, <1>13, <1>14, <1>15

\* handleClient runs for the descriptor of a connected client.
LEMMA HandlesConnected ==
  ASSUME IInv, NEW fd \in Fds, Dispatched(fd), handlers[fd] = "handleClient"
  PROVE  /\ fd \in ClientFds /\ fd \in OpenFds \ {ServerFd}
         /\ conn[fd] \in Clients /\ link[conn[fd]] = "connected"
<1>1. fd # ServerFd /\ fd \in OpenFds
  BY DEF IInv, Dispatched, ListenerAccepts, NoStaleDispatch
<1> QED
  BY <1>1 DEF IInv, Dispatched, OpenFds, TypeOK, SlotsMatch

\* What a client sent is received, or the error of its reset is reported.
LEMMA ReceiveInv ==
  ASSUME IInv, NEW fd \in Fds, Receive(fd) \/ ReceiveError(fd)
  PROVE  IInv'
<1> USE DEF IInv, reactorVars, Dispatched
<1>1. conn[fd] \in Clients /\ Dispatched(fd)
  BY HandlesConnected DEF Receive, ReceiveError
<1>2. UNCHANGED <<reactorVars, client_sockets, conn, backlog, link>>
  BY DEF Receive, ReceiveError
<1>3. OpenFds' = OpenFds /\ Watched' = Watched
  BY <1>2 DEF OpenFds, Watched
<1>4. TypeOK'
  <2>1. CASE Receive(fd)
    <3>1. PICK n \in 1..unread[conn[fd]] : unread' = [unread EXCEPT ![conn[fd]] = @ - n]
      BY <2>1 DEF Receive
    <3> QED
      BY <1>1, <1>2, <2>1, <3>1, ReactAssumption DEF Receive, TypeOK
  <2>2. CASE ReceiveError(fd)
    BY <1>1, <1>2, <2>2 DEF ReceiveError, TypeOK, Endings
  <2> QED
    BY <2>1, <2>2
<1>5. NoStaleDispatch' /\ ListenerAccepts'
  BY <1>1, <1>2, <1>3 DEF NoStaleDispatch, ListenerAccepts
<1>6. SlotsMatch' /\ OneFdEach' /\ KnownOpen' /\ ExitsOnlyAfterDisconnect' /\ BacklogQueued' /\ FdBound'
  BY <1>1, <1>2, <1>3
     DEF SlotsMatch, OneFdEach, KnownOpen, ExitsOnlyAfterDisconnect, BacklogQueued, FdBound
<1> QED
  BY <1>4, <1>5, <1>6

\* A client that left gives back its slot and its descriptor.
LEMMA DisconnectInv == ASSUME IInv, NEW fd \in Fds, Disconnect(fd) PROVE IInv'
<1> DEFINE c == conn[fd]
<1>1. /\ Dispatched(fd)
      /\ conn' = [conn EXCEPT ![fd] = Nobody]
      /\ client_sockets' = [i \in Slots |-> IF client_sockets[i] = fd THEN 0 ELSE client_sockets[i]]
      /\ link' = [link EXCEPT ![c] = "closed"]
      /\ UNCHANGED <<reactorVars, backlog, ending, unread>>
  BY DEF Disconnect
<1>2. /\ fd \in ClientFds /\ fd \in OpenFds \ {ServerFd}
      /\ c \in Clients /\ link[c] = "connected"
  BY HandlesConnected DEF Disconnect
<1> USE DEF IInv, Dispatched, reactorVars
<1>3. OpenFds' = OpenFds \ {fd}
  BY <1>1, <1>2 DEF OpenFds, TypeOK
<1>4. Watched' = Watched
  BY <1>1 DEF Watched
<1>5. \A g \in ClientFds : g # fd => conn[g] # c
  BY <1>2, ReactAssumption DEF OneFdEach
<1> HIDE DEF c
<1>6. TypeOK'
  BY <1>1, <1>2 DEF TypeOK, Links
<1>7. SlotsMatch'
  <2>1. \A i, j \in Slots : client_sockets'[i] = client_sockets'[j] /\ client_sockets'[i] # 0 => i = j
    BY <1>1 DEF SlotsMatch
  <2>2. {client_sockets'[i] : i \in Slots} \ {0} = ({client_sockets[i] : i \in Slots} \ {0}) \ {fd}
    BY <1>1
  <2>3. ASSUME NEW g \in OpenFds' \ {ServerFd}
        PROVE  /\ g \in Watched' /\ handlers'[g] = "handleClient"
               /\ link'[conn'[g]] = "connected"
    BY <1>1, <1>2, <1>3, <1>4, <1>5 DEF TypeOK, SlotsMatch, OpenFds
  <2>4. {client_sockets[i] : i \in Slots} \ {0} = OpenFds \ {ServerFd}
    BY <1>1 DEF SlotsMatch
  <2> QED
    BY <1>3, <2>1, <2>2, <2>3, <2>4 DEF SlotsMatch
<1>8. OneFdEach'
  BY <1>1, <1>2, <1>5 DEF OneFdEach, TypeOK
<1>9. KnownOpen' /\ ExitsOnlyAfterDisconnect'
  BY <1>1, <1>2 DEF KnownOpen, ExitsOnlyAfterDisconnect, TypeOK
<1>10. BacklogQueued'
  <2>1. \A i \in 1..Len(backlog) : backlog[i] \in Clients /\ backlog[i] # c
    BY <1>2 DEF BacklogQueued, TypeOK
  <2> QED
    BY <1>1, <2>1 DEF BacklogQueued, TypeOK
<1>11. NoStaleDispatch' /\ FdBound' /\ ListenerAccepts'
  BY <1>1, <1>2, <1>3 DEF NoStaleDispatch, FdBound, ListenerAccepts
<1> QED
  BY <1>6, <1>7, <1>8, <1>9, <1>10, <1>11

\* Every step keeps IInv.
LEMMA NextInv == IInv /\ [Next]_vars => IInv'
<1> SUFFICES ASSUME IInv, [Next]_vars PROVE IInv'
  OBVIOUS
<1>1. ASSUME NEW c \in Clients, Client(c) PROVE IInv'
  BY <1>1, ClientInv
<1>2. CASE Select
  BY <1>2, SelectInv
<1>3. CASE SelectFails
  BY <1>3, SelectFailsInv
<1>4. ASSUME NEW fd \in Fds, Handler(fd) PROVE IInv'
  BY <1>4, TurnedAway, RegistersInv, ReceiveInv, DisconnectInv DEF Handler
<1>5. CASE UNCHANGED vars
  BY <1>5 DEF vars, IInv, TypeOK, NoStaleDispatch, SlotsMatch, FdBound, ExitsOnlyAfterDisconnect,
              BacklogQueued, ListenerAccepts, OneFdEach, KnownOpen, OpenFds, Watched
<1> QED
  BY <1>1, <1>2, <1>3, <1>4, <1>5 DEF Next, Server

\* IInv holds in every state.
THEOREM Invariance == Spec => []IInv
  BY InitInv, NextInv, PTL DEF Spec

-----------------------------------------------------------------------------
(* The properties.                                                         *)

\* Every variable of the server, the kernel and the clients keeps its type.
THEOREM TypeCorrect == Spec => []TypeOK
<1>1. IInv => TypeOK
  BY DEF IInv
<1> QED
  BY Invariance, <1>1, PTL

\* No handler is called for a descriptor that another one of the same pass closed
\* (reactor.c:46-62).
THEOREM NeverStale == Spec => []NoStaleDispatch
<1>1. IInv => NoStaleDispatch
  BY DEF IInv
<1> QED
  BY Invariance, <1>1, PTL

\* The slots, the kernel's descriptors and the reactor agree while the server runs
\* (react_server.c:37-48, 69-86).
THEOREM SlotsAgree == Spec => []SlotsMatch
<1>1. IInv => SlotsMatch
  BY DEF IInv
<1> QED
  BY Invariance, <1>1, PTL

\* handlers[fd] stays inside its entries however many clients come: the descriptors
\* that are registered are the lowest MAX_CLIENTS behind the listening socket
\* (reactor.c:9, 15, 73).
THEOREM FdsBounded == Spec => []FdBound
<1>1. IInv => FdBound
  BY DEF IInv
<1> QED
  BY Invariance, <1>1, PTL

\* Only a client that was connected and left can bring the server down
\* (reactor.c:47-51).
THEOREM OnlyDisconnectEnds == Spec => []ExitsOnlyAfterDisconnect
<1>1. IInv => ExitsOnlyAfterDisconnect
  BY DEF IInv
<1> QED
  BY Invariance, <1>1, PTL

\* A client is refused only while MAX_CLIENTS others are connected: the slots are
\* then in one-to-one correspondence with the connected clients
\* (react_server.c:70-91).
THEOREM RefusalJustified == Spec => RefusedOnlyWhenFull
<1> DEFINE Connected == {d \in Clients : link[d] = "connected"}
<1>1. ASSUME IInv, spc # "exited", FreeSlots = {}
      PROVE  Cardinality(Connected) = MAX_CLIENTS
  <2> USE DEF IInv
  <2> DEFINE client == [i \in Slots |-> conn[client_sockets[i]]]
  <2>0. ServerFd \notin ClientFds /\ Nobody \notin Clients
    BY ReactAssumption, FS_CardinalityType DEF ClientFds, ServerFd
  <2>1. ASSUME NEW i \in Slots
        PROVE  client_sockets[i] \in OpenFds \ {ServerFd}
    BY <1>1 DEF SlotsMatch, FreeSlots
  <2>2. ASSUME NEW i \in Slots
        PROVE  client_sockets[i] \in ClientFds /\ client[i] \in Connected
    BY <1>1, <2>0, <2>1 DEF SlotsMatch, OpenFds, TypeOK
  <2>3. ASSUME NEW i \in Slots, NEW j \in Slots, client[i] = client[j] PROVE i = j
    <3>1. client_sockets[i] = client_sockets[j]
      <4>1. conn[client_sockets[i]] = conn[client_sockets[j]]
        BY <2>3
      <4>2. conn[client_sockets[i]] # Nobody
        BY <2>0, <2>2
      <4> QED
        BY <4>1, <4>2, <2>2, <1>1 DEF OneFdEach
    <3> QED
      BY <1>1, <2>1, <3>1 DEF SlotsMatch, FreeSlots
  <2>4. ASSUME NEW c \in Connected PROVE \E i \in Slots : client[i] = c
    <3>1. PICK fd \in ClientFds : conn[fd] = c
      BY <1>1, <2>4 DEF OneFdEach
    <3>2. fd \in OpenFds \ {ServerFd}
      BY <2>0, <3>1 DEF OpenFds
    <3> QED
      BY <1>1, <3>1, <3>2 DEF SlotsMatch
  <2>5. client \in Bijection(Slots, Connected)
    <3> HIDE DEF Connected
    <3> QED
      BY <2>2, <2>3, <2>4 DEF Bijection, Injection, IsInjective, Surjection
  <2>6. IsFiniteSet(Slots) /\ Cardinality(Slots) = MAX_CLIENTS
    BY ReactAssumption, FS_Interval DEF Slots
  <2> QED
    BY <2>5, <2>6, FS_Bijection DEF ExistsBijection
<1>2. ASSUME IInv, [Next]_vars, NEW c \in Clients, link[c] # "refused", link'[c] = "refused"
      PROVE  spc # "exited" /\ FreeSlots = {}
  <2>1. link \in [Clients -> Links]
    BY <1>2 DEF IInv, TypeOK
  <2>2. \E fd \in Fds : AcceptRefuses(fd)
    BY <1>2, <2>1 DEF Next, Server, Client, Connect, Send, Leave, Select, SelectFails, Handler,
                     AcceptFails, AcceptRegisters, Receive, ReceiveError, Disconnect, vars
  <2> QED
    BY <2>2 DEF AcceptRefuses, Dispatched
<1>3. IInv /\ [Next]_vars =>
        [\A c \in Clients : link[c] # "refused" /\ link'[c] = "refused" =>
           Cardinality({d \in Clients : link[d] = "connected"}) = MAX_CLIENTS]_vars
  BY <1>1, <1>2
<1> QED
  BY Invariance, <1>3, PTL DEF Spec, RefusedOnlyWhenFull
=============================================================================
