----------------------------- MODULE ReactServer -----------------------------
(***************************************************************************)
(* react_server of Assignment-4: the reactor (reactor.c), the two handlers *)
(* registered with it (react_server.c) and the clients that connect.       *)
(*                                                                         *)
(* The server is one thread: startReactor waits in select, then calls the  *)
(* handler of each ready descriptor in ascending order.  A handler runs to *)
(* its end before anything else happens in the server, so it is one step;  *)
(* the clients act between any two steps.                                  *)
(*                                                                         *)
(* The kernel is modelled from how the server uses it: accept returns the  *)
(* lowest free descriptor, select fails with EBADF when a descriptor it is *)
(* asked about is not open, recv returns data before the end of a          *)
(* connection, -1 once after a reset, and 0 from then on.                  *)
(***************************************************************************)
EXTENDS Naturals, Sequences, FiniteSets

CONSTANTS Clients,       \* the clients; each connects once
          Nobody,        \* the connection of a descriptor that is not open
          MAX_CLIENTS,   \* size of client_sockets (10 in the code)
          BACKLOG,       \* connections the kernel queues for accept
          MaxUnread      \* bound: messages a connection holds until they are received

ASSUME ReactAssumption == /\ IsFiniteSet(Clients)
                          /\ Nobody \notin Clients
                          /\ MAX_CLIENTS \in Nat
                          /\ BACKLOG \in Nat
                          /\ MaxUnread \in Nat

ServerFd == 3      \* socket() after 0, 1 and 2
ClientFds == (ServerFd + 1) .. (ServerFd + 1 + Cardinality(Clients))
Fds == {ServerFd} \cup ClientFds
Slots == 1..MAX_CLIENTS

VARIABLES read_fds, max_fd, handlers,   \* the Reactor
          client_sockets,               \* [Slots -> Fds \cup {0}]
          temp_fds,                     \* ready descriptors not yet dispatched
          spc,                          \* "select", "dispatch" or "exited"
          (* kernel and clients *)
          conn,                         \* [ClientFds -> Clients \cup {Nobody}]
          backlog,                      \* clients waiting for accept, in order
          link,                         \* [Clients -> state of the connection]
          ending,                       \* [Clients -> how the client ended it]
          unread                        \* [Clients -> messages not yet received]

reactorVars == <<read_fds, max_fd, handlers>>
serverVars == <<read_fds, max_fd, handlers, client_sockets, temp_fds, spc, conn>>
vars == <<read_fds, max_fd, handlers, client_sockets, temp_fds, spc,
          conn, backlog, link, ending, unread>>

(***************************************************************************)
(* link:   "idle" not connected yet, "queued" in the backlog, "connected"  *)
(*         accepted and registered, "refused" closed by acceptClient,      *)
(*         "aborted" lost when accept failed, "closed" closed by           *)
(*         handleClient, "cut" ended by the server's exit.                 *)
(* ending: "no", "fin" after an orderly close, "rst" after a reset the     *)
(*         server has not been told of.                                    *)
(***************************************************************************)
Links == {"idle", "queued", "connected", "refused", "aborted", "closed", "cut"}
Endings == {"no", "fin", "rst"}

\* main: the listening socket is registered in an empty reactor.
Init == /\ read_fds = {ServerFd}
        /\ max_fd = ServerFd
        /\ handlers = [fd \in Fds |-> IF fd = ServerFd THEN "acceptClient" ELSE "NULL"]
        /\ client_sockets = [i \in Slots |-> 0]
        /\ temp_fds = {}
        /\ spc = "select"
        /\ conn = [fd \in ClientFds |-> Nobody]
        /\ backlog = <<>>
        /\ link = [c \in Clients |-> "idle"]
        /\ ending = [c \in Clients |-> "no"]
        /\ unread = [c \in Clients |-> 0]

OpenFds == {ServerFd} \cup {fd \in ClientFds : conn[fd] # Nobody}

-----------------------------------------------------------------------------
(* The clients.                                                            *)

Connect(c) == /\ link[c] = "idle"
              /\ spc # "exited"
              /\ Len(backlog) < BACKLOG
              /\ backlog' = Append(backlog, c)
              /\ link' = [link EXCEPT ![c] = "queued"]
              /\ UNCHANGED <<serverVars, ending, unread>>

Send(c) == /\ link[c] \in {"queued", "connected"}
           /\ ending[c] = "no"
           /\ unread[c] < MaxUnread
           /\ unread' = [unread EXCEPT ![c] = @ + 1]
           /\ UNCHANGED <<serverVars, backlog, link, ending>>

Leave(c) == /\ link[c] \in {"queued", "connected"}
            /\ ending[c] = "no"
            /\ \E how \in {"fin", "rst"} : ending' = [ending EXCEPT ![c] = how]
            /\ UNCHANGED <<serverVars, backlog, link, unread>>

Client(c) == Connect(c) \/ Send(c) \/ Leave(c)

-----------------------------------------------------------------------------
(* startReactor                                                            *)

Readable(fd) == IF fd = ServerFd THEN backlog # <<>>
                ELSE /\ conn[fd] # Nobody
                     /\ unread[conn[fd]] > 0 \/ ending[conn[fd]] # "no"

\* The descriptors that select is asked about: its first argument is max_fd + 1.
Watched == {fd \in read_fds : fd <= max_fd}

Select == /\ spc = "select"
          /\ Watched \subseteq OpenFds
          /\ \E fd \in Watched : Readable(fd)
          /\ temp_fds' = {fd \in Watched : Readable(fd)}
          /\ spc' = "dispatch"
          /\ UNCHANGED <<reactorVars, client_sockets, conn, backlog, link, ending, unread>>

\* select returns -1 (EBADF): exit(1), which ends every connection.
SelectFails ==
  /\ spc = "select"
  /\ ~(Watched \subseteq OpenFds)
  /\ spc' = "exited"
  /\ conn' = [fd \in ClientFds |-> Nobody]
  /\ backlog' = <<>>
  /\ link' = [c \in Clients |-> IF link[c] \in {"queued", "connected"} THEN "cut" ELSE link[c]]
  /\ UNCHANGED <<reactorVars, client_sockets, temp_fds, ending, unread>>

\* The loop over 0..max_fd comes to fd next.
Dispatched(fd) == /\ spc = "dispatch"
                  /\ fd \in temp_fds
                  /\ \A other \in temp_fds : fd <= other
                  /\ temp_fds' = temp_fds \ {fd}
                  /\ spc' = IF temp_fds = {fd} THEN "select" ELSE "dispatch"

\* Variants of addFd and of the handlers, not part of Next: max_fd forgotten ...
AddFdNoMax(fd, handler) == /\ read_fds' = read_fds \cup {fd}
                           /\ max_fd' = max_fd
                           /\ handlers' = [handlers EXCEPT ![fd] = handler]

\* ... and FD_ZERO before FD_SET.
AddFdZero(fd, handler) == /\ read_fds' = {fd}
                          /\ max_fd' = IF fd > max_fd THEN fd ELSE max_fd
                          /\ handlers' = [handlers EXCEPT ![fd] = handler]

\* addFd(reactor, fd, handler)
AddFd(fd, handler) == /\ read_fds' = read_fds \cup {fd}
                      /\ max_fd' = IF fd > max_fd THEN fd ELSE max_fd
                      /\ handlers' = [handlers EXCEPT ![fd] = handler]

-----------------------------------------------------------------------------
(* acceptClient                                                            *)

\* Variant: the search for a slot misses the last one.
FreeSlotsButLast == {i \in Slots : i < MAX_CLIENTS /\ client_sockets[i] = 0}

FreeSlots == {i \in Slots : client_sockets[i] = 0}
Lowest(S) == CHOOSE x \in S : \A y \in S : x <= y
\* accept returns the lowest descriptor that is free
NewFd == Lowest(ClientFds \ OpenFds)

AcceptFails(fd) == /\ Dispatched(fd)
                   /\ handlers[fd] = "acceptClient"
                   /\ link' = [link EXCEPT ![Head(backlog)] = "aborted"]
                   /\ backlog' = Tail(backlog)
                   /\ UNCHANGED <<reactorVars, client_sockets, conn, ending, unread>>

AcceptRegisters(fd) ==
  /\ Dispatched(fd)
  /\ handlers[fd] = "acceptClient"
  /\ FreeSlots # {}
  /\ client_sockets' = [client_sockets EXCEPT ![Lowest(FreeSlots)] = NewFd]
  /\ AddFd(NewFd, "handleClient")
  /\ conn' = [conn EXCEPT ![NewFd] = Head(backlog)]
  /\ link' = [link EXCEPT ![Head(backlog)] = "connected"]
  /\ backlog' = Tail(backlog)
  /\ UNCHANGED <<ending, unread>>

\* Variant: the descriptor is registered before the slot is looked for.
AcceptRefusesLate(fd) == /\ Dispatched(fd)
                         /\ handlers[fd] = "acceptClient"
                         /\ FreeSlots = {}
                         /\ AddFd(NewFd, "handleClient")
                         /\ link' = [link EXCEPT ![Head(backlog)] = "refused"]
                         /\ backlog' = Tail(backlog)
                         /\ UNCHANGED <<client_sockets, conn, ending, unread>>

\* No slot is free: the new descriptor is closed again and never registered.
AcceptRefuses(fd) == /\ Dispatched(fd)
                     /\ handlers[fd] = "acceptClient"
                     /\ FreeSlots = {}
                     /\ link' = [link EXCEPT ![Head(backlog)] = "refused"]
                     /\ backlog' = Tail(backlog)
                     /\ UNCHANGED <<reactorVars, client_sockets, conn, ending, unread>>

-----------------------------------------------------------------------------
(* handleClient                                                            *)

\* Variants: the end of the connection taken for a message (recv_size >= 0) ...
ReceiveZero(fd) ==
  /\ Dispatched(fd)
  /\ handlers[fd] = "handleClient"
  /\ unread' = [unread EXCEPT ![conn[fd]] = @ - 1]
  /\ UNCHANGED <<reactorVars, client_sockets, conn, backlog, link, ending>>

\* ... the slot not freed ...
DisconnectKeepsSlot(fd) ==
  /\ Dispatched(fd)
  /\ handlers[fd] = "handleClient"
  /\ unread[conn[fd]] = 0 /\ ending[conn[fd]] = "fin"
  /\ conn' = [conn EXCEPT ![fd] = Nobody]
  /\ link' = [link EXCEPT ![conn[fd]] = "closed"]
  /\ UNCHANGED <<reactorVars, client_sockets, backlog, ending, unread>>

\* ... and every connection that ended closed at once.
DisconnectAll(fd) ==
  /\ Dispatched(fd)
  /\ handlers[fd] = "handleClient"
  /\ unread[conn[fd]] = 0 /\ ending[conn[fd]] = "fin"
  /\ conn' = [g \in ClientFds |-> IF conn[g] = Nobody \/ ending[conn[g]] = "fin"
                                  THEN Nobody ELSE conn[g]]
  /\ UNCHANGED <<reactorVars, client_sockets, link, backlog, ending, unread>>

\* recv_size > 0: some of what the client sent, possibly several messages at once
Receive(fd) ==
  /\ Dispatched(fd)
  /\ handlers[fd] = "handleClient"
  /\ \E n \in 1..unread[conn[fd]] : unread' = [unread EXCEPT ![conn[fd]] = @ - n]
  /\ UNCHANGED <<reactorVars, client_sockets, conn, backlog, link, ending>>

\* recv_size < 0: reported and forgotten; the next recv returns 0
ReceiveError(fd) ==
  /\ Dispatched(fd)
  /\ handlers[fd] = "handleClient"
  /\ unread[conn[fd]] = 0 /\ ending[conn[fd]] = "rst"
  /\ ending' = [ending EXCEPT ![conn[fd]] = "fin"]
  /\ UNCHANGED <<reactorVars, client_sockets, conn, backlog, link, unread>>

\* recv_size = 0: the descriptor is closed and its slot freed; the reactor still
\* has it in read_fds
Disconnect(fd) ==
  /\ Dispatched(fd)
  /\ handlers[fd] = "handleClient"
  /\ unread[conn[fd]] = 0 /\ ending[conn[fd]] = "fin"
  /\ conn' = [conn EXCEPT ![fd] = Nobody]
  /\ client_sockets' = [i \in Slots |-> IF client_sockets[i] = fd THEN 0 ELSE client_sockets[i]]
  /\ link' = [link EXCEPT ![conn[fd]] = "closed"]
  /\ UNCHANGED <<reactorVars, backlog, ending, unread>>

Handler(fd) == \/ AcceptFails(fd) \/ AcceptRegisters(fd) \/ AcceptRefuses(fd)
               \/ Receive(fd) \/ ReceiveError(fd) \/ Disconnect(fd)

Server == Select \/ SelectFails \/ \E fd \in Fds : Handler(fd)

-----------------------------------------------------------------------------
Next == Server \/ \E c \in Clients : Client(c)

Spec == Init /\ [][Next]_vars

\* The server's thread runs whenever it can; the clients do as they please.
FairSpec == Spec /\ WF_vars(Server)

-----------------------------------------------------------------------------
(* Properties *)

\* The type of every variable.
TypeOK == /\ read_fds \subseteq Fds
          /\ max_fd \in Fds
          /\ handlers \in [Fds -> {"NULL", "acceptClient", "handleClient"}]
          /\ client_sockets \in [Slots -> ClientFds \cup {0}]
          /\ temp_fds \subseteq Fds
          /\ spc \in {"select", "dispatch", "exited"}
          /\ conn \in [ClientFds -> Clients \cup {Nobody}]
          /\ backlog \in Seq(Clients)
          /\ link \in [Clients -> Links]
          /\ ending \in [Clients -> Endings]
          /\ unread \in [Clients -> 0..MaxUnread]

\* A handler is never called on a descriptor that another handler of the same
\* pass closed: the ready set was computed before any of them ran
\* (reactor.c:46-62, react_server.c:37).
NoStaleDispatch == spc = "dispatch" => temp_fds \subseteq OpenFds

\* While the server runs, the slots, the kernel's open descriptors and the
\* reactor agree: a connected client has one slot, one descriptor, and that
\* descriptor is watched with handleClient (react_server.c:37-48, 69-86).
SlotsMatch ==
  spc # "exited" =>
    /\ \A i, j \in Slots : client_sockets[i] = client_sockets[j] /\ client_sockets[i] # 0 => i = j
    /\ {client_sockets[i] : i \in Slots} \ {0} = OpenFds \ {ServerFd}
    /\ \A fd \in OpenFds \ {ServerFd} : /\ fd \in Watched
                                        /\ handlers[fd] = "handleClient"
                                        /\ link[conn[fd]] = "connected"

\* No descriptor that is registered leaves the lowest MAX_CLIENTS above the
\* listening socket, so that handlers[fd] stays inside its 1024 entries however
\* many clients come (reactor.c:9, 15, 73).
FdBound == max_fd <= ServerFd + MAX_CLIENTS

\* The server only fails after it has closed the descriptor of a client that
\* left: clients that are refused, aborted or reset do not bring it down by
\* themselves (reactor.c:47-51, react_server.c:90).
ExitsOnlyAfterDisconnect == spc = "exited" => \E c \in Clients : link[c] = "closed"

\* A client is refused only while MAX_CLIENTS others are connected
\* (react_server.c:70-91).
RefusedOnlyWhenFull ==
  [][\A c \in Clients : link[c] # "refused" /\ link'[c] = "refused" =>
       Cardinality({d \in Clients : link[d] = "connected"}) = MAX_CLIENTS]_vars

\* A client can go on sending for ever: one whose buffer is full is always read
\* from again, whatever the others do, unless the server exits.
NoSenderBlocked ==
  \A c \in Clients : link[c] = "connected" /\ unread[c] = MaxUnread
                       ~> unread[c] < MaxUnread \/ spc = "exited"

\* A client that waits to be accepted is accepted, turned away or lost with the
\* server, whatever the others do (reactor.c:44-63).
EveryClientAnswered == \A c \in Clients : link[c] = "queued" ~> link[c] # "queued"

\* README.md:46-47: once connected, "each client can send as many messages as
\* they want without limit" and the server "will receive and display" them: the
\* server does not end the connection of a client that has not left.
ClientsStayConnected == \A c \in Clients : link[c] = "cut" => ending[c] # "no"
=============================================================================
