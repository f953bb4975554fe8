---------------------------------- MODULE Chat ----------------------------------
(***************************************************************************)
(* The two chats of Assignment-3: stnc.c without -p, whose ends poll their *)
(* terminal and their socket, and partA.c, whose ends take turns.          *)
(*                                                                         *)
(* A line typed by end e is Pieces units <<e, number, piece>>, which the   *)
(* socket may deliver in any grouping: recv returns some of what was sent, *)
(* from the front.  TCP, as far as the code meets it: unread data comes    *)
(* first, then 0 or the error of a reset; a socket closed with data        *)
(* unread, and data sent to a closed socket, cause a reset; which of the   *)
(* two a recv then returns depends on whether the other end has closed     *)
(* before, and the model allows either.  The send after a reset ends stnc, *)
(* by exit(1) or SIGPIPE; partA may survive it, since it ignores errors.   *)
(*                                                                         *)
(* Lines are shorter than the buffers, which they leave as they are        *)
(* between one call and the next except where partA uses that.             *)
(***************************************************************************)
EXTENDS Integers, SequencesExt

CONSTANTS Pieces,       \* units in a line
          MaxLines,     \* bound: lines typed at each end
          MaxSessions,  \* bound: clients, one after the other
          MaxSaid       \* bound: units sent by an end of partA whose input has ended

ASSUME ChatAssumption == /\ Pieces \in Nat \ {0} /\ MaxLines \in Nat
                         /\ MaxSessions \in Nat \ {0} /\ MaxSaid \in Nat

Ends == {"client", "server"}
Other(e) == CHOOSE o \in Ends : o # e

VARIABLES program,   \* "stnc" or "partA"
          pc,        \* [Ends -> label]
          terminal,  \* [Ends -> lines typed and not yet read]
          eof,       \* [Ends -> BOOLEAN]: the input has ended behind them
          ready,     \* [Ends -> BOOLEAN]: the revents of the socket in this pass
          buffer,    \* [Ends -> units]: partA's buffer
          net,       \* [Ends -> units]: sent to this end and not yet received
          reset,     \* [Ends -> BOOLEAN]: a reset has arrived
          typed,     \* [Ends -> Nat]: lines typed so far
          sessions,  \* clients so far
          said,      \* [Ends -> units]: sent in this session
          heard      \* [Ends -> units]: printed in this session

user == <<terminal, eof, typed>>
socket == <<net, reset>>
vars == <<program, pc, user, ready, buffer, socket, sessions, said, heard>>

Nothing == [e \in Ends |-> <<>>]
Never == [e \in Ends |-> FALSE]
Units(e, i) == [k \in 1..Pieces |-> <<e, i, k>>]
Loop == {"poll", "read", "recv", "input"}
Connected == \A e \in Ends : pc[e] \in Loop

\* partA's client may send its buffer before anything was put there.
Init == /\ program \in {"stnc", "partA"}
        /\ pc = [client |-> "start", server |-> "accept"]
        /\ terminal = Nothing /\ eof = Never /\ ready = Never
        /\ buffer \in [Ends -> {<<>>, <<<<"junk", 0, 0>>>>}]
        /\ net = Nothing /\ reset = Never
        /\ typed = [e \in Ends |-> 0] /\ sessions = 0
        /\ said = Nothing /\ heard = Nothing

Goto(e, label) == pc' = [pc EXCEPT ![e] = label]

-----------------------------------------------------------------------------
(* The users.                                                              *)

Type(e) == /\ pc[e] # "gone" /\ ~eof[e] /\ typed[e] < MaxLines
           /\ typed' = [typed EXCEPT ![e] = @ + 1]
           /\ terminal' = [terminal EXCEPT ![e] = Append(@, typed[e] + 1)]
           /\ UNCHANGED <<program, pc, eof, ready, buffer, socket, sessions, said, heard>>

EndInput(e) == /\ pc[e] # "gone"
               /\ eof' = [eof EXCEPT ![e] = TRUE]
               /\ UNCHANGED <<program, pc, terminal, typed, ready, buffer, socket, sessions, said,
                              heard>>

\* The process ends, and its socket is closed.
Exits(e) == /\ Goto(e, "gone")
            /\ reset' = [reset EXCEPT ![Other(e)] = @ \/ net[e] # <<>>]
            /\ net' = [net EXCEPT ![e] = <<>>]

\* Ctrl+C
Leave(e) == /\ pc[e] \in Loop
            /\ Exits(e)
            /\ UNCHANGED <<program, user, ready, buffer, sessions, said, heard>>

-----------------------------------------------------------------------------
(* send and recv                                                           *)

\* e sends msg and goes on at label; partA also when nothing could be sent, unless a
\* SIGPIPE has come.
Send(e, msg, label) ==
  /\ said' = [said EXCEPT ![e] = @ \o msg]
  /\ IF reset[e] THEN \/ Exits(e)
                      \/ program = "partA" /\ Goto(e, label) /\ UNCHANGED socket
     ELSE /\ Goto(e, label)
          /\ IF pc[Other(e)] = "gone"
             THEN reset' = [reset EXCEPT ![e] = msg # <<>>] /\ UNCHANGED net
             ELSE net' = [net EXCEPT ![Other(e)] = @ \o msg] /\ UNCHANGED reset

\* e receives and prints msg
Receive(e, msg) == /\ msg # <<>> /\ IsPrefix(msg, net[e])
                   /\ net' = [net EXCEPT ![e] = SubSeq(@, Len(msg) + 1, Len(@))]
                   /\ heard' = [heard EXCEPT ![e] = @ \o msg]
                   /\ UNCHANGED reset

RecvFails(e) == net[e] = <<>> /\ reset[e]
RecvZero(e) == net[e] = <<>> /\ pc[Other(e)] = "gone"

-----------------------------------------------------------------------------
(* stnc: run_client and run_server                                         *)

\* A server that left accept serves one client; the next one waits.
Connect == /\ pc["client"] = "start" /\ pc["server"] = "accept"
           /\ pc' = IF program = "stnc" THEN [e \in Ends |-> "poll"]
                    ELSE [client |-> "input", server |-> "recv"]
           /\ sessions' = sessions + 1
           /\ said' = Nothing /\ heard' = Nothing
           /\ UNCHANGED <<program, user, ready, buffer, socket>>

\* Somebody starts another client.
NextClient == /\ program = "stnc" /\ pc["client"] = "gone" /\ pc["server"] = "accept"
              /\ sessions < MaxSessions
              /\ Goto("client", "start")
              /\ terminal' = [terminal EXCEPT !["client"] = <<>>]
              /\ eof' = [eof EXCEPT !["client"] = FALSE]
              /\ UNCHANGED <<program, typed, ready, buffer, socket, sessions, said, heard>>

SocketReady(e) == net[e] # <<>> \/ RecvFails(e) \/ RecvZero(e)
Poll(e) == /\ pc[e] = "poll"
           /\ LET stdin == terminal[e] # <<>> \/ eof[e]
              IN  /\ stdin \/ SocketReady(e)
                  /\ Goto(e, IF stdin THEN "read" ELSE "recv")
           /\ ready' = [ready EXCEPT ![e] = SocketReady(e)]
           /\ UNCHANGED <<program, user, buffer, socket, sessions, said, heard>>

\* Variant: a pass takes either the terminal or the socket.
ReadStdinOnly(e) ==
  /\ pc[e] = "read"
  /\ IF terminal[e] = <<>> THEN Send(e, <<>>, "poll") /\ UNCHANGED terminal
     ELSE /\ Send(e, Units(e, Head(terminal[e])), "poll")
          /\ terminal' = [terminal EXCEPT ![e] = Tail(@)]
  /\ UNCHANGED <<program, eof, typed, ready, buffer, sessions, heard>>

\* Variant: the terminator of the line is sent with it.
ReadStdinTerminated(e) ==
  /\ pc[e] = "read" /\ terminal[e] # <<>>
  /\ Send(e, Append(Units(e, Head(terminal[e])), <<"nul", 0, 0>>), IF ready[e] THEN "recv" ELSE "poll")
  /\ terminal' = [terminal EXCEPT ![e] = Tail(@)]
  /\ UNCHANGED <<program, eof, typed, ready, buffer, sessions, heard>>

\* One line, or 0 bytes at the end of the input, which are sent as well.
ReadStdin(e) ==
  /\ pc[e] = "read"
  /\ LET next == IF ready[e] THEN "recv" ELSE "poll"
     IN  IF terminal[e] = <<>> THEN Send(e, <<>>, next) /\ UNCHANGED terminal
         ELSE /\ Send(e, Units(e, Head(terminal[e])), next)
              /\ terminal' = [terminal EXCEPT ![e] = Tail(@)]
  /\ UNCHANGED <<program, eof, typed, ready, buffer, sessions, heard>>

Recv(e) == /\ program = "stnc" /\ pc[e] = "recv"
           /\ \E msg \in Prefixes(net[e]) : Receive(e, msg)
           /\ Goto(e, "poll")
           /\ UNCHANGED <<program, user, ready, buffer, sessions, said>>

\* An error ends either program, and so does 0 the client.
RecvExits(e) == /\ program = "stnc" /\ pc[e] = "recv"
                /\ RecvFails(e) \/ (RecvZero(e) /\ e = "client")
                /\ Exits(e)
                /\ UNCHANGED <<program, user, ready, buffer, sessions, said, heard>>

\* Client disconnected; the socket of the next one has not been reset.
BackToAccept == /\ program = "stnc" /\ pc["server"] = "recv" /\ RecvZero("server")
                /\ Goto("server", "accept")
                /\ reset' = [reset EXCEPT !["server"] = FALSE]
                /\ UNCHANGED <<program, user, ready, buffer, net, sessions, said, heard>>

StncClient == Poll("client") \/ ReadStdin("client") \/ Recv("client") \/ RecvExits("client")
StncServer == \/ Poll("server") \/ ReadStdin("server") \/ Recv("server") \/ RecvExits("server")
              \/ BackToAccept

-----------------------------------------------------------------------------
(* partA: run_client and run_server                                        *)

\* Variant: a failed fgets empties the buffer, and nothing is sent.
InputCleared(e) == /\ pc[e] = "input"
                   /\ IF terminal[e] # <<>>
                      THEN /\ Send(e, Units(e, Head(terminal[e])), "recv")
                           /\ terminal' = [terminal EXCEPT ![e] = Tail(@)]
                      ELSE eof[e] /\ Send(e, <<>>, "recv") /\ UNCHANGED terminal
                   /\ UNCHANGED <<program, eof, typed, ready, buffer, sessions, heard>>

\* fgets and send.  When the input has ended, fgets leaves the buffer as it is, and
\* the line that was received last is sent back.
Input(e) == /\ pc[e] = "input"
            /\ IF terminal[e] # <<>>
               THEN /\ Send(e, Units(e, Head(terminal[e])), "recv")
                    /\ terminal' = [terminal EXCEPT ![e] = Tail(@)]
               ELSE /\ eof[e] /\ Len(said[e]) < MaxSaid
                    /\ Send(e, buffer[e], "recv")
                    /\ UNCHANGED terminal
            /\ UNCHANGED <<program, eof, typed, ready, buffer, sessions, heard>>

\* Variant: prints what it receives behind what the buffer holds.
ReplyAppended(e) == /\ program = "partA" /\ pc[e] = "recv"
                    /\ \E msg \in Prefixes(net[e]) :
                         /\ msg # <<>>
                         /\ net' = [net EXCEPT ![e] = SubSeq(@, Len(msg) + 1, Len(@))]
                         /\ heard' = [heard EXCEPT ![e] = @ \o buffer[e] \o msg]
                         /\ buffer' = [buffer EXCEPT ![e] = @ \o msg]
                    /\ Goto(e, "input")
                    /\ UNCHANGED <<program, user, ready, reset, sessions, said>>

\* The buffer is cleared and takes what comes.
Reply(e) == /\ program = "partA" /\ pc[e] = "recv"
            /\ \E msg \in Prefixes(net[e]) :
                 Receive(e, msg) /\ buffer' = [buffer EXCEPT ![e] = msg]
            /\ Goto(e, "input")
            /\ UNCHANGED <<program, user, ready, sessions, said>>

\* recv returned 0 or -1
Break(e) == /\ program = "partA" /\ pc[e] = "recv"
            /\ RecvFails(e) \/ RecvZero(e)
            /\ Exits(e)
            /\ UNCHANGED <<program, user, ready, buffer, sessions, said, heard>>

PartAClient == Input("client") \/ Reply("client") \/ Break("client")
PartAServer == Input("server") \/ Reply("server") \/ Break("server")

-----------------------------------------------------------------------------
Client == StncClient \/ PartAClient
Server == StncServer \/ PartAServer

Next == \/ Connect \/ NextClient \/ Client \/ Server
        \/ \E e \in Ends : Type(e) \/ EndInput(e) \/ Leave(e)

Spec == Init /\ [][Next]_vars

\* Two processes that go on unless they are blocked; the users do as they please.
FairSpec == Spec /\ WF_vars(Client) /\ WF_vars(Server) /\ WF_vars(Connect)

-----------------------------------------------------------------------------
(* Properties.                                                             *)

\* The type of every variable.
Unit == (Ends \X (1..MaxLines) \X (1..Pieces)) \cup {<<"junk", 0, 0>>}
TypeOK == /\ program \in {"stnc", "partA"}
          /\ pc \in [Ends -> {"start", "accept", "gone"} \cup Loop]
          /\ terminal \in [Ends -> Seq(1..MaxLines)] /\ typed \in [Ends -> 0..MaxLines]
          /\ eof \in [Ends -> BOOLEAN] /\ ready \in [Ends -> BOOLEAN]
          /\ reset \in [Ends -> BOOLEAN]
          /\ \A f \in {buffer, net, said, heard} : f \in [Ends -> Seq(Unit)]
          /\ sessions \in 0..MaxSessions

\* Each end prints, in order and once, what the other sent in this session and
\* nothing else: no line of an earlier client, nothing that a buffer still held,
\* however the stream was cut and whoever left (stnc.c:343-377, 435-466,
\* partA.c:90-106, 148-164).
Promised == INSTANCE Channels
ImplementsChannels == Promised!Spec

\* The two ends of partA never wait for each other with nothing on its way, even
\* when recv takes half a line or two at once and they are out of step; unless the
\* client's input ended before its first line and the buffer happened to be empty.
NeverBothWait ==
  program = "partA" /\ Connected /\ (\A e \in Ends : pc[e] = "recv")
    => \/ \E e \in Ends : net[e] # <<>>
       \/ said["client"] = <<>> /\ eof["client"]

\* In stnc a line that was typed is printed at the other end as long as both stay,
\* whatever is typed or arrives meanwhile, and after the end of an input, which
\* makes poll return at once for ever (stnc.c:336-377).
Waits(e, i) == \E k \in DOMAIN terminal[e] : terminal[e][k] = i
Printed(e, i) == \E k \in DOMAIN heard[e] : heard[e][k] = <<Other(e), i, Pieces>>
EveryLineShown ==
  \A e \in Ends, i \in 1..MaxLines :
    (program = "stnc" /\ Connected /\ Waits(e, i)) ~> (~Connected \/ Printed(Other(e), i))
=============================================================================
