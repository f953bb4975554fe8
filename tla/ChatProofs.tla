------------------------------ MODULE ChatProofs ------------------------------
(***************************************************************************)
(* Chat, for any number of lines, of sessions and of pieces of a line.     *)
(*                                                                         *)
(* What carries both promises is that of an end that is still there, what  *)
(* it has printed and what is on its way to it are together what the other *)
(* has sent in this session (Flow).  For that no session may inherit       *)
(* anything of the one before, which the way back to accept has to ensure  *)
(* (Phase).                                                                *)
(***************************************************************************)
EXTENDS Chat, SequenceTheorems, TLAPS

-----------------------------------------------------------------------------
(* The two ends, and pieces of a stream.                                   *)

\* There are two ends, each the other's other.
LEMMA OtherFacts ==
  \A e \in Ends : Other(e) \in Ends /\ Other(e) # e /\ Other(Other(e)) = e /\ Ends = {e, Other(e)}
<1>1. ASSUME NEW e \in Ends PROVE Other(e) \in Ends /\ Other(e) # e
  <2>1. \E o \in Ends : o # e
    BY DEF Ends
  <2> QED
    BY <2>1 DEF Other
<1> QED
  BY <1>1 DEF Ends

\* recv takes a piece from the front: the piece and the rest are what there was.
LEMMA PieceAndRest ==
  ASSUME NEW S, NEW s \in Seq(S), NEW msg \in Prefixes(s)
  PROVE  /\ msg \in Seq(S) /\ SubSeq(s, Len(msg) + 1, Len(s)) \in Seq(S)
         /\ msg \o SubSeq(s, Len(msg) + 1, Len(s)) = s
<1>1. PICK l \in 0..Len(s) : msg = SubSeq(s, 1, l)
  BY DEF Prefixes
<1>2. Len(s) \in Nat /\ \A i \in 1..Len(s) : s[i] \in S
  BY LenProperties, ElementOfSeq
<1>3. msg \in Seq(S) /\ Len(msg) = l
  BY <1>1, <1>2, SubSeqProperties
<1>4. SubSeq(s, l + 1, Len(s)) \in Seq(S)
  BY <1>2, SubSeqProperties
<1>5. SubSeq(s, 1, l) \o SubSeq(s, l + 1, Len(s)) = SubSeq(s, 1, Len(s))
  <2>1. 1 \in 1..(Len(s) + 1) /\ l \in (1 - 1)..Len(s) /\ Len(s) \in l..Len(s)
    BY <1>2
  <2> QED
    BY <2>1, ConcatAdjacentSubSeq, Zenon
<1>6. SubSeq(s, 1, Len(s)) = s
  BY SubSeqFull
<1> QED
  BY <1>1, <1>3, <1>4, <1>5, <1>6

\* A sequence is a beginning of what it is continued to.
LEMMA ContinuedFrom ==
  ASSUME NEW S, NEW s \in Seq(S), NEW t \in Seq(S)
  PROVE  IsPrefix(s, s \o t)
<1>1. Len(s) \in Nat /\ Len(t) \in Nat /\ Len(s \o t) = Len(s) + Len(t)
  BY LenProperties, ConcatProperties
<1>2. SubSeq(s, 1, Len(s)) = SubSeq(s \o t, 1, Len(s))
  <2>1. CASE Len(s) = 0
    BY <2>1, SubSeqEmpty
  <2>2. CASE Len(s) # 0
    BY <1>1, <2>2, SubSeqOfConcat1
  <2> QED
    BY <2>1, <2>2
<1> QED
  BY <1>1, <1>2 DEF IsPrefix

\* Three pieces of a stream, however they are grouped.
LEMMA Regroup == \A s, t, u \in Seq(Unit) : (s \o t) \o u = s \o (t \o u)
<1>1. ASSUME NEW S, NEW s \in Seq(S), NEW t \in Seq(S), NEW u \in Seq(S)
      PROVE  (s \o t) \o u = s \o (t \o u)
  BY ConcatAssociative
<1> QED
  BY <1>1

\* A line is a sequence of units, and not an empty one.
LEMMA UnitsFacts ==
  ASSUME NEW e \in Ends, NEW i \in 1..MaxLines
  PROVE  Units(e, i) \in Seq(Unit) /\ Units(e, i) # <<>>
<1>1. Units(e, i) \in [1..Pieces -> Unit] /\ Pieces \in Nat \ {0}
  BY ChatAssumption DEF Units, Unit
<1>2. Units(e, i) \in Seq(Unit) /\ Len(Units(e, i)) = Pieces
  BY <1>1 DEF Units
<1> QED
  BY <1>1, <1>2

-----------------------------------------------------------------------------
(* The invariant.                                                          *)

\* Who is in a session: a server in accept has nothing left of an earlier client; a
\* reset has come only from an end that is gone, and nothing is on its way to one.
Phase == /\ pc["client"] # "accept" /\ pc["server"] # "start"
         /\ pc["client"] = "start" => pc["server"] = "accept" /\ sessions < MaxSessions
         /\ pc["server"] = "accept" =>
              pc["client"] \in {"start", "gone"} /\ net = Nothing /\ reset = Never
         /\ \A e \in Ends : /\ reset[e] => pc[Other(e)] = "gone"
                            /\ pc[e] = "gone" => net[e] = <<>>

\* What an end has printed and what is on its way to it is what the other has sent.
Flow == \A e \in Ends : pc[e] \in Loop => said[Other(e)] = heard[e] \o net[e]

\* An end of partA has something to send back when its input has ended, except the
\* client before its first line.
Turns == program = "partA" =>
           \A e \in Ends :
             /\ pc[e] \notin {"poll", "read"}
             /\ pc[e] = "input" /\ buffer[e] = <<>> => e = "client" /\ said["client"] = <<>>

IInv == TypeOK /\ Phase /\ Flow /\ Turns /\ NeverBothWait

\* What of the type the socket and the session have to do with.
Labels == {"start", "accept", "gone"} \cup Loop
Streams == [Ends -> Seq(Unit)]
SocketType == /\ pc \in [Ends -> Labels] /\ reset \in [Ends -> BOOLEAN]
              /\ net \in Streams /\ said \in Streams /\ heard \in Streams
UserType == /\ program \in {"stnc", "partA"}
            /\ terminal \in [Ends -> Seq(1..MaxLines)] /\ typed \in [Ends -> 0..MaxLines]
            /\ eof \in [Ends -> BOOLEAN] /\ ready \in [Ends -> BOOLEAN]
            /\ buffer \in Streams /\ sessions \in 0..MaxSessions

\* The type in two parts.
LEMMA TypeParts == /\ TypeOK => SocketType /\ UserType
                   /\ SocketType' /\ UserType' => TypeOK'
  BY DEF TypeOK, SocketType, UserType, Labels, Streams

\* In a session nobody starts or accepts.
LEMMA InSession ==
  ASSUME Phase, NEW e \in Ends, pc[e] \in Loop
  PROVE  \A f \in Ends : pc[f] \notin {"start", "accept"}
  BY DEF Phase, Ends, Loop

\* In a session it is enough for Phase that the socket is as it says.
LEMMA StillInSession ==
  ASSUME Phase, NEW e \in Ends, pc[e] \in Loop, pc'[e] \in Loop \cup {"gone"},
         pc'[Other(e)] = pc[Other(e)], sessions' = sessions,
         \A f \in Ends : /\ reset'[f] => pc'[Other(f)] = "gone"
                         /\ pc'[f] = "gone" => net'[f] = <<>>
  PROVE  Phase'
<1>1. \A f \in Ends : pc'[f] \notin {"start", "accept"}
  BY InSession, OtherFacts DEF Loop
<1> QED
  BY <1>1 DEF Phase, Ends

\* The end of an end: its socket is closed.
LEMMA ExitStep ==
  ASSUME SocketType, Phase, Flow, NEW e \in Ends, pc[e] \in Loop, Exits(e),
         UNCHANGED <<sessions, said, heard>>
  PROVE  SocketType' /\ Phase' /\ Flow' /\ pc'[e] = "gone"
<1>1. Other(e) \in Ends /\ Other(e) # e /\ Ends = {e, Other(e)} /\ Other(Other(e)) = e
  BY OtherFacts
<1>2. /\ pc' = [pc EXCEPT ![e] = "gone"] /\ net' = [net EXCEPT ![e] = <<>>]
      /\ reset' = [reset EXCEPT ![Other(e)] = reset[Other(e)] \/ net[e] # <<>>]
  BY DEF Exits, Goto
<1>3. /\ pc'[e] = "gone" /\ pc'[Other(e)] = pc[Other(e)]
      /\ net'[e] = <<>> /\ net'[Other(e)] = net[Other(e)] /\ reset'[e] = reset[e]
  BY <1>1, <1>2 DEF SocketType, Streams
<1>4. SocketType'
  <2>1. <<>> \in Seq(Unit) /\ (reset[Other(e)] \/ net[e] # <<>>) \in BOOLEAN
    OBVIOUS
  <2> QED
    BY <1>1, <1>2, <2>1 DEF SocketType, Streams, Labels
<1>5. Phase'
  <2>1. ASSUME NEW f \in Ends PROVE /\ reset'[f] => pc'[Other(f)] = "gone"
                                    /\ pc'[f] = "gone" => net'[f] = <<>>
    BY <1>1, <1>3, Zenon DEF Phase
  <2> QED
    BY <1>3, <2>1, StillInSession
<1>6. Flow'
  <2>1. ASSUME NEW f \in Ends, pc'[f] \in Loop PROVE said'[Other(f)] = heard'[f] \o net'[f]
    <3>1. f = Other(e) /\ pc[f] \in Loop /\ net'[f] = net[f]
      BY <1>1, <1>3, <2>1 DEF Loop
    <3> QED
      BY <3>1 DEF Flow
  <2> QED
    BY <2>1 DEF Flow
<1> QED
  BY <1>3, <1>4, <1>5, <1>6

\* send: what was sent is said, and reaches the other as long as both are there.
LEMMA SendStep ==
  ASSUME SocketType, Phase, Flow, NEW e \in Ends, NEW msg \in Seq(Unit), NEW label \in Loop,
         pc[e] \in Loop, Send(e, msg, label), UNCHANGED <<sessions, heard>>
  PROVE  /\ SocketType' /\ Phase' /\ Flow'
         /\ said' = [said EXCEPT ![e] = said[e] \o msg]
         /\ pc'[e] \in {label, "gone"} /\ pc'[Other(e)] = pc[Other(e)]
         /\ pc'[e] # "gone" /\ pc[Other(e)] # "gone" => net'[Other(e)] = net[Other(e)] \o msg
<1>1. Other(e) \in Ends /\ Other(e) # e /\ Ends = {e, Other(e)} /\ Other(Other(e)) = e
  BY OtherFacts
<1>2. /\ said' = [said EXCEPT ![e] = said[e] \o msg]
      /\ said'[e] = said[e] \o msg /\ said'[Other(e)] = said[Other(e)] /\ said' \in Streams
  <2>1. said' = [said EXCEPT ![e] = said[e] \o msg]
    BY DEF Send
  <2>2. said[e] \o msg \in Seq(Unit)
    BY ConcatProperties DEF SocketType, Streams
  <2> QED
    BY <1>1, <2>1, <2>2 DEF SocketType, Streams
<1>3. CASE reset[e] /\ Exits(e)
  <2>1. Exits(e)
    BY <1>3
  <2>2. /\ pc' = [pc EXCEPT ![e] = "gone"] /\ net' = [net EXCEPT ![e] = <<>>]
        /\ reset' = [reset EXCEPT ![Other(e)] = reset[Other(e)] \/ net[e] # <<>>]
    BY <2>1 DEF Exits, Goto
  <2>3. /\ pc'[e] = "gone" /\ pc'[Other(e)] = pc[Other(e)] /\ pc[Other(e)] = "gone"
        /\ net'[e] = <<>> /\ net'[Other(e)] = net[Other(e)] /\ reset'[e] = reset[e]
    BY <1>1, <1>3, <2>2 DEF SocketType, Streams, Phase
  <2>4. SocketType'
    <3>1. <<>> \in Seq(Unit) /\ (reset[Other(e)] \/ net[e] # <<>>) \in BOOLEAN
      OBVIOUS
    <3> QED
      BY <1>1, <1>2, <2>2, <3>1 DEF SocketType, Streams, Labels
  <2>5. Phase'
    <3>1. ASSUME NEW f \in Ends PROVE /\ reset'[f] => pc'[Other(f)] = "gone"
                                      /\ pc'[f] = "gone" => net'[f] = <<>>
      BY <1>1, <2>3, Zenon DEF Phase
    <3> QED
      BY <2>3, <3>1, StillInSession
  <2>6. Flow'
    BY <1>1, <2>3 DEF Flow, Loop
  <2> QED
    BY <1>2, <2>3, <2>4, <2>5, <2>6
<1>4. CASE pc[Other(e)] = "gone" /\ ~(reset[e] /\ Exits(e))
  <2>1. /\ pc' = [pc EXCEPT ![e] = label] /\ net' = net
        /\ reset' = [reset EXCEPT ![e] = IF reset[e] THEN TRUE ELSE msg # <<>>]
    <3>1. CASE reset[e]
      <4>1. pc' = [pc EXCEPT ![e] = label] /\ net' = net /\ reset' = reset
        BY <1>4, <3>1 DEF Send, Goto, socket
      <4>2. reset = [reset EXCEPT ![e] = TRUE]
        BY <3>1 DEF SocketType
      <4> QED
        BY <3>1, <4>1, <4>2
    <3>2. CASE ~reset[e]
      BY <1>4, <3>2 DEF Send, Goto
    <3> QED
      BY <3>1, <3>2
  <2>2. pc'[e] = label /\ pc'[Other(e)] = "gone" /\ reset'[Other(e)] = reset[Other(e)]
    BY <1>1, <1>4, <2>1 DEF SocketType
  <2>3. SocketType'
    <3>1. (IF reset[e] THEN TRUE ELSE msg # <<>>) \in BOOLEAN
      OBVIOUS
    <3> QED
      BY <1>1, <1>2, <2>1, <3>1 DEF SocketType, Labels
  <2>4. label # "gone" /\ pc[e] # "gone"
    BY DEF Loop
  <2>5. Phase'
    <3>1. ASSUME NEW f \in Ends PROVE /\ reset'[f] => pc'[Other(f)] = "gone"
                                      /\ pc'[f] = "gone" => net'[f] = <<>>
      <4>1. ~reset[Other(e)] /\ net[Other(e)] = <<>>
        BY <1>1, <1>4, <2>4 DEF Phase
      <4> QED
        BY <1>1, <2>1, <2>2, <2>4, <4>1
    <3> QED
      BY <1>4, <2>2, <3>1, StillInSession
  <2>6. Flow'
    BY <1>1, <1>2, <2>1, <2>2 DEF Flow, Loop
  <2> QED
    BY <1>2, <1>4, <2>2, <2>3, <2>5, <2>6
<1>5. CASE ~reset[e] /\ pc[Other(e)] # "gone"
  <2>1. /\ pc' = [pc EXCEPT ![e] = label] /\ reset' = reset
        /\ net' = [net EXCEPT ![Other(e)] = net[Other(e)] \o msg]
    BY <1>5 DEF Send, Goto
  <2>2. /\ pc'[e] = label /\ pc'[Other(e)] = pc[Other(e)]
        /\ net'[e] = net[e] /\ net'[Other(e)] = net[Other(e)] \o msg
    BY <1>1, <2>1 DEF SocketType, Streams
  <2>3. SocketType'
    <3>1. net[Other(e)] \o msg \in Seq(Unit)
      BY <1>1, ConcatProperties DEF SocketType, Streams
    <3> QED
      BY <1>1, <1>2, <2>1, <3>1 DEF SocketType, Streams, Labels
  <2>4. label # "gone" /\ pc[e] # "gone"
    BY DEF Loop
  <2>5. Phase'
    <3>1. ASSUME NEW f \in Ends PROVE /\ reset'[f] => pc'[Other(f)] = "gone"
                                      /\ pc'[f] = "gone" => net'[f] = <<>>
      BY <1>1, <1>5, <2>1, <2>2, <2>4 DEF Phase
    <3> QED
      BY <2>2, <3>1, StillInSession
  <2>6. Flow'
    <3>1. pc'[e] \in Loop => said'[Other(e)] = heard'[e] \o net'[e]
      BY <1>1, <1>2, <2>2 DEF Flow
    <3>2. pc'[Other(e)] \in Loop => said'[e] = heard'[Other(e)] \o net'[Other(e)]
      <4>1. SUFFICES ASSUME pc[Other(e)] \in Loop
                     PROVE  said[e] \o msg = heard[Other(e)] \o (net[Other(e)] \o msg)
        BY <1>2, <2>2
      <4>2. said[e] = heard[Other(e)] \o net[Other(e)]
        BY <1>1, <4>1 DEF Flow
      <4>3. heard[Other(e)] \in Seq(Unit) /\ net[Other(e)] \in Seq(Unit)
        BY <1>1 DEF SocketType, Streams
      <4>4. (heard[Other(e)] \o net[Other(e)]) \o msg = heard[Other(e)] \o (net[Other(e)] \o msg)
        BY <4>3, Regroup
      <4> QED
        BY <4>2, <4>4
    <3> QED
      BY <1>1, <3>1, <3>2 DEF Flow
  <2> QED
    BY <1>2, <2>2, <2>3, <2>5, <2>6
<1>6. reset[e] => pc[Other(e)] = "gone"
  BY DEF Phase
<1> QED
  BY <1>3, <1>4, <1>5, <1>6

\* recv: what is printed was on its way, and before it, nothing.
LEMMA ReceiveStep ==
  ASSUME SocketType, Phase, Flow, NEW e \in Ends, NEW msg \in Prefixes(net[e]), NEW label \in Loop,
         pc[e] \in Loop, Receive(e, msg), Goto(e, label), UNCHANGED <<sessions, said>>
  PROVE  /\ SocketType' /\ Phase' /\ Flow'
         /\ msg \in Seq(Unit) /\ heard' = [heard EXCEPT ![e] = heard[e] \o msg]
         /\ heard'[e] \in Seq(Unit) /\ net'[e] \in Seq(Unit)
         /\ said[Other(e)] = heard'[e] \o net'[e]
<1> DEFINE rest == SubSeq(net[e], Len(msg) + 1, Len(net[e]))
<1>1. Other(e) \in Ends /\ Other(e) # e /\ Ends = {e, Other(e)} /\ Other(Other(e)) = e
  BY OtherFacts
<1>2. net[e] \in Seq(Unit) /\ heard[e] \in Seq(Unit)
  BY DEF SocketType, Streams
<1>3. msg \in Seq(Unit) /\ rest \in Seq(Unit) /\ msg \o rest = net[e]
  BY <1>2, PieceAndRest
<1>4. /\ pc' = [pc EXCEPT ![e] = label] /\ net' = [net EXCEPT ![e] = rest]
      /\ heard' = [heard EXCEPT ![e] = heard[e] \o msg] /\ reset' = reset
  BY DEF Receive, Goto
<1> HIDE DEF rest
<1>5. /\ pc'[e] = label /\ pc'[Other(e)] = pc[Other(e)]
      /\ net'[e] = rest /\ net'[Other(e)] = net[Other(e)]
      /\ heard'[e] = heard[e] \o msg /\ heard'[Other(e)] = heard[Other(e)]
  BY <1>1, <1>4 DEF SocketType, Streams
<1>6. heard[e] \o msg \in Seq(Unit)
  BY <1>2, <1>3, ConcatProperties
<1>7. SocketType'
  BY <1>3, <1>4, <1>6 DEF SocketType, Streams, Labels
<1>8. label # "gone" /\ pc[e] # "gone"
  BY DEF Loop
<1>9. Phase'
  <2>1. ASSUME NEW f \in Ends PROVE /\ reset'[f] => pc'[Other(f)] = "gone"
                                    /\ pc'[f] = "gone" => net'[f] = <<>>
    BY <1>1, <1>4, <1>5, <1>8 DEF Phase
  <2> QED
    BY <1>5, <2>1, StillInSession
<1>10. said[Other(e)] = (heard[e] \o msg) \o rest
  <2>1. said[Other(e)] = heard[e] \o net[e]
    BY DEF Flow
  <2>2. (heard[e] \o msg) \o rest = heard[e] \o (msg \o rest)
    BY <1>2, <1>3, Regroup
  <2> QED
    BY <1>3, <2>1, <2>2
<1>11. Flow'
  BY <1>1, <1>5, <1>10 DEF Flow
<1> QED
  BY <1>3, <1>4, <1>5, <1>6, <1>7, <1>9, <1>10, <1>11

-----------------------------------------------------------------------------
(* The steps.                                                              *)

\* Who is in a session and who is not.
LEMMA ConnectStep ==
  ASSUME IInv, Connect
  PROVE  IInv' /\ said' = Nothing /\ heard' = Nothing
<1>1. SocketType /\ UserType /\ Phase
  BY TypeParts DEF IInv
<1>2. /\ pc["client"] = "start" /\ pc["server"] = "accept" /\ sessions < MaxSessions
      /\ net = Nothing /\ reset = Never
  BY <1>1 DEF Connect, Phase
<1>3. /\ \A e \in Ends : pc'[e] \in Loop
      /\ program = "partA" => pc'["client"] = "input" /\ pc'["server"] = "recv"
      /\ pc' \in [Ends -> Labels]
  BY DEF Connect, Loop, Labels, Ends
<1>4. /\ said' = Nothing /\ heard' = Nothing /\ net' = Nothing /\ reset' = Never
      /\ sessions' = sessions + 1 /\ buffer' = buffer /\ program' = program
      /\ terminal' = terminal /\ typed' = typed /\ eof' = eof /\ ready' = ready
  BY <1>2 DEF Connect, user, socket
<1>5. Nothing \in Streams /\ \A e \in Ends : Nothing[e] = <<>> /\ ~Never[e]
  BY DEF Nothing, Streams, Never
<1>6. TypeOK'
  <2>1. SocketType'
    BY <1>1, <1>3, <1>4, <1>5 DEF SocketType, Never
  <2>2. UserType'
    BY <1>1, <1>2, <1>4, ChatAssumption DEF UserType
  <2> QED
    BY <2>1, <2>2, TypeParts
<1>7. Phase'
  <2>1. "client" \in Ends /\ "server" \in Ends
    BY DEF Ends
  <2> QED
    BY <1>3, <1>4, <1>5, <2>1 DEF Phase, Loop
<1>8. Flow'
  <2>1. <<>> = <<>> \o <<>>
    OBVIOUS
  <2> QED
    BY <1>4, <1>5, <2>1, OtherFacts DEF Flow
<1>9. Turns'
  BY <1>3, <1>4, <1>5 DEF Turns, Ends
<1>10. NeverBothWait'
  BY <1>3, <1>4 DEF NeverBothWait, Ends
<1> QED
  BY <1>4, <1>6, <1>7, <1>8, <1>9, <1>10 DEF IInv

\* Somebody starts another client.
LEMMA NextClientStep ==
  ASSUME IInv, NextClient
  PROVE  IInv'
<1>1. SocketType /\ UserType /\ Phase /\ Flow
  BY TypeParts DEF IInv
<1>2. /\ program = "stnc" /\ pc["client"] = "gone" /\ pc["server"] = "accept"
      /\ sessions < MaxSessions /\ net = Nothing /\ reset = Never
  BY <1>1 DEF NextClient, Phase
<1>3. /\ pc' = [pc EXCEPT !["client"] = "start"] /\ terminal' = [terminal EXCEPT !["client"] = <<>>]
      /\ eof' = [eof EXCEPT !["client"] = FALSE]
      /\ program' = program /\ typed' = typed /\ ready' = ready /\ buffer' = buffer
      /\ net' = net /\ reset' = reset /\ sessions' = sessions /\ said' = said /\ heard' = heard
  BY DEF NextClient, Goto, socket
<1>4. "client" \in Ends /\ "server" \in Ends /\ Ends = {"client", "server"}
  BY DEF Ends
<1>5. pc'["client"] = "start" /\ pc'["server"] = "accept"
  BY <1>1, <1>2, <1>3, <1>4 DEF SocketType
<1>6. SocketType' /\ UserType'
  <2>1. "start" \in Labels /\ <<>> \in Seq(1..MaxLines)
    BY DEF Labels
  <2> QED
    BY <1>1, <1>3, <1>4, <2>1 DEF SocketType, UserType
<1>7. Phase'
  BY <1>2, <1>3, <1>4, <1>5 DEF Phase, Never, Nothing
<1>8. Flow'
  BY <1>4, <1>5 DEF Flow, Loop
<1> QED
  BY <1>2, <1>3, <1>6, <1>7, <1>8, TypeParts DEF IInv, Turns, NeverBothWait

\* The users type, or end the input.
LEMMA UserStep ==
  ASSUME IInv, NEW e \in Ends, Type(e) \/ EndInput(e)
  PROVE  IInv' /\ UNCHANGED <<said, heard>>
<1>1. SocketType /\ UserType /\ Phase /\ Flow /\ Turns /\ NeverBothWait
  BY TypeParts DEF IInv
<1>2. /\ pc' = pc /\ program' = program /\ ready' = ready /\ buffer' = buffer /\ net' = net
      /\ reset' = reset /\ sessions' = sessions /\ said' = said /\ heard' = heard
  BY DEF Type, EndInput, socket
<1>3. SocketType' /\ Phase' /\ Flow' /\ Turns'
  BY <1>1, <1>2 DEF SocketType, Phase, Flow, Turns
<1>4. UserType'
  <2>1. CASE Type(e)
    <3>1. typed[e] + 1 \in 1..MaxLines /\ terminal[e] \in Seq(1..MaxLines)
      BY <1>1, <2>1, ChatAssumption DEF Type, UserType
    <3>2. Append(terminal[e], typed[e] + 1) \in Seq(1..MaxLines)
      BY <3>1, AppendProperties
    <3>3. /\ typed' = [typed EXCEPT ![e] = typed[e] + 1] /\ eof' = eof
          /\ terminal' = [terminal EXCEPT ![e] = Append(terminal[e], typed[e] + 1)]
      BY <2>1 DEF Type
    <3>4. typed[e] + 1 \in 0..MaxLines
      BY <3>1
    <3>5. typed' \in [Ends -> 0..MaxLines]
      BY <1>1, <3>3, <3>4 DEF UserType
    <3>6. terminal' \in [Ends -> Seq(1..MaxLines)]
      BY <1>1, <3>2, <3>3 DEF UserType
    <3> QED
      BY <1>1, <1>2, <3>3, <3>5, <3>6 DEF UserType
  <2>2. CASE EndInput(e)
    BY <1>1, <1>2, <2>2 DEF EndInput, UserType
  <2> QED
    BY <2>1, <2>2
<1>5. NeverBothWait'
  <2>1. eof["client"] => eof'["client"]
    BY <1>1 DEF Type, EndInput, UserType, Ends
  <2> QED
    BY <1>1, <1>2, <2>1 DEF NeverBothWait, Connected
<1> QED
  BY <1>2, <1>3, <1>4, <1>5, TypeParts DEF IInv

\* An end leaves the session: Ctrl+C, or recv told it to.
LEMMA GoneStep ==
  ASSUME IInv, NEW e \in Ends, Leave(e) \/ RecvExits(e) \/ Break(e)
  PROVE  IInv' /\ UNCHANGED <<said, heard>>
<1>1. SocketType /\ UserType /\ Phase /\ Flow /\ Turns
  BY TypeParts DEF IInv
<1>2. /\ pc[e] \in Loop /\ Exits(e) /\ program' = program /\ UserType' /\ buffer' = buffer
      /\ sessions' = sessions /\ said' = said /\ heard' = heard
  BY <1>1 DEF Leave, RecvExits, Break, user, UserType, Loop
<1>3. SocketType' /\ Phase' /\ Flow' /\ pc'[e] = "gone"
  BY <1>1, <1>2, ExitStep
<1>4. pc'[Other(e)] = pc[Other(e)]
  BY <1>1, <1>2, OtherFacts DEF Exits, Goto, SocketType
<1>5. Turns'
  BY <1>1, <1>2, <1>3, <1>4, OtherFacts DEF Turns
<1>6. NeverBothWait'
  BY <1>3 DEF NeverBothWait
<1> QED
  BY <1>2, <1>3, <1>5, <1>6, TypeParts DEF IInv

\* poll says what there is.
LEMMA PollStep ==
  ASSUME IInv, NEW e \in Ends, Poll(e)
  PROVE  IInv' /\ UNCHANGED <<said, heard>>
<1>1. SocketType /\ UserType /\ Phase /\ Flow /\ Turns
  BY TypeParts DEF IInv
<1>2. program = "stnc"
  BY <1>1 DEF Poll, Turns, UserType
<1>3. PICK label \in {"read", "recv"} : pc' = [pc EXCEPT ![e] = label]
  BY DEF Poll, Goto
<1>4. /\ pc[e] = "poll" /\ program' = program /\ ready' = [ready EXCEPT ![e] = SocketReady(e)]
      /\ terminal' = terminal /\ eof' = eof /\ typed' = typed /\ buffer' = buffer /\ net' = net
      /\ reset' = reset /\ sessions' = sessions /\ said' = said /\ heard' = heard
  BY DEF Poll, user, socket
<1>5. pc'[e] = label /\ \A f \in Ends : f # e => pc'[f] = pc[f]
  BY <1>1, <1>3 DEF SocketType
<1>6. SocketType' /\ UserType'
  <2>1. SocketReady(e) \in BOOLEAN
    BY <1>1 DEF SocketReady, RecvFails, RecvZero, SocketType
  <2> QED
    BY <1>1, <1>3, <1>4, <2>1 DEF SocketType, UserType, Labels, Loop
<1>7. Phase'
  BY <1>1, <1>4, <1>5, OtherFacts, StillInSession DEF Phase, Loop
<1>8. Flow'
  BY <1>1, <1>4, <1>5 DEF Flow, Loop
<1> QED
  BY <1>2, <1>4, <1>6, <1>7, <1>8, TypeParts DEF IInv, Turns, NeverBothWait

\* The server has seen the end of its client, and nothing of it is left.
LEMMA AcceptStep ==
  ASSUME IInv, BackToAccept
  PROVE  IInv' /\ UNCHANGED <<said, heard>>
<1>1. SocketType /\ UserType /\ Phase /\ Flow
  BY TypeParts DEF IInv
<1>2. Other("server") = "client" /\ Other("client") = "server" /\ Ends = {"client", "server"}
  BY OtherFacts DEF Ends
<1>3. /\ program = "stnc" /\ pc["server"] = "recv" /\ pc["client"] = "gone"
      /\ net["server"] = <<>>
  BY <1>2 DEF BackToAccept, RecvZero
<1>4. /\ pc' = [pc EXCEPT !["server"] = "accept"] /\ program' = program /\ ready' = ready
      /\ terminal' = terminal /\ eof' = eof /\ typed' = typed /\ buffer' = buffer /\ net' = net
      /\ reset' = [reset EXCEPT !["server"] = FALSE] /\ sessions' = sessions
      /\ said' = said /\ heard' = heard
  BY DEF BackToAccept, Goto, user
<1>5. net = Nothing /\ reset' = Never
  <2>1. net["client"] = <<>> /\ ~reset["client"]
    BY <1>1, <1>2, <1>3 DEF Phase
  <2>2. \A e \in Ends : net[e] = <<>> /\ reset'[e] = FALSE
    BY <1>1, <1>2, <1>3, <1>4, <2>1 DEF SocketType
  <2>3. DOMAIN reset' = Ends /\ reset' = [e \in Ends |-> reset'[e]]
    BY <1>1, <1>4 DEF SocketType
  <2> QED
    BY <1>1, <2>2, <2>3 DEF SocketType, Streams, Nothing, Never
<1>6. pc'["server"] = "accept" /\ pc'["client"] = "gone"
  BY <1>1, <1>2, <1>3, <1>4 DEF SocketType
<1>7. SocketType' /\ UserType'
  BY <1>1, <1>4 DEF SocketType, UserType, Labels
<1>8. Phase' /\ Flow'
  BY <1>1, <1>2, <1>4, <1>5, <1>6 DEF Phase, Flow, Loop, Nothing, Never
<1> QED
  BY <1>3, <1>4, <1>7, <1>8, TypeParts DEF IInv, Turns, NeverBothWait

\* A line is sent in stnc, or nothing when the input has ended.
LEMMA ReadStdinStep ==
  ASSUME IInv, NEW e \in Ends, ReadStdin(e)
  PROVE  /\ IInv' /\ heard' = heard
         /\ \E msg \in Seq(Unit) : said' = [said EXCEPT ![e] = said[e] \o msg]
<1>1. SocketType /\ UserType /\ Phase /\ Flow /\ Turns
  BY TypeParts DEF IInv
<1>2. /\ pc[e] = "read" /\ program = "stnc" /\ program' = program /\ heard' = heard
      /\ sessions' = sessions /\ buffer' = buffer /\ eof' = eof /\ typed' = typed /\ ready' = ready
  BY <1>1 DEF ReadStdin, Turns, UserType
<1>3. PICK msg \in Seq(Unit), label \in Loop :
        Send(e, msg, label) /\ terminal' \in [Ends -> Seq(1..MaxLines)]
  <2> DEFINE next == IF ready[e] THEN "recv" ELSE "poll"
  <2>1. next \in Loop
    BY DEF Loop
  <2>2. CASE terminal[e] = <<>>
    <3>1. <<>> \in Seq(Unit) /\ Send(e, <<>>, next) /\ terminal' = terminal
      BY <2>2 DEF ReadStdin
    <3> QED
      BY <1>1, <2>1, <3>1 DEF UserType
  <2>3. CASE terminal[e] # <<>>
    <3>1. Send(e, Units(e, Head(terminal[e])), next) /\ terminal' = [terminal EXCEPT ![e] = Tail(terminal[e])]
      BY <2>3 DEF ReadStdin
    <3>2. Head(terminal[e]) \in 1..MaxLines /\ Tail(terminal[e]) \in Seq(1..MaxLines)
      BY <1>1, <2>3, HeadTailProperties DEF UserType
    <3>3. Units(e, Head(terminal[e])) \in Seq(Unit)
      BY <3>2, UnitsFacts
    <3>4. terminal' \in [Ends -> Seq(1..MaxLines)]
      BY <1>1, <3>1, <3>2 DEF UserType
    <3> QED
      BY <2>1, <3>1, <3>3, <3>4
  <2> QED
    BY <2>2, <2>3
<1>4. SocketType' /\ Phase' /\ Flow' /\ said' = [said EXCEPT ![e] = said[e] \o msg]
  <2>1. pc[e] \in Loop
    BY <1>2 DEF Loop
  <2> QED
    BY <1>1, <1>2, <1>3, <2>1, SendStep
<1>5. UserType'
  BY <1>1, <1>2, <1>3 DEF UserType
<1> QED
  BY <1>2, <1>4, <1>5, TypeParts DEF IInv, Turns, NeverBothWait

\* What has arrived is printed; in partA it also stays in the buffer.
LEMMA ReceivingStep ==
  ASSUME IInv, NEW e \in Ends, Recv(e) \/ Reply(e)
  PROVE  /\ IInv' /\ said' = said
         /\ \E msg \in Seq(Unit) : heard' = [heard EXCEPT ![e] = heard[e] \o msg]
         /\ heard'[e] \in Seq(Unit)
         /\ \E rest \in Seq(Unit) : said[Other(e)] = heard'[e] \o rest
<1>1. SocketType /\ UserType /\ Phase /\ Flow /\ Turns
  BY TypeParts DEF IInv
<1>2. PICK msg \in Prefixes(net[e]), label \in {"poll", "input"} :
        /\ Receive(e, msg) /\ Goto(e, label)
        /\ \/ program = "stnc" /\ buffer' = buffer
           \/ label = "input" /\ buffer' = [buffer EXCEPT ![e] = msg]
  BY DEF Recv, Reply
<1>3. /\ pc[e] \in Loop /\ label \in Loop /\ program' = program /\ said' = said
      /\ sessions' = sessions /\ terminal' = terminal /\ eof' = eof /\ typed' = typed /\ ready' = ready
  BY DEF Recv, Reply, user, Loop
<1>4. /\ SocketType' /\ Phase' /\ Flow'
      /\ msg \in Seq(Unit) /\ heard' = [heard EXCEPT ![e] = heard[e] \o msg]
      /\ heard'[e] \in Seq(Unit) /\ net'[e] \in Seq(Unit)
      /\ said[Other(e)] = heard'[e] \o net'[e]
  BY <1>1, <1>2, <1>3, ReceiveStep
<1>5. UserType'
  BY <1>1, <1>2, <1>3, <1>4 DEF UserType, Streams
<1>6. pc'[e] = label /\ \A f \in Ends : f # e => pc'[f] = pc[f]
  BY <1>1, <1>2 DEF Goto, SocketType
<1>7. CASE program = "stnc"
  BY <1>3, <1>4, <1>5, <1>7, TypeParts DEF IInv, Turns, NeverBothWait
<1>8. CASE program # "stnc"
  <2>1. label = "input" /\ buffer' = [buffer EXCEPT ![e] = msg] /\ msg # <<>>
    BY <1>2, <1>8 DEF Receive
  <2>2. buffer'[e] = msg /\ \A f \in Ends : f # e => buffer'[f] = buffer[f]
    BY <1>1, <2>1 DEF UserType, Streams
  <2>3. Turns'
    BY <1>1, <1>3, <1>6, <2>1, <2>2 DEF Turns
  <2>4. NeverBothWait'
    BY <1>6, <2>1 DEF NeverBothWait
  <2> QED
    BY <1>3, <1>4, <1>5, <2>3, <2>4, TypeParts DEF IInv
<1> QED
  BY <1>7, <1>8

\* partA sends a line, or what its buffer holds.
LEMMA InputStep ==
  ASSUME IInv, NEW e \in Ends, Input(e)
  PROVE  /\ IInv' /\ heard' = heard
         /\ \E msg \in Seq(Unit) : said' = [said EXCEPT ![e] = said[e] \o msg]
<1>1. SocketType /\ UserType /\ Phase /\ Flow /\ Turns
  BY TypeParts DEF IInv
<1>2. /\ pc[e] = "input" /\ program' = program /\ heard' = heard
      /\ sessions' = sessions /\ buffer' = buffer /\ eof' = eof /\ typed' = typed /\ ready' = ready
  BY DEF Input
<1>3. PICK msg \in Seq(Unit) : /\ Send(e, msg, "recv") /\ terminal' \in [Ends -> Seq(1..MaxLines)]
                               /\ msg = <<>> => msg = buffer[e] /\ eof[e]
  <2>1. CASE terminal[e] = <<>>
    <3>1. Send(e, buffer[e], "recv") /\ terminal' = terminal /\ eof[e]
      BY <2>1 DEF Input
    <3>2. buffer[e] \in Seq(Unit)
      BY <1>1 DEF UserType, Streams
    <3> QED
      BY <1>1, <3>1, <3>2 DEF UserType
  <2>2. CASE terminal[e] # <<>>
    <3>1. Send(e, Units(e, Head(terminal[e])), "recv") /\ terminal' = [terminal EXCEPT ![e] = Tail(terminal[e])]
      BY <2>2 DEF Input
    <3>2. Head(terminal[e]) \in 1..MaxLines /\ Tail(terminal[e]) \in Seq(1..MaxLines)
      BY <1>1, <2>2, HeadTailProperties DEF UserType
    <3>3. Units(e, Head(terminal[e])) \in Seq(Unit) /\ Units(e, Head(terminal[e])) # <<>>
      BY <3>2, UnitsFacts
    <3>4. terminal' \in [Ends -> Seq(1..MaxLines)]
      BY <1>1, <3>1, <3>2 DEF UserType
    <3> QED
      BY <3>1, <3>3, <3>4
  <2> QED
    BY <2>1, <2>2
<1>4. /\ SocketType' /\ Phase' /\ Flow'
      /\ said' = [said EXCEPT ![e] = said[e] \o msg]
      /\ pc'[e] \in {"recv", "gone"} /\ pc'[Other(e)] = pc[Other(e)]
      /\ pc'[e] # "gone" /\ pc[Other(e)] # "gone" => net'[Other(e)] = net[Other(e)] \o msg
  <2>1. pc[e] \in Loop /\ "recv" \in Loop
    BY <1>2 DEF Loop
  <2> QED
    BY <1>1, <1>2, <1>3, <2>1, SendStep
<1>5. UserType'
  BY <1>1, <1>2, <1>3 DEF UserType
<1>6. Turns'
  <2>1. SUFFICES ASSUME program = "partA", NEW f \in Ends
                 PROVE  /\ pc'[f] \notin {"poll", "read"}
                        /\ pc'[f] = "input" /\ buffer[f] = <<>> => f = "client" /\ said'["client"] = <<>>
    BY <1>2 DEF Turns
  <2>2. CASE f = e
    BY <1>4, <2>2
  <2>3. CASE f # e
    <3>1. pc'[f] = pc[f] /\ said'[f] = said[f]
      BY <1>1, <1>4, <2>3, OtherFacts DEF SocketType, Streams
    <3> QED
      BY <1>1, <2>1, <3>1 DEF Turns
  <2> QED
    BY <2>2, <2>3
<1>7. NeverBothWait'
  <2>1. SUFFICES ASSUME program = "partA", \A f \in Ends : pc'[f] = "recv"
                 PROVE  \/ \E f \in Ends : net'[f] # <<>>
                        \/ said'["client"] = <<>> /\ eof["client"]
    BY <1>2 DEF NeverBothWait
  <2>2. Other(e) \in Ends /\ pc'[e] = "recv" /\ pc[Other(e)] = "recv"
    BY <1>4, <2>1, OtherFacts
  <2>3. net'[Other(e)] = net[Other(e)] \o msg
    BY <1>4, <2>2
  <2>4. CASE msg # <<>>
    <3>1. net[Other(e)] \o msg # <<>>
      BY <1>1, <2>2, <2>4, ConcatEqualIffEmpty DEF SocketType, Streams
    <3> QED
      BY <2>2, <2>3, <3>1
  <2>5. CASE msg = <<>>
    <3>1. e = "client" /\ said["client"] = <<>> /\ eof["client"]
      BY <1>1, <1>2, <1>3, <2>1, <2>5 DEF Turns
    <3>2. said'["client"] = <<>> \o <<>>
      BY <1>1, <1>4, <2>5, <3>1 DEF SocketType, Streams
    <3>3. <<>> \o <<>> = <<>>
      OBVIOUS
    <3> QED
      BY <3>1, <3>2, <3>3
  <2> QED
    BY <2>4, <2>5
<1> QED
  BY <1>2, <1>4, <1>5, <1>6, <1>7, TypeParts DEF IInv

-----------------------------------------------------------------------------
(* The whole machine.                                                      *)

\* Nothing has been sent when it starts.
LEMMA InitInv == Init => IInv
<1> SUFFICES ASSUME Init PROVE IInv
  OBVIOUS
<1>1. /\ pc = [client |-> "start", server |-> "accept"] /\ net = Nothing /\ reset = Never
      /\ said = Nothing /\ heard = Nothing /\ terminal = Nothing /\ eof = Never /\ ready = Never
      /\ typed = [e \in Ends |-> 0] /\ sessions = 0 /\ program \in {"stnc", "partA"}
      /\ buffer \in [Ends -> {<<>>, <<<<"junk", 0, 0>>>>}]
  BY DEF Init
<1>2. /\ Ends = {"client", "server"} /\ pc["client"] = "start" /\ pc["server"] = "accept"
      /\ pc \in [Ends -> Labels]
  BY <1>1 DEF Ends, Labels
<1>3. Nothing \in Streams /\ Never \in [Ends -> BOOLEAN]
  BY DEF Nothing, Streams, Never
<1>4. SocketType
  BY <1>1, <1>2, <1>3 DEF SocketType
<1>5. UserType
  <2>1. <<>> \in Seq(Unit) /\ <<<<"junk", 0, 0>>>> \in Seq(Unit) /\ <<>> \in Seq(1..MaxLines)
    BY DEF Unit
  <2>2. buffer \in Streams /\ terminal \in [Ends -> Seq(1..MaxLines)]
    BY <1>1, <2>1 DEF Streams, Nothing
  <2>3. typed \in [Ends -> 0..MaxLines] /\ 0 \in 0..MaxSessions
    BY <1>1, ChatAssumption
  <2> QED
    BY <1>1, <1>3, <2>2, <2>3 DEF UserType
<1>6. Phase
  BY <1>1, <1>2, ChatAssumption DEF Phase, Never
<1>7. Flow /\ Turns /\ NeverBothWait
  BY <1>2 DEF Flow, Turns, NeverBothWait, Connected, Loop
<1> QED
  BY <1>4, <1>5, <1>6, <1>7 DEF IInv, TypeOK, SocketType, UserType, Labels, Streams

\* What one step may do: it keeps the invariant, and it is a step of the two channels,
\* or none.
LEMMA NextStep ==
  ASSUME IInv, Next
  PROVE  IInv' /\ [Promised!Next]_<<said, heard>>
<1> USE DEF Promised!Next
<1>0. \A s, t : IsPrefix(s, t) => Promised!IsPrefix(s, t)
  BY DEF IsPrefix, Promised!IsPrefix
<1>1. CASE Connect
  <2>1. Promised!Reconnect
    BY <1>1, ConnectStep DEF Promised!Reconnect, Nothing, Promised!Nothing, Ends, Promised!Ends
  <2> QED
    BY <1>1, <2>1, ConnectStep
<1>2. CASE NextClient
  BY <1>2, NextClientStep DEF NextClient
<1>3. CASE BackToAccept
  BY <1>3, AcceptStep
<1>4. ASSUME NEW e \in Ends, Type(e) \/ EndInput(e) \/ Leave(e) \/ RecvExits(e) \/ Break(e) \/ Poll(e)
      PROVE  IInv' /\ UNCHANGED <<said, heard>>
  BY <1>4, UserStep, GoneStep, PollStep
<1>5. ASSUME NEW e \in Ends, ReadStdin(e) \/ Input(e)
      PROVE  IInv' /\ Promised!Next
  <2>1. /\ IInv' /\ heard' = heard
        /\ \E msg \in Seq(Unit) : said' = [said EXCEPT ![e] = said[e] \o msg]
    BY <1>5, ReadStdinStep, InputStep
  <2>2. PICK msg \in Seq(Unit) : said' = [said EXCEPT ![e] = said[e] \o msg]
    BY <2>1
  <2>3. said \in Streams
    BY TypeParts DEF IInv, SocketType
  <2>4. said'[e] = said[e] \o msg /\ said[e] \in Seq(Unit)
    BY <2>2, <2>3 DEF Streams
  <2>5. IsPrefix(said[e], said'[e])
    BY <2>4, ContinuedFrom
  <2>6. Promised!Say(e)
    BY <1>0, <2>1, <2>2, <2>4, <2>5 DEF Promised!Say
  <2> QED
    BY <2>1, <2>6 DEF Ends, Promised!Ends
<1>6. ASSUME NEW e \in Ends, Recv(e) \/ Reply(e)
      PROVE  IInv' /\ Promised!Next
  <2>1. PICK msg \in Seq(Unit), rest \in Seq(Unit) :
             heard' = [heard EXCEPT ![e] = heard[e] \o msg] /\ said[Other(e)] = heard'[e] \o rest
    BY <1>6, ReceivingStep
  <2>2. IInv' /\ said' = said /\ heard'[e] \in Seq(Unit)
    BY <1>6, ReceivingStep
  <2>3. heard \in Streams
    BY TypeParts DEF IInv, SocketType
  <2>4. heard'[e] = heard[e] \o msg /\ heard[e] \in Seq(Unit)
    BY <2>1, <2>3 DEF Streams
  <2>5. IsPrefix(heard[e], heard'[e]) /\ IsPrefix(heard'[e], said[Other(e)])
    BY <2>1, <2>2, <2>4, ContinuedFrom
  <2>6. Promised!Hear(e)
    BY <1>0, <2>1, <2>2, <2>4, <2>5 DEF Promised!Hear, Promised!Other, Other, Ends, Promised!Ends
  <2> QED
    BY <2>2, <2>6 DEF Ends, Promised!Ends
<1>7. \E e \in Ends : \/ Type(e) \/ EndInput(e) \/ Leave(e) \/ RecvExits(e) \/ Break(e) \/ Poll(e)
                      \/ ReadStdin(e) \/ Input(e) \/ Recv(e) \/ Reply(e)
      \/ Connect \/ NextClient \/ BackToAccept
  BY DEF Next, Client, Server, StncClient, StncServer, PartAClient, PartAServer, Ends
<1> QED
  BY <1>1, <1>2, <1>3, <1>4, <1>5, <1>6, <1>7

\* Every step keeps the invariant, and so does none.
LEMMA NextInv == IInv /\ [Next]_vars => IInv' /\ [Promised!Next]_<<said, heard>>
<1>1. ASSUME IInv, UNCHANGED vars PROVE IInv' /\ UNCHANGED <<said, heard>>
  <2>1. UNCHANGED <<program, pc, terminal, eof, typed, ready, buffer, net, reset, sessions, said, heard>>
    BY <1>1 DEF vars, user, socket
  <2> QED
    BY <1>1, <2>1 DEF IInv, TypeOK, Phase, Flow, Turns, NeverBothWait, Connected
<1> QED
  BY <1>1, NextStep

\* The inductive invariant: who is in a session, and what is said, printed and on its way.
THEOREM Invariance == Spec => []IInv
<1>1. IInv /\ [Next]_vars => IInv'
  BY NextInv
<1> QED
  BY <1>1, InitInv, PTL DEF Spec

\* Every variable keeps its type.
THEOREM TypeCorrect == Spec => []TypeOK
<1>1. IInv => TypeOK
  BY DEF IInv
<1> QED
  BY <1>1, Invariance, PTL

\* The two ends of partA never wait for each other with nothing on its way, however
\* recv cuts and joins the lines (partA.c:90-106, 148-164).
THEOREM NotBothWaiting == Spec => []NeverBothWait
<1>1. IInv => NeverBothWait
  BY DEF IInv
<1> QED
  BY <1>1, Invariance, PTL

\* Both chats implement a channel in each direction: what is printed is, in every
\* session and at every moment, a beginning of what was sent in it (stnc.c:343-377,
\* 435-466, partA.c:90-106, 148-164).
THEOREM Implements == Spec => ImplementsChannels
<1>1. Init => Promised!Init
  BY DEF Init, Promised!Init, Nothing, Promised!Nothing, Ends, Promised!Ends
<1>2. IInv /\ [Next]_vars => [Promised!Next]_<<said, heard>>
  BY NextInv
<1> QED
  BY <1>1, <1>2, Invariance, PTL DEF Spec, ImplementsChannels, Promised!Spec
=============================================================================
