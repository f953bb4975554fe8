---------------------------- MODULE PerfTestProofs ----------------------------
(***************************************************************************)
(* PerfTest, for a file and a buffer of any size and names of any length.  *)
(*                                                                         *)
(* The server has no frame for the fields it takes from the stream.  The   *)
(* invariant has three layers: what can be on the wire (Stream), and that  *)
(* the type is on it for at most one pass of the server, so that at most   *)
(* one transfer is ever made (Once); what is still to come as long as      *)
(* each recv has returned one field (Framed); and how much of the file is  *)
(* where (Amounts, Named).                                                 *)
(***************************************************************************)
EXTENDS PerfTest, SequenceTheorems, TLAPS

-----------------------------------------------------------------------------
(* The invariant.                                                          *)

\* Where the client is before it has sent a field.
Early == {"size", "checksum", "time", "type"}
Before(f) == CASE f = "size" -> {"size"}
               [] f = "checksum" -> {"size", "checksum"}
               [] f = "time" -> {"size", "checksum", "time"}
               [] f = "type" -> Early
               [] f = "name" -> Early \cup {"transfer", "name"}

OnWire(f) == \E i \in 1..Len(wire) : wire[i] = f
Gone(f) == ~OnWire(f) /\ cpc \notin Before(f)

\* A field that this client sends at all is still to come.
Real(f) == /\ f = "type" => test # "none"
           /\ f = "name" => test \in {"mmap", "pipe"}
Pending(f) == Real(f) => OnWire(f) \/ cpc \in Before(f)

\* What is on the wire has been sent, and the bytes of a field are close together.
Spaced == \A i, j \in 1..Len(wire) : i <= j /\ wire[i] = wire[j] => j - i < Length(wire[i])
Stream == /\ \A f \in Fields : OnWire(f) => cpc \notin Before(f)
          /\ Spaced

ToReceive == {"receive", "data_accept", "data_recv"}
ToCopy == {"name", "wrong_name", "map", "fifo_open", "fifo_read", "copied"}

\* Which test brings the two where they are.
Where == /\ spc \in ToReceive => test \notin {"mmap", "pipe"}
         /\ spc \in ToCopy => test \in {"mmap", "pipe"}
         /\ spc = "map" => test = "mmap"
         /\ spc \in {"fifo_open", "fifo_read"} => test = "pipe"
         /\ dsock # "none" => test \notin {"mmap", "pipe"}
         /\ cpc = "sending" => test = "ipv4 tcp"
         /\ cpc = "name" => test = "mmap"
         /\ cpc \in {"fifo_open", "fifo_write"} => test = "pipe"

\* A second transfer, in a later pass of the server, would need a second type.
Once == /\ spc \in ToReceive \cup ToCopy \/ dsock # "none" \/ verdict = "equal" => Gone("type")
        /\ spc = "receive" => dsock = "none"
        /\ verdict = "equal" => spc \notin ToReceive \cup ToCopy

\* The fields the server has still to take in this pass, after the next one.
Expected == CASE spc \in {"poll", "checksum"} -> {"checksum", "time", "type", "name"}
              [] spc = "time" -> {"time", "type", "name"}
              [] spc = "type" -> {"type", "name"}
              [] spc = "name" -> {"name"}
              [] OTHER -> {}

\* While each recv returns one field, the fields expected are still to come, except in
\* a pass after the first.
Framed ==
  framed => /\ spc \notin {"poll", "accept"} => Gone("size") /\ (~quiet => fileSize = Chunks)
            /\ (spc = "poll" /\ Gone("size")) \/ (\A f \in Expected : Pending(f))

\* How much of the file is where.
Amounts == /\ test # "mmap" => received + inflight <= sent
           /\ eof => sent = Chunks
           /\ fifoW = "closed" => sent = Chunks
           /\ spc = "fifo_read" => fifoW # "none"
           /\ dsock = "closed" /\ framed /\ ~quiet => sent = Chunks

\* The shared file is found by its name, when that was received.
Named == /\ spc = "wrong_name" => ~framed \/ ~NameCoversType
         /\ spc = "copied" /\ test = "mmap" /\ framed /\ NameCoversType /\ ~quiet => received = Chunks

IInv == /\ TypeOK /\ Stream /\ Where /\ Once /\ Framed /\ Amounts /\ Named
        /\ TransferWhole /\ EqualIsTrue /\ FailsOnlyUnframed /\ KilledOnlyWhenCutShort

-----------------------------------------------------------------------------
(* The wire.                                                               *)

\* What was chosen on the command lines stays.
LEMMA GivenStays ==
  ASSUME Next
  PROVE  UNCHANGED given
  BY DEF Next, Client, Server, ClientField, ClientConnects, ClientSendsToNobody, ClientSends,
         ClientSendsToClosed, ClientCloses, ClientShares, ClientName, ClientOpensFifo,
         ClientWritesFifo, ClientClosesFifo, ClientExits, ServerSize, ServerDisconnects,
         ServerChecksum, ServerTime, ServerFails, ServerType, ServerName, ServerListens,
         ServerCannotReceive, ServerAccepts, ServerReceives, ServerStopsReceiving, ServerMaps,
         ServerMapsNothing, ServerOpensFifo, ServerReadsFifo, ServerClosesFifo, ServerVerdict

\* How long the fields are.
LEMMA LengthFacts ==
  ASSUME TypeOK
  PROVE  /\ \A f \in Fields : /\ Length(f) \in Nat
                              /\ Length(f) = 0 <=> f = "type" /\ test = "none"
         /\ Length("size") = 9 /\ Length("type") <= 10
         /\ test \in {"mmap", "pipe"} => Length("type") = 5
<1>1. nameLength \in Nat \ {0}
  BY PerfTestAssumption DEF TypeOK
<1>2. Length("size") = 9 /\ Length("time") = 17 /\ Length("name") = nameLength
  BY DEF Length
<1>3. Length("checksum") \in {1, 10}
  BY DEF Length
<1>4. /\ test = "none" => Length("type") = 0
      /\ test # "none" => Length("type") \in {5, 8, 9, 10}
      /\ test \in {"mmap", "pipe"} => Length("type") = 5
  BY DEF Length
<1>5. ASSUME NEW f \in Fields
      PROVE  Length(f) \in Nat /\ (Length(f) = 0 <=> f = "type" /\ test = "none")
  <2>1. f = "size" \/ f = "checksum" \/ f = "time" \/ f = "type" \/ f = "name"
    BY DEF Fields
  <2>2. /\ Length("type") \in Nat /\ (Length("type") = 0 <=> test = "none")
        /\ Length("checksum") \in Nat \ {0}
    BY <1>3, <1>4
  <2> QED
    BY <1>1, <1>2, <2>1, <2>2
<1>6. Length("type") <= 10 /\ (test \in {"mmap", "pipe"} => Length("type") = 5)
  BY <1>4
<1> QED
  BY <1>2, <1>5, <1>6

\* They keep their length.
LEMMA LengthStays ==
  ASSUME UNCHANGED given, NEW f
  PROVE  Length(f)' = Length(f)
  BY DEF given, Length

\* The bytes of a field.
LEMMA BytesFacts ==
  ASSUME TypeOK, NEW f \in Fields
  PROVE  /\ Bytes(f) \in Seq(Fields) /\ Len(Bytes(f)) = Length(f)
         /\ \A i \in 1..Length(f) : Bytes(f)[i] = f
<1>1. Length(f) \in Nat
  BY LengthFacts
<1> QED
  BY <1>1 DEF Bytes

\* A field that is sent comes on the wire, behind what is there.
LEMMA SendFacts ==
  ASSUME TypeOK, Stream, NEW f \in Fields, cpc \in Before(f), SendField(f), UNCHANGED given
  PROVE  /\ wire' \in Seq(Fields) /\ Spaced'
         /\ \A g \in Fields : OnWire(g)' <=> OnWire(g) \/ (g = f /\ Length(f) # 0)
<1> DEFINE n == Len(wire)
           m == Length(f)
<1>1. wire \in Seq(Fields) /\ n \in Nat /\ m \in Nat /\ \A i \in 1..n : wire[i] \in Fields
  BY LengthFacts, LenProperties, ElementOfSeq DEF TypeOK
<1>2. wire' = wire \o Bytes(f) /\ Bytes(f) \in Seq(Fields) /\ Len(Bytes(f)) = m
      /\ \A i \in 1..m : Bytes(f)[i] = f
  BY BytesFacts DEF SendField
<1>3. wire' \in Seq(Fields) /\ Len(wire') = n + m
      /\ \A i \in 1..(n + m) : wire'[i] = IF i <= n THEN wire[i] ELSE f
  <2>1. /\ wire \o Bytes(f) \in Seq(Fields) /\ Len(wire \o Bytes(f)) = n + m
        /\ \A i \in 1..(n + m) : (wire \o Bytes(f))[i] = IF i <= n THEN wire[i] ELSE Bytes(f)[i - n]
    BY <1>1, <1>2, ConcatProperties
  <2>2. \A i \in 1..(n + m) : ~(i <= n) => i - n \in 1..m
    BY <1>1
  <2> QED
    BY <1>2, <2>1, <2>2
<1>4. \A i \in 1..n : wire[i] # f
  BY DEF Stream, OnWire
<1> HIDE DEF n, m
<1>5. Spaced'
  <2>1. SUFFICES ASSUME NEW i \in 1..(n + m), NEW j \in 1..(n + m), i <= j, wire'[i] = wire'[j]
                 PROVE  j - i < Length(wire'[i])
    BY <1>3, LengthStays DEF Spaced
  <2>2. CASE j <= n
    <3>1. i \in 1..n /\ j \in 1..n /\ wire'[i] = wire[i] /\ wire'[j] = wire[j]
      BY <1>1, <1>3, <2>1, <2>2
    <3> QED
      BY <2>1, <3>1 DEF Stream, Spaced, n
  <2>3. CASE j > n
    <3>1. wire'[j] = f
      BY <1>1, <1>3, <2>3
    <3>2. i > n
      BY <1>1, <1>3, <1>4, <2>1, <3>1
    <3> QED
      BY <1>1, <2>1, <3>1, <3>2 DEF m
  <2> QED
    BY <1>1, <2>2, <2>3
<1>6. ASSUME NEW g \in Fields PROVE OnWire(g)' <=> OnWire(g) \/ (g = f /\ m # 0)
  <2>1. OnWire(g)' <=> \E i \in 1..(n + m) : wire'[i] = g
    BY <1>3 DEF OnWire
  <2>2. (\E i \in 1..(n + m) : wire'[i] = g) => (\E i \in 1..n : wire[i] = g) \/ (g = f /\ m # 0)
    BY <1>1, <1>3
  <2>3. ASSUME NEW i \in 1..n, wire[i] = g PROVE \E k \in 1..(n + m) : wire'[k] = g
    <3>1. i \in 1..(n + m) /\ wire'[i] = g
      BY <1>1, <1>3, <2>3
    <3> QED
      BY <3>1
  <2>4. ASSUME g = f, m # 0 PROVE \E k \in 1..(n + m) : wire'[k] = g
    <3>1. n + m \in 1..(n + m) /\ ~(n + m <= n)
      BY <1>1, <2>4
    <3> QED
      BY <1>3, <2>4, <3>1
  <2> QED
    BY <2>1, <2>2, <2>3, <2>4 DEF OnWire, n
<1> QED
  BY <1>3, <1>5, <1>6 DEF m

\* How many bytes recv takes.
Taken(limit) == Smaller(limit, Len(wire))

\* recv takes from the front; a recv that returns a field alone leaves nothing of it,
\* and all there is of the others.
LEMMA RecvFacts ==
  ASSUME TypeOK, Stream, NEW limit \in Nat \ {0}, NEW f \in Fields, Recv(limit, f), UNCHANGED given
  PROVE  /\ wire' \in Seq(Fields) /\ Spaced'
         /\ Len(wire) \in Nat /\ Taken(limit) \in 1..Len(wire) /\ Taken(limit) <= limit
         /\ Len(wire) <= limit => Taken(limit) = Len(wire)
         /\ Message(limit) \in Seq(Fields) /\ Len(Message(limit)) = Taken(limit)
         /\ \A i \in 1..Taken(limit) : Message(limit)[i] = wire[i]
         /\ \A g \in Fields : OnWire(g)' => \E j \in (Taken(limit) + 1)..Len(wire) : wire[j] = g
         /\ \A g \in Fields : OnWire(g)' => OnWire(g)
         /\ framed' => /\ framed /\ Message(limit) = Bytes(f) /\ OnWire(f) /\ ~OnWire(f)'
                       /\ \A g \in Fields \ {f} : OnWire(g) => OnWire(g)'
<1> DEFINE n == Len(wire)
           k == Taken(limit)
<1>1. /\ wire \in Seq(Fields) /\ wire # <<>> /\ wire' = SubSeq(wire, Len(Message(limit)) + 1, n)
      /\ Message(limit) = SubSeq(wire, 1, k) /\ framed' = (framed /\ Message(limit) = Bytes(f))
  BY DEF TypeOK, Recv, Message, Taken
<1>2. n \in Nat \ {0} /\ \A i \in 1..n : wire[i] \in Fields
  BY <1>1, EmptySeq, ElementOfSeq
<1>3. k \in 1..n /\ k <= limit /\ (n <= limit => k = n)
  BY <1>2 DEF Taken, Smaller
<1> HIDE DEF n, k
<1>4. /\ Message(limit) \in Seq(Fields) /\ Len(Message(limit)) = k
      /\ \A i \in 1..k : Message(limit)[i] = wire[i]
  <2>1. \A i \in 1..k : wire[i] \in Fields
    BY <1>2, <1>3
  <2>2. /\ SubSeq(wire, 1, k) \in Seq(Fields) /\ Len(SubSeq(wire, 1, k)) = (IF 1 <= k THEN k - 1 + 1 ELSE 0)
        /\ \A i \in 1..(k - 1 + 1) : SubSeq(wire, 1, k)[i] = wire[1 + i - 1]
    BY <1>2, <1>3, <2>1, SubSeqProperties
  <2> QED
    BY <1>1, <1>3, <2>2
<1>5. /\ wire' \in Seq(Fields) /\ Len(wire') = n - k
      /\ \A i \in 1..(n - k) : wire'[i] = wire[i + k]
  <2>1. \A i \in (k + 1)..n : wire[i] \in Fields
    BY <1>2, <1>3
  <2>2. /\ SubSeq(wire, k + 1, n) \in Seq(Fields)
        /\ Len(SubSeq(wire, k + 1, n)) = (IF k + 1 <= n THEN n - (k + 1) + 1 ELSE 0)
        /\ \A i \in 1..(n - (k + 1) + 1) : SubSeq(wire, k + 1, n)[i] = wire[k + 1 + i - 1]
    BY <1>2, <1>3, <2>1, SubSeqProperties
  <2>3. wire' = SubSeq(wire, k + 1, n)
    BY <1>1, <1>4
  <2>4. (IF k + 1 <= n THEN n - (k + 1) + 1 ELSE 0) = n - k /\ n - (k + 1) + 1 = n - k
    BY <1>2, <1>3
  <2>5. \A i \in 1..(n - k) : k + 1 + i - 1 = i + k
    BY <1>2, <1>3
  <2> QED
    BY <2>2, <2>3, <2>4, <2>5
<1>6. Spaced'
  <2>1. SUFFICES ASSUME NEW i \in 1..(n - k), NEW j \in 1..(n - k), i <= j, wire'[i] = wire'[j]
                 PROVE  j - i < Length(wire'[i])
    BY <1>5, LengthStays DEF Spaced
  <2>2. i + k \in 1..n /\ j + k \in 1..n /\ wire'[i] = wire[i + k] /\ wire'[j] = wire[j + k]
    BY <1>2, <1>3, <1>5
  <2>3. PICK a \in 1..n, b \in 1..n : a = i + k /\ b = j + k /\ wire'[i] = wire[a] /\ wire'[j] = wire[b]
    BY <2>2
  <2>4. a <= b /\ wire[a] = wire[b]
    <3>1. a <= b
      BY <1>2, <1>3, <2>1, <2>3
    <3>2. wire[a] = wire[b]
      BY <2>1, <2>3, Zenon
    <3> QED
      BY <3>1, <3>2
  <2>5. b - a < Length(wire[a])
    BY <2>4 DEF Stream, Spaced, n
  <2>6. b - a = j - i
    BY <1>2, <1>3, <2>3
  <2> QED
    BY <2>2, <2>3, <2>5, <2>6
<1>7. ASSUME NEW g \in Fields, OnWire(g)' PROVE \E j \in (k + 1)..n : wire[j] = g
  <2>1. PICK i \in 1..(n - k) : wire'[i] = g
    BY <1>5, <1>7 DEF OnWire
  <2>2. i + k \in (k + 1)..n /\ wire[i + k] = g
    BY <1>2, <1>3, <1>5, <2>1
  <2> QED
    BY <2>2
<1>8. ASSUME NEW g \in Fields, OnWire(g)' PROVE OnWire(g)
  <2>1. PICK j \in (k + 1)..n : wire[j] = g
    BY <1>7, <1>8
  <2> QED
    BY <1>2, <1>3, <2>1 DEF OnWire, n
<1>9. ASSUME framed' PROVE /\ framed /\ Message(limit) = Bytes(f) /\ OnWire(f) /\ ~OnWire(f)'
                           /\ \A g \in Fields \ {f} : OnWire(g) => OnWire(g)'
  <2>1. framed /\ Message(limit) = Bytes(f)
    BY <1>1, <1>9
  <2>2. k = Length(f) /\ \A i \in 1..k : wire[i] = f
    BY <1>4, <2>1, BytesFacts
  <2>3. wire[1] = f /\ 1 \in 1..n
    BY <1>2, <1>3, <2>2
  <2>4. ASSUME NEW j \in (k + 1)..n, wire[j] = f PROVE FALSE
    <3>1. j \in 1..n /\ 1 <= j /\ wire[1] = wire[j]
      BY <1>2, <1>3, <2>3, <2>4
    <3>2. j - 1 < Length(f)
      BY <2>3, <3>1 DEF Stream, Spaced, n
    <3> QED
      BY <1>3, <2>2, <3>2
  <2>5. ~OnWire(f)'
    BY <1>7, <2>4
  <2>6. ASSUME NEW g \in Fields \ {f}, OnWire(g) PROVE OnWire(g)'
    <3>1. PICK i \in 1..n : wire[i] = g
      BY <2>6 DEF OnWire, n
    <3>2. i \in (k + 1)..n
      BY <1>2, <1>3, <2>2, <3>1
    <3>3. i - k \in 1..(n - k) /\ wire'[i - k] = g
      BY <1>2, <1>3, <1>5, <3>1, <3>2
    <3> QED
      BY <1>5, <3>3 DEF OnWire
  <2>7. OnWire(f)
    BY <2>3 DEF OnWire, n
  <2> QED
    BY <2>1, <2>5, <2>6, <2>7
<1> QED
  BY <1>2, <1>3, <1>4, <1>5, <1>6, <1>7, <1>8, <1>9 DEF n, k

\* The fields one by one, and the order in which they are sent.
LEMMA BeforeFacts ==
  /\ Before("size") = {"size"}
  /\ Before("checksum") = {"size", "checksum"}
  /\ Before("time") = {"size", "checksum", "time"}
  /\ Before("type") = {"size", "checksum", "time", "type"}
  /\ Before("name") = {"size", "checksum", "time", "type", "transfer", "name"}
  /\ Fields = {"size", "checksum", "time", "type", "name"}
  /\ DOMAIN NextField = {"size", "checksum", "time", "type"}
  /\ NextField["size"] = "checksum" /\ NextField["checksum"] = "time"
  /\ NextField["time"] = "type" /\ NextField["type"] = "transfer"
  BY DEF Before, Early, Fields, NextField

\* The client's next step: what is behind it stays behind, and what it is to send is
\* sent.
LEMMA ClientWire ==
  ASSUME TypeOK, Stream, Where, Client, UNCHANGED given
  PROVE  /\ wire' \in Seq(Fields) /\ Stream'
         /\ \A f \in Fields : Gone(f) => Gone(f)'
         /\ \A f \in Fields : Pending(f) => Pending(f)'
<1> DEFINE Sends(f) == /\ f \in Fields /\ SendField(f) /\ cpc \in Before(f) /\ cpc' \notin Before(f)
                       /\ \A g \in Fields \ {f} : (cpc' \in Before(g) <=> cpc \in Before(g))
           Quiet == /\ wire' = wire
                    /\ \A g \in Fields : cpc' \in Before(g) => cpc \in Before(g)
                    /\ \A g \in Fields : Real(g) /\ cpc \in Before(g) => cpc' \in Before(g)
<1>1. (\E f \in Fields : Sends(f)) \/ Quiet
  <2>1. ASSUME NEW f \in DOMAIN NextField, ClientField(f) PROVE Sends(f)
    <3>1. cpc = f /\ cpc' = NextField[f] /\ SendField(f)
      BY <2>1 DEF ClientField
    <3>2. /\ f \in Fields /\ f \in Before(f) /\ NextField[f] \notin Before(f)
          /\ \A g \in Fields \ {f} : (NextField[f] \in Before(g) <=> f \in Before(g))
      <4>1. CASE f = "size"
        BY <4>1, BeforeFacts
      <4>2. CASE f = "checksum"
        BY <4>2, BeforeFacts
      <4>3. CASE f = "time"
        BY <4>3, BeforeFacts
      <4>4. CASE f = "type"
        BY <4>4, BeforeFacts
      <4> QED
        BY <4>1, <4>2, <4>3, <4>4, BeforeFacts
    <3> QED
      BY <3>1, <3>2
  <2>2. CASE ClientName
    <3>1. SendField("name") /\ cpc \in {"transfer", "name"} /\ cpc' \in {"fifo_open", "delete"}
      BY <2>2 DEF ClientName
    <3> QED
      BY <3>1, BeforeFacts
  <2>3. CASE ClientConnects \/ ClientSendsToNobody
    <3>1. /\ wire' = wire /\ cpc = "transfer" /\ cpc' \in {"sending", "delete"}
          /\ test \notin {"mmap", "pipe"}
      BY <2>3 DEF ClientConnects, ClientSendsToNobody, Tests
    <3> QED
      BY <3>1, BeforeFacts DEF Real
  <2>4. CASE ClientShares
    <3>1. wire' = wire /\ cpc = "transfer" /\ cpc' = "name"
      BY <2>4 DEF ClientShares
    <3> QED
      BY <3>1, BeforeFacts
  <2>5. CASE \/ ClientSends \/ ClientSendsToClosed \/ ClientCloses \/ ClientOpensFifo
             \/ ClientWritesFifo \/ ClientClosesFifo \/ ClientExits
    <3>1. /\ wire' = wire /\ cpc \in {"sending", "fifo_open", "fifo_write", "delete"}
          /\ cpc' \in {"sending", "delete", "killed", "fifo_open", "fifo_write", "exited"}
      BY <2>5 DEF ClientSends, ClientSendsToClosed, ClientCloses, ClientOpensFifo,
                  ClientWritesFifo, ClientClosesFifo, ClientExits
    <3> QED
      BY <3>1, BeforeFacts
  <2>6. "name" \in Fields /\ DOMAIN NextField \subseteq Fields
    BY BeforeFacts
  <2> QED
    BY <2>1, <2>2, <2>3, <2>4, <2>5, <2>6 DEF Client
<1>2. \A f \in Fields : Real(f)' = Real(f)
  BY DEF Real, given
<1>3. ASSUME NEW f \in Fields, Sends(f)
      PROVE  /\ wire' \in Seq(Fields) /\ Stream'
             /\ \A g \in Fields : (Gone(g) => Gone(g)') /\ (Pending(g) => Pending(g)')
  <2>1. /\ wire' \in Seq(Fields) /\ Spaced'
        /\ \A g \in Fields : OnWire(g)' <=> OnWire(g) \/ (g = f /\ Length(f) # 0)
    BY <1>3, SendFacts
  <2>2. \A g \in Fields : OnWire(g)' => cpc' \notin Before(g)
    BY <1>3, <2>1 DEF Stream
  <2>3. \A g \in Fields : Gone(g) => Gone(g)'
    BY <1>3, <2>1 DEF Gone
  <2>4. Real(f) => Length(f) # 0
    BY LengthFacts DEF Real
  <2>5. \A g \in Fields : Pending(g) => Pending(g)'
    BY <1>2, <1>3, <2>1, <2>4 DEF Pending
  <2> QED
    BY <2>1, <2>2, <2>3, <2>5 DEF Stream
<1>4. CASE Quiet
  <2>1. wire' \in Seq(Fields) /\ \A g \in Fields : OnWire(g)' = OnWire(g)
    BY <1>4 DEF TypeOK, OnWire
  <2>2. Spaced'
    BY <1>4, LengthStays DEF Stream, Spaced
  <2>3. Stream'
    BY <1>4, <2>1, <2>2 DEF Stream
  <2> QED
    BY <1>2, <1>4, <2>1, <2>3 DEF Gone, Pending
<1> QED
  BY <1>1, <1>3, <1>4

\* The server's next step takes from the wire, or leaves it alone.
LEMMA ServerWire ==
  ASSUME TypeOK, Stream, Server, UNCHANGED given
  PROVE  /\ wire' \in Seq(Fields) /\ Stream' /\ cpc' = cpc /\ framed' \in BOOLEAN
         /\ framed' => framed
         /\ \A f \in Fields : Gone(f) => Gone(f)'
<1>1. \/ wire' = wire /\ framed' = framed /\ cpc' = cpc
      \/ \E limit \in Nat \ {0}, f \in Fields : Recv(limit, f) /\ cpc' = cpc
  <2>1. 1023 \in Nat \ {0} /\ 20 \in Nat \ {0} /\ {"size", "checksum", "time", "type", "name"} = Fields
    BY BeforeFacts
  <2>2. CASE ServerSize
    BY <2>1, <2>2 DEF ServerSize
  <2>3. CASE ServerChecksum
    BY <2>1, <2>3 DEF ServerChecksum
  <2>7. CASE ServerTime
    BY <2>1, <2>7 DEF ServerTime
  <2>4. CASE ServerType
    BY <2>1, <2>4 DEF ServerType
  <2>5. CASE ServerName
    BY <2>1, <2>5 DEF ServerName
  <2>6. CASE \/ ServerDisconnects \/ ServerFails \/ ServerListens \/ ServerCannotReceive
             \/ ServerAccepts \/ ServerReceives \/ ServerStopsReceiving \/ ServerMaps
             \/ ServerMapsNothing \/ ServerOpensFifo \/ ServerReadsFifo \/ ServerClosesFifo
             \/ ServerVerdict
    BY <2>6 DEF ServerDisconnects, ServerFails, ServerListens, ServerCannotReceive, ServerAccepts,
                ServerReceives, ServerStopsReceiving, ServerMaps, ServerMapsNothing, ServerOpensFifo,
                ServerReadsFifo, ServerClosesFifo, ServerVerdict
  <2> QED
    BY <2>2, <2>3, <2>4, <2>5, <2>6, <2>7 DEF Server
<1>2. CASE wire' = wire /\ framed' = framed /\ cpc' = cpc
  <2>1. wire' \in Seq(Fields) /\ framed' \in BOOLEAN /\ \A g \in Fields : OnWire(g)' = OnWire(g)
    BY <1>2 DEF TypeOK, OnWire
  <2>2. Spaced'
    BY <1>2, LengthStays DEF Stream, Spaced
  <2>3. Stream'
    BY <1>2, <2>1, <2>2 DEF Stream
  <2> QED
    BY <1>2, <2>1, <2>3 DEF Gone
<1>3. ASSUME NEW limit \in Nat \ {0}, NEW f \in Fields, Recv(limit, f), cpc' = cpc
      PROVE  /\ wire' \in Seq(Fields) /\ Stream' /\ framed' \in BOOLEAN /\ (framed' => framed)
             /\ \A g \in Fields : Gone(g) => Gone(g)'
  <2>1. /\ wire' \in Seq(Fields) /\ Spaced'
        /\ framed' => framed
        /\ \A g \in Fields : OnWire(g)' => OnWire(g)
    BY <1>3, RecvFacts
  <2>2. framed' \in BOOLEAN
    BY <1>3 DEF Recv
  <2> QED
    BY <1>3, <2>1, <2>2 DEF Stream, Gone
<1> QED
  BY <1>1, <1>2, <1>3

\* A message that is taken for the type takes all of it from the wire.
LEMMA TypeMatched ==
  ASSUME TypeOK, Stream, ServerType, IsType(Message(20)), UNCHANGED given
  PROVE  Gone("type")' /\ ~Gone("type")
<1> DEFINE k == Taken(20)
<1>1. Recv(20, "type") /\ cpc' = cpc /\ "type" \in Fields /\ 20 \in Nat \ {0}
  BY BeforeFacts DEF ServerType
<1>2. /\ Len(wire) \in Nat /\ k \in 1..Len(wire) /\ Message(20) \in Seq(Fields) /\ Len(Message(20)) = k
      /\ \A i \in 1..k : Message(20)[i] = wire[i]
      /\ OnWire("type")' => \E j \in (k + 1)..Len(wire) : wire[j] = "type"
  BY <1>1, RecvFacts
<1>3. /\ Length("type") \in Nat /\ (test \in {"mmap", "pipe"} => Length("type") = 5)
      /\ Len(Bytes("type")) = Length("type") /\ \A i \in 1..Length("type") : Bytes("type")[i] = "type"
  BY <1>1, LengthFacts, BytesFacts
<1> HIDE DEF k
<1>4. k >= Length("type") /\ Message(20)[1] = "type"
  <2>1. CASE test \in {"mmap", "pipe"}
    <3>1. SubSeq(Message(20), 1, Smaller(5, k)) = Bytes("type")
      BY <1>2, <2>1 DEF IsType
    <3>2. Smaller(5, k) \in 1..k
      BY <1>2 DEF Smaller
    <3>3. \A i \in 1..Smaller(5, k) : Message(20)[i] \in Fields
      BY <1>2, <3>2, ElementOfSeq
    <3>4. /\ Len(SubSeq(Message(20), 1, Smaller(5, k))) = Smaller(5, k)
          /\ SubSeq(Message(20), 1, Smaller(5, k))[1] = Message(20)[1]
      BY <3>2, <3>3, SubSeqProperties
    <3>5. Smaller(5, k) = 5
      BY <1>3, <2>1, <3>1, <3>4
    <3>6. k >= 5
      BY <1>2, <3>5 DEF Smaller
    <3>7. Length("type") = 5 /\ Bytes("type")[1] = "type"
      BY <1>3, <2>1
    <3> QED
      BY <3>1, <3>4, <3>6, <3>7
  <2>2. CASE test \notin {"mmap", "pipe"}
    BY <1>2, <1>3, <2>2 DEF IsType
  <2> QED
    BY <2>1, <2>2
<1>5. wire[1] = "type" /\ 1 \in 1..Len(wire)
  BY <1>2, <1>4
<1>6. OnWire("type")
  BY <1>5 DEF OnWire
<1>7. ASSUME NEW j \in (k + 1)..Len(wire), wire[j] = "type" PROVE FALSE
  <2>1. j \in 1..Len(wire) /\ 1 <= j /\ wire[1] = wire[j]
    BY <1>2, <1>5, <1>7
  <2>2. j - 1 < Length("type")
    BY <1>5, <2>1 DEF Stream, Spaced
  <2> QED
    BY <1>2, <1>3, <1>4, <2>2
<1>8. ~OnWire("type")'
  BY <1>2, <1>7
<1>9. cpc \notin Before("type")
  BY <1>1, <1>6 DEF Stream
<1> QED
  BY <1>1, <1>6, <1>8, <1>9 DEF Gone

-----------------------------------------------------------------------------
(* The steps, one part of the invariant after the other.                   *)

\* Where the two are goes with the test.
LEMMA WhereStep ==
  ASSUME TypeOK, Where, Next
  PROVE  Where'
<1>1. UNCHANGED <<test, nameLength, quiet, zeros>>
  BY GivenStays DEF given
<1>2. CASE Client
  <2>1. ASSUME NEW f \in DOMAIN NextField, ClientField(f) PROVE Where'
    <3>1. spc' = spc /\ dsock' = dsock /\ cpc' \in {"checksum", "time", "type", "transfer"}
      BY <2>1, BeforeFacts DEF ClientField, channel
    <3> QED
      BY <1>1, <3>1 DEF Where
  <2>2. CASE ClientConnects \/ ClientSendsToNobody
    BY <1>1, <2>2 DEF Where, ClientConnects, ClientSendsToNobody, channel
  <2>3. CASE ClientSends \/ ClientSendsToClosed \/ ClientCloses
    BY <1>1, <2>3 DEF Where, ClientSends, ClientSendsToClosed, ClientCloses, channel
  <2>4. CASE ClientShares \/ ClientName
    BY <1>1, <2>4 DEF Where, ClientShares, ClientName, channel
  <2>5. CASE ClientOpensFifo \/ ClientWritesFifo \/ ClientClosesFifo \/ ClientExits
    BY <1>1, <2>5 DEF Where, ClientOpensFifo, ClientWritesFifo, ClientClosesFifo, ClientExits, channel
  <2> QED
    BY <1>2, <2>1, <2>2, <2>3, <2>4, <2>5 DEF Client
<1>3. CASE Server
  <2> USE DEF Where, ToReceive, ToCopy
  <2>1. CASE ServerSize \/ ServerDisconnects \/ ServerChecksum \/ ServerTime \/ ServerFails
    <3>1. cpc' = cpc /\ dsock' = dsock /\ spc' \in {"checksum", "accept", "time", "type", "failed"}
      <4> HIDE DEF Where, ToReceive, ToCopy
      <4>1. CASE ServerSize \/ ServerDisconnects
        BY <4>1 DEF ServerSize, ServerDisconnects, channel
      <4>2. CASE ServerChecksum \/ ServerTime \/ ServerFails
        BY <4>2 DEF ServerChecksum, ServerTime, ServerFails, channel
      <4> QED
        BY <2>1, <4>1, <4>2
    <3> QED
      BY <1>1, <3>1
  <2>2. CASE ServerType
    <3>1. /\ cpc' = cpc /\ dsock' = dsock
          /\ spc' = "nothing" \/ (spc' = IF test \in {"mmap", "pipe"} THEN "name" ELSE "receive")
      <4> HIDE DEF Where, ToReceive, ToCopy
      <4> QED
        BY <2>2 DEF ServerType, channel
    <3> QED
      BY <1>1, <3>1
  <2>3. CASE ServerName
    <3>1. /\ spc = "name" /\ cpc' = cpc /\ dsock' = dsock
          /\ spc' = "wrong_name" \/ (spc' = IF test = "mmap" THEN "map" ELSE "fifo_open")
      <4> HIDE DEF Where, ToReceive, ToCopy
      <4>1. spc = "name" /\ cpc' = cpc /\ channel' = channel
        BY <2>3 DEF ServerName
      <4>2. spc' = "wrong_name" \/ (spc' = IF test = "mmap" THEN "map" ELSE "fifo_open")
        BY <2>3 DEF ServerName
      <4> QED
        BY <4>1, <4>2 DEF channel
    <3> QED
      BY <1>1, <3>1
  <2>4. CASE ServerListens \/ ServerCannotReceive \/ ServerAccepts
    BY <1>1, <2>4 DEF ServerListens, ServerCannotReceive, ServerAccepts, channel
  <2>5. CASE ServerReceives \/ ServerStopsReceiving
    BY <1>1, <2>5 DEF ServerReceives, ServerStopsReceiving
  <2>6. CASE ServerMaps \/ ServerMapsNothing \/ ServerVerdict
    BY <1>1, <2>6 DEF ServerMaps, ServerMapsNothing, ServerVerdict, channel
  <2>7. CASE ServerOpensFifo \/ ServerReadsFifo \/ ServerClosesFifo
    BY <1>1, <2>7 DEF ServerOpensFifo, ServerReadsFifo, ServerClosesFifo
  <2> QED
    BY <1>3, <2>1, <2>2, <2>3, <2>4, <2>5, <2>6, <2>7 DEF Server
<1> QED
  BY <1>2, <1>3 DEF Next

\* The type goes over the wire once, so that one transfer at most is made.
LEMMA OnceStep ==
  ASSUME TypeOK, Stream, Where, Once, Next
  PROVE  Once'
<1>1. UNCHANGED given
  BY GivenStays
<1>2. CASE Client
  <2>1. Gone("type") => Gone("type")'
    BY <1>1, <1>2, ClientWire, BeforeFacts
  <2>2. spc' = spc /\ verdict' = verdict /\ (dsock' = dsock \/ (dsock = "listening" /\ dsock' = "connected"))
    BY <1>2 DEF Client, ClientField, ClientConnects, ClientSendsToNobody, ClientSends,
       ClientSendsToClosed, ClientCloses, ClientShares, ClientName, ClientOpensFifo,
       ClientWritesFifo, ClientClosesFifo, ClientExits, channel, fifo
  <2>3. spc = "receive" => dsock' = "none"
    BY <2>2 DEF Once
  <2> QED
    BY <2>1, <2>2, <2>3 DEF Once
<1>3. CASE Server
  <2>1. Gone("type") => Gone("type")'
    BY <1>1, <1>3, ServerWire, BeforeFacts
  <2>2. CASE ServerType /\ IsType(Message(20))
    <3>1. Gone("type")' /\ ~Gone("type")
      BY <1>1, <2>2, TypeMatched
    <3>2. dsock = "none" /\ verdict # "equal"
      BY <3>1 DEF Once
    <3>3. dsock' = dsock /\ verdict' = verdict
      BY <2>2 DEF ServerType, channel
    <3> QED
      BY <3>1, <3>2, <3>3 DEF Once
  <2>3. CASE ServerVerdict
    <3>1. spc' = "poll" /\ dsock' = dsock
      BY <2>3 DEF ServerVerdict, channel
    <3>2. verdict' = "equal" => spc = "copied"
      BY <2>3 DEF ServerVerdict, SameChecksum
    <3>3. verdict' = "equal" \/ dsock' # "none" => Gone("type")
      BY <3>1, <3>2 DEF Once, ToCopy
    <3> QED
      BY <2>1, <3>1, <3>3 DEF Once, ToReceive, ToCopy
  <2>4. CASE ~ServerVerdict /\ ~(ServerType /\ IsType(Message(20)))
    <3>1. /\ verdict' = verdict /\ spc' # "receive"
          /\ dsock' # "none" => dsock # "none" \/ spc \in ToReceive
          /\ spc' \in ToReceive \cup ToCopy => spc \in ToReceive \cup ToCopy
      <4> USE DEF ToReceive, ToCopy
      <4>1. CASE ServerSize \/ ServerDisconnects \/ ServerChecksum \/ ServerTime \/ ServerFails
        BY <4>1 DEF ServerSize, ServerDisconnects, ServerChecksum, ServerTime, ServerFails, channel
      <4>2. CASE ServerType \/ ServerName
        BY <2>4, <4>2 DEF ServerType, ServerName, channel
      <4>3. CASE ServerListens \/ ServerCannotReceive \/ ServerAccepts
        BY <4>3 DEF ServerListens, ServerCannotReceive, ServerAccepts, channel
      <4>4. CASE ServerReceives \/ ServerStopsReceiving
        BY <4>4 DEF ServerReceives, ServerStopsReceiving
      <4>5. CASE ServerMaps \/ ServerMapsNothing
        BY <4>5 DEF ServerMaps, ServerMapsNothing, channel
      <4>6. CASE ServerOpensFifo \/ ServerReadsFifo \/ ServerClosesFifo
        BY <4>6 DEF ServerOpensFifo, ServerReadsFifo, ServerClosesFifo
      <4> QED
        BY <1>3, <2>4, <4>1, <4>2, <4>3, <4>4, <4>5, <4>6 DEF Server
    <3> QED
      BY <2>1, <3>1 DEF Once, ToReceive
  <2> QED
    BY <2>2, <2>3, <2>4
<1> QED
  BY <1>2, <1>3 DEF Next
\* While each recv has returned one field, the client is not behind the server.
LEMMA FramedStep ==
  ASSUME TypeOK, Stream, Where, Framed, Next
  PROVE  Framed'
<1>1. UNCHANGED given /\ quiet' = quiet
  BY GivenStays DEF given
<1>2. CASE Client
  <2>1. \A f \in Fields : (Gone(f) => Gone(f)') /\ (Pending(f) => Pending(f)')
    BY <1>1, <1>2, ClientWire
  <2>2. spc' = spc /\ fileSize' = fileSize /\ framed' = framed
    BY <1>2 DEF Client, ClientField, ClientConnects, ClientSendsToNobody, ClientSends,
       ClientSendsToClosed, ClientCloses, ClientShares, ClientName, ClientOpensFifo,
       ClientWritesFifo, ClientClosesFifo, ClientExits
  <2>3. Expected' = Expected /\ Expected \subseteq Fields /\ "size" \in Fields
    BY <2>2, BeforeFacts DEF Expected
  <2> QED
    BY <1>1, <2>1, <2>2, <2>3 DEF Framed
<1>3. CASE Server
  <2>1. /\ framed' => framed
        /\ cpc' = cpc
        /\ Gone("size") => Gone("size")'
    BY <1>1, <1>3, ServerWire, BeforeFacts
  <2>2. ASSUME NEW limit \in Nat \ {0}, NEW f \in Fields, Recv(limit, f), framed'
        PROVE  /\ OnWire(f) /\ Gone(f)' /\ Message(limit) = Bytes(f)
               /\ \A g \in Fields \ {f} : Pending(g) => Pending(g)'
    <3>1. /\ OnWire(f) /\ ~OnWire(f)' /\ Message(limit) = Bytes(f)
          /\ \A g \in Fields \ {f} : OnWire(g) => OnWire(g)'
      BY <1>1, <2>2, RecvFacts
    <3>2. cpc \notin Before(f)
      BY <3>1 DEF Stream
    <3>3. \A g \in Fields : Real(g)' = Real(g)
      BY <1>1 DEF Real, given
    <3> QED
      BY <2>1, <3>1, <3>2, <3>3 DEF Gone, Pending
  <2>3. 1023 \in Nat \ {0} /\ 20 \in Nat \ {0}
    OBVIOUS
  <2>4. CASE ServerSize
    <3>1. SUFFICES ASSUME framed' PROVE Framed'
      BY DEF Framed
    <3>2. spc = "poll" /\ spc' = "checksum" /\ Recv(1023, "size")
      BY <2>4 DEF ServerSize
    <3>3. OnWire("size") /\ Gone("size")' /\ Message(1023) = Bytes("size")
      BY <2>2, <2>3, <3>1, <3>2, BeforeFacts
    <3>4. \A f \in {"checksum", "time", "type", "name"} : Pending(f)
      BY <2>1, <3>1, <3>2, <3>3 DEF Framed, Gone, Expected
    <3>5. \A f \in {"checksum", "time", "type", "name"} : Pending(f)'
      BY <2>2, <2>3, <3>1, <3>2, <3>4, BeforeFacts
    <3>6. ~quiet => fileSize' = Chunks
      BY <2>4, <3>3 DEF ServerSize
    <3>7. Expected' = {"checksum", "time", "type", "name"}
      BY <3>2 DEF Expected
    <3> QED
      BY <1>1, <3>3, <3>5, <3>6, <3>7 DEF Framed
  <2>5. CASE ServerChecksum \/ ServerTime \/ ServerType
    <3>1. SUFFICES ASSUME framed' PROVE Framed'
      BY DEF Framed
    <3>2. PICK f \in Fields : Recv(20, f) /\ spc = f /\ f \in {"checksum", "time", "type"}
      BY <2>5, BeforeFacts DEF ServerChecksum, ServerTime, ServerType
    <3>3. Expected' \subseteq Expected \ {f} /\ Expected \subseteq Fields /\ spc' # "poll"
      <4>1. CASE ServerChecksum
        BY <3>2, <4>1, BeforeFacts DEF ServerChecksum, Expected
      <4>2. CASE ServerTime
        BY <3>2, <4>2, BeforeFacts DEF ServerTime, Expected
      <4>3. CASE ServerType
        <5>1. spc = "type" /\ spc' \in {"nothing", "name", "receive"}
          BY <4>3 DEF ServerType
        <5> QED
          BY <3>2, <5>1, BeforeFacts DEF Expected
      <4> QED
        BY <2>5, <4>1, <4>2, <4>3
    <3>4. \A g \in Expected : Pending(g)
      BY <2>1, <3>1, <3>2 DEF Framed
    <3>5. \A g \in Expected' : Pending(g)'
      BY <2>2, <2>3, <3>1, <3>2, <3>3, <3>4
    <3>6. fileSize' = fileSize
      BY <2>5 DEF ServerChecksum, ServerTime, ServerType
    <3>7. Gone("size") /\ (~quiet => fileSize = Chunks)
      BY <2>1, <3>1, <3>2 DEF Framed
    <3> QED
      BY <1>1, <2>1, <3>5, <3>6, <3>7 DEF Framed
  <2>6. CASE ServerDisconnects
    <3>1. spc' = "accept"
      BY <2>6 DEF ServerDisconnects
    <3>2. Expected' = {}
      BY <3>1 DEF Expected
    <3> QED
      BY <3>1, <3>2 DEF Framed
  <2>7. CASE ServerVerdict
    <3>1. spc \in {"copied", "nothing", "error"} /\ spc' = "poll"
      BY <2>7 DEF ServerVerdict
    <3>2. framed' => Gone("size")'
      BY <2>1, <3>1 DEF Framed
    <3> QED
      BY <3>1, <3>2 DEF Framed
  <2>8. CASE \/ ServerFails \/ ServerName \/ ServerListens \/ ServerCannotReceive \/ ServerAccepts
             \/ ServerReceives \/ ServerStopsReceiving \/ ServerMaps \/ ServerMapsNothing
             \/ ServerOpensFifo \/ ServerReadsFifo \/ ServerClosesFifo
    <3>1. spc \notin {"poll", "accept"} /\ fileSize' = fileSize
      BY <2>8 DEF ServerFails, ServerName, ServerListens, ServerCannotReceive, ServerAccepts,
         ServerReceives, ServerStopsReceiving, ServerMaps, ServerMapsNothing, ServerOpensFifo,
         ServerReadsFifo, ServerClosesFifo
    <3>2. spc' \notin {"poll", "checksum", "time", "type", "name"}
      <4>1. CASE ServerFails \/ ServerListens \/ ServerCannotReceive \/ ServerAccepts
        BY <4>1 DEF ServerFails, ServerListens, ServerCannotReceive, ServerAccepts
      <4>2. CASE ServerName
        <5>1. spc' \in {"wrong_name", "map", "fifo_open"}
          BY <4>2 DEF ServerName
        <5> QED
          BY <5>1
      <4>3. CASE ServerReceives \/ ServerStopsReceiving \/ ServerMaps \/ ServerMapsNothing
        BY <4>3 DEF ServerReceives, ServerStopsReceiving, ServerMaps, ServerMapsNothing
      <4>4. CASE ServerOpensFifo \/ ServerReadsFifo \/ ServerClosesFifo
        BY <4>4 DEF ServerOpensFifo, ServerReadsFifo, ServerClosesFifo
      <4> QED
        BY <2>8, <4>1, <4>3, <4>4, <4>2
    <3>3. Expected' = {}
      BY <3>2 DEF Expected
    <3> QED
      BY <1>1, <2>1, <3>1, <3>3 DEF Framed
  <2> QED
    BY <1>3, <2>4, <2>5, <2>6, <2>7, <2>8 DEF Server
<1> QED
  BY <1>2, <1>3 DEF Next

\* How much of the file is where, step by step.
LEMMA AmountsStep ==
  ASSUME TypeOK, Stream, Where, Framed, Amounts, Next
  PROVE  Amounts'
<1>1. UNCHANGED given /\ test' = test /\ quiet' = quiet
  BY GivenStays DEF given
<1>2. /\ Chunks \in Nat /\ sent \in 0..Chunks /\ received \in 0..Chunks /\ inflight \in Nat
  BY PerfTestAssumption DEF TypeOK
<1>3. CASE Client
  <2>1. ASSUME NEW f \in DOMAIN NextField, ClientField(f) PROVE Amounts'
    BY <1>1, <2>1 DEF ClientField, Amounts, channel
  <2>2. CASE ClientConnects
    BY <1>1, <2>2 DEF ClientConnects, Amounts, fifo
  <2>3. CASE ClientSendsToNobody \/ ClientName \/ ClientExits
    <3>1. UNCHANGED <<spc, received, inflight, sent, eof, fifoW, dsock, framed>>
      BY <2>3 DEF ClientSendsToNobody, ClientName, ClientExits, channel
    <3> QED
      BY <1>1, <3>1 DEF Amounts
  <2>4. CASE ClientSends
    BY <1>1, <1>2, <2>4 DEF ClientSends, Amounts, fifo
  <2>5. CASE ClientSendsToClosed
    BY <1>1, <1>2, <2>5 DEF ClientSendsToClosed, Amounts, channel
  <2>6. CASE ClientCloses \/ ClientShares
    BY <1>1, <2>6 DEF ClientCloses, ClientShares, Amounts, fifo
  <2>7. CASE ClientOpensFifo \/ ClientClosesFifo
    BY <1>1, <2>7 DEF ClientOpensFifo, ClientClosesFifo, Amounts
  <2>8. CASE ClientWritesFifo
    BY <1>1, <1>2, <2>8 DEF ClientWritesFifo, Amounts, fifo
  <2> QED
    BY <1>3, <2>1, <2>2, <2>3, <2>4, <2>5, <2>6, <2>7, <2>8 DEF Client
<1>4. CASE Server
  <2>1. framed' => framed
    BY <1>1, <1>4, ServerWire
  <2>2. CASE ServerSize \/ ServerDisconnects \/ ServerChecksum \/ ServerTime \/ ServerFails
    <3>1. /\ UNCHANGED <<received, inflight, sent, eof, fifoW, dsock>>
          /\ spc' \in {"checksum", "accept", "time", "type", "failed"}
      BY <2>2 DEF ServerSize, ServerDisconnects, ServerChecksum, ServerTime, ServerFails, channel
    <3> QED
      BY <1>1, <2>1, <3>1 DEF Amounts
  <2>3. CASE ServerType \/ ServerName
    <3>1. /\ UNCHANGED <<received, inflight, sent, eof, fifoW, dsock>>
          /\ spc' # "fifo_read"
      BY <2>3 DEF ServerType, ServerName, channel
    <3> QED
      BY <1>1, <2>1, <3>1 DEF Amounts
  <2>4. CASE ServerCannotReceive \/ ServerAccepts \/ ServerMapsNothing \/ ServerVerdict
    BY <1>1, <2>1, <2>4 DEF ServerCannotReceive, ServerAccepts, ServerMapsNothing, ServerVerdict,
                            Amounts, channel
  <2>5. CASE ServerListens
    BY <1>1, <2>1, <2>5 DEF ServerListens, Amounts, fifo
  <2>6. CASE ServerReceives \/ ServerReadsFifo
    BY <1>1, <1>2, <2>1, <2>6 DEF ServerReceives, ServerReadsFifo, Amounts, fifo
  <2>7. CASE ServerStopsReceiving
    <3>1. /\ spc = "data_recv" /\ spc' = "nothing" /\ inflight' = 0 /\ framed' = framed
          /\ UNCHANGED <<received, sent, eof, fifoW>>
          /\ received >= fileSize \/ eof
      BY <2>7 DEF ServerStopsReceiving, fifo
    <3>2. test # "mmap"
      BY <3>1 DEF Where, ToReceive
    <3>3. received + inflight <= sent
      BY <3>2 DEF Amounts
    <3>4. framed /\ ~quiet => fileSize = Chunks
      BY <3>1 DEF Framed
    <3>5. framed /\ ~quiet => sent = Chunks
      BY <1>2, <3>1, <3>3, <3>4 DEF Amounts
    <3> QED
      BY <1>1, <1>2, <3>1, <3>3, <3>5 DEF Amounts
  <2>8. CASE ServerMaps
    <3>1. test = "mmap"
      BY <2>8 DEF ServerMaps, Where
    <3> QED
      BY <1>1, <2>1, <2>8, <3>1 DEF ServerMaps, Amounts, channel
  <2>9. CASE ServerOpensFifo \/ ServerClosesFifo
    BY <1>1, <2>1, <2>9 DEF ServerOpensFifo, ServerClosesFifo, Amounts
  <2> QED
    BY <1>4, <2>2, <2>3, <2>4, <2>5, <2>6, <2>7, <2>8, <2>9 DEF Server
<1> QED
  BY <1>3, <1>4 DEF Next

\* Types.  That the copy never exceeds the file needs what is sent and what is on its
\* way; that of the shared file needs only the server's guard.
LEMMA TypeStep ==
  ASSUME TypeOK, Stream, Where, Amounts, Next
  PROVE  TypeOK'
<1>1. UNCHANGED given
  BY GivenStays
<1>2. /\ Chunks \in Nat \ {0} /\ sent \in 0..Chunks /\ received \in 0..Chunks
      /\ Capacity \in Nat \ {0} /\ inflight \in 0..Capacity /\ fileSize \in -1..(Chunks + 1)
  BY PerfTestAssumption DEF TypeOK
<1> DEFINE Control == /\ cpc \in {"size", "checksum", "time", "type", "transfer", "sending", "name",
                                  "fifo_open", "fifo_write", "delete", "exited", "killed"}
                      /\ spc \in {"poll", "checksum", "time", "type", "name", "wrong_name", "receive",
                                  "data_accept", "data_recv", "map", "fifo_open", "fifo_read", "copied",
                                  "nothing", "error", "accept", "failed", "killed"}
           Numbers == /\ fileSize \in -1..(Chunks + 1)
                      /\ inflight \in 0..Capacity /\ sent \in 0..Chunks /\ received \in 0..Chunks
           Ends == /\ dsock \in {"none", "listening", "connected", "closed"}
                   /\ eof \in BOOLEAN /\ shared \in BOOLEAN
                   /\ fifoW \in {"none", "opening", "open", "closed"}
                   /\ fifoR \in {"none", "opening", "open", "closed"}
           Said == sumRight \in BOOLEAN /\ verdict \in {"none", "equal", "different", "lost"}
<1>3. Control /\ Numbers /\ Ends /\ Said
  BY DEF TypeOK
<1>4. SUFFICES Control' /\ Numbers' /\ Ends' /\ Said' /\ wire' \in Seq(Fields) /\ framed' \in BOOLEAN
  BY <1>1 DEF TypeOK, given
<1>5. CASE Client
  <2>1. wire' \in Seq(Fields)
    BY <1>1, <1>5, ClientWire
  <2>2. framed' \in BOOLEAN /\ Said'
    <3>1. UNCHANGED <<framed, sumRight, verdict>>
      BY <1>5 DEF Client, ClientField, ClientConnects, ClientSendsToNobody, ClientSends,
       ClientSendsToClosed, ClientCloses, ClientShares, ClientName, ClientOpensFifo,
       ClientWritesFifo, ClientClosesFifo, ClientExits
    <3> QED
      BY <1>3, <3>1 DEF TypeOK
  <2>3. Control' /\ Numbers' /\ Ends'
    <3>1. ASSUME NEW f \in DOMAIN NextField, ClientField(f) PROVE Control' /\ Numbers' /\ Ends'
      <4>1. cpc' \in {"checksum", "time", "type", "transfer"} /\ UNCHANGED <<spc, fileSize, sent, channel, received>>
        BY <3>1, BeforeFacts DEF ClientField
      <4> QED
        BY <1>3, <4>1 DEF channel
    <3>2. CASE ClientConnects
      <4>1. /\ cpc' \in {"sending", "delete"} /\ dsock' \in {"connected", dsock}
            /\ UNCHANGED <<spc, fileSize, inflight, sent, eof, fifo, shared, received>>
        BY <3>2 DEF ClientConnects
      <4> QED
        BY <1>3, <4>1 DEF fifo
    <3>8. CASE ClientSendsToNobody \/ ClientExits
      BY <1>3, <3>8 DEF ClientSendsToNobody, ClientExits, channel
    <3>3. CASE ClientSends \/ ClientWritesFifo
      BY <1>2, <1>3, <3>3 DEF ClientSends, ClientWritesFifo, fifo
    <3>4. CASE ClientSendsToClosed
      BY <1>2, <1>3, <3>4 DEF ClientSendsToClosed, channel
    <3>5. CASE ClientCloses \/ ClientShares
      BY <1>3, <3>5 DEF ClientCloses, ClientShares, fifo
    <3>6. CASE ClientName
      <4>1. cpc' \in {"fifo_open", "delete"} /\ UNCHANGED <<spc, fileSize, sent, channel, received>>
        BY <3>6 DEF ClientName
      <4> QED
        BY <1>3, <4>1 DEF channel
    <3>7. CASE ClientOpensFifo \/ ClientClosesFifo
      BY <1>3, <3>7 DEF ClientOpensFifo, ClientClosesFifo
    <3> QED
      BY <1>5, <3>1, <3>2, <3>3, <3>4, <3>5, <3>6, <3>7, <3>8 DEF Client
  <2> QED
    BY <2>1, <2>2, <2>3
<1>6. CASE Server
  <2>1. wire' \in Seq(Fields) /\ framed' \in BOOLEAN /\ cpc' = cpc
    BY <1>1, <1>6, ServerWire
  <2>2. CASE ServerSize
    <3>1. /\ spc' = "checksum" /\ fileSize' \in -1..(Chunks + 1)
          /\ UNCHANGED <<sumRight, sent, channel, received, verdict>>
      BY <1>2, <2>2 DEF ServerSize
    <3> QED
      BY <1>3, <2>1, <3>1 DEF channel
  <2>3. CASE ServerDisconnects \/ ServerChecksum \/ ServerTime \/ ServerFails
    <3>1. /\ spc' \in {"accept", "time", "type", "failed"} /\ sumRight' \in BOOLEAN
          /\ UNCHANGED <<fileSize, sent, channel, received, verdict>>
      BY <1>3, <2>3 DEF ServerDisconnects, ServerChecksum, ServerTime, ServerFails
    <3> QED
      BY <1>3, <2>1, <3>1 DEF channel
  <2>4. CASE ServerType \/ ServerName
    <3>1. /\ spc' \in {"nothing", "name", "receive", "wrong_name", "map", "fifo_open"}
          /\ UNCHANGED <<fileSize, sumRight, sent, channel, received, verdict>>
      BY <2>4 DEF ServerType, ServerName
    <3> QED
      BY <1>3, <2>1, <3>1 DEF channel
  <2>5. CASE ServerCannotReceive \/ ServerAccepts \/ ServerMapsNothing
    <3>1. /\ spc' \in {"error", "data_recv", "copied"}
          /\ UNCHANGED <<fileSize, sumRight, sent, channel, received, verdict>>
      BY <2>5 DEF ServerCannotReceive, ServerAccepts, ServerMapsNothing
    <3> QED
      BY <1>3, <2>1, <3>1 DEF channel
  <2>6. CASE ServerVerdict
    <3>1. /\ spc' = "poll" /\ verdict' \in {"none", "equal", "lost", "different"}
          /\ UNCHANGED <<fileSize, sumRight, sent, channel, received>>
      BY <2>6 DEF ServerVerdict
    <3> QED
      BY <1>3, <2>1, <3>1 DEF channel
  <2>7. CASE ServerListens \/ ServerOpensFifo \/ ServerClosesFifo
    <3>1. /\ spc' \in {"data_accept", "fifo_open", "fifo_read", "copied"}
          /\ dsock' \in {dsock, "listening"} /\ fifoR' \in {fifoR, "opening", "open", "closed"}
          /\ UNCHANGED <<fileSize, sumRight, inflight, sent, eof, fifoW, shared, received, verdict>>
      BY <2>7 DEF ServerListens, ServerOpensFifo, ServerClosesFifo, fifo
    <3> QED
      BY <1>3, <2>1, <3>1
  <2>8. CASE ServerReceives \/ ServerReadsFifo
    <3>1. inflight > 0 /\ inflight' = inflight - 1 /\ received' = received + 1 /\ spc' = spc
          /\ UNCHANGED <<fileSize, sumRight, dsock, sent, eof, fifoW, fifoR, shared, verdict>>
      BY <2>8 DEF ServerReceives, ServerReadsFifo, fifo
    <3>2. test # "mmap"
      BY <2>8 DEF ServerReceives, ServerReadsFifo, Where, ToReceive
    <3>3. received + inflight <= sent
      BY <3>2 DEF Amounts
    <3>4. received' \in 0..Chunks /\ inflight' \in 0..Capacity
      BY <1>2, <3>1, <3>3
    <3> QED
      BY <1>3, <2>1, <3>1, <3>4
  <2>9. CASE ServerStopsReceiving
    BY <1>2, <1>3, <2>1, <2>9 DEF ServerStopsReceiving, fifo
  <2>10. CASE ServerMaps
    <3>1. received' \in 0..Chunks /\ spc' \in {"killed", "copied"}
      BY <1>2, <2>10 DEF ServerMaps
    <3>2. UNCHANGED <<fileSize, sumRight, sent, channel, verdict>>
      BY <2>10 DEF ServerMaps
    <3> QED
      BY <1>3, <2>1, <3>1, <3>2 DEF channel
  <2> QED
    BY <1>6, <2>2, <2>3, <2>4, <2>5, <2>6, <2>7, <2>8, <2>9, <2>10 DEF Server
<1> QED
  BY <1>5, <1>6 DEF Next

\* The name of the file, and the shared file.
LEMMA NamedStep ==
  ASSUME TypeOK, Stream, Where, Framed, Named, Next
  PROVE  Named'
<1>1. UNCHANGED given /\ test' = test /\ quiet' = quiet /\ nameLength' = nameLength
  BY GivenStays DEF given
<1>2. NameCoversType' = NameCoversType
  BY <1>1 DEF NameCoversType
<1>3. CASE Client
  <2>1. UNCHANGED <<spc, received, framed>>
    BY <1>3 DEF Client, ClientField, ClientConnects, ClientSendsToNobody, ClientSends,
       ClientSendsToClosed, ClientCloses, ClientShares, ClientName, ClientOpensFifo,
       ClientWritesFifo, ClientClosesFifo, ClientExits
  <2> QED
    BY <1>1, <1>2, <2>1 DEF Named
<1>4. CASE Server
  <2>1. framed' => framed
    BY <1>1, <1>4, ServerWire
  <2>2. CASE ServerName
    <3>1. SUFFICES ASSUME framed', NameCoversType, spc' = "wrong_name" PROVE FALSE
      <4>1. spc' # "copied"
        BY <2>2 DEF ServerName
      <4> QED
        BY <1>2, <3>1, <4>1 DEF Named
    <3>2. CASE Recv(1023, "name")
      <4>1. Message(1023) = Bytes("name")
        <5>1. 1023 \in Nat \ {0} /\ "name" \in Fields
          BY BeforeFacts
        <5> QED
          BY <1>1, <3>1, <3>2, <5>1, RecvFacts
      <4>2. nameLength < 4
        <5>1. ~Disconnected
          BY <3>2 DEF Disconnected, Recv
        <5>2. spc' = IF Message(1023) # Bytes("name") \/ nameLength < 4 THEN "wrong_name"
                     ELSE IF test = "mmap" THEN "map" ELSE "fifo_open"
          BY <2>2, <5>1 DEF ServerName
        <5> QED
          BY <3>1, <4>1, <5>2
      <4>3. nameLength \in Nat
        BY PerfTestAssumption DEF TypeOK
      <4> QED
        BY <3>1, <4>2, <4>3 DEF NameCoversType
    <3>3. CASE Disconnected
      <4>1. spc = "name" /\ test \in {"mmap", "pipe"}
        BY <2>2 DEF ServerName, Where, ToCopy
      <4>2. Pending("name") /\ Real("name")
        BY <2>1, <3>1, <4>1 DEF Framed, Expected, Real
      <4>3. ~OnWire("name") /\ cpc \notin Before("name")
        BY <3>3, BeforeFacts DEF Disconnected, ClientGone, OnWire
      <4> QED
        BY <4>2, <4>3 DEF Pending
    <3> QED
      BY <2>2, <3>2, <3>3 DEF ServerName
  <2>3. CASE ServerMaps
    <3>1. spc' # "wrong_name" /\ (spc' = "copied" => received' = IF fileSize > 0 THEN fileSize ELSE 0)
      BY <2>3 DEF ServerMaps
    <3>2. framed /\ ~quiet => fileSize = Chunks
      BY <2>3 DEF Framed, ServerMaps
    <3>3. Chunks > 0
      BY PerfTestAssumption
    <3> QED
      BY <1>1, <1>2, <2>1, <3>1, <3>2, <3>3 DEF Named
  <2>4. CASE ServerMapsNothing
    BY <1>1, <1>2, <2>1, <2>4 DEF ServerMapsNothing, Named
  <2>5. CASE ServerClosesFifo
    <3>1. test = "pipe" /\ spc' = "copied"
      BY <2>5 DEF ServerClosesFifo, Where
    <3> QED
      BY <1>1, <3>1 DEF Named
  <2>6. CASE ~(ServerName \/ ServerMaps \/ ServerMapsNothing \/ ServerClosesFifo)
    <3>1. spc' \notin {"wrong_name", "copied"}
      <4>1. CASE ServerSize \/ ServerDisconnects
        BY <4>1 DEF ServerSize, ServerDisconnects
      <4>5. CASE ServerChecksum \/ ServerTime \/ ServerFails
        BY <4>5 DEF ServerChecksum, ServerTime, ServerFails
      <4>2. CASE ServerType
        <5>1. spc' \in {"nothing", "name", "receive"}
          BY <4>2 DEF ServerType
        <5> QED
          BY <5>1
      <4>3. CASE ServerListens \/ ServerCannotReceive \/ ServerAccepts \/ ServerReceives
        BY <4>3 DEF ServerListens, ServerCannotReceive, ServerAccepts, ServerReceives
      <4>4. CASE ServerStopsReceiving \/ ServerOpensFifo \/ ServerReadsFifo \/ ServerVerdict
        BY <4>4 DEF ServerStopsReceiving, ServerOpensFifo, ServerReadsFifo, ServerVerdict
      <4> QED
        BY <1>4, <2>6, <4>1, <4>2, <4>3, <4>4, <4>5 DEF Server
    <3> QED
      BY <3>1 DEF Named
  <2> QED
    BY <2>2, <2>3, <2>4, <2>5, <2>6
<1> QED
  BY <1>3, <1>4 DEF Next

\* The data connection and the FIFO lose nothing.
LEMMA TransferStep ==
  ASSUME TypeOK, Where, Once, Amounts, TransferWhole, Next
  PROVE  TransferWhole'
<1>1. test' = test
  BY GivenStays DEF given
<1>2. /\ Chunks \in Nat /\ sent \in 0..Chunks /\ received \in 0..Chunks /\ inflight \in Nat
  BY PerfTestAssumption DEF TypeOK
<1>3. CASE Client
  <2>1. ASSUME NEW f \in DOMAIN NextField, ClientField(f) PROVE TransferWhole'
    BY <1>1, <2>1 DEF ClientField, TransferWhole, channel
  <2>2. CASE ClientConnects \/ ClientSendsToNobody
    BY <1>1, <2>2 DEF ClientConnects, ClientSendsToNobody, TransferWhole, channel
  <2>3. CASE ClientSends \/ ClientWritesFifo
    BY <1>1, <1>2, <2>3 DEF ClientSends, ClientWritesFifo, TransferWhole
  <2>4. CASE ClientSendsToClosed
    <3>1. test # "pipe"
      BY <2>4 DEF ClientSendsToClosed, Where
    <3> QED
      BY <1>1, <2>4, <3>1 DEF ClientSendsToClosed, TransferWhole, channel
  <2>5. CASE ClientCloses \/ ClientShares \/ ClientOpensFifo \/ ClientClosesFifo
    BY <1>1, <2>5 DEF ClientCloses, ClientShares, ClientOpensFifo, ClientClosesFifo, TransferWhole
  <2>6. CASE ClientName \/ ClientExits
    <3>1. UNCHANGED <<spc, dsock, sent, received, inflight>>
      BY <2>6 DEF ClientName, ClientExits, channel
    <3> QED
      BY <1>1, <3>1 DEF TransferWhole
  <2> QED
    BY <1>3, <2>1, <2>2, <2>3, <2>4, <2>5, <2>6 DEF Client
<1>4. CASE Server
  <2>1. CASE ServerSize \/ ServerDisconnects \/ ServerChecksum \/ ServerTime \/ ServerFails
    <3>1. UNCHANGED <<dsock, sent, received, inflight>> /\ spc' # "copied"
      BY <2>1 DEF ServerSize, ServerDisconnects, ServerChecksum, ServerTime, ServerFails, channel
    <3> QED
      BY <1>1, <3>1 DEF TransferWhole
  <2>2. CASE ServerType \/ ServerName
    <3>1. UNCHANGED <<dsock, sent, received, inflight>> /\ spc' # "copied"
      BY <2>2 DEF ServerType, ServerName, channel
    <3> QED
      BY <1>1, <3>1 DEF TransferWhole
  <2>3. CASE ServerListens
    BY <1>1, <2>3 DEF ServerListens, Once, TransferWhole
  <2>4. CASE ServerCannotReceive \/ ServerAccepts \/ ServerVerdict
    <3>1. UNCHANGED <<dsock, sent, received, inflight>> /\ spc' # "copied"
      BY <2>4 DEF ServerCannotReceive, ServerAccepts, ServerVerdict, channel
    <3> QED
      BY <1>1, <3>1 DEF TransferWhole
  <2>5. CASE ServerReceives \/ ServerReadsFifo
    BY <1>1, <1>2, <2>5 DEF ServerReceives, ServerReadsFifo, TransferWhole
  <2>6. CASE ServerStopsReceiving
    BY <1>1, <2>6 DEF ServerStopsReceiving, TransferWhole
  <2>7. CASE ServerMaps \/ ServerMapsNothing
    <3>1. test = "mmap"
      BY <2>7 DEF ServerMaps, ServerMapsNothing, Where
    <3> QED
      BY <1>1, <3>1 DEF TransferWhole
  <2>8. CASE ServerOpensFifo
    BY <1>1, <2>8 DEF ServerOpensFifo, TransferWhole
  <2>9. CASE ServerClosesFifo
    <3>1. /\ spc = "fifo_read" /\ inflight = 0 /\ fifoW \notin {"open", "opening"}
          /\ UNCHANGED <<dsock, sent, received, inflight>>
      BY <2>9 DEF ServerClosesFifo
    <3>2. test = "pipe" /\ dsock = "none"
      BY <3>1 DEF Where
    <3>3. fifoW = "closed"
      BY <3>1 DEF Amounts, TypeOK
    <3>4. sent = Chunks /\ sent = received + inflight
      BY <3>2, <3>3 DEF Amounts, TransferWhole
    <3>5. received = Chunks
      BY <1>2, <3>1, <3>4
    <3> QED
      BY <1>1, <3>1, <3>4, <3>5 DEF TransferWhole
  <2> QED
    BY <1>4, <2>1, <2>2, <2>3, <2>4, <2>5, <2>6, <2>7, <2>8, <2>9 DEF Server
<1> QED
  BY <1>3, <1>4 DEF Next

\* What the server says of the checksums.
LEMMA EqualStep ==
  ASSUME TypeOK, Stream, Where, Once, Named, TransferWhole, EqualIsTrue, Next
  PROVE  EqualIsTrue'
<1>1. UNCHANGED <<test, nameLength, quiet, zeros>>
  BY GivenStays DEF given
<1>2. NameCoversType' = NameCoversType
  BY <1>1 DEF NameCoversType
<1>3. CASE Client
  <2>1. UNCHANGED <<verdict, received, framed>>
    BY <1>3 DEF Client, ClientField, ClientConnects, ClientSendsToNobody, ClientSends,
       ClientSendsToClosed, ClientCloses, ClientShares, ClientName, ClientOpensFifo,
       ClientWritesFifo, ClientClosesFifo, ClientExits
  <2> QED
    BY <1>1, <1>2, <2>1 DEF EqualIsTrue
<1>4. CASE ServerVerdict
  <2>1. UNCHANGED <<received, framed>>
    BY <1>4 DEF ServerVerdict
  <2>2. verdict' = "equal" => ~quiet /\ spc = "copied" /\ (received = Chunks \/ zeros)
    BY <1>4 DEF ServerVerdict, SameChecksum
  <2>3. spc = "copied" => test \in {"mmap", "pipe"}
    BY DEF Where, ToCopy
  <2>4. ~quiet /\ spc = "copied" /\ framed /\ NameCoversType => received = Chunks
    BY <2>3 DEF Named, TransferWhole
  <2> QED
    BY <1>1, <1>2, <2>1, <2>2, <2>4 DEF EqualIsTrue
<1>5. CASE Server /\ ~ServerVerdict
  <2>1. framed' => framed
    BY <1>1, <1>5, ServerWire DEF given
  <2>2. verdict' = verdict /\ (spc \notin ToReceive \cup ToCopy => received' = received)
    <3>1. CASE ServerMaps \/ ServerReceives \/ ServerReadsFifo
      BY <3>1 DEF ServerMaps, ServerReceives, ServerReadsFifo, ToReceive, ToCopy
    <3>2. CASE ~(ServerMaps \/ ServerReceives \/ ServerReadsFifo)
      <4>1. CASE ServerSize \/ ServerDisconnects \/ ServerChecksum \/ ServerTime \/ ServerFails
        BY <4>1 DEF ServerSize, ServerDisconnects, ServerChecksum, ServerTime, ServerFails
      <4>2. CASE ServerType \/ ServerName
        BY <4>2 DEF ServerType, ServerName
      <4>3. CASE ServerListens \/ ServerCannotReceive \/ ServerAccepts \/ ServerStopsReceiving
        BY <4>3 DEF ServerListens, ServerCannotReceive, ServerAccepts, ServerStopsReceiving
      <4>4. CASE ServerMapsNothing \/ ServerOpensFifo \/ ServerClosesFifo
        BY <4>4 DEF ServerMapsNothing, ServerOpensFifo, ServerClosesFifo
      <4> QED
        BY <1>5, <3>2, <4>1, <4>2, <4>3, <4>4 DEF Server
    <3> QED
      BY <3>1, <3>2
  <2> QED
    BY <1>1, <1>2, <2>1, <2>2 DEF EqualIsTrue, Once
<1> QED
  BY <1>3, <1>4, <1>5 DEF Next

\* How the server leaves.
LEMMA FailsStep ==
  ASSUME TypeOK, Stream, Framed, FailsOnlyUnframed, Next
  PROVE  FailsOnlyUnframed'
<1>1. UNCHANGED given /\ test' = test
  BY GivenStays DEF given
<1>2. CASE Client
  <2>1. UNCHANGED <<spc, framed>>
    BY <1>2 DEF Client, ClientField, ClientConnects, ClientSendsToNobody, ClientSends,
       ClientSendsToClosed, ClientCloses, ClientShares, ClientName, ClientOpensFifo,
       ClientWritesFifo, ClientClosesFifo, ClientExits
  <2> QED
    BY <1>1, <2>1 DEF FailsOnlyUnframed
<1>3. CASE ServerFails
  <2>1. spc \in {"checksum", "time", "type"} /\ Disconnected /\ framed' = framed
    BY <1>3 DEF ServerFails
  <2>2. PICK f \in {"checksum", "time", "type"} : spc = f
    BY <2>1
  <2>3. ~OnWire(f) /\ cpc \notin Before(f)
    BY <2>1, <2>2, BeforeFacts DEF Disconnected, ClientGone, OnWire
  <2>4. framed => Pending(f)
    BY <2>2 DEF Framed, Expected
  <2>5. framed => ~Real(f)
    BY <2>3, <2>4 DEF Pending
  <2>6. framed => test = "none"
    BY <2>2, <2>5 DEF Real
  <2> QED
    BY <1>1, <2>1, <2>6 DEF FailsOnlyUnframed
<1>4. CASE Server /\ ~ServerFails
  <2>1. spc' # "failed"
    <3>1. CASE ServerSize \/ ServerDisconnects \/ ServerChecksum \/ ServerTime
      <4>1. CASE ServerSize
        BY <4>1 DEF ServerSize
      <4>2. CASE ServerDisconnects \/ ServerChecksum \/ ServerTime
        BY <4>2 DEF ServerDisconnects, ServerChecksum, ServerTime
      <4> QED
        BY <3>1, <4>1, <4>2
    <3>2. CASE ServerType \/ ServerName
      <4>1. spc' \in {"nothing", "name", "receive", "wrong_name", "map", "fifo_open"}
        BY <3>2 DEF ServerType, ServerName
      <4> QED
        BY <4>1
    <3>3. CASE ServerListens \/ ServerCannotReceive \/ ServerAccepts \/ ServerReceives
      BY <3>3 DEF ServerListens, ServerCannotReceive, ServerAccepts, ServerReceives
    <3>4. CASE ServerStopsReceiving \/ ServerMaps \/ ServerMapsNothing \/ ServerVerdict
      BY <3>4 DEF ServerStopsReceiving, ServerMaps, ServerMapsNothing, ServerVerdict
    <3>5. CASE ServerOpensFifo \/ ServerReadsFifo \/ ServerClosesFifo
      BY <3>5 DEF ServerOpensFifo, ServerReadsFifo, ServerClosesFifo
    <3> QED
      BY <1>4, <3>1, <3>2, <3>3, <3>4, <3>5 DEF Server
  <2> QED
    BY <2>1 DEF FailsOnlyUnframed
<1> QED
  BY <1>2, <1>3, <1>4 DEF Next

\* How the client is killed.
LEMMA KilledStep ==
  ASSUME TypeOK, Stream, Amounts, KilledOnlyWhenCutShort, Next
  PROVE  KilledOnlyWhenCutShort'
<1>1. UNCHANGED given /\ quiet' = quiet
  BY GivenStays DEF given
<1>2. CASE Client
  <2>1. framed' = framed
    BY <1>2 DEF Client, ClientField, ClientConnects, ClientSendsToNobody, ClientSends,
       ClientSendsToClosed, ClientCloses, ClientShares, ClientName, ClientOpensFifo,
       ClientWritesFifo, ClientClosesFifo, ClientExits
  <2>2. CASE ClientSendsToClosed
    <3>1. dsock = "closed" /\ sent < Chunks
      BY <2>2 DEF ClientSendsToClosed
    <3>2. sent \in Nat /\ Chunks \in Nat
      BY PerfTestAssumption DEF TypeOK
    <3>3. quiet \/ ~framed
      BY <3>1, <3>2 DEF Amounts
    <3> QED
      BY <1>1, <2>1, <3>3 DEF KilledOnlyWhenCutShort
  <2>3. CASE ~ClientSendsToClosed
    <3>1. cpc' = "killed" => cpc = "killed"
      <4>1. ASSUME NEW f \in DOMAIN NextField, ClientField(f) PROVE cpc' # "killed"
        BY <4>1, BeforeFacts DEF ClientField
      <4>2. CASE ClientConnects \/ ClientSendsToNobody \/ ClientSends \/ ClientCloses
        BY <4>2 DEF ClientConnects, ClientSendsToNobody, ClientSends, ClientCloses
      <4>3. CASE ClientShares \/ ClientName \/ ClientOpensFifo
        BY <4>3 DEF ClientShares, ClientName, ClientOpensFifo
      <4>4. CASE ClientWritesFifo \/ ClientClosesFifo \/ ClientExits
        BY <4>4 DEF ClientWritesFifo, ClientClosesFifo, ClientExits
      <4> QED
        BY <1>2, <2>3, <4>1, <4>2, <4>3, <4>4 DEF Client
    <3> QED
      BY <1>1, <2>1, <3>1 DEF KilledOnlyWhenCutShort
  <2> QED
    BY <2>2, <2>3
<1>3. CASE Server
  <2>1. cpc' = cpc /\ (framed' => framed)
    BY <1>1, <1>3, ServerWire
  <2> QED
    BY <1>1, <2>1 DEF KilledOnlyWhenCutShort
<1> QED
  BY <1>2, <1>3 DEF Next

-----------------------------------------------------------------------------
(* The theorems.                                                           *)

\* The two ends at the start.
LEMMA InitInv == Init => IInv
<1> SUFFICES ASSUME Init PROVE IInv
  OBVIOUS
<1>1. /\ cpc = "size" /\ spc = "poll" /\ wire = <<>> /\ dsock = "none" /\ eof = FALSE
      /\ fifoW = "none" /\ verdict = "none" /\ inflight = 0 /\ sent = 0 /\ received = 0
      /\ fifoR = "none" /\ shared = FALSE /\ fileSize = 0 /\ sumRight = FALSE /\ framed = TRUE
  BY DEF Init
<1>2. TypeOK
  <2>1. test \in Tests /\ nameLength \in NameLengths /\ quiet \in BOOLEAN /\ zeros \in BOOLEAN
    BY DEF Init, CommandLine, GenerateFile
  <2>2. /\ 0 \in -1..(Chunks + 1) /\ 0 \in 0..Chunks /\ 0 \in 0..Capacity
    BY PerfTestAssumption
  <2>3. wire \in Seq(Fields)
    BY <1>1
  <2> QED
    BY <1>1, <2>1, <2>2, <2>3 DEF TypeOK
<1>3. Len(wire) = 0 /\ \A f \in Fields : ~OnWire(f) /\ cpc \in Before(f)
  BY <1>1, BeforeFacts DEF OnWire
<1>4. Stream
  BY <1>3 DEF Stream, Spaced
<1>5. Where /\ Once /\ Named
  BY <1>1 DEF Where, Once, Named, ToReceive, ToCopy
<1>6. Framed
  <2>1. Expected \subseteq Fields
    BY <1>1, BeforeFacts DEF Expected
  <2> QED
    BY <1>1, <1>3, <2>1 DEF Framed, Pending
<1>7. Amounts /\ TransferWhole /\ EqualIsTrue /\ FailsOnlyUnframed /\ KilledOnlyWhenCutShort
  BY <1>1 DEF Amounts, TransferWhole, EqualIsTrue, FailsOnlyUnframed, KilledOnlyWhenCutShort
<1> QED
  BY <1>2, <1>4, <1>5, <1>6, <1>7 DEF IInv

\* A step of either end keeps the invariant.
LEMMA NextInv == IInv /\ [Next]_vars => IInv'
<1> SUFFICES ASSUME IInv, [Next]_vars PROVE IInv'
  OBVIOUS
<1> USE DEF IInv
<1>1. CASE Next
  <2>1. TypeOK' /\ Where' /\ Once' /\ Framed' /\ Amounts' /\ Named'
    BY <1>1, TypeStep, WhereStep, OnceStep, FramedStep, AmountsStep, NamedStep
  <2>2. TransferWhole' /\ EqualIsTrue' /\ FailsOnlyUnframed' /\ KilledOnlyWhenCutShort'
    BY <1>1, TransferStep, EqualStep, FailsStep, KilledStep
  <2>3. Stream'
    BY <1>1, GivenStays, ClientWire, ServerWire DEF Next
  <2> QED
    BY <2>1, <2>2, <2>3
<1>2. CASE UNCHANGED vars
  <2>1. TypeOK'
    BY <1>2 DEF vars, TypeOK
  <2>2. Where' /\ Once' /\ Amounts' /\ Named'
    <3>1. Where' /\ Amounts' /\ Named'
      BY <1>2 DEF vars, Where, Amounts, Named, NameCoversType, ToReceive, ToCopy
    <3>2. Gone("type")' = Gone("type")
      BY <1>2 DEF vars, Gone, OnWire
    <3> QED
      BY <1>2, <3>1, <3>2 DEF vars, Once, ToReceive, ToCopy
  <2>3. Stream'
    BY <1>2, LengthStays DEF vars, given, Stream, Spaced, OnWire
  <2>4. Framed'
    BY <1>2 DEF vars, Framed, Gone, OnWire, Pending, Real, Expected
  <2>5. TransferWhole' /\ EqualIsTrue' /\ FailsOnlyUnframed' /\ KilledOnlyWhenCutShort'
    BY <1>2 DEF vars, TransferWhole, EqualIsTrue, FailsOnlyUnframed, KilledOnlyWhenCutShort, NameCoversType
  <2> QED
    BY <2>1, <2>2, <2>3, <2>4, <2>5
<1> QED
  BY <1>1, <1>2

\* The invariant of the performance test (stnc.c, run_client and run_server).
THEOREM Invariance == Spec => []IInv
  BY InitInv, NextInv, PTL DEF Spec

\* Types: the copy never exceeds the file, nor what is on its way the buffer.
THEOREM TypeCorrect == Spec => []TypeOK
<1>1. IInv => TypeOK
  BY DEF IInv
<1> QED
  BY <1>1, Invariance, PTL

\* "Checksums are equal" is said of a file that arrived whole, however the fields were
\* cut, unless the file is all zeros; and of every file when each field was received
\* alone and the name covers the type (stnc.c, run_server).
THEOREM EqualMeansEqual == Spec => []EqualIsTrue
<1>1. IInv => EqualIsTrue
  BY DEF IInv
<1> QED
  BY <1>1, Invariance, PTL

\* Neither the data connection nor the FIFO loses a chunk, and what is taken from the
\* FIFO is the whole file (stnc.c, receiveFile and receiveFileFifo).
THEOREM TransferKeepsAll == Spec => []TransferWhole
<1>1. IInv => TransferWhole
  BY DEF IInv
<1> QED
  BY <1>1, Invariance, PTL

\* The server leaves in the middle of the fields only when some arrived in one recv, or
\* the client had no type to send (stnc.c, run_server).
THEOREM FailsUnframed == Spec => []FailsOnlyUnframed
<1>1. IInv => FailsOnlyUnframed
  BY DEF IInv
<1> QED
  BY <1>1, Invariance, PTL

\* SIGPIPE reaches the client only when the server knew no size or misread it (stnc.c,
\* sendFile and receiveFile).
THEOREM KilledCutShort == Spec => []KilledOnlyWhenCutShort
<1>1. IInv => KilledOnlyWhenCutShort
  BY DEF IInv
<1> QED
  BY <1>1, Invariance, PTL
=============================================================================
