------------------------------- MODULE PerfTest -------------------------------
(***************************************************************************)
(* The performance test of Assignment-3/stnc.c: one client started with    *)
(* -p type param (run_client) and one server started with -p (run_server), *)
(* connected by a TCP stream.                                              *)
(*                                                                         *)
(* The client sends four fields on that stream, each with one send and     *)
(* without a delimiter: the size of its file, its checksum, the start time *)
(* and the type of the test.  sleep(0.1) between them is sleep(0).  The    *)
(* server takes them with four recv, which return whatever has arrived.    *)
(* Then the file goes from one to the other by the means the test is       *)
(* about, and the server compares checksums and sizes.                     *)
(*                                                                         *)
(* The stream is a sequence of bytes, each of which is only known by the   *)
(* field it belongs to: what the code's atoi, sscanf and strcmp make of a  *)
(* buffer depends on nothing else here.  The file is a number of chunks.    *)
(* generateFile writes an uninitialised buffer: the sum of its bytes is 0  *)
(* when they are all zero (zeros), and otherwise no proper prefix of the   *)
(* file is taken to have the sum of the whole.                             *)
(*                                                                         *)
(* Nobody types at either terminal during a test.  Calls that fail only    *)
(* for want of a resource (socket, fopen, mmap) succeed.                   *)
(***************************************************************************)
EXTENDS Integers, Sequences

CONSTANTS Chunks,      \* the file, in units of one read or recv
          Capacity,    \* what a pipe or a connection holds before the writer blocks
          NameLengths  \* lengths of the file names given on the client's command line

ASSUME PerfTestAssumption == /\ Chunks \in Nat \ {0}
                             /\ Capacity \in Nat \ {0}
                             /\ NameLengths \subseteq Nat \ {0}

\* "none" is any other type and param, "ipv4 dgram" for instance: neither main nor
\* run_client says anything of it, no type is sent and no file
Tests == {"ipv4 tcp", "ipv4 udp", "ipv6 tcp", "ipv6 udp", "uds dgram", "uds stream", "mmap", "pipe",
          "none"}
Fields == {"size", "checksum", "time", "type", "name"}

VARIABLES test,       \* the type of the test, chosen on the client's command line
          nameLength, \* length of the file name on that line
          quiet,      \* -q on the server's command line
          zeros,      \* the client's file is all zeros
          cpc, spc,   \* the next step of the client and of the server
          wire,       \* bytes sent on the control connection and not yet received
          fileSize,   \* the server's fileSize, in chunks
          sumRight,   \* the server's checksum is the one the client sent
          dsock,      \* the server's data socket
          inflight,   \* chunks in the data connection or the FIFO
          sent,       \* chunks the client has sent
          eof,        \* the client closed its end of the data connection
          fifoW,      \* the client's end of the FIFO
          fifoR,      \* the server's end of the FIFO
          shared,     \* the shared file holds the client's file
          received,   \* chunks in the server's copy
          verdict,    \* what the server reports
          framed      \* history: each recv so far returned exactly one field

vars == <<test, nameLength, quiet, zeros, cpc, spc, wire, fileSize, sumRight, dsock, inflight, sent,
          eof, fifoW, fifoR, shared, received, verdict, framed>>
given == <<test, nameLength, quiet, zeros>>
fifo == <<fifoW, fifoR>>
channel == <<dsock, inflight, eof, fifoW, fifoR, shared>>

\* "104857600", "0" or ten digits, "1700000000.123456", and the two terminated types
Length(f) == CASE f = "size" -> 9
               [] f = "checksum" -> IF zeros THEN 1 ELSE 10
               [] f = "time" -> 17
               [] f = "type" -> IF test = "none" THEN 0
                                ELSE IF test \in {"mmap", "pipe"} THEN 5
                                ELSE IF test = "uds dgram" THEN 9
                                ELSE IF test = "uds stream" THEN 10 ELSE 8
               [] f = "name" -> nameLength
Bytes(f) == [i \in 1..Length(f) |-> f]

\* main: -p and -q
CommandLine == test \in Tests /\ nameLength \in NameLengths /\ quiet \in BOOLEAN

\* generateFile
GenerateFile == zeros \in BOOLEAN

Init == /\ CommandLine
        /\ GenerateFile
        /\ cpc = "size" /\ spc = "poll"
        /\ wire = <<>>
        /\ fileSize = 0 /\ sumRight = FALSE
        /\ dsock = "none" /\ inflight = 0 /\ sent = 0 /\ eof = FALSE
        /\ fifoW = "none" /\ fifoR = "none" /\ shared = FALSE
        /\ received = 0 /\ verdict = "none"
        /\ framed = TRUE

-----------------------------------------------------------------------------
(* Variants: what plausible mistakes would make of some definitions below. *)

\* send does not wait for room.
ClientSendsUnbounded ==
  /\ cpc = "sending" /\ sent < Chunks
  /\ dsock = "connected"
  /\ inflight' = inflight + 1 /\ sent' = sent + 1
  /\ UNCHANGED <<given, cpc, spc, wire, fileSize, sumRight, dsock, eof, fifo, shared, received,
                 verdict, framed>>

\* The checksum is calculated over the client's file.
SameChecksumOfOriginal == sumRight

\* The FIFO is taken to be at its end whenever it is empty.
ServerClosesFifoEarly ==
  /\ spc = "fifo_read"
  /\ inflight = 0
  /\ fifoR' = "closed"
  /\ spc' = "copied"
  /\ UNCHANGED <<given, cpc, wire, fileSize, sumRight, dsock, inflight, sent, eof, fifoW, shared,
                 received, verdict, framed>>

\* The server's end is opened with O_RDWR: it is a writer too, and sees no end.
ServerClosesFifoReadWrite == /\ spc = "fifo_read" /\ inflight = 0 /\ fifoR = "closed"
                             /\ UNCHANGED vars

\* recv does not wait, and nothing to receive is taken for a closed connection.
DisconnectedWhenEmpty == wire = <<>>

\* receiveFile stops one recv short of the size.
ServerStopsReceivingShort ==
  /\ spc = "data_recv"
  /\ received + 1 >= fileSize \/ (inflight = 0 /\ eof)
  /\ dsock' = "closed" /\ inflight' = 0
  /\ spc' = "nothing"
  /\ UNCHANGED <<given, cpc, wire, fileSize, sumRight, sent, eof, fifo, shared, received, verdict,
                 framed>>

\* receiveFile does not close the connection.
ServerStopsReceivingOpen ==
  /\ spc = "data_recv"
  /\ received >= fileSize \/ (inflight = 0 /\ eof)
  /\ spc' = "nothing"
  /\ UNCHANGED <<given, cpc, wire, fileSize, sumRight, sent, channel, received, verdict, framed>>

-----------------------------------------------------------------------------
(* The client.                                                             *)

SendField(f) == wire' = wire \o Bytes(f)

\* size, checksum, time and type, one send after the other
NextField == [size |-> "checksum", checksum |-> "time", time |-> "type", type |-> "transfer"]
ClientField(f) == /\ cpc = f
                  /\ SendField(f)
                  /\ cpc' = NextField[f]
                  /\ UNCHANGED <<given, spc, fileSize, sumRight, sent, channel, received,
                                 verdict, framed>>

\* sendFile over IPv4 TCP: connects at once, whether the server listens yet or not
ClientConnects == /\ cpc = "transfer" /\ test = "ipv4 tcp"
                  /\ cpc' = IF dsock = "listening" THEN "sending" ELSE "delete"
                  /\ dsock' = IF dsock = "listening" THEN "connected" ELSE dsock
                  /\ UNCHANGED <<given, spc, wire, fileSize, sumRight, inflight, sent, eof,
                                 fifo, shared, received, verdict, framed>>

\* sendFile on the other sockets: over UDP the datagrams go to a port that nobody
\* reads; the IPv6 and the UNIX address are refused by inet_pton.  Or no file is sent.
ClientSendsToNobody == /\ cpc = "transfer"
                       /\ test \notin {"ipv4 tcp", "mmap", "pipe"}
                       /\ cpc' = "delete"
                       /\ UNCHANGED <<given, spc, wire, fileSize, sumRight, sent, channel,
                                      received, verdict, framed>>

ClientSends == /\ cpc = "sending" /\ sent < Chunks
               /\ dsock = "connected" /\ inflight < Capacity
               /\ inflight' = inflight + 1 /\ sent' = sent + 1
               /\ UNCHANGED <<given, cpc, spc, wire, fileSize, sumRight, dsock, eof, fifo,
                              shared, received, verdict, framed>>

\* The server has closed the connection: a send is lost, or fails, or raises
\* SIGPIPE, which nothing handles.
ClientSendsToClosed == /\ cpc = "sending" /\ sent < Chunks
                       /\ dsock = "closed"
                       /\ \/ sent' = sent + 1 /\ UNCHANGED cpc
                          \/ cpc' \in {"delete", "killed"} /\ UNCHANGED sent
                       /\ UNCHANGED <<given, spc, wire, fileSize, sumRight, channel, received,
                                      verdict, framed>>

ClientCloses == /\ cpc = "sending" /\ sent = Chunks
                /\ eof' = TRUE
                /\ cpc' = "delete"
                /\ UNCHANGED <<given, spc, wire, fileSize, sumRight, dsock, inflight, sent,
                               fifo, shared, received, verdict, framed>>

\* mmap: the shared file first, then its name
ClientShares == /\ cpc = "transfer" /\ test = "mmap"
                /\ shared' = TRUE
                /\ cpc' = "name"
                /\ UNCHANGED <<given, spc, wire, fileSize, sumRight, dsock, inflight, sent, eof,
                               fifo, received, verdict, framed>>

\* pipe: the name first, then the FIFO
ClientName == /\ cpc = IF test = "pipe" THEN "transfer" ELSE "name"
              /\ test \in {"mmap", "pipe"}
              /\ SendField("name")
              /\ cpc' = IF test = "pipe" THEN "fifo_open" ELSE "delete"
              /\ UNCHANGED <<given, spc, fileSize, sumRight, sent, channel, received,
                             verdict, framed>>

\* sendFileFifo: open(O_WRONLY) returns when the FIFO has a reader
ClientOpensFifo == /\ cpc = "fifo_open"
                   /\ \/ fifoW = "none" /\ fifoW' = "opening" /\ UNCHANGED cpc
                      \/ /\ fifoW = "opening" /\ fifoR \in {"opening", "open"}
                         /\ fifoW' = "open" /\ cpc' = "fifo_write"
                   /\ UNCHANGED <<given, spc, wire, fileSize, sumRight, dsock, inflight, sent,
                                  eof, fifoR, shared, received, verdict, framed>>

ClientWritesFifo == /\ cpc = "fifo_write" /\ sent < Chunks
                    /\ inflight < Capacity
                    /\ inflight' = inflight + 1 /\ sent' = sent + 1
                    /\ UNCHANGED <<given, cpc, spc, wire, fileSize, sumRight, dsock, eof, fifo,
                                   shared, received, verdict, framed>>

ClientClosesFifo == /\ cpc = "fifo_write" /\ sent = Chunks
                    /\ fifoW' = "closed"
                    /\ cpc' = "delete"
                    /\ UNCHANGED <<given, spc, wire, fileSize, sumRight, dsock, inflight, sent,
                                   eof, fifoR, shared, received, verdict, framed>>

\* deleteFile, exit(0): the control connection is closed behind what was sent
ClientExits == /\ cpc = "delete"
               /\ cpc' = "exited"
               /\ UNCHANGED <<given, spc, wire, fileSize, sumRight, sent, channel, received,
                              verdict, framed>>

Client == \/ \E f \in DOMAIN NextField : ClientField(f)
          \/ ClientConnects \/ ClientSendsToNobody \/ ClientSends \/ ClientSendsToClosed
          \/ ClientCloses \/ ClientShares \/ ClientName \/ ClientOpensFifo
          \/ ClientWritesFifo \/ ClientClosesFifo \/ ClientExits

-----------------------------------------------------------------------------
(* The server: the control connection.                                     *)

ClientGone == cpc \in {"exited", "killed"}
Disconnected == wire = <<>> /\ ClientGone

Smaller(a, b) == IF a < b THEN a ELSE b
\* recv(clientSock, messageBuffer, limit): all that has arrived, up to limit bytes
Message(limit) == SubSeq(wire, 1, Smaller(limit, Len(wire)))
Recv(limit, field) == /\ wire # <<>>
                      /\ wire' = SubSeq(wire, Len(Message(limit)) + 1, Len(wire))
                      /\ framed' = (framed /\ Message(limit) = Bytes(field))

\* The first recv: fileSize is atoi of the buffer, 0 when quiet; digits that
\* follow the size make it another number, or overflow, unless the checksum is
\* negative.
ServerSize == /\ spc = "poll"
              /\ Recv(1023, "size")
              /\ fileSize' \in IF quiet THEN {0}
                               ELSE IF Message(1023) = Bytes("size") THEN {Chunks}
                               ELSE -1..(Chunks + 1)
              /\ spc' = "checksum"
              /\ UNCHANGED <<given, cpc, sumRight, sent, channel, received, verdict>>

\* recv of 0 bytes ends the inner loop; the server waits for the next client
ServerDisconnects == /\ spc = "poll"
                     /\ Disconnected
                     /\ spc' = "accept"
                     /\ UNCHANGED <<given, cpc, wire, fileSize, sumRight, sent, channel,
                                    received, verdict, framed>>

\* sscanf of anything but the checksum alone gives another number, or none and
\* then the server's checksum stays 0
ServerChecksum == /\ spc = "checksum"
                  /\ Recv(20, "checksum")
                  /\ sumRight' = \/ Message(20) = Bytes("checksum")
                                 \/ zeros /\ Head(wire) \in {"type", "name"}
                  /\ spc' = "time"
                  /\ UNCHANGED <<given, cpc, fileSize, sent, channel, received, verdict>>

ServerTime == /\ spc = "time"
              /\ Recv(20, "time")
              /\ spc' = "type"
              /\ UNCHANGED <<given, cpc, fileSize, sumRight, sent, channel, received, verdict>>

\* recv of 0 bytes where a field is expected: exit(1)
ServerFails == /\ spc \in {"checksum", "time", "type"}
               /\ Disconnected
               /\ spc' = "failed"
               /\ UNCHANGED <<given, cpc, wire, fileSize, sumRight, sent, channel, received,
                              verdict, framed>>

\* strcmp stops at the terminator that only "mmap" and "pipe" are sent with
IsType(msg) == IF test \in {"mmap", "pipe"}
               THEN SubSeq(msg, 1, Smaller(5, Len(msg))) = Bytes("type")
               ELSE msg = Bytes("type")

\* The type decides what receives the file; an unknown one receives nothing.
ServerType == /\ spc = "type"
              /\ Recv(20, "type")
              /\ spc' = IF ~IsType(Message(20)) THEN "nothing"
                        ELSE IF test \in {"mmap", "pipe"} THEN "name" ELSE "receive"
              /\ UNCHANGED <<given, cpc, fileSize, sumRight, sent, channel, received, verdict>>

\* The file name is received over the type, and not terminated: it is right only
\* when it arrives whole, by itself, and covers the type.  The server goes on
\* with whatever the buffer holds.
ServerName == /\ spc = "name"
              /\ \/ /\ Recv(1023, "name")
                    /\ spc' = IF Message(1023) # Bytes("name") \/ nameLength < 4 THEN "wrong_name"
                              ELSE IF test = "mmap" THEN "map" ELSE "fifo_open"
                 \/ /\ Disconnected
                    /\ spc' = "wrong_name"
                    /\ UNCHANGED <<wire, framed>>
              /\ UNCHANGED <<given, cpc, fileSize, sumRight, sent, channel, received, verdict>>

-----------------------------------------------------------------------------
(* The server: the file.                                                   *)

\* receiveFile on a stream socket: bound, listening, then waiting in accept
ServerListens == /\ spc = "receive"
                 /\ test \in {"ipv4 tcp", "uds stream"}
                 /\ dsock' = "listening"
                 /\ spc' = "data_accept"
                 /\ UNCHANGED <<given, cpc, wire, fileSize, sumRight, inflight, sent, eof, fifo,
                                shared, received, verdict, framed>>

\* receiveFile returns -1: accept on a datagram socket fails, and bind of an IPv6
\* socket to an IPv4 address; on a stream socket bind fails when an earlier test
\* left the port in TIME_WAIT or the UNIX address in the directory.
ServerCannotReceive == /\ spc = "receive"
                       /\ spc' = "error"
                       /\ UNCHANGED <<given, cpc, wire, fileSize, sumRight, sent, channel,
                                      received, verdict, framed>>

ServerAccepts == /\ spc = "data_accept"
                 /\ dsock = "connected"
                 /\ spc' = "data_recv"
                 /\ UNCHANGED <<given, cpc, wire, fileSize, sumRight, sent, channel, received,
                                verdict, framed>>

ServerReceives == /\ spc = "data_recv"
                  /\ received < fileSize
                  /\ inflight > 0
                  /\ inflight' = inflight - 1 /\ received' = received + 1
                  /\ UNCHANGED <<given, cpc, spc, wire, fileSize, sumRight, dsock, sent, eof,
                                 fifo, shared, verdict, framed>>

\* The size was reached, or the client closed its end.
ServerStopsReceiving == /\ spc = "data_recv"
                        /\ received >= fileSize \/ (inflight = 0 /\ eof)
                        /\ dsock' = "closed"
                        /\ inflight' = 0
                        /\ spc' = "nothing"
                        /\ UNCHANGED <<given, cpc, wire, fileSize, sumRight, sent, eof, fifo,
                                       shared, received, verdict, framed>>

\* copyFileFromSharedMemoryMmap: fileSize bytes of the shared file; mmap refuses a
\* size of 0 or less, and memcpy beyond the end of the file raises SIGBUS
ServerMaps == /\ spc = "map"
              /\ shared
              /\ IF fileSize > Chunks THEN spc' = "killed" /\ UNCHANGED received
                 ELSE /\ spc' = "copied"
                      /\ received' = IF fileSize > 0 THEN fileSize ELSE 0
              /\ UNCHANGED <<given, cpc, wire, fileSize, sumRight, sent, channel, verdict, framed>>

\* A shared file of that name cannot be opened: recived.txt is left empty.
ServerMapsNothing == /\ spc = "wrong_name" /\ test = "mmap"
                     /\ spc' = "copied"
                     /\ UNCHANGED <<given, cpc, wire, fileSize, sumRight, sent, channel,
                                    received, verdict, framed>>

\* receiveFileFifo: open(O_RDONLY) returns when the FIFO has, or has had, a
\* writer.  A FIFO of a wrong name is created and never has one.
ServerOpensFifo == /\ spc = "fifo_open"
                   /\ \/ fifoR = "none" /\ fifoR' = "opening" /\ UNCHANGED spc
                      \/ /\ fifoR = "opening" /\ fifoW # "none"
                         /\ fifoR' = "open" /\ spc' = "fifo_read"
                   /\ UNCHANGED <<given, cpc, wire, fileSize, sumRight, dsock, inflight, sent,
                                  eof, fifoW, shared, received, verdict, framed>>

ServerReadsFifo == /\ spc = "fifo_read"
                   /\ inflight > 0
                   /\ inflight' = inflight - 1 /\ received' = received + 1
                   /\ UNCHANGED <<given, cpc, spc, wire, fileSize, sumRight, dsock, sent, eof,
                                  fifo, shared, verdict, framed>>

\* End of file: no data, and every writer that opened the FIFO has closed it.
ServerClosesFifo == /\ spc = "fifo_read"
                    /\ inflight = 0 /\ fifoW \notin {"open", "opening"}
                    /\ fifoR' = "closed"
                    /\ spc' = "copied"
                    /\ UNCHANGED <<given, cpc, wire, fileSize, sumRight, dsock, inflight, sent,
                                   eof, fifoW, shared, received, verdict, framed>>

\* recievedSize: receiveFile returns 0 or -1, never the number of bytes
ReceivedSize == CASE spc = "copied" -> received
                  [] spc = "nothing" -> 0
                  [] spc = "error" -> -1
\* calculateChecksum("recived.txt"), which only the mmap and pipe tests write
SameChecksum == sumRight /\ spc = "copied" /\ (received = Chunks \/ zeros)

ServerVerdict == /\ spc \in {"copied", "nothing", "error"}
                 /\ verdict' = IF quiet THEN "none"
                               ELSE IF SameChecksum THEN "equal"
                               ELSE IF ReceivedSize # fileSize THEN "lost" ELSE "different"
                 /\ spc' = "poll"
                 /\ UNCHANGED <<given, cpc, wire, fileSize, sumRight, sent, channel, received,
                                framed>>

Server == \/ ServerSize \/ ServerDisconnects \/ ServerChecksum \/ ServerTime \/ ServerFails
          \/ ServerType \/ ServerName \/ ServerListens \/ ServerCannotReceive \/ ServerAccepts
          \/ ServerReceives \/ ServerStopsReceiving \/ ServerMaps \/ ServerMapsNothing
          \/ ServerOpensFifo \/ ServerReadsFifo \/ ServerClosesFifo \/ ServerVerdict

-----------------------------------------------------------------------------
Next == Client \/ Server

Spec == Init /\ [][Next]_vars

\* Two processes; each goes on as long as it is not blocked.
FairSpec == Spec /\ WF_vars(Client) /\ WF_vars(Server)

-----------------------------------------------------------------------------
(* Properties.                                                             *)

\* Types; fileSize and received never exceed what the code can reach, and what is
\* on its way never exceeds what a pipe or a connection holds.
TypeOK == /\ test \in Tests /\ nameLength \in NameLengths /\ quiet \in BOOLEAN /\ zeros \in BOOLEAN
          /\ cpc \in {"size", "checksum", "time", "type", "transfer", "sending", "name",
                      "fifo_open", "fifo_write", "delete", "exited", "killed"}
          /\ spc \in {"poll", "checksum", "time", "type", "name", "wrong_name", "receive",
                      "data_accept", "data_recv", "map", "fifo_open", "fifo_read", "copied",
                      "nothing", "error", "accept", "failed", "killed"}
          /\ wire \in Seq(Fields)
          /\ fileSize \in -1..(Chunks + 1) /\ sumRight \in BOOLEAN
          /\ dsock \in {"none", "listening", "connected", "closed"}
          /\ inflight \in 0..Capacity /\ sent \in 0..Chunks /\ received \in 0..Chunks
          /\ eof \in BOOLEAN /\ shared \in BOOLEAN /\ framed \in BOOLEAN
          /\ fifoW \in {"none", "opening", "open", "closed"}
          /\ fifoR \in {"none", "opening", "open", "closed"}
          /\ verdict \in {"none", "equal", "different", "lost"}

\* "Checksums are equal" is said of a file that arrived whole: however the fields were
\* cut or run together, unless the file is all zeros, and for every file when each
\* field was received alone and the name is not shorter than the type it is received
\* over, whose tail it would keep (stnc.c:544, 558).
NameCoversType == nameLength >= 4
EqualIsTrue == verdict = "equal" /\ ((framed /\ NameCoversType) \/ ~zeros) => received = Chunks

\* The data connection and the FIFO lose nothing as long as the server has not
\* closed its end, and what the server took from a FIFO is the whole file, in
\* whichever order the two ends open and close it.
TransferWhole == /\ test # "mmap" /\ dsock # "closed" => sent = received + inflight
                 /\ test = "pipe" /\ spc = "copied" => received = Chunks

\* The server leaves with exit(1) in the middle of the fields only when fields
\* arrived in one recv or the client had no type to send, never because a client
\* that sent them all is gone.
FailsOnlyUnframed == spc = "failed" => ~framed \/ test = "none"

\* The client is killed in sendFile, by SIGPIPE, only when the server stopped short
\* of the file's size: it was started quiet and knows no size, or misread it.
KilledOnlyWhenCutShort == cpc = "killed" => quiet \/ ~framed

\* Whatever the server makes of the fields, the client of every test but the pipe's
\* runs to its end.
ClientEnds == test # "pipe" => <>ClientGone

\* When each field is received alone, an mmap or pipe test ends with the right
\* verdict, whichever side reaches the FIFO first, and the server is back at accept;
\* provided, again, that the name covers the type.
FramedTestCompletes == []framed /\ test \in {"mmap", "pipe"} /\ NameCoversType /\ ~quiet
                          => <>(verdict = "equal" /\ spc = "accept")

\* "File sizes are not equal packets were lost" (stnc.c:583) is said of a file that
\* did not arrive whole.  The code says it of one that did: see PerfTestLost.cfg.
LostMeansLost == framed /\ verdict = "lost" => received < Chunks
=============================================================================
