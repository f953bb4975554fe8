---------------------------- MODULE FileToolsProofs ----------------------------
(***************************************************************************)
(* copy and cmp, for any number of invocations and command lines, any      *)
(* files and any size of a buffer.                                         *)
(*                                                                         *)
(* Each invocation has an invariant of its own, about its two streams and  *)
(* its two files, that holds for as long as nobody has disturbed it.  For  *)
(* a copy, what the target holds, what is in its buffer and what the       *)
(* source's buffer holds follow each other in the source (InTransit).  For *)
(* a cmp none of whose reads has failed, the files agree as far as both    *)
(* were read (Abreast), or the loop has ended in one of four ways (Ended). *)
(***************************************************************************)
EXTENDS FileTools, SequenceTheorems, TLAPS

-----------------------------------------------------------------------------
(* The invariant.                                                          *)

\* How many bytes the program has taken from stream s.
Taken(s) == s.pos - Len(s.buf)

\* The buffer of s holds what follows in c what was taken; an end of file was its end.
Reads(s, c) == /\ Taken(s) \in Nat /\ s.pos <= Len(c)
               /\ \A i \in 1..Len(s.buf) : s.buf[i] = c[Taken(s) + i]
               /\ s.eof => s.buf = <<>> /\ s.pos = Len(c)

\* p runs, and no one has changed a file of its job.
Alone(p) == pc[p] \notin {"start", "done"} /\ ~disturbed[p]

\* The file f is what it was when p began.
AsBefore(p, f) == /\ f \in DOMAIN disk <=> f \in DOMAIN began[p]
                  /\ f \in DOMAIN disk => disk[f] = began[p][f]

\* The source, as far as it was read, is the target, then the target's buffer.
InTransit(in, out, src, tgt) ==
  /\ Reads(in, src)
  /\ out.pos = Len(tgt) /\ Taken(in) = Len(tgt) + Len(out.buf)
  /\ \A i \in 1..Len(tgt) : tgt[i] = src[i]
  /\ \A i \in 1..Len(out.buf) : out.buf[i] = src[Len(tgt) + i]

CopyAlone(p) ==
  LET f1 == job[p].f1
      f2 == job[p].f2
  IN  /\ AsBefore(p, f1)
      /\ f2 \notin DOMAIN began[p] \cap job[p].may \/ job[p].opt = "-f"
      /\ pc[p] = "create" => AsBefore(p, f2) /\ stream[p] = [k \in 1..2 |-> Fresh]
      /\ pc[p] = "copy" => InTransit(stream[p][1], stream[p][2], disk[f1], disk[f2])

\* The two files agree on their first n bytes, none of which is 0xFF.
Agree(p, c, d, n) == /\ n \in Nat /\ n <= Len(c) /\ n <= Len(d)
                     /\ \A i \in 1..n : c[i] # 255 /\ d[i] # 255 /\ Upper(p, c[i]) = Upper(p, d[i])

\* Both files were read as far, and agree up to there.
Abreast(p, s1, s2, c, d) == Taken(s1) = Taken(s2) /\ Agree(p, c, d, Taken(s1))

\* The loop has ended: at the end of the first file, at a 0xFF in it, at the end of the
\* second after one more byte of the first, or at a 0xFF in the second.
Ended(p, s1, s2, c, d) ==
  \/ Abreast(p, s1, s2, c, d) /\ s1.eof
  \/ Taken(s1) = Taken(s2) + 1 /\ Agree(p, c, d, Taken(s2)) /\ c[Taken(s1)] = 255
  \/ Taken(s1) = Taken(s2) + 1 /\ Agree(p, c, d, Taken(s2)) /\ s2.eof
  \/ Taken(s1) = Taken(s2) /\ Taken(s2) > 0 /\ Agree(p, c, d, Taken(s2) - 1) /\ d[Taken(s2)] = 255

CmpAlone(p) ==
  LET f1 == job[p].f1
      f2 == job[p].f2
      s1 == stream[p][1]
      s2 == stream[p][2]
  IN  /\ Reads(s1, disk[f1]) /\ Reads(s2, disk[f2])
      /\ pc[p] = "compare" => Abreast(p, s1, s2, disk[f1], disk[f2])
      /\ pc[p] = "last" => Ended(p, s1, s2, disk[f1], disk[f2])

\* A label belongs to one of the tools; before its first step nothing was read, and
\* after it the files that were opened are there.
Opened(p) == /\ pc[p] \in {"create", "copy"} => job[p].tool = "copy"
             /\ pc[p] \in {"compare", "last"} => job[p].tool = "cmp"
             /\ pc[p] = "start" => stream[p] = [k \in 1..2 |-> Fresh]
             /\ pc[p] \in {"create", "copy", "compare", "last"} => job[p].f1 \in DOMAIN disk
             /\ pc[p] \in {"copy", "compare", "last"} => job[p].f2 \in DOMAIN disk

Invocation(p) ==
  /\ Opened(p)
  /\ Alone(p) /\ job[p].tool = "copy" /\ job[p].f1 # job[p].f2 => CopyAlone(p)
  /\ Alone(p) /\ Unfailing(p) /\ job[p].tool = "cmp" => CmpAlone(p)

IInv == TypeOK /\ \A p \in Procs : Invocation(p)

-----------------------------------------------------------------------------
(* Streams.                                                                *)

\* A stream that fopen returns has read nothing.
LEMMA FreshFacts ==
  /\ Fresh \in Streams /\ ~Known(Fresh) /\ Len(Fresh.buf) = 0 /\ Taken(Fresh) = 0 /\ Fresh.pos = 0
  /\ \A c \in Seq(Byte) : Reads(Fresh, c)
<1>1. /\ Fresh.pos = 0 /\ Fresh.buf = <<>> /\ Fresh.eof = FALSE /\ Fresh.err = "no"
      /\ Fresh \in Streams
  BY DEF Fresh, Streams
<1>2. Len(Fresh.buf) = 0
  BY <1>1
<1>3. Taken(Fresh) = 0
  <2>1. 0 - 0 = 0
    OBVIOUS
  <2> QED
    BY <1>1, <1>2, <2>1, Zenon DEF Taken
<1> QED
  BY <1>1, <1>2, <1>3 DEF Known, Reads

\* The types of a stream's parts.
LEMMA StreamParts ==
  ASSUME NEW s \in Streams
  PROVE  /\ s.pos \in Nat /\ s.buf \in Seq(Byte) /\ s.eof \in BOOLEAN /\ Len(s.buf) \in Nat
         /\ s.err \in {"no", "now", "before"}
         /\ s.buf = <<>> <=> Len(s.buf) = 0
         /\ \A i \in 1..Len(s.buf) : s.buf[i] \in Byte
<1>1. /\ s.pos \in Nat /\ s.buf \in Seq(Byte) /\ s.eof \in BOOLEAN
      /\ s.err \in {"no", "now", "before"}
  BY DEF Streams
<1> QED
  BY <1>1

\* Piece(c, from, to) is a piece of a file from one place to another.
Piece(c, from, n) == SubSeq(c, from + 1, IF from + n < Len(c) THEN from + n ELSE Len(c))

\* What a read of n bytes returns.
LEMMA PieceFacts ==
  ASSUME NEW c \in Seq(Byte), NEW from \in Nat, NEW n \in Nat \ {0}
  PROVE  /\ Piece(c, from, n) \in Seq(Byte) /\ Len(Piece(c, from, n)) <= n
         /\ from <= Len(c) =>
              /\ from + Len(Piece(c, from, n)) <= Len(c)
              /\ \A i \in 1..Len(Piece(c, from, n)) : Piece(c, from, n)[i] = c[from + i]
              /\ Piece(c, from, n) = <<>> => from = Len(c)
<1> DEFINE to == IF from + n < Len(c) THEN from + n ELSE Len(c)
<1>1. Len(c) \in Nat /\ to \in Nat /\ to <= from + n /\ to <= Len(c)
  OBVIOUS
<1>2. Piece(c, from, n) = SubSeq(c, from + 1, to)
  BY DEF Piece
<1> HIDE DEF to
<1>3. \A i \in (from + 1)..to : c[i] \in Byte
  BY <1>1
<1>4. /\ SubSeq(c, from + 1, to) \in Seq(Byte)
      /\ Len(SubSeq(c, from + 1, to)) = (IF from + 1 <= to THEN to - (from + 1) + 1 ELSE 0)
      /\ \A i \in 1..(to - (from + 1) + 1) : SubSeq(c, from + 1, to)[i] = c[from + 1 + i - 1]
  BY <1>1, <1>3, SubSeqProperties
<1>5. Len(Piece(c, from, n)) = IF from < to THEN to - from ELSE 0
  BY <1>1, <1>2, <1>4
<1>6. from <= Len(c) /\ from # Len(c) => from < to
  BY DEF to
<1>7. Piece(c, from, n) = <<>> => Len(Piece(c, from, n)) = 0
  OBVIOUS
<1>8. \A i \in 1..Len(Piece(c, from, n)) : Piece(c, from, n)[i] = c[from + i]
  <2> TAKE i \in 1..Len(Piece(c, from, n))
  <2>1. i \in 1..(to - (from + 1) + 1) /\ from + 1 + i - 1 = from + i
    BY <1>1, <1>5
  <2> QED
    BY <1>2, <1>4, <2>1
<1> QED
  BY <1>1, <1>2, <1>4, <1>5, <1>6, <1>7, <1>8

\* A read of a file with the bytes c, and one that fails.
Filled(c, s) == [pos |-> s.pos + Len(Piece(c, s.pos, Block)), buf |-> Piece(c, s.pos, Block),
                 eof |-> Piece(c, s.pos, Block) = <<>>, err |-> s.err]
Failed(s) == [s EXCEPT !.err = "now"]

\* Filling a buffer takes nothing from the stream.
LEMMA FillReads ==
  ASSUME NEW c \in Seq(Byte), NEW s \in Streams, ~Known(s), NEW t, t = Filled(c, s)
  PROVE  /\ t \in Streams /\ Len(t.buf) <= Block /\ t.err = s.err
         /\ Reads(s, c) => Reads(t, c) /\ Taken(t) = Taken(s)
<1> DEFINE block == Piece(c, s.pos, Block)
<1>1. s.buf = <<>> /\ s.pos \in Nat /\ Len(s.buf) = 0 /\ Block \in Nat \ {0}
  BY StreamParts, FileToolsAssumption DEF Known
<1>2. /\ block \in Seq(Byte) /\ Len(block) <= Block
      /\ s.pos <= Len(c) =>
           /\ s.pos + Len(block) <= Len(c)
           /\ \A i \in 1..Len(block) : block[i] = c[s.pos + i]
           /\ block = <<>> => s.pos = Len(c)
  BY <1>1, PieceFacts
<1>3. t.pos = s.pos + Len(block) /\ t.buf = block /\ t.eof = (block = <<>>)
      /\ (t.eof => block = <<>>) /\ t.err = s.err
  BY DEF Filled
<1> HIDE DEF block
<1>4. t \in Streams /\ Len(t.buf) <= Block
  <2>1. s.pos + Len(block) \in Nat /\ (block = <<>>) \in BOOLEAN /\ s.err \in {"no", "now", "before"}
    BY <1>1, <1>2, StreamParts
  <2> QED
    BY <1>2, <1>3, <2>1 DEF Streams, Filled, block
<1>5. Taken(t) = s.pos /\ Taken(s) = s.pos
  BY <1>1, <1>2, <1>3 DEF Taken
<1>6. ASSUME Reads(s, c) PROVE Reads(t, c)
  <2>1. s.pos <= Len(c)
    BY <1>6 DEF Reads
  <2>2. t.pos <= Len(c) /\ \A i \in 1..Len(t.buf) : t.buf[i] = c[Taken(t) + i]
    BY <1>2, <1>3, <1>5, <2>1
  <2>3. t.eof => t.buf = <<>> /\ t.pos = Len(c)
    <3>1. block = <<>> => Len(block) = 0 /\ s.pos = Len(c)
      BY <1>2, <2>1
    <3>2. block = <<>> => t.buf = <<>> /\ t.pos = Len(c)
      <4> SUFFICES ASSUME block = <<>> PROVE t.pos = Len(c)
        BY <1>3
      <4>1. t.pos = s.pos + 0 /\ s.pos = Len(c)
        BY <1>3, <3>1
      <4> QED
        BY <1>1, <4>1
    <3> QED
      BY <1>3, <3>2
  <2> QED
    BY <1>1, <1>5, <2>2, <2>3 DEF Reads
<1> QED
  BY <1>3, <1>4, <1>5, <1>6

\* Nor does a read that fails.
LEMMA FailReads ==
  ASSUME NEW s \in Streams, NEW t, t = Failed(s)
  PROVE  /\ t \in Streams /\ t.buf = s.buf /\ t.err = "now"
         /\ \A c : Reads(s, c) => Reads(t, c) /\ Taken(t) = Taken(s)
<1>1. t \in Streams /\ t.pos = s.pos /\ t.buf = s.buf /\ t.eof = s.eof /\ t.err = "now"
  BY DEF Failed, Streams
<1> QED
  BY <1>1 DEF Reads, Taken

\* What an int is once it was kept in a char.
LEMMA CharFacts ==
  /\ EOF \notin Byte /\ 255 \in Byte /\ Char(EOF) = EOF
  /\ \A b \in Byte : IF b = 255 THEN Char(b) = EOF ELSE Char(b) = b /\ Char(b) # EOF
BY DEF Char, EOF, Byte

\* fgetc takes one byte from a buffer that has one, and none at an end of file or after
\* a read that failed.
LEMMA RestReads ==
  ASSUME NEW s \in Streams
  PROVE  /\ Rest(s) \in Streams /\ Rest(s).pos = s.pos /\ Len(Rest(s).buf) <= Len(s.buf)
         /\ Rest(s).err = "no" <=> s.err = "no"
         /\ s.buf = <<>> => Next1(s) = EOF /\ (s.err = "no" => Rest(s) = s)
         /\ s.buf # <<>> => /\ Taken(Rest(s)) = Taken(s) + 1
                            /\ Next1(s) = Head(s.buf) /\ Head(s.buf) \in Byte
                            /\ \A c \in Seq(Byte) : Reads(s, c) => 
                                 Reads(Rest(s), c) /\ Head(s.buf) = c[Taken(s) + 1] /\ Taken(s) + 1 <= Len(c)
<1>1. /\ s.pos \in Nat /\ s.buf \in Seq(Byte) /\ s.eof \in BOOLEAN /\ Len(s.buf) \in Nat
      /\ s.buf = <<>> <=> Len(s.buf) = 0
      /\ s.err \in {"no", "now", "before"}
  BY StreamParts
<1>2. CASE s.buf = <<>>
  <2> DEFINE e == IF s.err = "now" THEN "before" ELSE s.err
  <2>1. e \in {"no", "now", "before"} /\ (e = "no" <=> s.err = "no")
    BY <1>1
  <2>2. Rest(s) = [s EXCEPT !.err = e]
    BY <1>2 DEF Rest
  <2> HIDE DEF e
  <2>3. Rest(s) \in Streams /\ Rest(s).pos = s.pos /\ Rest(s).buf = s.buf /\ Rest(s).err = e
    BY <2>1, <2>2 DEF Streams
  <2>4. s.err = "no" => Rest(s) = s
    <3>1. s = [pos |-> s.pos, buf |-> s.buf, eof |-> s.eof, err |-> s.err]
      BY DEF Streams
    <3> QED
      BY <2>1, <2>2, <3>1 DEF Streams
  <2> QED
    BY <1>1, <1>2, <2>1, <2>3, <2>4 DEF Next1
<1>3. CASE s.buf # <<>>
  <2>1. Rest(s) = [s EXCEPT !.buf = Tail(s.buf)]
    BY <1>3 DEF Rest
  <2>2. /\ Tail(s.buf) \in Seq(Byte) /\ Len(Tail(s.buf)) = Len(s.buf) - 1
        /\ \A i \in 1..(Len(s.buf) - 1) : Tail(s.buf)[i] = s.buf[i + 1]
        /\ Head(s.buf) = s.buf[1] /\ Head(s.buf) \in Byte
    BY <1>1, <1>3
  <2>3. /\ Rest(s).pos = s.pos /\ Rest(s).buf = Tail(s.buf) /\ Rest(s).eof = s.eof /\ Rest(s).err = s.err
        /\ Rest(s) \in Streams
    BY <2>1, <2>2 DEF Streams
  <2>4. Taken(Rest(s)) = Taken(s) + 1
    BY <1>1, <2>2, <2>3 DEF Taken
  <2>5. Next1(s) = Head(s.buf)
    BY <1>3 DEF Next1
  <2>6. ASSUME NEW c \in Seq(Byte), Reads(s, c)
        PROVE  Reads(Rest(s), c) /\ Head(s.buf) = c[Taken(s) + 1] /\ Taken(s) + 1 <= Len(c)
    <3>1. /\ Taken(s) \in Nat /\ s.pos <= Len(c) /\ ~s.eof
          /\ \A i \in 1..Len(s.buf) : s.buf[i] = c[Taken(s) + i]
      BY <1>1, <1>3, <2>6 DEF Reads
    <3>2. Len(s.buf) \in Nat \ {0} /\ Taken(s) + 1 <= s.pos
      BY <1>1, <1>3, <3>1 DEF Taken
    <3>3. Taken(s) + 1 <= Len(c)
      <4> HIDE DEF Taken
      <4> QED
        BY <1>1, <2>6, <3>1, <3>2 DEF Reads
    <3>4. ASSUME NEW i \in 1..(Len(s.buf) - 1) PROVE Rest(s).buf[i] = c[Taken(Rest(s)) + i]
      <4>1. i + 1 \in 1..Len(s.buf) /\ Taken(s) + (i + 1) = Taken(s) + 1 + i
        BY <1>1, <3>1
      <4> QED
        BY <2>2, <2>3, <2>4, <3>1, <4>1
    <3> QED
      BY <1>1, <2>2, <2>3, <2>4, <3>1, <3>2, <3>3, <3>4 DEF Reads
  <2> QED
    BY <1>1, <2>2, <2>3, <2>4, <2>5, <2>6
<1> QED
  BY <1>2, <1>3

-----------------------------------------------------------------------------
(* The disk.                                                               *)

\* What a job is made of.
LEMMA JobParts ==
  ASSUME TypeOK, NEW p \in Procs
  PROVE  job[p].f1 \in Files /\ job[p].f2 \in Files /\ job[p].tool \in {"copy", "cmp"}
<1>1. job[p] \in Jobs
  BY DEF TypeOK
<1>2. job[p] \in [tool : {"copy", "cmp"}, f1 : Files, f2 : Files,
                    opt : {"none", "-f", "-i", "-x"}, may : SUBSET Files]
  BY <1>1, FileToolsAssumption
<1> QED
  BY <1>2

\* Both streams of an invocation are streams.
LEMMA StreamTypes ==
  ASSUME TypeOK, NEW p \in Procs
  PROVE  /\ stream[p] \in [1..2 -> Streams]
         /\ stream[p][1] \in Streams /\ stream[p][2] \in Streams
<1>1. stream[p] \in [1..2 -> Streams]
  BY DEF TypeOK
<1>2. 1 \in 1..2 /\ 2 \in 1..2
  OBVIOUS
<1> QED
  BY <1>1, <1>2, Zenon

\* A file is written whole, and all the others stay; those who have it in use are disturbed.
LEMMA ChangesFacts ==
  ASSUME TypeOK, NEW p \in Procs, NEW c \in Seq(Byte), Changes(p, c)
  PROVE  /\ IsDisk(disk') /\ disturbed' \in [Procs -> BOOLEAN] /\ disturbed'[p] = disturbed[p]
         /\ DOMAIN disk' = DOMAIN disk \cup {job[p].f2} /\ disk'[job[p].f2] = c
         /\ \A g \in DOMAIN disk : g # job[p].f2 => disk'[g] = disk[g]
         /\ \A q \in Procs \ {p} : pc[q] \notin {"start", "done"} /\ ~disturbed'[q] =>
              ~disturbed[q] /\ job[p].f2 \notin {job[q].f1, job[q].f2}
<1> DEFINE f == job[p].f2
<1>1. f \in Files /\ IsDisk(disk) /\ disturbed \in [Procs -> BOOLEAN]
  BY JobParts DEF TypeOK
<1>2. disk' = [g \in DOMAIN disk \cup {f} |-> IF g = f THEN c ELSE disk[g]]
  BY DEF Changes
<1>3. disturbed' = [q \in Procs |-> disturbed[q] \/ (q # p /\ pc[q] \notin {"start", "done"}
                                                      /\ f \in {job[q].f1, job[q].f2})]
  BY DEF Changes
<1> HIDE DEF f
<1>4. DOMAIN disk' = DOMAIN disk \cup {f} /\ \A g \in DOMAIN disk' : disk'[g] \in Seq(Byte)
  BY <1>1, <1>2 DEF IsDisk
<1>5. IsDisk(disk')
  <2>1. disk' \in [DOMAIN disk \cup {f} -> Seq(Byte)]
    BY <1>1, <1>2 DEF IsDisk
  <2> QED
    BY <1>1, <1>4, <2>1 DEF IsDisk
<1>6. disturbed' \in [Procs -> BOOLEAN] /\ disturbed'[p] = disturbed[p]
  BY <1>1, <1>3, Zenon
<1>7. \A q \in Procs \ {p} : pc[q] \notin {"start", "done"} /\ ~disturbed'[q] =>
        ~disturbed[q] /\ f \notin {job[q].f1, job[q].f2}
  BY <1>3, Zenon
<1> QED
  BY <1>2, <1>4, <1>5, <1>6, <1>7 DEF f

\* What a file is once the first n bytes of a buffer were written at its end.
Written(new, old, buf, n) ==
  /\ Len(new) = Len(old) + n
  /\ \A i \in 1..Len(old) : new[i] = old[i]
  /\ \A i \in 1..n : new[Len(old) + i] = buf[i]

\* A file that is overwritten is still made of bytes; one that is written at its end
\* is continued.
LEMMA OverwrittenFacts ==
  ASSUME NEW c \in Seq(Byte), NEW pos \in Nat, NEW out \in Seq(Byte)
  PROVE  /\ Overwritten(c, pos, out) \in Seq(Byte)
         /\ pos = Len(c) => Written(Overwritten(c, pos, out), c, out, Len(out))
<1> DEFINE end == pos + Len(out)
           n == IF end > Len(c) THEN end ELSE Len(c)
           at(i) == IF i > pos /\ i <= end THEN out[i - pos] ELSE IF i <= Len(c) THEN c[i] ELSE 0
<1>1. n \in Nat /\ end \in Nat /\ Len(c) \in Nat /\ Len(out) \in Nat
  OBVIOUS
<1>2. Overwritten(c, pos, out) = [i \in 1..n |-> at(i)]
  BY DEF Overwritten
<1>3. \A i \in 1..n : at(i) \in Byte
  <2> TAKE i \in 1..n
  <2>1. CASE i > pos /\ i <= end
    BY <1>1, <2>1
  <2>2. CASE ~(i > pos /\ i <= end) /\ i <= Len(c)
    BY <1>1, <2>2
  <2>3. CASE ~(i > pos /\ i <= end) /\ ~(i <= Len(c))
    BY <2>3 DEF Byte
  <2> QED
    BY <2>1, <2>2, <2>3
<1>4. ASSUME pos = Len(c)
      PROVE  /\ n = Len(c) + Len(out)
             /\ \A i \in 1..Len(c) : at(i) = c[i]
             /\ \A i \in 1..Len(out) : at(Len(c) + i) = out[i]
  BY <1>1, <1>4
<1> HIDE DEF n, at
<1>5. Overwritten(c, pos, out) \in Seq(Byte) /\ Len(Overwritten(c, pos, out)) = n
  BY <1>1, <1>2, <1>3
<1>6. \A i \in 1..n : Overwritten(c, pos, out)[i] = at(i)
  BY <1>2
<1>7. ASSUME pos = Len(c), NEW i \in 1..Len(c) PROVE i \in 1..n
  BY <1>1, <1>4, <1>7
<1>8. ASSUME pos = Len(c), NEW i \in 1..Len(out) PROVE Len(c) + i \in 1..n
  BY <1>1, <1>4, <1>8
<1>9. ASSUME pos = Len(c) PROVE Written(Overwritten(c, pos, out), c, out, Len(out))
  BY <1>4, <1>5, <1>6, <1>7, <1>8, <1>9 DEF Written
<1> QED
  BY <1>5, <1>9

\* Some of the buffer goes to the disk: a beginning of it, and nothing else changes.
LEMMA FlushFacts ==
  ASSUME TypeOK, NEW p \in Procs, job[p].f2 \in DOMAIN disk, Flush(p),
         NEW f, f = job[p].f2, NEW out, out = stream[p][2]
  PROVE  \E fits \in 0..Len(out.buf) :
           /\ short' = [short EXCEPT ![p] = fits < Len(out.buf)]
           /\ IsDisk(disk') /\ disturbed' \in [Procs -> BOOLEAN] /\ disturbed'[p] = disturbed[p]
           /\ DOMAIN disk' = DOMAIN disk
           /\ \A g \in DOMAIN disk : g # f => disk'[g] = disk[g]
           /\ \A q \in Procs \ {p} : pc[q] \notin {"start", "done"} /\ ~disturbed'[q] =>
                ~disturbed[q] /\ (disk' # disk => f \notin {job[q].f1, job[q].f2})
           /\ out.pos = Len(disk[f]) => Written(disk'[f], disk[f], out.buf, fits)
<1>1. out \in Streams /\ disk[f] \in Seq(Byte) /\ f \in DOMAIN disk
  BY StreamTypes DEF TypeOK, IsDisk
<1>2. out.pos \in Nat /\ out.buf \in Seq(Byte) /\ Len(out.buf) \in Nat
  BY <1>1, StreamParts
<1>3. PICK fits \in 0..Len(out.buf) :
        /\ IF fits = 0 THEN UNCHANGED <<disk, disturbed>>
           ELSE Changes(p, Overwritten(disk[f], out.pos, SubSeq(out.buf, 1, fits)))
        /\ short' = [short EXCEPT ![p] = fits < Len(out.buf)]
  BY DEF Flush
<1>4. CASE fits = 0
  <2>1. disk' = disk /\ disturbed' = disturbed
    BY <1>3, <1>4
  <2>2. IsDisk(disk') /\ disturbed' \in [Procs -> BOOLEAN]
    BY <2>1 DEF TypeOK
  <2>3. Len(disk'[f]) = Len(disk[f]) + fits
    BY <1>1, <1>4, <2>1
  <2>4. \A i \in 1..fits : disk'[f][Len(disk[f]) + i] = out.buf[i]
    BY <1>4
  <2>5. Written(disk'[f], disk[f], out.buf, fits)
    BY <2>1, <2>3, <2>4 DEF Written
  <2> QED
    BY <1>3, <2>1, <2>2, <2>5
<1>5. CASE fits # 0
  <2> DEFINE part == SubSeq(out.buf, 1, fits)
             new == Overwritten(disk[f], out.pos, part)
  <2>1. part \in Seq(Byte) /\ Len(part) = fits /\ \A i \in 1..fits : part[i] = out.buf[i]
    <3>1. \A i \in 1..fits : out.buf[i] \in Byte
      BY <1>2
    <3>2. /\ part \in Seq(Byte) /\ Len(part) = (IF 1 <= fits THEN fits - 1 + 1 ELSE 0)
          /\ \A i \in 1..(fits - 1 + 1) : part[i] = out.buf[1 + i - 1]
      BY <3>1, SubSeqProperties
    <3>3. fits \in Nat \ {0} /\ fits - 1 + 1 = fits
      BY <1>2, <1>5
    <3> HIDE DEF part
    <3> QED
      BY <3>2, <3>3
  <2> HIDE DEF part
  <2>2. new \in Seq(Byte) /\ (out.pos = Len(disk[f]) => Written(new, disk[f], out.buf, fits))
    <3>1. new \in Seq(Byte) /\ (out.pos = Len(disk[f]) => Written(new, disk[f], part, Len(part)))
      BY <1>1, <1>2, <2>1, OverwrittenFacts
    <3>2. Written(new, disk[f], part, fits) => Written(new, disk[f], out.buf, fits)
      BY <2>1 DEF Written
    <3> QED
      BY <2>1, <3>1, <3>2
  <2>3. Changes(p, new)
    BY <1>3, <1>5 DEF part
  <2> HIDE DEF new
  <2>4. /\ IsDisk(disk') /\ disturbed' \in [Procs -> BOOLEAN] /\ disturbed'[p] = disturbed[p]
        /\ DOMAIN disk' = DOMAIN disk \cup {f} /\ disk'[f] = new
        /\ \A g \in DOMAIN disk : g # f => disk'[g] = disk[g]
        /\ \A q \in Procs \ {p} : pc[q] \notin {"start", "done"} /\ ~disturbed'[q] =>
             ~disturbed[q] /\ f \notin {job[q].f1, job[q].f2}
    <3>1. new \in Seq(Byte)
      BY <2>2
    <3>2. /\ IsDisk(disk') /\ disturbed' \in [Procs -> BOOLEAN] /\ disturbed'[p] = disturbed[p]
          /\ DOMAIN disk' = DOMAIN disk \cup {job[p].f2} /\ disk'[job[p].f2] = new
          /\ \A g \in DOMAIN disk : g # job[p].f2 => disk'[g] = disk[g]
          /\ \A q \in Procs \ {p} : pc[q] \notin {"start", "done"} /\ ~disturbed'[q] =>
               ~disturbed[q] /\ job[p].f2 \notin {job[q].f1, job[q].f2}
      BY <2>3, <3>1, ChangesFacts
    <3> QED
      BY <3>2
  <2>5. DOMAIN disk' = DOMAIN disk
    BY <1>1, <2>4
  <2>6. out.pos = Len(disk[f]) => Written(disk'[f], disk[f], out.buf, fits)
    BY <2>2, <2>4
  <2> QED
    BY <1>3, <2>4, <2>5, <2>6
<1> QED
  BY <1>4, <1>5

-----------------------------------------------------------------------------
(* What a step does to the types, and to the other invocations.            *)

Labels == {"start", "create", "copy", "compare", "last", "done"}
Messages == {"none", "killed", "no source", "target exists", "not created", "Success",
             "General failure", "cannot open", "equal", "distinct"}

\* Where the invocations are, and what the ended ones have said.
Control == /\ pc \in [Procs -> Labels] /\ result \in [Procs -> Messages]
           /\ \A p \in Procs : result[p] = "none" <=> pc[p] # "done"

\* The streams of all invocations.
Buffers == /\ stream \in [Procs -> [1..2 -> Streams]]
           /\ \A p \in Procs, k \in 1..2 : Len(stream[p][k].buf) <= Block

\* Going on to another label.
LEMMA GotoFacts ==
  ASSUME TypeOK, NEW p \in Procs, pc[p] # "done", NEW label \in Labels \ {"done"}, Goto(p, label)
  PROVE  Control' /\ pc'[p] = label /\ result' = result /\ \A q \in Procs \ {p} : pc'[q] = pc[q]
<1>1. pc \in [Procs -> Labels] /\ result \in [Procs -> Messages]
  BY DEF TypeOK, Labels, Messages
<1>2. pc' = [pc EXCEPT ![p] = label] /\ result' = result
  BY DEF Goto
<1>3. /\ pc' \in [Procs -> Labels] /\ pc'[p] = label /\ \A q \in Procs \ {p} : pc'[q] = pc[q]
  BY <1>1, <1>2
<1>4. \A q \in Procs : result[q] = "none" <=> pc[q] # "done"
  BY DEF TypeOK
<1> QED
  BY <1>1, <1>2, <1>3, <1>4 DEF Control

\* Ending with a message.
LEMMA TellsFacts ==
  ASSUME TypeOK, NEW p \in Procs, NEW what \in Messages \ {"none"}, Tells(p, what)
  PROVE  /\ Control' /\ pc'[p] = "done" /\ result'[p] = what
         /\ \A q \in Procs \ {p} : pc'[q] = pc[q] /\ result'[q] = result[q]
<1>1. pc \in [Procs -> Labels] /\ result \in [Procs -> Messages] /\ "done" \in Labels
  BY DEF TypeOK, Labels, Messages
<1>2. pc' = [pc EXCEPT ![p] = "done"] /\ result' = [result EXCEPT ![p] = what]
  BY DEF Tells
<1>3. /\ pc' \in [Procs -> Labels] /\ result' \in [Procs -> Messages]
      /\ pc'[p] = "done" /\ result'[p] = what
      /\ \A q \in Procs \ {p} : pc'[q] = pc[q] /\ result'[q] = result[q]
  BY <1>1, <1>2
<1>4. \A q \in Procs : result[q] = "none" <=> pc[q] # "done"
  BY DEF TypeOK
<1> QED
  BY <1>3, <1>4 DEF Control

\* Nothing is said and the label stays.
LEMMA StaysFacts == ASSUME TypeOK, UNCHANGED <<pc, result>> PROVE Control'
  BY DEF TypeOK, Control, Labels, Messages

\* One stream of an invocation is replaced.
LEMMA StreamFacts ==
  ASSUME TypeOK, NEW p \in Procs, NEW k \in 1..2, NEW t \in Streams, Len(t.buf) <= Block,
         stream' = [stream EXCEPT ![p][k] = t]
  PROVE  /\ Buffers' /\ stream'[p][k] = t /\ \A l \in 1..2 : l # k => stream'[p][l] = stream[p][l]
         /\ \A q \in Procs \ {p} : stream'[q] = stream[q]
<1>1. stream \in [Procs -> [1..2 -> Streams]] /\ stream[p] \in [1..2 -> Streams]
  BY DEF TypeOK
<1>2. /\ stream'[p] = [stream[p] EXCEPT ![k] = t] /\ stream' \in [Procs -> [1..2 -> Streams]]
      /\ \A q \in Procs \ {p} : stream'[q] = stream[q]
  BY <1>1
<1>3. stream'[p][k] = t /\ \A l \in 1..2 : l # k => stream'[p][l] = stream[p][l]
  BY <1>1, <1>2
<1>4. \A q \in Procs, l \in 1..2 : Len(stream'[q][l].buf) <= Block
  <2> TAKE q \in Procs, l \in 1..2
  <2>1. Len(stream[q][l].buf) <= Block
    BY DEF TypeOK
  <2> QED
    BY <1>2, <1>3, <2>1
<1> QED
  BY <1>2, <1>3, <1>4 DEF Buffers

\* Both are.
LEMMA StreamsFacts ==
  ASSUME TypeOK, NEW p \in Procs, NEW t \in [1..2 -> Streams], \A k \in 1..2 : Len(t[k].buf) <= Block,
         stream' = [stream EXCEPT ![p] = t]
  PROVE  Buffers' /\ stream'[p] = t /\ \A q \in Procs \ {p} : stream'[q] = stream[q]
<1>1. stream \in [Procs -> [1..2 -> Streams]]
  BY DEF TypeOK
<1>2. /\ stream'[p] = t /\ stream' \in [Procs -> [1..2 -> Streams]]
      /\ \A q \in Procs \ {p} : stream'[q] = stream[q]
  BY <1>1
<1>3. \A q \in Procs, l \in 1..2 : Len(stream'[q][l].buf) <= Block
  <2> TAKE q \in Procs, l \in 1..2
  <2>1. Len(stream[q][l].buf) <= Block
    BY DEF TypeOK
  <2> QED
    BY <1>2, <2>1
<1> QED
  BY <1>2, <1>3 DEF Buffers

\* None is.
LEMMA NoStreamFacts == ASSUME TypeOK, UNCHANGED stream PROVE Buffers'
  BY DEF TypeOK, Buffers

\* What a step of p leaves to the invocation q.
Spared(q) ==
  /\ UNCHANGED <<pc[q], stream[q], result[q], began[q]>>
  /\ pc[q] \notin {"start", "done"} /\ ~disturbed'[q] =>
       /\ ~disturbed[q]
       /\ \A f \in {job[q].f1, job[q].f2} : /\ f \in DOMAIN disk' <=> f \in DOMAIN disk
                                            /\ f \in DOMAIN disk => disk'[f] = disk[f]

\* What all steps of p have in common.
Step(p) ==
  /\ job' = job /\ Control' /\ Buffers' /\ IsDisk(disk') /\ DOMAIN disk \subseteq DOMAIN disk'
  /\ \A g \in DOMAIN disk : g # job[p].f2 => disk'[g] = disk[g]
  /\ disturbed' \in [Procs -> BOOLEAN] /\ disturbed'[p] = disturbed[p]
  /\ short' \in [Procs -> BOOLEAN]
  /\ DOMAIN began' = Procs /\ \A q \in Procs : IsDisk(began'[q])
  /\ \A q \in Procs \ {p} : Spared(q)

\* The types are kept.
LEMMA StepType == ASSUME TypeOK, NEW p \in Procs, Step(p) PROVE TypeOK'
<1>1. job' \in [Procs -> Jobs]
  BY DEF TypeOK, Step
<1> QED
  BY <1>1 DEF TypeOK, Step, Control, Buffers, Labels, Messages

\* A step of one that leaves the disk alone.
LEMMA QuietStep ==
  ASSUME TypeOK, NEW p \in Procs, Control', Buffers', UNCHANGED <<disk, job, disturbed, short>>,
         began' = began \/ began' = [began EXCEPT ![p] = disk],
         \A q \in Procs \ {p} : UNCHANGED <<pc[q], stream[q], result[q]>>
  PROVE  Step(p)
<1>1. DOMAIN began = Procs /\ (\A q \in Procs : IsDisk(began[q])) /\ IsDisk(disk)
  BY DEF TypeOK
<1>2. DOMAIN began' = Procs /\ \A q \in Procs \ {p} : began'[q] = began[q]
  BY <1>1
<1>3. \A q \in Procs : IsDisk(began'[q])
  <2>1. began'[p] = began[p] \/ began'[p] = disk
    BY <1>1
  <2> QED
    BY <1>1, <1>2, <2>1
<1>4. IsDisk(disk')
  BY <1>1
<1>5. \A q \in Procs \ {p} : Spared(q)
  BY <1>2 DEF Spared
<1> QED
  BY <1>2, <1>3, <1>4, <1>5 DEF TypeOK, Step

\* The other invocations keep their invariants.
LEMMA OthersStay ==
  ASSUME TypeOK, NEW p \in Procs, Step(p), NEW q \in Procs \ {p}, Invocation(q)
  PROVE  Invocation(q)'
<1>1. /\ pc'[q] = pc[q] /\ stream'[q] = stream[q] /\ began'[q] = began[q] /\ job'[q] = job[q]
      /\ DOMAIN disk \subseteq DOMAIN disk'
  BY DEF Step, Spared
<1>2. Alone(q)' => Alone(q) /\ \A f \in {job[q].f1, job[q].f2} :
                                 /\ f \in DOMAIN disk' <=> f \in DOMAIN disk
                                 /\ f \in DOMAIN disk => disk'[f] = disk[f]
  BY <1>1 DEF Step, Spared, Alone
<1>3. Opened(q)'
  BY <1>1 DEF Invocation, Opened
<1>4. pc[q] \in {"copy", "compare", "last"} => {job[q].f1, job[q].f2} \subseteq DOMAIN disk
  BY DEF Invocation, Opened
<1>5. ASSUME Alone(q)', job[q].tool = "copy", job[q].f1 # job[q].f2 PROVE CopyAlone(q)'
  <2>1. CopyAlone(q)
    BY <1>2, <1>5 DEF Invocation
  <2>2. \A f \in {job[q].f1, job[q].f2} : AsBefore(q, f) => AsBefore(q, f)'
    BY <1>1, <1>2, <1>5 DEF AsBefore
  <2>3. pc[q] = "copy" => disk'[job[q].f1] = disk[job[q].f1] /\ disk'[job[q].f2] = disk[job[q].f2]
    BY <1>2, <1>4, <1>5
  <2> QED
    BY <1>1, <2>1, <2>2, <2>3 DEF CopyAlone
<1>6. ASSUME Alone(q)', Unfailing(q)', job[q].tool = "cmp" PROVE CmpAlone(q)'
  <2>1. CmpAlone(q)
    BY <1>1, <1>2, <1>6 DEF Invocation, Unfailing
  <2>2. pc[q] \in {"compare", "last"}
    <3>1. pc[q] \in Labels /\ pc[q] \notin {"start", "done"}
      BY <1>2, <1>6 DEF TypeOK, Alone, Labels
    <3> QED
      BY <1>6, <3>1 DEF Labels, Invocation, Opened
  <2>3. disk'[job[q].f1] = disk[job[q].f1] /\ disk'[job[q].f2] = disk[job[q].f2]
    BY <1>2, <1>4, <1>6, <2>2
  <2>4. \A c, d, n : Agree(q, c, d, n)' <=> Agree(q, c, d, n)
    BY <1>1 DEF Agree, Upper
  <2> QED
    BY <1>1, <2>1, <2>3, <2>4 DEF CmpAlone, Abreast, Ended
<1> QED
  BY <1>1, <1>3, <1>5, <1>6 DEF Invocation

\* An invocation that has ended needs nothing more.
LEMMA EndedInv == ASSUME NEW p \in Procs, pc'[p] = "done" PROVE Invocation(p)'
  BY DEF Invocation, Opened, Alone

\* A step of one and what it makes of its own invariant are all there is to show.
LEMMA OwnStep ==
  ASSUME IInv, NEW p \in Procs, Step(p), Invocation(p)'
  PROVE  IInv'
<1>1. TypeOK'
  BY StepType DEF IInv
<1>2. \A q \in Procs \ {p} : Invocation(q)'
  BY OthersStay DEF IInv
<1> QED
  BY <1>1, <1>2 DEF IInv

\* fgetc fills its buffer from the file it reads, or does not.
LEMMA FillFacts ==
  ASSUME TypeOK, NEW p \in Procs, NEW k \in 1..2,
         NEW f, f = (IF k = 1 THEN job[p].f1 ELSE job[p].f2), f \in DOMAIN disk, Fill(p, k)
  PROVE  /\ Step(p) /\ UNCHANGED <<disk, job, pc, result, began, disturbed, short>>
         /\ stream[p][k].buf = <<>> /\ ~stream[p][k].eof
         /\ stream'[p][k].err = "no" => stream[p][k].err = "no"
         /\ Reads(stream[p][k], disk[f]) => /\ Reads(stream'[p][k], disk[f])
                                            /\ Taken(stream'[p][k]) = Taken(stream[p][k])
         /\ \A l \in 1..2 : l # k => stream'[p][l] = stream[p][l]
<1> DEFINE s == stream[p][k]
           c == disk[f]
<1>1. /\ ~Known(s) /\ UNCHANGED <<disk, job, pc, result, began, disturbed, short>>
      /\ \/ stream' = [stream EXCEPT ![p][k] = Filled(c, s)]
         \/ stream' = [stream EXCEPT ![p][k] = Failed(s)]
  BY DEF Fill, Filled, Failed, Piece
<1>2. s \in Streams /\ Len(s.buf) <= Block /\ c \in Seq(Byte)
  BY StreamTypes DEF TypeOK, IsDisk
<1>3. PICK t : t \in {Filled(c, s), Failed(s)} /\ stream' = [stream EXCEPT ![p][k] = t]
  BY <1>1
<1>4. /\ t \in Streams /\ Len(t.buf) <= Block /\ (t.err = "no" => s.err = "no")
      /\ Reads(s, c) => Reads(t, c) /\ Taken(t) = Taken(s)
  <2>1. CASE t = Filled(c, s)
    <3> HIDE DEF s, c
    <3> QED
      BY <1>1, <1>2, <2>1, FillReads
  <2>2. CASE t = Failed(s)
    <3> HIDE DEF s, c
    <3> QED
      BY <1>2, <2>2, FailReads
  <2> QED
    BY <1>3, <2>1, <2>2
<1>5. /\ Buffers' /\ stream'[p][k] = t /\ \A l \in 1..2 : l # k => stream'[p][l] = stream[p][l]
      /\ \A q \in Procs \ {p} : stream'[q] = stream[q]
  BY <1>3, <1>4, StreamFacts
<1>6. Control'
  BY <1>1, StaysFacts
<1>7. Step(p)
  BY <1>1, <1>5, <1>6, QuietStep
<1>8. s.buf = <<>> /\ ~s.eof
  BY <1>1, <1>2 DEF Known, Streams
<1> QED
  BY <1>1, <1>4, <1>5, <1>7, <1>8

-----------------------------------------------------------------------------
(* copy.                                                                   *)

\* Every step that only tells the user something ends the invocation.
LEMMA TellsInv ==
  ASSUME IInv, NEW p \in Procs, NEW what \in Messages \ {"none"}, Tells(p, what),
         UNCHANGED <<disk, job, stream, disturbed, short>>,
         began' = began \/ began' = [began EXCEPT ![p] = disk]
  PROVE  IInv' /\ Step(p) /\ pc'[p] = "done" /\ result'[p] = what
<1>1. TypeOK
  BY DEF IInv
<1>2. /\ Control' /\ pc'[p] = "done" /\ result'[p] = what
      /\ \A q \in Procs \ {p} : pc'[q] = pc[q] /\ result'[q] = result[q]
  BY <1>1, TellsFacts
<1>3. Buffers'
  BY <1>1, NoStreamFacts
<1>4. Step(p)
  BY <1>1, <1>2, <1>3, QuietStep
<1>5. Invocation(p)'
  BY <1>2, EndedInv
<1> QED
  BY <1>2, <1>4, <1>5, OwnStep

\* copy begins: the source is there, and the target is not, or may be overwritten.
LEMMA CopyOpensInv ==
  ASSUME IInv, NEW p \in Procs, CopyOpens(p)
  PROVE  IInv' /\ Step(p)
<1>1. TypeOK /\ Invocation(p)
  BY DEF IInv
<1>2. /\ pc[p] = "start" /\ job[p].tool = "copy" /\ began' = [began EXCEPT ![p] = disk]
      /\ UNCHANGED <<disk, job, stream, disturbed, short>>
  BY DEF CopyOpens, Starts
<1>3. CASE ~Goto(p, "create")
  <2>1. \E what \in {"no source", "killed", "target exists"} : Tells(p, what)
    BY <1>3 DEF CopyOpens
  <2>2. PICK what \in Messages \ {"none"} : Tells(p, what)
    BY <2>1 DEF Messages
  <2> QED
    BY <1>2, <2>2, TellsInv
<1>4. CASE Goto(p, "create")
  <2>1. job[p].f1 \in DOMAIN disk /\ (job[p].f2 \notin DOMAIN disk \cap job[p].may \/ job[p].opt = "-f")
    <3>1. ~(\E what \in {"no source", "killed", "target exists"} : Tells(p, what))
      <4>1. pc'[p] = "create"
        BY <1>1, <1>4 DEF Goto, TypeOK
      <4>2. \A what : Tells(p, what) => pc'[p] = "done"
        BY <1>1 DEF Tells, TypeOK
      <4> QED
        BY <4>1, <4>2
    <3>2. Opens(p, job[p].f1) /\ (~Opens(p, job[p].f2) \/ job[p].opt = "-f")
      BY <3>1 DEF CopyOpens
    <3> QED
      BY <3>2 DEF Opens
  <2>2. "create" \in Labels \ {"done"}
    BY DEF Labels
  <2>3. Control' /\ pc'[p] = "create" /\ result' = result /\ \A q \in Procs \ {p} : pc'[q] = pc[q]
    BY <1>1, <1>2, <1>4, <2>2, GotoFacts
  <2>4. Buffers'
    BY <1>1, <1>2, NoStreamFacts
  <2>5. Step(p)
    BY <1>1, <1>2, <2>3, <2>4, QuietStep
  <2>6. began'[p] = disk
    BY <1>1, <1>2 DEF TypeOK
  <2>7. Opened(p)'
    BY <1>2, <2>1, <2>3 DEF Opened
  <2>8. CopyAlone(p)'
    <3>1. stream'[p] = [k \in 1..2 |-> Fresh]
      BY <1>1, <1>2 DEF Invocation, Opened
    <3>2. AsBefore(p, job[p].f1)' /\ AsBefore(p, job[p].f2)'
      BY <1>2, <2>6 DEF AsBefore
    <3> QED
      BY <1>2, <2>1, <2>3, <2>6, <3>1, <3>2 DEF CopyAlone
  <2>9. Invocation(p)'
    BY <1>2, <2>7, <2>8 DEF Invocation
  <2> QED
    BY <2>5, <2>9, OwnStep
<1> QED
  BY <1>3, <1>4

\* The empty target is a beginning of the source.
LEMMA CopyCreatesInv ==
  ASSUME IInv, NEW p \in Procs, CopyCreates(p)
  PROVE  IInv' /\ Step(p)
<1>1. TypeOK /\ Invocation(p)
  BY DEF IInv
<1>2. pc[p] = "create" /\ UNCHANGED <<job, stream, began, short>>
  BY DEF CopyCreates
<1>3. CASE Tells(p, "not created") /\ UNCHANGED <<disk, disturbed>>
  <2>1. "not created" \in Messages \ {"none"}
    BY DEF Messages
  <2> QED
    BY <1>2, <1>3, <2>1, TellsInv
<1>4. CASE Changes(p, <<>>) /\ Goto(p, "copy")
  <2> DEFINE f1 == job[p].f1
             f2 == job[p].f2
  <2>1. "copy" \in Labels \ {"done"} /\ <<>> \in Seq(Byte) /\ Len(<<>>) = 0
    BY DEF Labels
  <2>2. Control' /\ pc'[p] = "copy" /\ result' = result /\ \A q \in Procs \ {p} : pc'[q] = pc[q]
    BY <1>1, <1>2, <1>4, <2>1, GotoFacts
  <2>3. Buffers'
    BY <1>1, <1>2, NoStreamFacts
  <2>4. /\ IsDisk(disk') /\ disturbed' \in [Procs -> BOOLEAN] /\ disturbed'[p] = disturbed[p]
        /\ DOMAIN disk' = DOMAIN disk \cup {f2} /\ disk'[f2] = <<>>
        /\ \A g \in DOMAIN disk : g # f2 => disk'[g] = disk[g]
        /\ \A q \in Procs \ {p} : pc[q] \notin {"start", "done"} /\ ~disturbed'[q] =>
             ~disturbed[q] /\ f2 \notin {job[q].f1, job[q].f2}
    BY <1>1, <1>4, <2>1, ChangesFacts
  <2>5. Step(p)
    <3>1. \A q \in Procs \ {p} : Spared(q)
      BY <1>2, <2>2, <2>4 DEF Spared
    <3> QED
      BY <1>1, <1>2, <2>2, <2>3, <2>4, <3>1 DEF Step, TypeOK
  <2>6. job[p].tool = "copy" /\ f1 \in DOMAIN disk
    BY <1>1, <1>2 DEF Invocation, Opened
  <2>7. Opened(p)'
    BY <1>2, <2>2, <2>4, <2>6 DEF Opened
  <2>8. ASSUME Alone(p)', f1 # f2 PROVE CopyAlone(p)'
    <3>1. Alone(p)
      BY <1>2, <2>4, <2>8 DEF Alone
    <3>2. CopyAlone(p)
      BY <1>1, <2>6, <2>8, <3>1 DEF Invocation
    <3>3. /\ AsBefore(p, f1) /\ (f2 \notin DOMAIN began[p] \cap job[p].may \/ job[p].opt = "-f")
          /\ stream[p] = [k \in 1..2 |-> Fresh]
      BY <1>2, <3>2 DEF CopyAlone
    <3>4. disk'[f1] = disk[f1] /\ f1 \in DOMAIN disk'
      BY <2>4, <2>6, <2>8
    <3>5. AsBefore(p, f1)'
      BY <1>2, <2>6, <3>3, <3>4 DEF AsBefore
    <3>6. disk[f1] \in Seq(Byte)
      BY <1>1, <2>6 DEF TypeOK, IsDisk
    <3>7. InTransit(Fresh, Fresh, disk[f1], <<>>)
      <4>1. /\ Reads(Fresh, disk[f1]) /\ Fresh.pos = 0 /\ Taken(Fresh) = 0 /\ Len(Fresh.buf) = 0
        BY <3>6, FreshFacts
      <4> QED
        BY <2>1, <4>1 DEF InTransit
    <3>8. stream'[p][1] = Fresh /\ stream'[p][2] = Fresh
      BY <1>2, <3>3
    <3> QED
      BY <1>2, <2>2, <2>4, <3>3, <3>4, <3>5, <3>7, <3>8 DEF CopyAlone
  <2>9. Invocation(p)'
    BY <1>2, <2>6, <2>7, <2>8 DEF Invocation
  <2> QED
    BY <2>5, <2>9, OwnStep
<1> QED
  BY <1>3, <1>4 DEF CopyCreates

\* Reading the source.
LEMMA CopyGetsInv ==
  ASSUME IInv, NEW p \in Procs, CopyGets(p)
  PROVE  IInv' /\ Step(p)
<1>1. TypeOK /\ Invocation(p) /\ pc[p] = "copy" /\ Fill(p, 1)
  BY DEF IInv, CopyGets
<1>2. job[p].tool = "copy" /\ job[p].f1 \in DOMAIN disk /\ job[p].f2 \in DOMAIN disk /\ 1 \in 1..2
  BY <1>1 DEF Invocation, Opened
<1> DEFINE f1 == job[p].f1
           f2 == job[p].f2
<1>3. /\ Step(p) /\ UNCHANGED <<disk, job, pc, result, began, disturbed, short>>
      /\ Reads(stream[p][1], disk[f1]) => /\ Reads(stream'[p][1], disk[f1])
                                          /\ Taken(stream'[p][1]) = Taken(stream[p][1])
      /\ stream'[p][2] = stream[p][2]
  <2>1. f1 = (IF 1 = 1 THEN job[p].f1 ELSE job[p].f2) /\ 2 \in 1..2
    OBVIOUS
  <2> HIDE DEF f1
  <2>2. /\ Step(p) /\ UNCHANGED <<disk, job, pc, result, began, disturbed, short>>
        /\ Reads(stream[p][1], disk[f1]) => /\ Reads(stream'[p][1], disk[f1])
                                            /\ Taken(stream'[p][1]) = Taken(stream[p][1])
        /\ \A l \in 1..2 : l # 1 => stream'[p][l] = stream[p][l]
    BY <1>1, <1>2, <2>1, FillFacts DEF f1
  <2> QED
    BY <2>1, <2>2
<1>4. Opened(p)'
  BY <1>1, <1>2, <1>3 DEF Opened
<1>5. ASSUME Alone(p)', f1 # f2 PROVE CopyAlone(p)'
  <2>1. CopyAlone(p)
    BY <1>1, <1>2, <1>3, <1>5 DEF Invocation, Alone
  <2>2. InTransit(stream[p][1], stream[p][2], disk[f1], disk[f2])
    BY <1>1, <2>1 DEF CopyAlone
  <2>3. InTransit(stream'[p][1], stream'[p][2], disk[f1], disk[f2])
    BY <1>3, <2>2 DEF InTransit
  <2>4. AsBefore(p, f1) => AsBefore(p, f1)'
    BY <1>3 DEF AsBefore
  <2> QED
    BY <1>1, <1>3, <2>1, <2>3, <2>4 DEF CopyAlone
<1>6. Invocation(p)'
  BY <1>2, <1>3, <1>4, <1>5 DEF Invocation
<1> QED
  BY <1>3, <1>6, OwnStep

\* A byte goes from the source's buffer to the end of the target's.
LEMMA AppendTransit ==
  ASSUME NEW in \in Streams, NEW out \in Streams, NEW src \in Seq(Byte), NEW tgt \in Seq(Byte),
         InTransit(in, out, src, tgt), in.buf # <<>>,
         NEW new \in Streams, new.pos = out.pos, new.buf = Append(out.buf, Head(in.buf))
  PROVE  InTransit(Rest(in), new, src, tgt)
<1>1. /\ out.pos \in Nat /\ out.buf \in Seq(Byte) /\ Len(out.buf) \in Nat /\ Len(tgt) \in Nat
      /\ Reads(in, src) /\ Taken(in) = Len(tgt) + Len(out.buf)
  BY StreamParts DEF InTransit
<1>2. /\ Reads(Rest(in), src) /\ Taken(Rest(in)) = Taken(in) + 1
      /\ Head(in.buf) = src[Taken(in) + 1] /\ Head(in.buf) \in Byte
  BY <1>1, RestReads
<1>3. /\ Len(new.buf) = Len(out.buf) + 1 /\ new.buf[Len(out.buf) + 1] = Head(in.buf)
      /\ \A i \in 1..Len(out.buf) : new.buf[i] = out.buf[i]
  BY <1>1, <1>2
<1>4. ASSUME NEW i \in 1..Len(new.buf) PROVE new.buf[i] = src[Len(tgt) + i]
  <2>1. CASE i \in 1..Len(out.buf)
    BY <1>3, <2>1 DEF InTransit
  <2>2. CASE i = Len(out.buf) + 1
    <3>1. Len(tgt) + i = Taken(in) + 1
      BY <1>1, <2>2
    <3> QED
      BY <1>2, <1>3, <2>2, <3>1
  <2> QED
    BY <1>1, <1>3, <2>1, <2>2
<1>5. Taken(Rest(in)) = Len(tgt) + Len(new.buf)
  BY <1>1, <1>2, <1>3
<1> QED
  BY <1>2, <1>4, <1>5 DEF InTransit

\* The sequence s is a beginning of t.
Begins(s, t) == Len(s) <= Len(t) /\ \A i \in 1..Len(s) : s[i] = t[i]

\* A beginning of a sequence is a prefix of it, and a strict one when it is shorter.
LEMMA BeginsPrefix ==
  ASSUME NEW s \in Seq(Byte), NEW t \in Seq(Byte), Begins(s, t)
  PROVE  IsPrefix(s, t) /\ (Len(s) < Len(t) => IsStrictPrefix(s, t))
<1>1. Len(s) \in Nat /\ Len(t) \in Nat /\ Len(s) <= Len(t) /\ \A i \in 1..Len(s) : s[i] = t[i]
  BY DEF Begins
<1>2. SubSeq(s, 1, Len(s)) = s
  BY SubSeqFull
<1>3. SubSeq(t, 1, Len(s)) = s
  <2>1. \A i \in 1..Len(s) : t[i] \in Byte
    BY <1>1
  <2>2. /\ SubSeq(t, 1, Len(s)) \in Seq(Byte)
        /\ Len(SubSeq(t, 1, Len(s))) = (IF 1 <= Len(s) THEN Len(s) - 1 + 1 ELSE 0)
        /\ \A i \in 1..(Len(s) - 1 + 1) : SubSeq(t, 1, Len(s))[i] = t[1 + i - 1]
    BY <1>1, <2>1, SubSeqProperties
  <2>3. Len(SubSeq(t, 1, Len(s))) = Len(s) /\ \A i \in 1..Len(s) : SubSeq(t, 1, Len(s))[i] = s[i]
    BY <1>1, <2>2
  <2> QED
    BY <2>2, <2>3, SeqEqual
<1>4. Len(s) < Len(t) => s # t
  BY <1>1
<1> QED
  BY <1>1, <1>2, <1>3, <1>4 DEF IsStrictPrefix, IsPrefix

\* What was written is a beginning of the source.
LEMMA WrittenBegins ==
  ASSUME NEW in \in Streams, NEW out \in Streams, NEW src \in Seq(Byte), NEW tgt \in Seq(Byte),
         InTransit(in, out, src, tgt), NEW fits \in 0..Len(out.buf),
         NEW new \in Seq(Byte), Written(new, tgt, out.buf, fits)
  PROVE  /\ Begins(new, src)
         /\ fits < Len(out.buf) => IsStrictPrefix(new, src)
         /\ fits = Len(out.buf) => Len(new) = Taken(in)
<1>1. /\ out.buf \in Seq(Byte) /\ Len(out.buf) \in Nat /\ Len(tgt) \in Nat /\ fits \in Nat
      /\ in.pos \in Nat /\ Len(in.buf) \in Nat
      /\ Taken(in) = Len(tgt) + Len(out.buf) /\ in.pos <= Len(src) /\ Len(src) \in Nat
  BY StreamParts DEF InTransit, Reads
<1>2. Len(new) = Len(tgt) + fits
  BY DEF Written
<1>3. ASSUME NEW i \in 1..Len(new) PROVE new[i] = src[i]
  <2>1. CASE i \in 1..Len(tgt)
    BY <2>1 DEF Written, InTransit
  <2>2. CASE i \notin 1..Len(tgt)
    <3>1. i - Len(tgt) \in 1..fits /\ i - Len(tgt) \in 1..Len(out.buf) /\ Len(tgt) + (i - Len(tgt)) = i
      BY <1>1, <1>2, <2>2
    <3>2. new[Len(tgt) + (i - Len(tgt))] = out.buf[i - Len(tgt)]
      BY <3>1 DEF Written
    <3>3. out.buf[i - Len(tgt)] = src[Len(tgt) + (i - Len(tgt))]
      BY <3>1 DEF InTransit
    <3> QED
      BY <3>1, <3>2, <3>3
  <2> QED
    BY <2>1, <2>2
<1>4. Taken(in) <= Len(src)
  BY <1>1 DEF Taken
<1>5. \A a, b \in Nat : \A n \in 0..b : a + n <= a + b /\ (n = b => a + n = a + b)
  OBVIOUS
<1>6. Len(new) <= Taken(in) /\ (fits = Len(out.buf) => Len(new) = Taken(in))
  BY <1>1, <1>2, <1>5, Zenon
<1> QED
  <2>1. Begins(new, src)
    BY <1>1, <1>2, <1>3, <1>4, <1>6 DEF Begins
  <2>2. fits < Len(out.buf) => Len(new) < Len(src)
    <3>1. \A a, b, c \in Nat : \A n \in 0..b : n < b /\ a + b <= c => a + n < c
      OBVIOUS
    <3> QED
      BY <1>1, <1>2, <1>4, <3>1, Zenon
  <2> QED
    BY <1>6, <2>1, <2>2, BeginsPrefix

\* The whole buffer was written, and a byte of the source is the first of the next one.
LEMMA FlushTransit ==
  ASSUME NEW in \in Streams, NEW out \in Streams, NEW src \in Seq(Byte), NEW tgt \in Seq(Byte),
         InTransit(in, out, src, tgt), in.buf # <<>>,
         NEW file \in Seq(Byte), Written(file, tgt, out.buf, Len(out.buf)),
         NEW new \in Streams, new.pos = out.pos + Len(out.buf), new.buf = <<Head(in.buf)>>
  PROVE  InTransit(Rest(in), new, src, file)
<1>1. /\ out.buf \in Seq(Byte) /\ Len(out.buf) \in Nat /\ Len(tgt) \in Nat
      /\ Reads(in, src) /\ out.pos = Len(tgt)
  BY StreamParts DEF InTransit
<1>2. /\ Reads(Rest(in), src) /\ Taken(Rest(in)) = Taken(in) + 1
      /\ Head(in.buf) = src[Taken(in) + 1]
  BY <1>1, RestReads
<1>3. Begins(file, src) /\ Len(file) = Taken(in)
  <2>1. \A n \in 0..Len(out.buf) : Written(file, tgt, out.buf, n) =>
          Begins(file, src) /\ (n = Len(out.buf) => Len(file) = Taken(in))
    BY WrittenBegins
  <2>2. Len(out.buf) \in 0..Len(out.buf)
    BY <1>1
  <2> QED
    BY <2>1, <2>2, Zenon
<1>4. Len(file) = out.pos + Len(out.buf)
  BY <1>1 DEF Written
<1>5. Len(new.buf) = 1 /\ new.buf[1] = src[Len(file) + 1]
  <2>1. Len(new.buf) = 1 /\ new.buf[1] = Head(in.buf)
    OBVIOUS
  <2> QED
    BY <1>2, <1>3, <2>1, Zenon
<1>6. Taken(Rest(in)) = Len(file) + Len(new.buf)
  BY <1>2, <1>3, <1>5, Zenon
<1>7. \A i \in 1..Len(new.buf) : new.buf[i] = src[Len(file) + i]
  <2>1. \A i \in 1..Len(new.buf) : i = 1
    BY <1>5
  <2> QED
    BY <1>5, <2>1, Zenon
<1>8. \A i \in 1..Len(file) : file[i] = src[i]
  BY <1>3 DEF Begins
<1> QED
  BY <1>2, <1>4, <1>6, <1>7, <1>8 DEF InTransit

\* What a flush of a copy that was left alone has made of the target.
LEMMA FlushBegins ==
  ASSUME TypeOK, NEW p \in Procs, NEW f1, f1 = job[p].f1, NEW f2, f2 = job[p].f2, f1 # f2,
         f1 \in DOMAIN disk, f2 \in DOMAIN disk, Flush(p),
         NEW in, in = stream[p][1], NEW out, out = stream[p][2],
         InTransit(in, out, disk[f1], disk[f2])
  PROVE  /\ disk'[f1] = disk[f1] /\ DOMAIN disk' = DOMAIN disk /\ disk'[f2] \in Seq(Byte)
         /\ short'[p] => IsStrictPrefix(disk'[f2], disk'[f1])
         /\ ~short'[p] => Written(disk'[f2], disk[f2], out.buf, Len(out.buf))
<1>1. /\ in \in Streams /\ out \in Streams /\ disk[f1] \in Seq(Byte) /\ disk[f2] \in Seq(Byte)
  BY StreamTypes DEF TypeOK, IsDisk
<1>2. Len(out.buf) \in Nat /\ out.pos = Len(disk[f2])
  BY <1>1, StreamParts DEF InTransit
<1>3. PICK fits \in 0..Len(out.buf) :
        /\ short' = [short EXCEPT ![p] = fits < Len(out.buf)]
        /\ IsDisk(disk') /\ DOMAIN disk' = DOMAIN disk
        /\ \A g \in DOMAIN disk : g # f2 => disk'[g] = disk[g]
        /\ out.pos = Len(disk[f2]) => Written(disk'[f2], disk[f2], out.buf, fits)
  BY FlushFacts
<1>4. Written(disk'[f2], disk[f2], out.buf, fits) /\ disk'[f1] = disk[f1] /\ disk'[f2] \in Seq(Byte)
  BY <1>2, <1>3 DEF IsDisk
<1>5. (short'[p] => fits < Len(out.buf)) /\ (~short'[p] => ~(fits < Len(out.buf)))
  BY <1>3 DEF TypeOK
<1>6. short'[p] => IsStrictPrefix(disk'[f2], disk'[f1])
  <2>1. \A n \in 0..Len(out.buf) : Written(disk'[f2], disk[f2], out.buf, n) =>
          (n < Len(out.buf) => IsStrictPrefix(disk'[f2], disk[f1]))
    BY <1>1, <1>4, WrittenBegins
  <2> QED
    BY <1>4, <1>5, <2>1, Zenon
<1>7. ~short'[p] => fits = Len(out.buf)
  BY <1>2, <1>5
<1> QED
  BY <1>3, <1>4, <1>6, <1>7, Zenon

\* A step of p that flushes its target, and changes only p's label and streams besides.
LEMMA FlushStep ==
  ASSUME TypeOK, NEW p \in Procs, job[p].f2 \in DOMAIN disk, Flush(p), Control', Buffers',
         UNCHANGED <<job, began>>,
         \A q \in Procs \ {p} : UNCHANGED <<pc[q], stream[q], result[q]>>
  PROVE  Step(p) /\ DOMAIN disk' = DOMAIN disk
<1> DEFINE f == job[p].f2
           out == stream[p][2]
<1>1. \E fits \in 0..Len(out.buf) :
        /\ short' = [short EXCEPT ![p] = fits < Len(out.buf)]
        /\ IsDisk(disk') /\ disturbed' \in [Procs -> BOOLEAN] /\ disturbed'[p] = disturbed[p]
        /\ DOMAIN disk' = DOMAIN disk
        /\ \A g \in DOMAIN disk : g # f => disk'[g] = disk[g]
        /\ \A q \in Procs \ {p} : pc[q] \notin {"start", "done"} /\ ~disturbed'[q] =>
             ~disturbed[q] /\ (disk' # disk => f \notin {job[q].f1, job[q].f2})
  BY FlushFacts
<1>2. PICK fits \in 0..Len(out.buf) : short' = [short EXCEPT ![p] = fits < Len(out.buf)]
  BY <1>1
<1>3. short' \in [Procs -> BOOLEAN]
  <2>1. (fits < Len(out.buf)) \in BOOLEAN
    OBVIOUS
  <2> QED
    BY <1>2, <2>1 DEF TypeOK
<1>4. /\ IsDisk(disk') /\ disturbed' \in [Procs -> BOOLEAN] /\ disturbed'[p] = disturbed[p]
      /\ DOMAIN disk' = DOMAIN disk
      /\ \A g \in DOMAIN disk : g # f => disk'[g] = disk[g]
      /\ \A q \in Procs \ {p} : pc[q] \notin {"start", "done"} /\ ~disturbed'[q] =>
           ~disturbed[q] /\ (disk' # disk => f \notin {job[q].f1, job[q].f2})
  BY <1>1
<1>5. ASSUME NEW q \in Procs \ {p} PROVE Spared(q)
  <2>1. UNCHANGED <<pc[q], stream[q], result[q], began[q]>>
    OBVIOUS
  <2>2. ASSUME pc[q] \notin {"start", "done"}, ~disturbed'[q]
        PROVE  /\ ~disturbed[q]
               /\ \A g \in {job[q].f1, job[q].f2} : /\ g \in DOMAIN disk' <=> g \in DOMAIN disk
                                                    /\ g \in DOMAIN disk => disk'[g] = disk[g]
    <3>1. ~disturbed[q] /\ (disk' # disk => f \notin {job[q].f1, job[q].f2})
      BY <1>4, <2>2
    <3> QED
      BY <1>4, <3>1
  <2> QED
    BY <2>1, <2>2 DEF Spared
<1> QED
  BY <1>3, <1>4, <1>5 DEF TypeOK, Step

\* The streams of a copy after fputc.
LEMMA PutsStreams ==
  ASSUME TypeOK, NEW p \in Procs, NEW in, in = stream[p][1], NEW new \in Streams, Len(new.buf) <= Block,
         stream' = [stream EXCEPT ![p] = <<Rest(in), new>>]
  PROVE  /\ Buffers' /\ stream'[p][1] = Rest(in) /\ stream'[p][2] = new
         /\ \A q \in Procs \ {p} : stream'[q] = stream[q]
<1> DEFINE t == <<Rest(in), new>>
<1>1. in \in Streams /\ Len(in.buf) <= Block /\ Block \in Nat
  <2>1. 1 \in 1..2
    OBVIOUS
  <2> QED
    BY <2>1, StreamTypes, FileToolsAssumption DEF TypeOK
<1>2. Rest(in) \in Streams /\ Len(Rest(in).buf) <= Len(in.buf)
  BY <1>1, RestReads
<1>3. Len(Rest(in).buf) \in Nat /\ Len(in.buf) \in Nat
  BY <1>1, <1>2, StreamParts
<1>4. Len(Rest(in).buf) <= Block
  BY <1>1, <1>2, <1>3
<1>5. t \in [1..2 -> Streams] /\ t[1] = Rest(in) /\ t[2] = new
  BY <1>2
<1> HIDE DEF t
<1>6. \A k \in 1..2 : Len(t[k].buf) <= Block
  <2>1. \A k \in 1..2 : k = 1 \/ k = 2
    OBVIOUS
  <2> QED
    BY <1>4, <1>5, <2>1, Zenon
<1>7. Buffers' /\ stream'[p] = t /\ \A q \in Procs \ {p} : stream'[q] = stream[q]
  BY <1>5, <1>6, StreamsFacts DEF t
<1> QED
  BY <1>5, <1>7

\* A byte goes into the target's buffer.
LEMMA CopyAppendsInv ==
  ASSUME IInv, NEW p \in Procs, CopyPuts(p), Len(stream[p][2].buf) < Block
  PROVE  IInv' /\ Step(p) /\ pc'[p] # "done"
<1> DEFINE f1 == job[p].f1
           f2 == job[p].f2
           in == stream[p][1]
           out == stream[p][2]
           new == [out EXCEPT !.buf = Append(out.buf, Head(in.buf))]
<1>1. TypeOK /\ Invocation(p)
  BY DEF IInv
<1>2. /\ pc[p] = "copy" /\ in.buf # <<>> /\ stream' = [stream EXCEPT ![p] = <<Rest(in), new>>]
      /\ UNCHANGED <<disk, job, pc, result, began, disturbed, short>>
  BY DEF CopyPuts
<1>3. in \in Streams /\ out \in Streams
  BY <1>1, StreamTypes
<1>4. /\ out.buf \in Seq(Byte) /\ Len(out.buf) \in Nat /\ in.buf \in Seq(Byte) /\ Head(in.buf) \in Byte
      /\ Block \in Nat
  BY <1>2, <1>3, StreamParts, RestReads, FileToolsAssumption
<1>5. new \in Streams /\ new.pos = out.pos /\ new.buf = Append(out.buf, Head(in.buf))
  <2>1. Append(out.buf, Head(in.buf)) \in Seq(Byte)
    BY <1>4
  <2> QED
    BY <1>3, <2>1 DEF Streams
<1>6. Len(new.buf) <= Block
  BY <1>4, <1>5
<1> HIDE DEF new
<1>7. /\ Buffers' /\ stream'[p][1] = Rest(in) /\ stream'[p][2] = new
      /\ \A q \in Procs \ {p} : stream'[q] = stream[q]
  BY <1>1, <1>2, <1>5, <1>6, PutsStreams
<1>8. Control'
  BY <1>1, <1>2, StaysFacts
<1>9. Step(p)
  BY <1>1, <1>2, <1>7, <1>8, QuietStep
<1>10. job[p].tool = "copy" /\ f1 \in DOMAIN disk /\ f2 \in DOMAIN disk
  BY <1>1, <1>2 DEF Invocation, Opened
<1>11. Opened(p)'
  BY <1>2, <1>10 DEF Opened
<1>12. ASSUME Alone(p)', f1 # f2 PROVE CopyAlone(p)'
  <2>1. CopyAlone(p)
    BY <1>1, <1>2, <1>10, <1>12 DEF Invocation, Alone
  <2>2. InTransit(in, out, disk[f1], disk[f2])
    BY <1>2, <2>1 DEF CopyAlone
  <2>3. disk[f1] \in Seq(Byte) /\ disk[f2] \in Seq(Byte)
    BY <1>1, <1>10 DEF TypeOK, IsDisk
  <2>4. InTransit(Rest(in), new, disk[f1], disk[f2])
    BY <1>2, <1>3, <1>5, <2>2, <2>3, AppendTransit
  <2>5. AsBefore(p, f1) => AsBefore(p, f1)'
    BY <1>2 DEF AsBefore
  <2> QED
    BY <1>2, <1>7, <2>1, <2>4, <2>5 DEF CopyAlone
<1>13. Invocation(p)'
  BY <1>2, <1>10, <1>11, <1>12 DEF Invocation
<1> QED
  BY <1>2, <1>9, <1>13, OwnStep

\* A copy that ends with a flush has told the truth.
LEMMA FlushTruth ==
  ASSUME TypeOK, NEW p \in Procs, NEW f1, f1 = job[p].f1, NEW f2, f2 = job[p].f2,
         f1 \in DOMAIN disk, CopyAlone(p), disk'[f1] = disk[f1], began' = began,
         IF result'[p] = "Success" /\ ~short'[p]
         THEN IsPrefix(disk'[f2], disk'[f1]) /\ (Unfailing(p) => disk'[f2] = disk'[f1])
         ELSE IsStrictPrefix(disk'[f2], disk'[f1]),
         result'[p] \in {"Success", "General failure"}
  PROVE  CopyTellsTruth(p)
<1>1. disk[f1] = began[p][f1] /\ (f2 \notin DOMAIN began[p] \cap job[p].may \/ job[p].opt = "-f")
  BY DEF CopyAlone, AsBefore
<1> QED
  BY <1>1 DEF CopyTellsTruth

\* The full buffer goes to the disk and the byte into the next one, or the user is told
\* that it did not fit.
LEMMA CopyFlushesInv ==
  ASSUME IInv, NEW p \in Procs, CopyPuts(p), ~(Len(stream[p][2].buf) < Block)
  PROVE  /\ IInv' /\ Step(p)
         /\ pc'[p] = "done" /\ ~disturbed[p] /\ job[p].f1 # job[p].f2 => CopyTellsTruth(p)
<1> DEFINE f1 == job[p].f1
           f2 == job[p].f2
           in == stream[p][1]
           out == stream[p][2]
           new == [out EXCEPT !.pos = out.pos + Len(out.buf), !.buf = <<Head(in.buf)>>]
<1>1. TypeOK /\ Invocation(p)
  BY DEF IInv
<1>2. /\ pc[p] = "copy" /\ in.buf # <<>> /\ stream' = [stream EXCEPT ![p] = <<Rest(in), new>>]
      /\ Flush(p) /\ UNCHANGED <<job, began>>
  BY DEF CopyPuts
<1>3. (short'[p] => Tells(p, "General failure")) /\ (~short'[p] => UNCHANGED <<pc, result>>)
  BY DEF CopyPuts
<1>4. in \in Streams /\ out \in Streams
  BY <1>1, StreamTypes
<1>5. /\ out.pos \in Nat /\ Len(out.buf) \in Nat /\ Head(in.buf) \in Byte /\ Block \in Nat \ {0}
  BY <1>2, <1>4, StreamParts, RestReads, FileToolsAssumption
<1>6. /\ new \in Streams /\ new.pos = out.pos + Len(out.buf) /\ new.buf = <<Head(in.buf)>>
      /\ Len(new.buf) <= Block
  <2>1. \A b \in Byte : <<b>> \in Seq(Byte) /\ Len(<<b>>) = 1
    OBVIOUS
  <2>2. 1 <= Block /\ out.pos + Len(out.buf) \in Nat
    <3>1. (\A k \in Nat \ {0} : 1 <= k) /\ (\A j, k \in Nat : j + k \in Nat)
      OBVIOUS
    <3> QED
      BY <1>5, <3>1, Zenon
  <2>3. <<Head(in.buf)>> \in Seq(Byte) /\ Len(<<Head(in.buf)>>) <= Block
    BY <1>5, <2>1, <2>2, Zenon
  <2> QED
    BY <1>4, <2>2, <2>3 DEF Streams
<1> HIDE DEF new
<1>7. /\ Buffers' /\ stream'[p][1] = Rest(in) /\ stream'[p][2] = new
      /\ \A q \in Procs \ {p} : stream'[q] = stream[q]
  BY <1>1, <1>2, <1>6, PutsStreams
<1>8. job[p].tool = "copy" /\ f1 \in DOMAIN disk /\ f2 \in DOMAIN disk
  BY <1>1, <1>2 DEF Invocation, Opened
<1>9. ASSUME ~disturbed[p], f1 # f2
      PROVE  /\ CopyAlone(p) /\ InTransit(in, out, disk[f1], disk[f2])
             /\ disk'[f1] = disk[f1] /\ DOMAIN disk' = DOMAIN disk /\ disk'[f2] \in Seq(Byte)
             /\ short'[p] => IsStrictPrefix(disk'[f2], disk'[f1])
             /\ ~short'[p] => Written(disk'[f2], disk[f2], out.buf, Len(out.buf))
  <2>1. CopyAlone(p)
    BY <1>1, <1>2, <1>8, <1>9 DEF Invocation, Alone
  <2>2. InTransit(in, out, disk[f1], disk[f2])
    BY <1>2, <2>1 DEF CopyAlone
  <2> HIDE DEF f1, f2, in, out
  <2> QED
    BY <1>1, <1>2, <1>8, <1>9, <2>1, <2>2, FlushBegins DEF f1, f2, in, out
<1>10. CASE short'[p]
  <2>1. "General failure" \in Messages \ {"none"} /\ Tells(p, "General failure")
    BY <1>3, <1>10 DEF Messages
  <2>2. /\ Control' /\ pc'[p] = "done" /\ result'[p] = "General failure"
        /\ \A q \in Procs \ {p} : pc'[q] = pc[q] /\ result'[q] = result[q]
    BY <1>1, <2>1, TellsFacts
  <2>3. Step(p)
    BY <1>1, <1>2, <1>7, <1>8, <2>2, FlushStep
  <2>4. Invocation(p)'
    BY <2>2, EndedInv
  <2>5. ~disturbed[p] /\ f1 # f2 => CopyTellsTruth(p)
    BY <1>1, <1>2, <1>8, <1>9, <1>10, <2>2, FlushTruth
  <2> QED
    BY <2>3, <2>4, <2>5, OwnStep
<1>11. CASE ~short'[p]
  <2>1. UNCHANGED <<pc, result>>
    BY <1>3, <1>11
  <2>2. Control'
    BY <1>1, <2>1, StaysFacts
  <2>3. Step(p) /\ DOMAIN disk' = DOMAIN disk
    BY <1>1, <1>2, <1>7, <1>8, <2>1, <2>2, FlushStep
  <2>4. Opened(p)'
    BY <1>2, <1>8, <2>1, <2>3 DEF Opened
  <2>5. ASSUME Alone(p)', f1 # f2 PROVE CopyAlone(p)'
    <3>1. ~disturbed[p]
      BY <2>3, <2>5 DEF Alone, Step
    <3>2. disk[f1] \in Seq(Byte) /\ disk[f2] \in Seq(Byte)
      BY <1>1, <1>8 DEF TypeOK, IsDisk
    <3>3. InTransit(Rest(in), new, disk[f1], disk'[f2])
      BY <1>2, <1>4, <1>6, <1>9, <1>11, <2>5, <3>1, <3>2, FlushTransit
    <3>4. AsBefore(p, f1)'
      BY <1>2, <1>9, <2>3, <2>5, <3>1 DEF AsBefore, CopyAlone
    <3> QED
      BY <1>2, <1>7, <1>9, <2>1, <2>5, <3>1, <3>3, <3>4 DEF CopyAlone
  <2>6. Invocation(p)'
    BY <1>2, <1>8, <2>4, <2>5 DEF Invocation
  <2>7. pc'[p] # "done"
    BY <1>2, <2>1
  <2> QED
    BY <2>3, <2>6, <2>7, OwnStep
<1> QED
  BY <1>10, <1>11

\* At the end of the source the rest of the buffer goes to the disk, if it fits.
LEMMA CopyClosesInv ==
  ASSUME IInv, NEW p \in Procs, CopyCloses(p)
  PROVE  /\ IInv' /\ Step(p)
         /\ ~disturbed[p] /\ job[p].f1 # job[p].f2 => CopyTellsTruth(p)
<1> DEFINE f1 == job[p].f1
           f2 == job[p].f2
           in == stream[p][1]
           out == stream[p][2]
<1>1. TypeOK /\ Invocation(p)
  BY DEF IInv
<1>2. /\ pc[p] = "copy" /\ Known(in) /\ Next1(in) = EOF /\ Flush(p) /\ Tells(p, "Success")
      /\ UNCHANGED <<job, stream, began>> /\ "Success" \in Messages \ {"none"}
  BY DEF CopyCloses, Messages
<1>3. /\ Control' /\ pc'[p] = "done" /\ result'[p] = "Success"
      /\ \A q \in Procs \ {p} : pc'[q] = pc[q] /\ result'[q] = result[q]
  BY <1>1, <1>2, TellsFacts
<1>4. job[p].tool = "copy" /\ f1 \in DOMAIN disk /\ f2 \in DOMAIN disk
  BY <1>1, <1>2 DEF Invocation, Opened
<1>5. Buffers'
  BY <1>1, <1>2, NoStreamFacts
<1>6. Step(p)
  BY <1>1, <1>2, <1>3, <1>4, <1>5, FlushStep
<1>7. Invocation(p)'
  BY <1>3, EndedInv
<1>8. ASSUME ~disturbed[p], f1 # f2 PROVE CopyTellsTruth(p)
  <2>1. CopyAlone(p)
    BY <1>1, <1>2, <1>4, <1>8 DEF Invocation, Alone
  <2>2. InTransit(in, out, disk[f1], disk[f2])
    BY <1>2, <2>1 DEF CopyAlone
  <2>3. /\ disk'[f1] = disk[f1] /\ disk'[f2] \in Seq(Byte)
        /\ short'[p] => IsStrictPrefix(disk'[f2], disk'[f1])
        /\ ~short'[p] => Written(disk'[f2], disk[f2], out.buf, Len(out.buf))
    <3> HIDE DEF f1, f2, in, out
    <3> QED
      BY <1>1, <1>2, <1>4, <1>8, <2>2, FlushBegins DEF f1, f2, in, out
  <2>4. in \in Streams /\ out \in Streams /\ disk[f1] \in Seq(Byte) /\ disk[f2] \in Seq(Byte)
    BY <1>1, <1>4, StreamTypes DEF TypeOK, IsDisk
  <2>5. ASSUME ~short'[p]
        PROVE  IsPrefix(disk'[f2], disk'[f1]) /\ (Unfailing(p) => disk'[f2] = disk'[f1])
    <3>1. \A n \in 0..Len(out.buf) : Written(disk'[f2], disk[f2], out.buf, n) =>
            Begins(disk'[f2], disk[f1]) /\ (n = Len(out.buf) => Len(disk'[f2]) = Taken(in))
      BY <2>2, <2>3, <2>4, WrittenBegins
    <3>2. Len(out.buf) \in 0..Len(out.buf)
      BY <2>4, StreamParts
    <3>3. Begins(disk'[f2], disk[f1]) /\ Len(disk'[f2]) = Taken(in)
      BY <2>3, <2>5, <3>1, <3>2, Zenon
    <3>4. ASSUME Unfailing(p) PROVE Taken(in) = Len(disk[f1])
      <4>1. in.buf = <<>>
        BY <1>2, <2>4, RestReads, CharFacts
      <4>2. in.err = "no"
        BY <3>4 DEF Unfailing
      <4>3. in.pos = Len(disk[f1])
        BY <1>2, <2>2, <4>1, <4>2 DEF Known, InTransit, Reads
      <4> QED
        BY <2>4, <4>1, <4>3 DEF Taken
    <3>5. Unfailing(p) => disk'[f2] = disk[f1]
      BY <2>3, <2>4, <3>3, <3>4, SeqEqual DEF Begins
    <3>6. IsPrefix(disk'[f2], disk[f1])
      BY <2>3, <2>4, <3>3, BeginsPrefix
    <3> QED
      BY <2>3, <3>5, <3>6
  <2> QED
    BY <1>1, <1>2, <1>3, <1>4, <2>1, <2>3, <2>5, FlushTruth
<1> QED
  BY <1>6, <1>7, <1>8, OwnStep

\* A copy that ends before it has written anything has left all as it was, but for one
\* that was killed.
LEMMA UntouchedTruth ==
  ASSUME NEW p \in Procs, result'[p] \notin {"Success", "General failure"},
         result'[p] = "killed" \/ \A f \in {job[p].f1, job[p].f2} \cap DOMAIN began'[p] : disk'[f] = began'[p][f],
         \/ job[p].f2 \in DOMAIN began'[p] =>
              job[p].f2 \in DOMAIN disk' /\ disk'[job[p].f2] = began'[p][job[p].f2]
         \/ job[p].f2 \notin DOMAIN began'[p] \cap job[p].may
         \/ job[p].opt = "-f"
  PROVE  CopyTellsTruth(p)
  BY DEF CopyTellsTruth

\* So has one that cannot open its source, or finds its target.
LEMMA CopyOpensTruth == ASSUME IInv, NEW p \in Procs, CopyOpens(p), pc'[p] = "done" PROVE CopyTellsTruth(p)
<1>1. TypeOK
  BY DEF IInv
<1>2. began' = [began EXCEPT ![p] = disk] /\ disk' = disk
  BY DEF CopyOpens, Starts
<1>3. began'[p] = disk'
  BY <1>1, <1>2 DEF TypeOK
<1>4. PICK what \in {"no source", "killed", "target exists"} : Tells(p, what)
  <2>1. ~Goto(p, "create")
    BY <1>1 DEF Goto, TypeOK
  <2> QED
    BY <2>1 DEF CopyOpens
<1>5. result'[p] = what
  BY <1>1, <1>4 DEF Tells, TypeOK
<1> QED
  BY <1>3, <1>4, <1>5, UntouchedTruth

\* So has one whose target may not be written.
LEMMA CopyCreatesTruth ==
  ASSUME IInv, NEW p \in Procs, CopyCreates(p), pc'[p] = "done", ~disturbed[p], job[p].f1 # job[p].f2
  PROVE  CopyTellsTruth(p)
<1>1. TypeOK /\ Invocation(p)
  BY DEF IInv
<1>2. pc[p] = "create" /\ began' = began
  BY DEF CopyCreates
<1>3. Tells(p, "not created") /\ disk' = disk
  <2>1. ~Goto(p, "copy")
    BY <1>1 DEF Goto, TypeOK
  <2> QED
    BY <2>1 DEF CopyCreates
<1>4. result'[p] = "not created"
  BY <1>1, <1>3 DEF Tells, TypeOK
<1>5. CopyAlone(p)
  BY <1>1, <1>2 DEF Invocation, Opened, Alone
<1>6. AsBefore(p, job[p].f1) /\ AsBefore(p, job[p].f2)
  BY <1>2, <1>5 DEF CopyAlone
<1>7. /\ \A f \in {job[p].f1, job[p].f2} \cap DOMAIN began'[p] : disk'[f] = began'[p][f]
      /\ job[p].f2 \in DOMAIN began'[p] => job[p].f2 \in DOMAIN disk'
  BY <1>2, <1>3, <1>6 DEF AsBefore
<1> QED
  BY <1>4, <1>7, UntouchedTruth

\* A copy that is killed had not touched a target it could read without -f.
LEMMA KillTruth ==
  ASSUME IInv, NEW p \in Procs, Kill(p), ~disturbed[p], job[p].tool = "copy", job[p].f1 # job[p].f2,
         result'[p] = "killed"
  PROVE  CopyTellsTruth(p)
<1>1. TypeOK /\ Invocation(p)
  BY DEF IInv
<1>2. pc[p] \notin {"start", "done"} /\ began' = began
  BY DEF Kill
<1>3. CopyAlone(p)
  BY <1>1, <1>2 DEF Invocation, Alone
<1>4. job[p].f2 \notin DOMAIN began'[p] \cap job[p].may \/ job[p].opt = "-f"
  BY <1>2, <1>3 DEF CopyAlone
<1> QED
  BY <1>4, UntouchedTruth

\* Ctrl+C ends either tool.
LEMMA KillInv ==
  ASSUME IInv, NEW p \in Procs, Kill(p)
  PROVE  IInv' /\ Step(p) /\ result'[p] = "killed"
<1>1. "killed" \in Messages \ {"none"}
  BY DEF Messages
<1> QED
  BY <1>1, TellsInv DEF Kill

-----------------------------------------------------------------------------
(* cmp.                                                                    *)

\* p reads what is on the disk: no one has changed its files, and no read of it has failed.
Unharmed(p) == ~disturbed[p] /\ Unfailing(p)

\* An invocation that is unharmed after a step was so before it.
LEMMA UnharmedBefore ==
  ASSUME NEW p \in Procs, disturbed'[p] = disturbed[p],
         \A k \in 1..2 : stream'[p][k].err = "no" => stream[p][k].err = "no"
  PROVE  Unharmed(p)' => Unharmed(p)
BY DEF Unharmed, Unfailing

\* cmp begins: nothing was read, and nothing differs.
LEMMA CmpOpensInv ==
  ASSUME IInv, NEW p \in Procs, CmpOpens(p)
  PROVE  IInv' /\ Step(p) /\ (pc'[p] = "done" => result'[p] = "cannot open")
<1> DEFINE f1 == job[p].f1
           f2 == job[p].f2
<1>1. TypeOK /\ Invocation(p)
  BY DEF IInv
<1>2. /\ pc[p] = "start" /\ job[p].tool = "cmp" /\ began' = [began EXCEPT ![p] = disk]
      /\ UNCHANGED <<disk, job, stream, disturbed, short>>
  BY DEF CmpOpens, Starts
<1>3. CASE ~(Opens(p, f1) /\ Opens(p, f2))
  <2>1. Tells(p, "cannot open") /\ "cannot open" \in Messages \ {"none"}
    BY <1>3 DEF CmpOpens, Messages
  <2> QED
    BY <1>2, <2>1, TellsInv
<1>4. CASE Opens(p, f1) /\ Opens(p, f2)
  <2>0. f1 \in DOMAIN disk /\ f2 \in DOMAIN disk
    BY <1>4 DEF Opens
  <2>1. Goto(p, "compare") /\ "compare" \in Labels \ {"done"}
    BY <1>4 DEF CmpOpens, Labels
  <2>2. Control' /\ pc'[p] = "compare" /\ result' = result /\ \A q \in Procs \ {p} : pc'[q] = pc[q]
    BY <1>1, <1>2, <2>1, GotoFacts
  <2>3. Buffers'
    BY <1>1, <1>2, NoStreamFacts
  <2>4. Step(p)
    BY <1>1, <1>2, <2>2, <2>3, QuietStep
  <2>5. Opened(p)'
    BY <1>2, <2>0, <2>2 DEF Opened
  <2>6. CmpAlone(p)'
    <3>1. stream'[p][1] = Fresh /\ stream'[p][2] = Fresh
      BY <1>1, <1>2 DEF Invocation, Opened
    <3>2. disk[f1] \in Seq(Byte) /\ disk[f2] \in Seq(Byte)
      BY <1>1, <2>0 DEF TypeOK, IsDisk
    <3>3. Reads(Fresh, disk[f1]) /\ Reads(Fresh, disk[f2]) /\ Taken(Fresh) = 0
      BY <3>2, FreshFacts
    <3>4. Agree(p, disk[f1], disk[f2], 0)'
      BY <1>2, <3>2 DEF Agree
    <3>5. Abreast(p, stream[p][1], stream[p][2], disk[f1], disk[f2])'
      BY <1>2, <3>1, <3>3, <3>4 DEF Abreast
    <3> QED
      BY <1>2, <2>2, <3>1, <3>3, <3>5 DEF CmpAlone
  <2>7. Invocation(p)'
    BY <1>2, <2>5, <2>6 DEF Invocation
  <2> QED
    BY <2>2, <2>4, <2>7, OwnStep
<1> QED
  BY <1>3, <1>4

\* A cmp that runs has its files, and is about to compare or has ended its loop.
LEMMA CmpRuns ==
  ASSUME IInv, NEW p \in Procs, pc[p] \in {"compare", "last"}
  PROVE  /\ TypeOK /\ job[p].tool = "cmp" /\ job[p].f1 \in DOMAIN disk /\ job[p].f2 \in DOMAIN disk
         /\ Unharmed(p) => CmpAlone(p)
         /\ stream[p][1] \in Streams /\ stream[p][2] \in Streams
         /\ disk[job[p].f1] \in Seq(Byte) /\ disk[job[p].f2] \in Seq(Byte)
<1>1. TypeOK /\ Invocation(p)
  BY DEF IInv
<1>2. job[p].tool = "cmp" /\ job[p].f1 \in DOMAIN disk /\ job[p].f2 \in DOMAIN disk
  BY <1>1 DEF Invocation, Opened
<1>3. disk[job[p].f1] \in Seq(Byte) /\ disk[job[p].f2] \in Seq(Byte)
  BY <1>1, <1>2 DEF TypeOK, IsDisk
<1> QED
  BY <1>1, <1>2, <1>3, StreamTypes DEF Invocation, Alone, Unharmed

\* Filling a buffer changes nothing of what was compared.
LEMMA CmpFillsInv ==
  ASSUME IInv, NEW p \in Procs, pc[p] \in {"compare", "last"}, NEW k \in 1..2, Fill(p, k)
  PROVE  IInv' /\ Step(p) /\ pc' = pc
<1> DEFINE f1 == job[p].f1
           f2 == job[p].f2
           f == IF k = 1 THEN job[p].f1 ELSE job[p].f2
<1>1. /\ TypeOK /\ job[p].tool = "cmp" /\ f1 \in DOMAIN disk /\ f2 \in DOMAIN disk
      /\ Unharmed(p) => CmpAlone(p)
  BY CmpRuns
<1>2. f \in DOMAIN disk
  BY <1>1
<1>3. /\ Step(p) /\ UNCHANGED <<disk, job, pc, result, began, disturbed, short>>
      /\ ~stream[p][k].eof /\ (stream'[p][k].err = "no" => stream[p][k].err = "no")
      /\ Reads(stream[p][k], disk[f]) => /\ Reads(stream'[p][k], disk[f])
                                         /\ Taken(stream'[p][k]) = Taken(stream[p][k])
      /\ \A l \in 1..2 : l # k => stream'[p][l] = stream[p][l]
  BY <1>1, <1>2, FillFacts
<1>4. Opened(p)'
  BY <1>1, <1>3 DEF Opened
<1>5. ASSUME Unharmed(p) PROVE CmpAlone(p)'
  <2>1. CmpAlone(p)
    BY <1>1, <1>5
  <2>2. \A l \in 1..2 : l = k \/ l # k
    OBVIOUS
  <2>3. /\ Reads(stream'[p][1], disk[f1]) /\ Taken(stream'[p][1]) = Taken(stream[p][1])
        /\ Reads(stream'[p][2], disk[f2]) /\ Taken(stream'[p][2]) = Taken(stream[p][2])
        /\ (stream[p][1].eof => stream'[p][1].eof) /\ (stream[p][2].eof => stream'[p][2].eof)
    <3>1. CASE k = 1
      BY <1>3, <2>1, <3>1 DEF CmpAlone
    <3>2. CASE k = 2
      BY <1>3, <2>1, <3>2 DEF CmpAlone
    <3> QED
      BY <3>1, <3>2
  <2>4. \A c, d, n : Agree(p, c, d, n)' <=> Agree(p, c, d, n)
    BY <1>3 DEF Agree, Upper
  <2>5. pc[p] = "compare" => Abreast(p, stream[p][1], stream[p][2], disk[f1], disk[f2])'
    BY <1>3, <2>1, <2>3, <2>4 DEF CmpAlone, Abreast
  <2>6. pc[p] = "last" => Ended(p, stream[p][1], stream[p][2], disk[f1], disk[f2])'
    BY <1>3, <2>1, <2>3, <2>4 DEF CmpAlone, Abreast, Ended
  <2> QED
    BY <1>3, <2>3, <2>5, <2>6 DEF CmpAlone
<1>6. Unharmed(p)' => Unharmed(p)
  <2>1. \A l \in 1..2 : stream'[p][l].err = "no" => stream[p][l].err = "no"
    BY <1>3
  <2> QED
    BY <1>3, <2>1, UnharmedBefore
<1>7. Invocation(p)'
  BY <1>1, <1>3, <1>4, <1>5, <1>6 DEF Invocation, Alone, Unharmed
<1> QED
  BY <1>3, <1>7, OwnStep

\* Reading either file.
LEMMA CmpGetsInv == ASSUME IInv, NEW p \in Procs, CmpGets(p) PROVE IInv' /\ Step(p) /\ pc' = pc
<1>1. pc[p] \in {"compare", "last"} /\ \E k \in 1..2 : Fill(p, k)
  BY DEF CmpGets
<1> QED
  BY <1>1, CmpFillsInv

\* The next character of a stream that is known is EOF at the end of its file, and the
\* next byte of the file before.
LEMMA NextFacts ==
  ASSUME NEW s \in Streams, NEW c \in Seq(Byte), Reads(s, c), Known(s), s.err = "no"
  PROVE  /\ Taken(s) \in Nat /\ Taken(s) <= Len(c)
         /\ Next1(s) = EOF => Taken(s) = Len(c) /\ s.eof /\ Rest(s) = s
         /\ Next1(s) # EOF => /\ Taken(s) + 1 <= Len(c) /\ Next1(s) = c[Taken(s) + 1] /\ Next1(s) \in Byte
                              /\ Taken(Rest(s)) = Taken(s) + 1
         /\ Reads(Rest(s), c)
<1>1. s.pos \in Nat /\ Len(s.buf) \in Nat /\ Taken(s) \in Nat /\ s.pos <= Len(c) /\ Len(c) \in Nat
  BY StreamParts DEF Reads
<1>2. Taken(s) <= Len(c)
  BY <1>1 DEF Taken
<1>3. CASE s.buf = <<>>
  <2>1. s.eof /\ Rest(s) = s /\ Next1(s) = EOF /\ s.pos = Len(c) /\ Len(s.buf) = 0
    BY <1>3, RestReads DEF Known, Reads
  <2>2. Taken(s) = Len(c)
    BY <1>1, <2>1 DEF Taken
  <2> QED
    BY <1>1, <1>2, <2>1, <2>2
<1>4. CASE s.buf # <<>>
  <2>1. /\ Taken(Rest(s)) = Taken(s) + 1 /\ Next1(s) = Head(s.buf) /\ Head(s.buf) \in Byte
        /\ Reads(Rest(s), c) /\ Head(s.buf) = c[Taken(s) + 1] /\ Taken(s) + 1 <= Len(c)
    BY <1>4, RestReads
  <2>2. Next1(s) \in Byte /\ EOF \notin Byte
    BY <2>1, CharFacts
  <2> QED
    BY <1>1, <1>2, <2>1, <2>2
<1> QED
  BY <1>3, <1>4

\* The two files agree on one byte more.
LEMMA AgreeOn ==
  ASSUME NEW p \in Procs, NEW c \in Seq(Byte), NEW d \in Seq(Byte), NEW n \in Nat, Agree(p, c, d, n),
         n + 1 <= Len(c), n + 1 <= Len(d), c[n + 1] # 255, d[n + 1] # 255,
         Upper(p, c[n + 1]) = Upper(p, d[n + 1])
  PROVE  Agree(p, c, d, n + 1)
<1>1. \A i \in 1..(n + 1) : i \in 1..n \/ i = n + 1
  OBVIOUS
<1> HIDE DEF Upper
<1>2. \A i \in 1..(n + 1) : c[i] # 255 /\ d[i] # 255 /\ Upper(p, c[i]) = Upper(p, d[i])
  BY <1>1 DEF Agree
<1> QED
  BY <1>2 DEF Agree

\* The first n bytes of a file.
LEMMA BeginningFacts ==
  ASSUME NEW c \in Seq(Byte), NEW n \in Nat, n <= Len(c)
  PROVE  SubSeq(c, 1, n) \in Seq(Byte) /\ Len(SubSeq(c, 1, n)) = n /\ \A i \in 1..n : SubSeq(c, 1, n)[i] = c[i]
<1>1. n \in Int /\ 1 \in Int /\ \A i \in 1..n : c[i] \in Byte
  OBVIOUS
<1>2. /\ SubSeq(c, 1, n) \in Seq(Byte)
      /\ Len(SubSeq(c, 1, n)) = (IF 1 <= n THEN n - 1 + 1 ELSE 0)
      /\ \A i \in 1..(n - 1 + 1) : SubSeq(c, 1, n)[i] = c[1 + i - 1]
  BY <1>1, SubSeqProperties
<1>3. n - 1 + 1 = n /\ \A i \in 1..n : 1 + i - 1 = i
  OBVIOUS
<1>4. Len(SubSeq(c, 1, n)) = n
  <2>1. CASE 1 <= n
    BY <1>2, <1>3, <2>1, Zenon
  <2>2. CASE ~(1 <= n)
    <3>1. n = 0 /\ Len(SubSeq(c, 1, n)) = 0
      BY <1>2, <2>2
    <3> QED
      BY <3>1
  <2> QED
    BY <2>1, <2>2
<1>5. \A i \in 1..n : SubSeq(c, 1, n)[i] = c[i]
  BY <1>2, <1>3, Zenon
<1> QED
  BY <1>2, <1>4, <1>5

\* A file without its last byte.
LEMMA FrontFacts ==
  ASSUME NEW c \in Seq(Byte), c # <<>>
  PROVE  Front(c) \in Seq(Byte) /\ Len(Front(c)) = Len(c) - 1 /\ \A i \in 1..(Len(c) - 1) : Front(c)[i] = c[i]
<1> DEFINE m == Len(c) - 1
<1>1. m \in Nat /\ m <= Len(c)
  OBVIOUS
<1>2. Front(c) = SubSeq(c, 1, m)
  BY DEF Front
<1> HIDE DEF m
<1>3. SubSeq(c, 1, m) \in Seq(Byte) /\ Len(SubSeq(c, 1, m)) = m /\ \A i \in 1..m : SubSeq(c, 1, m)[i] = c[i]
  BY <1>1, BeginningFacts
<1> QED
  BY <1>2, <1>3, Zenon DEF m

\* Two files without 0xFF that differ in a byte are not the same, and the first without
\* its last byte is not the second.
LEMMA DifferFacts ==
  ASSUME NEW p \in Procs, NEW c \in Seq(Byte), NEW d \in Seq(Byte), NEW n \in Nat \ {0},
         n <= Len(c), n <= Len(d), Upper(p, c[n]) # Upper(p, d[n])
  PROVE  ~Same(p, c, d) /\ ~(c # <<>> /\ Same(p, Front(c), d))
<1>1. ~Same(p, c, d)
  <2>1. n \in DOMAIN c
    OBVIOUS
  <2> QED
    BY <2>1 DEF Same
<1>2. ASSUME c # <<>>, Same(p, Front(c), d) PROVE FALSE
  <2>1. Front(c) \in Seq(Byte) /\ Len(Front(c)) = Len(c) - 1 /\ \A i \in 1..(Len(c) - 1) : Front(c)[i] = c[i]
    BY <1>2, FrontFacts
  <2>2. Len(Front(c)) = Len(d) /\ \A i \in DOMAIN Front(c) : Upper(p, Front(c)[i]) = Upper(p, d[i])
    BY <1>2 DEF Same
  <2>3. n \in DOMAIN Front(c) /\ n \in 1..(Len(c) - 1)
    BY <2>1, <2>2
  <2> QED
    BY <2>1, <2>2, <2>3
<1> QED
  BY <1>1, <1>2

\* One turn of the loop: the streams stay abreast, the loop ends in one of the four ways,
\* or the user is told of two bytes that differ.
LEMMA CmpTurn ==
  ASSUME NEW p \in Procs, NEW s1 \in Streams, NEW s2 \in Streams, NEW c \in Seq(Byte), NEW d \in Seq(Byte),
         Reads(s1, c), Reads(s2, d), Abreast(p, s1, s2, c, d), Known(s1), s1.err = "no", s2.err = "no"
  PROVE  /\ Char(Next1(s1)) = EOF => Ended(p, Rest(s1), s2, c, d)
         /\ Char(Next1(s1)) # EOF /\ Known(s2) =>
              /\ Char(Next1(s2)) = EOF => Ended(p, Rest(s1), Rest(s2), c, d)
              /\ Char(Next1(s2)) # EOF =>
                   IF Upper(p, Char(Next1(s1))) = Upper(p, Char(Next1(s2)))
                   THEN Abreast(p, Rest(s1), Rest(s2), c, d)
                   ELSE ~Same(p, c, d) /\ ~(c # <<>> /\ Same(p, Front(c), d))
<1> DEFINE n == Taken(s1)
           a == Next1(s1)
           b == Next1(s2)
<1>1. /\ n \in Nat /\ Taken(s2) = n /\ Agree(p, c, d, n)
      /\ a = EOF => s1.eof /\ Rest(s1) = s1
      /\ a # EOF => n + 1 <= Len(c) /\ a = c[n + 1] /\ a \in Byte /\ Taken(Rest(s1)) = n + 1
  BY NextFacts DEF Abreast
<1>2. Known(s2) => /\ b = EOF => s2.eof /\ Rest(s2) = s2
                   /\ b # EOF => n + 1 <= Len(d) /\ b = d[n + 1] /\ b \in Byte /\ Taken(Rest(s2)) = n + 1
  BY <1>1, NextFacts
<1> HIDE DEF n, a, b
<1>3. ASSUME Char(a) = EOF PROVE Ended(p, Rest(s1), s2, c, d)
  <2>1. CASE a = EOF
    BY <1>1, <2>1 DEF Ended, Abreast, n
  <2>2. CASE a # EOF
    <3>1. a = 255
      BY <1>1, <1>3, <2>2, CharFacts
    <3> QED
      BY <1>1, <2>2, <3>1 DEF Ended
  <2> QED
    BY <2>1, <2>2
<1>4. ASSUME Char(a) # EOF, Known(s2), Char(b) = EOF PROVE Ended(p, Rest(s1), Rest(s2), c, d)
  <2>1. a # EOF
    BY <1>4, CharFacts
  <2>2. CASE b = EOF
    BY <1>1, <1>2, <1>4, <2>1, <2>2 DEF Ended
  <2>3. CASE b # EOF
    <3>1. b = 255 /\ n + 1 > 0 /\ n + 1 - 1 = n
      BY <1>1, <1>2, <1>4, <2>3, CharFacts
    <3> QED
      BY <1>1, <1>2, <1>4, <2>1, <2>3, <3>1 DEF Ended
  <2> QED
    BY <2>2, <2>3
<1>5. ASSUME Char(a) # EOF, Known(s2), Char(b) # EOF
      PROVE  /\ a # EOF /\ b # EOF /\ Char(a) = a /\ Char(b) = b /\ a # 255 /\ b # 255
             /\ n + 1 <= Len(c) /\ n + 1 <= Len(d) /\ a = c[n + 1] /\ b = d[n + 1]
             /\ Taken(Rest(s1)) = n + 1 /\ Taken(Rest(s2)) = n + 1
  <2>1. a # EOF /\ b # EOF
    BY <1>5, CharFacts
  <2> QED
    BY <1>1, <1>2, <1>5, <2>1, CharFacts
<1>6. ASSUME Char(a) # EOF, Known(s2), Char(b) # EOF, Upper(p, Char(a)) = Upper(p, Char(b))
      PROVE  Abreast(p, Rest(s1), Rest(s2), c, d)
  <2>1. Agree(p, c, d, n + 1)
    BY <1>1, <1>5, <1>6, AgreeOn
  <2> QED
    BY <1>5, <1>6, <2>1 DEF Abreast
<1>7. ASSUME Char(a) # EOF, Known(s2), Char(b) # EOF, Upper(p, Char(a)) # Upper(p, Char(b))
      PROVE  ~Same(p, c, d) /\ ~(c # <<>> /\ Same(p, Front(c), d))
  <2>1. n + 1 \in Nat \ {0} /\ Upper(p, c[n + 1]) # Upper(p, d[n + 1])
    BY <1>1, <1>5, <1>7
  <2> QED
    BY <1>5, <1>7, <2>1, DifferFacts
<1> QED
  BY <1>3, <1>4, <1>6, <1>7 DEF a, b

\* The bytes of a file that was left alone, and a turn of the loop over it.
LEMMA CmpStepsInv ==
  ASSUME IInv, NEW p \in Procs, CmpSteps(p)
  PROVE  /\ IInv' /\ Step(p)
         /\ pc'[p] = "done" =>
              /\ result'[p] = "distinct"
              /\ Unharmed(p) => CmpTellsTruth(p, disk[job[p].f1], disk[job[p].f2])
<1> DEFINE f1 == job[p].f1
           f2 == job[p].f2
           s1 == stream[p][1]
           s2 == stream[p][2]
           c1 == Char(Next1(s1))
           c2 == Char(Next1(s2))
<1>1. /\ pc[p] = "compare" /\ Known(s1) /\ UNCHANGED <<disk, job, began, disturbed, short>>
      /\ IF c1 = EOF
         THEN Goto(p, "last") /\ stream' = [stream EXCEPT ![p][1] = Rest(@)]
         ELSE /\ Known(s2) /\ stream' = [stream EXCEPT ![p] = [k \in 1..2 |-> Rest(@[k])]]
              /\ IF c2 = EOF THEN Goto(p, "last")
                 ELSE IF Upper(p, c1) # Upper(p, c2) THEN Tells(p, "distinct")
                 ELSE UNCHANGED <<pc, result>>
  BY DEF CmpSteps
<1>2. /\ TypeOK /\ job[p].tool = "cmp" /\ f1 \in DOMAIN disk /\ f2 \in DOMAIN disk
      /\ Unharmed(p) => CmpAlone(p)
      /\ s1 \in Streams /\ s2 \in Streams /\ disk[f1] \in Seq(Byte) /\ disk[f2] \in Seq(Byte)
  BY <1>1, CmpRuns
<1>3. ASSUME Unharmed(p)
      PROVE  /\ Reads(s1, disk[f1]) /\ Reads(s2, disk[f2])
             /\ Reads(Rest(s1), disk[f1]) /\ (Known(s2) => Reads(Rest(s2), disk[f2]))
             /\ c1 = EOF => Ended(p, Rest(s1), s2, disk[f1], disk[f2])
             /\ c1 # EOF /\ Known(s2) =>
                  /\ c2 = EOF => Ended(p, Rest(s1), Rest(s2), disk[f1], disk[f2])
                  /\ c2 # EOF =>
                       IF Upper(p, c1) = Upper(p, c2)
                       THEN Abreast(p, Rest(s1), Rest(s2), disk[f1], disk[f2])
                       ELSE /\ ~Same(p, disk[f1], disk[f2])
                            /\ ~(disk[f1] # <<>> /\ Same(p, Front(disk[f1]), disk[f2]))
  <2>1. /\ Reads(s1, disk[f1]) /\ Reads(s2, disk[f2])
        /\ Abreast(p, s1, s2, disk[f1], disk[f2])
        /\ s1.err = "no" /\ s2.err = "no"
    BY <1>1, <1>2, <1>3 DEF CmpAlone, Unharmed, Unfailing
  <2> HIDE DEF s1, s2, f1, f2
  <2>2. Reads(Rest(s1), disk[f1]) /\ (Known(s2) => Reads(Rest(s2), disk[f2]))
    BY <1>1, <1>2, <2>1, NextFacts
  <2> QED
    BY <1>1, <1>2, <2>1, <2>2, CmpTurn
<1>4. \A c, d, n : Agree(p, c, d, n)' <=> Agree(p, c, d, n)
  BY <1>1 DEF Agree, Upper
<1>5. \A t1, t2, c, d : /\ Ended(p, t1, t2, c, d)' <=> Ended(p, t1, t2, c, d)
                        /\ Abreast(p, t1, t2, c, d)' <=> Abreast(p, t1, t2, c, d)
  BY <1>4 DEF Ended, Abreast, Taken
<1>6. "last" \in Labels \ {"done"} /\ "distinct" \in Messages \ {"none"} /\ Block \in Nat
  BY FileToolsAssumption DEF Labels, Messages
<1>7. /\ Rest(s1) \in Streams /\ Len(Rest(s1).buf) <= Block
      /\ Rest(s2) \in Streams /\ Len(Rest(s2).buf) <= Block
  <2>1. 1 \in 1..2 /\ 2 \in 1..2
    OBVIOUS
  <2>2. /\ Len(s1.buf) <= Block /\ Len(s2.buf) <= Block /\ Len(s1.buf) \in Nat /\ Len(s2.buf) \in Nat
    BY <1>2, <2>1, StreamParts DEF TypeOK
  <2>3. /\ Rest(s1) \in Streams /\ Len(Rest(s1).buf) <= Len(s1.buf)
        /\ Rest(s2) \in Streams /\ Len(Rest(s2).buf) <= Len(s2.buf)
    BY <1>2, RestReads
  <2>4. Len(Rest(s1).buf) \in Nat /\ Len(Rest(s2).buf) \in Nat
    BY <2>3, StreamParts
  <2> QED
    BY <1>6, <2>2, <2>3, <2>4
<1>0. /\ Rest(s1).err = "no" <=> s1.err = "no"
      /\ Rest(s2).err = "no" <=> s2.err = "no"
      /\ \A k \in 1..2 : k = 1 \/ k = 2
  BY <1>2, RestReads
<1>8. CASE c1 = EOF
  <2>1. Control' /\ pc'[p] = "last" /\ result' = result /\ \A q \in Procs \ {p} : pc'[q] = pc[q]
    BY <1>1, <1>2, <1>6, <1>8, GotoFacts
  <2>2. /\ Buffers' /\ stream'[p][1] = Rest(s1) /\ stream'[p][2] = s2
        /\ \A q \in Procs \ {p} : stream'[q] = stream[q]
    <3>1. 1 \in 1..2 /\ 2 \in 1..2 /\ 2 # 1
      OBVIOUS
    <3>2. stream' = [stream EXCEPT ![p][1] = Rest(s1)]
      BY <1>1, <1>8
    <3> HIDE DEF s1
    <3>3. /\ Buffers' /\ stream'[p][1] = Rest(s1) /\ \A l \in 1..2 : l # 1 => stream'[p][l] = stream[p][l]
          /\ \A q \in Procs \ {p} : stream'[q] = stream[q]
      BY <1>2, <1>7, <3>1, <3>2, StreamFacts
    <3> QED
      BY <3>1, <3>3 DEF s1
  <2>3. Step(p)
    BY <1>1, <1>2, <2>1, <2>2, QuietStep
  <2>4. Opened(p)'
    BY <1>1, <1>2, <2>1 DEF Opened
  <2>5. ASSUME Unharmed(p) PROVE CmpAlone(p)'
    BY <1>1, <1>3, <1>5, <1>8, <2>1, <2>2, <2>5 DEF CmpAlone
  <2>6. Unharmed(p)' => Unharmed(p)
    <3>1. \A k \in 1..2 : stream'[p][k].err = "no" => stream[p][k].err = "no"
      BY <1>0, <2>2
    <3> QED
      BY <1>1, <3>1, UnharmedBefore
  <2>7. Invocation(p)'
    BY <1>1, <1>2, <2>4, <2>5, <2>6 DEF Invocation, Alone, Unharmed
  <2>8. pc'[p] # "done"
    BY <2>1
  <2> QED
    BY <2>3, <2>7, <2>8, OwnStep
<1>9. ASSUME c1 # EOF
      PROVE  /\ Known(s2) /\ Buffers' /\ stream'[p][1] = Rest(s1) /\ stream'[p][2] = Rest(s2)
             /\ \A q \in Procs \ {p} : stream'[q] = stream[q]
  <2> DEFINE t == [k \in 1..2 |-> Rest(stream[p][k])]
  <2>1. stream' = [stream EXCEPT ![p] = t] /\ Known(s2)
    BY <1>1, <1>2, <1>9 DEF TypeOK
  <2>2. t[1] = Rest(s1) /\ t[2] = Rest(s2) /\ \A k \in 1..2 : k = 1 \/ k = 2
    OBVIOUS
  <2>3. \A k \in 1..2 : t[k] \in Streams /\ Len(t[k].buf) <= Block
    <3> HIDE DEF t
    <3> QED
      BY <1>7, <2>2, Zenon
  <2>4. t \in [1..2 -> Streams]
    BY <2>3
  <2> HIDE DEF t
  <2>5. Buffers' /\ stream'[p] = t /\ \A q \in Procs \ {p} : stream'[q] = stream[q]
    BY <1>2, <2>1, <2>3, <2>4, StreamsFacts
  <2> QED
    BY <2>1, <2>2, <2>5
<1>13. c1 # EOF => (Unharmed(p)' => Unharmed(p))
  <2> SUFFICES ASSUME c1 # EOF PROVE Unharmed(p)' => Unharmed(p)
    OBVIOUS
  <2>1. \A k \in 1..2 : stream'[p][k].err = "no" => stream[p][k].err = "no"
    BY <1>0, <1>9
  <2> QED
    BY <1>1, <2>1, UnharmedBefore
<1>10. CASE c1 # EOF /\ c2 = EOF
  <2>1. Control' /\ pc'[p] = "last" /\ result' = result /\ \A q \in Procs \ {p} : pc'[q] = pc[q]
    BY <1>1, <1>2, <1>6, <1>10, GotoFacts
  <2>2. Step(p)
    BY <1>1, <1>2, <1>9, <1>10, <2>1, QuietStep
  <2>3. Opened(p)'
    BY <1>1, <1>2, <2>1 DEF Opened
  <2>4. ASSUME Unharmed(p) PROVE CmpAlone(p)'
    BY <1>1, <1>3, <1>5, <1>9, <1>10, <2>1, <2>4 DEF CmpAlone
  <2>5. Invocation(p)'
    BY <1>1, <1>2, <1>10, <1>13, <2>3, <2>4 DEF Invocation, Alone, Unharmed
  <2>6. pc'[p] # "done"
    BY <2>1
  <2> QED
    BY <2>2, <2>5, <2>6, OwnStep
<1>11. CASE c1 # EOF /\ c2 # EOF /\ Upper(p, c1) # Upper(p, c2)
  <2>1. Tells(p, "distinct")
    BY <1>1, <1>11
  <2>2. /\ Control' /\ pc'[p] = "done" /\ result'[p] = "distinct"
        /\ \A q \in Procs \ {p} : pc'[q] = pc[q] /\ result'[q] = result[q]
    BY <1>2, <1>6, <2>1, TellsFacts
  <2>3. Step(p)
    BY <1>1, <1>2, <1>9, <1>11, <2>2, QuietStep
  <2>4. Invocation(p)'
    BY <2>2, EndedInv
  <2>5. Unharmed(p) => CmpTellsTruth(p, disk[f1], disk[f2])
    BY <1>3, <1>9, <1>11, <2>2 DEF CmpTellsTruth
  <2> QED
    BY <2>2, <2>3, <2>4, <2>5, OwnStep
<1>12. CASE c1 # EOF /\ c2 # EOF /\ Upper(p, c1) = Upper(p, c2)
  <2>1. UNCHANGED <<pc, result>>
    BY <1>1, <1>12
  <2>2. Control'
    BY <1>2, <2>1, StaysFacts
  <2>3. Step(p)
    BY <1>1, <1>2, <1>9, <1>12, <2>1, <2>2, QuietStep
  <2>4. Opened(p)'
    BY <1>1, <1>2, <2>1 DEF Opened
  <2>5. ASSUME Unharmed(p) PROVE CmpAlone(p)'
    BY <1>1, <1>3, <1>5, <1>9, <1>12, <2>1, <2>5 DEF CmpAlone
  <2>6. Invocation(p)'
    BY <1>1, <1>2, <1>12, <1>13, <2>4, <2>5 DEF Invocation, Alone, Unharmed
  <2>7. pc'[p] # "done"
    BY <1>1, <2>1
  <2> QED
    BY <2>3, <2>6, <2>7, OwnStep
<1> QED
  BY <1>8, <1>10, <1>11, <1>12

\* A stream that has seen the end of its file has given all of it.
LEMMA EofFacts ==
  ASSUME NEW s \in Streams, NEW c \in Seq(Byte), Reads(s, c), s.eof
  PROVE  Taken(s) = Len(c)
<1>1. s.buf = <<>> /\ s.pos = Len(c) /\ Len(s.buf) = 0 /\ Len(c) \in Nat
  BY DEF Reads
<1> QED
  BY <1>1 DEF Taken

\* Where two files agree, their beginnings are the same.
LEMMA AgreeSame ==
  ASSUME NEW p \in Procs, NEW c \in Seq(Byte), NEW d \in Seq(Byte), NEW m \in Nat, Agree(p, c, d, m),
         NEW n \in Nat, n <= m
  PROVE  Same(p, SubSeq(c, 1, n), SubSeq(d, 1, n))
<1>1. /\ n <= Len(c) /\ n <= Len(d) /\ Len(c) \in Nat /\ Len(d) \in Nat
      /\ \A i \in 1..n : Upper(p, c[i]) = Upper(p, d[i])
  BY DEF Agree
<1>2. /\ SubSeq(c, 1, n) \in Seq(Byte) /\ Len(SubSeq(c, 1, n)) = n /\ \A i \in 1..n : SubSeq(c, 1, n)[i] = c[i]
      /\ SubSeq(d, 1, n) \in Seq(Byte) /\ Len(SubSeq(d, 1, n)) = n /\ \A i \in 1..n : SubSeq(d, 1, n)[i] = d[i]
  BY <1>1, BeginningFacts
<1>3. DOMAIN SubSeq(c, 1, n) = 1..n
  BY <1>2
<1> HIDE DEF Upper
<1> QED
  BY <1>1, <1>2, <1>3 DEF Same

\* A beginning without 0xFF ends before the first of them.
LEMMA PlainBeginning ==
  ASSUME NEW c \in Seq(Byte), NEW m \in Nat \ {0}, c[m] = 255,
         NEW n \in Nat, n <= Len(c), Plain(SubSeq(c, 1, n))
  PROVE  n <= m - 1
<1>1. SubSeq(c, 1, n) \in Seq(Byte) /\ Len(SubSeq(c, 1, n)) = n /\ \A i \in 1..n : SubSeq(c, 1, n)[i] = c[i]
  BY BeginningFacts
<1>2. DOMAIN SubSeq(c, 1, n) = 1..n
  BY <1>1
<1>3. \A i \in 1..n : c[i] # 255
  <2> TAKE i \in 1..n
  <2>1. i \in DOMAIN SubSeq(c, 1, n)
    BY <1>2, Zenon
  <2>2. SubSeq(c, 1, n)[i] # 255
    BY <2>1, Zenon DEF Plain
  <2>3. SubSeq(c, 1, n)[i] = c[i]
    BY <1>1, Zenon
  <2> QED
    BY <2>2, <2>3
<1>4. m \notin 1..n
  BY <1>3
<1> QED
  BY <1>4

\* The four ways in which the loop ends bound how far the two files are without 0xFF,
\* and they agree up to there.
LEMMA EndedAgrees ==
  ASSUME NEW p \in Procs, NEW s1 \in Streams, NEW s2 \in Streams, NEW c \in Seq(Byte), NEW d \in Seq(Byte),
         Reads(s1, c), Reads(s2, d), Ended(p, s1, s2, c, d), NEW n \in Nat, n <= Len(c), n <= Len(d),
         Plain(SubSeq(c, 1, n)), Plain(SubSeq(d, 1, n))
  PROVE  Same(p, SubSeq(c, 1, n), SubSeq(d, 1, n))
<1>1. Taken(s1) \in Nat /\ Taken(s2) \in Nat /\ Len(c) \in Nat /\ Len(d) \in Nat
  BY DEF Reads
<1>2. (s1.eof => Taken(s1) = Len(c)) /\ (s2.eof => Taken(s2) = Len(d))
  BY EofFacts
<1> SUFFICES \E m \in Nat : Agree(p, c, d, m) /\ n <= m
  BY AgreeSame
<1>3. CASE Abreast(p, s1, s2, c, d) /\ s1.eof
  BY <1>1, <1>2, <1>3 DEF Abreast
<1>4. CASE Taken(s1) = Taken(s2) + 1 /\ Agree(p, c, d, Taken(s2)) /\ c[Taken(s1)] = 255
  <2>1. Taken(s1) \in Nat \ {0} /\ Taken(s1) - 1 = Taken(s2)
    BY <1>1, <1>4
  <2>2. n <= Taken(s2)
    BY <1>4, <2>1, PlainBeginning
  <2> QED
    BY <1>1, <1>4, <2>2
<1>5. CASE Taken(s1) = Taken(s2) + 1 /\ Agree(p, c, d, Taken(s2)) /\ s2.eof
  BY <1>1, <1>2, <1>5
<1>6. CASE Taken(s1) = Taken(s2) /\ Taken(s2) > 0 /\ Agree(p, c, d, Taken(s2) - 1) /\ d[Taken(s2)] = 255
  <2>1. Taken(s2) \in Nat \ {0} /\ Taken(s2) - 1 \in Nat
    BY <1>1, <1>6
  <2>2. n <= Taken(s2) - 1
    BY <1>6, <2>1, PlainBeginning
  <2> QED
    BY <1>6, <2>1, <2>2
<1> QED
  BY <1>3, <1>4, <1>5, <1>6 DEF Ended

\* Of two files without 0xFF, the two last characters are the same one, EOF, exactly when
\* the files are the same, or the first has one character more.
LEMMA PlainVerdict ==
  ASSUME NEW p \in Procs, NEW s1 \in Streams, NEW s2 \in Streams, NEW c \in Seq(Byte), NEW d \in Seq(Byte),
         Reads(s1, c), Reads(s2, d), Known(s1), Known(s2), s1.err = "no", s2.err = "no",
         Ended(p, s1, s2, c, d), Plain(c), Plain(d)
  PROVE  Next1(s1) = Next1(s2) <=> Same(p, c, d) \/ (c # <<>> /\ Same(p, Front(c), d))
<1> DEFINE a == Next1(s1)
           b == Next1(s2)
           n1 == Taken(s1)
           n2 == Taken(s2)
<1>1. /\ n1 \in Nat /\ n1 <= Len(c) /\ (a = EOF <=> n1 = Len(c)) /\ (s1.eof => n1 = Len(c))
      /\ n2 \in Nat /\ n2 <= Len(d) /\ (b = EOF <=> n2 = Len(d)) /\ (s2.eof => n2 = Len(d))
      /\ Len(c) \in Nat /\ Len(d) \in Nat
  <2>1. Len(c) \in Nat /\ Len(d) \in Nat
    OBVIOUS
  <2>2. /\ n1 \in Nat /\ n1 <= Len(c) /\ (a = EOF => n1 = Len(c)) /\ (a # EOF => n1 + 1 <= Len(c))
        /\ n2 \in Nat /\ n2 <= Len(d) /\ (b = EOF => n2 = Len(d)) /\ (b # EOF => n2 + 1 <= Len(d))
    BY NextFacts
  <2>3. (s1.eof => n1 = Len(c)) /\ (s2.eof => n2 = Len(d))
    BY EofFacts
  <2> HIDE DEF a, b, n1, n2
  <2> QED
    BY <2>1, <2>2, <2>3
<1>2. \A i \in 1..Len(c) : c[i] # 255
  BY DEF Plain
<1>3. \A i \in 1..Len(d) : d[i] # 255
  BY DEF Plain
<1>4. /\ Same(p, c, d) => Len(c) = Len(d)
      /\ c # <<>> /\ Same(p, Front(c), d) => Len(c) = Len(d) + 1
  <2>1. c # <<>> => Len(Front(c)) = Len(c) - 1
    BY FrontFacts
  <2> QED
    BY <1>1, <2>1 DEF Same
<1>5. CASE Abreast(p, s1, s2, c, d) /\ s1.eof
  <2>1. n1 = n2 /\ Agree(p, c, d, n1) /\ a = EOF /\ n1 = Len(c)
    BY <1>1, <1>5 DEF Abreast
  <2>2. Len(c) = Len(d) => Same(p, c, d)
    BY <2>1 DEF Agree, Same
  <2>3. Len(c) <= Len(d)
    BY <1>1, <2>1
  <2>4. a = b <=> Len(c) = Len(d)
    BY <1>1, <2>1
  <2>5. Len(c) # Len(d) + 1
    BY <1>1, <2>3
  <2> QED
    BY <1>4, <2>2, <2>4, <2>5
<1>6. CASE n1 = n2 + 1 /\ Agree(p, c, d, n2) /\ c[n1] = 255
  BY <1>1, <1>2, <1>6
<1>7. CASE n1 = n2 + 1 /\ Agree(p, c, d, n2) /\ s2.eof
  <2>1. b = EOF /\ n2 = Len(d) /\ Len(d) + 1 <= Len(c)
    BY <1>1, <1>7
  <2>2. a = b <=> Len(c) = Len(d) + 1
    BY <1>1, <1>7, <2>1
  <2>3. ASSUME Len(c) = Len(d) + 1 PROVE c # <<>> /\ Same(p, Front(c), d)
    <3>1. c # <<>>
      BY <1>1, <2>3
    <3>2. /\ Front(c) \in Seq(Byte) /\ Len(Front(c)) = Len(c) - 1
          /\ \A i \in 1..(Len(c) - 1) : Front(c)[i] = c[i]
      BY <3>1, FrontFacts
    <3>3. Len(c) - 1 = Len(d) /\ DOMAIN Front(c) = 1..Len(d)
      BY <1>1, <2>3, <3>2
    <3>4. \A i \in 1..Len(d) : Upper(p, c[i]) = Upper(p, d[i])
      BY <1>7, <2>1 DEF Agree
    <3> QED
      BY <3>1, <3>2, <3>3, <3>4, Zenon DEF Same
  <2>4. Len(c) # Len(d)
    BY <1>1, <2>1
  <2> QED
    BY <1>4, <2>2, <2>3, <2>4
<1>8. CASE n1 = n2 /\ n2 > 0 /\ Agree(p, c, d, n2 - 1) /\ d[n2] = 255
  BY <1>1, <1>3, <1>8
<1> QED
  BY <1>5, <1>6, <1>7, <1>8 DEF Ended

\* The last two characters decide.
LEMMA CmpEndsInv ==
  ASSUME IInv, NEW p \in Procs, CmpEnds(p)
  PROVE  /\ IInv' /\ Step(p)
         /\ Unharmed(p) => CmpTellsTruth(p, disk[job[p].f1], disk[job[p].f2])
<1> DEFINE s1 == stream[p][1]
           s2 == stream[p][2]
           c == disk[job[p].f1]
           d == disk[job[p].f2]
           what == IF Next1(s1) = Next1(s2) THEN "equal" ELSE "distinct"
<1>1. /\ pc[p] = "last" /\ Known(s1) /\ Known(s2) /\ Tells(p, what)
      /\ UNCHANGED <<disk, job, stream, began, disturbed, short>>
  BY DEF CmpEnds
<1>2. /\ Unharmed(p) => CmpAlone(p)
      /\ s1 \in Streams /\ s2 \in Streams /\ c \in Seq(Byte) /\ d \in Seq(Byte)
  BY <1>1, CmpRuns
<1>3. what \in Messages \ {"none"} /\ (what = "equal" <=> Next1(s1) = Next1(s2))
  BY DEF Messages
<1> HIDE DEF what
<1>4. IInv' /\ Step(p) /\ result'[p] = what
  BY <1>1, <1>3, TellsInv
<1>5. ASSUME Unharmed(p) PROVE CmpTellsTruth(p, c, d)
  <2>1. Reads(s1, c) /\ Reads(s2, d) /\ Ended(p, s1, s2, c, d) /\ s1.err = "no" /\ s2.err = "no"
    BY <1>1, <1>2, <1>5 DEF CmpAlone, Unharmed, Unfailing
  <2> HIDE DEF s1, s2, c, d
  <2>2. CASE Plain(c) /\ Plain(d)
    BY <1>1, <1>2, <1>3, <1>4, <2>1, <2>2, PlainVerdict DEF CmpTellsTruth
  <2>3. CASE ~(Plain(c) /\ Plain(d))
    <3>1. \A n \in 0..Len(c) \cap 0..Len(d) :
            Plain(SubSeq(c, 1, n)) /\ Plain(SubSeq(d, 1, n)) => Same(p, SubSeq(c, 1, n), SubSeq(d, 1, n))
      <4> TAKE n \in 0..Len(c) \cap 0..Len(d)
      <4>1. n \in Nat /\ n <= Len(c) /\ n <= Len(d)
        BY <1>2
      <4> QED
        BY <1>2, <2>1, <4>1, EndedAgrees
    <3> QED
      BY <2>3, <3>1 DEF CmpTellsTruth
  <2> QED
    BY <2>2, <2>3
<1> QED
  BY <1>4, <1>5

-----------------------------------------------------------------------------
(* The theorems.                                                           *)

\* At first nothing runs and nothing was read.
LEMMA InitInv == Init => IInv
<1> SUFFICES ASSUME Init PROVE IInv
  OBVIOUS
<1>1. PICK S \in SUBSET Files : disk \in [S -> Contents]
  BY DEF Init
<1>2. IsDisk(disk)
  <2>1. DOMAIN disk = S /\ \A f \in S : disk[f] \in Seq(Byte)
    BY <1>1, FileToolsAssumption
  <2> QED
    BY <1>1, <2>1 DEF IsDisk
<1>3. /\ job \in [Procs -> Jobs] /\ pc = [p \in Procs |-> "start"]
      /\ stream = [p \in Procs |-> [k \in 1..2 |-> Fresh]] /\ result = [p \in Procs |-> "none"]
      /\ began = [p \in Procs |-> disk]
      /\ disturbed = [p \in Procs |-> FALSE] /\ short = [p \in Procs |-> FALSE]
  BY DEF Init, Quiet
<1>4. Fresh \in Streams /\ Len(Fresh.buf) <= Block
  BY FreshFacts, FileToolsAssumption
<1>5. stream \in [Procs -> [1..2 -> Streams]] /\ \A p \in Procs, k \in 1..2 : Len(stream[p][k].buf) <= Block
  BY <1>3, <1>4
<1>6. DOMAIN began = Procs /\ \A p \in Procs : IsDisk(began[p])
  BY <1>2, <1>3
<1>7. TypeOK
  <2>1. /\ pc \in [Procs -> {"start", "create", "copy", "compare", "last", "done"}]
        /\ result \in [Procs -> Messages] /\ \A p \in Procs : result[p] = "none" <=> pc[p] # "done"
    BY <1>3 DEF Messages
  <2>2. disturbed \in [Procs -> BOOLEAN] /\ short \in [Procs -> BOOLEAN]
    BY <1>3
  <2> QED
    BY <1>2, <1>3, <1>5, <1>6, <2>1, <2>2 DEF TypeOK, Messages
<1>8. \A p \in Procs : Invocation(p)
  BY <1>3 DEF Invocation, Opened, Alone
<1> QED
  BY <1>7, <1>8 DEF IInv

\* None of the messages of copy is one of cmp's verdicts.
LEMMA CopySays ==
  ASSUME TypeOK, NEW p \in Procs, Copy(p), pc[p] # "done", pc'[p] = "done"
  PROVE  result'[p] \notin {"equal", "distinct"}
<1>1. \A what : Tells(p, what) => result'[p] = what
  BY DEF Tells, TypeOK
<1>2. \A label : Goto(p, label) => pc'[p] = label
  BY DEF Goto, TypeOK
<1>3. CASE CopyOpens(p)
  BY <1>1, <1>2, <1>3 DEF CopyOpens
<1>4. CASE CopyCreates(p)
  BY <1>1, <1>2, <1>4 DEF CopyCreates
<1>5. CASE CopyGets(p)
  BY <1>5 DEF CopyGets, Fill
<1>6. CASE CopyPuts(p)
  <2>1. UNCHANGED pc \/ Tells(p, "General failure")
    BY <1>6 DEF CopyPuts
  <2> QED
    BY <1>1, <2>1
<1>7. CASE CopyCloses(p)
  BY <1>1, <1>7 DEF CopyCloses
<1> QED
  BY <1>3, <1>4, <1>5, <1>6, <1>7 DEF Copy

\* A step that changes nothing keeps the invariant.
LEMMA SameInv == ASSUME IInv, UNCHANGED vars PROVE IInv'
<1>1. TypeOK'
  BY DEF IInv, vars, TypeOK, IsDisk
<1>2. ASSUME NEW p \in Procs PROVE Invocation(p)'
  <2>1. Invocation(p)
    BY DEF IInv
  <2>2. Opened(p)' /\ (Alone(p)' => Alone(p)) /\ (Unfailing(p)' => Unfailing(p)) /\ job' = job
    BY <2>1 DEF vars, Invocation, Opened, Alone, Unfailing
  <2>3. CopyAlone(p) => CopyAlone(p)'
    BY DEF vars, CopyAlone, AsBefore
  <2>4. CmpAlone(p) => CmpAlone(p)'
    <3>1. \A c, d, n : Agree(p, c, d, n)' <=> Agree(p, c, d, n)
      BY DEF vars, Agree, Upper
    <3> QED
      BY <3>1 DEF vars, CmpAlone, Abreast, Ended
  <2> QED
    BY <2>1, <2>2, <2>3, <2>4 DEF Invocation
<1> QED
  BY <1>1, <1>2 DEF IInv

\* Every step of p keeps the invariant, and when p ends with it undisturbed it has told
\* the truth.
LEMMA NextInv ==
  ASSUME IInv, NEW p \in Procs, Copy(p) \/ Cmp(p) \/ Kill(p)
  PROVE  /\ IInv' /\ Step(p)
         /\ pc[p] # "done" /\ pc'[p] = "done" /\ ~disturbed[p] =>
              /\ job[p].tool = "copy" /\ job[p].f1 # job[p].f2 => CopyTellsTruth(p)
              /\ Unfailing(p) /\ result'[p] \in {"equal", "distinct"} =>
                   CmpTellsTruth(p, disk[job[p].f1], disk[job[p].f2])
<1>1. TypeOK /\ Invocation(p)
  BY DEF IInv
<1>2. job[p].tool = "copy" => ~Cmp(p)
  BY <1>1 DEF Invocation, Opened, Cmp, CmpOpens, Starts, CmpGets, CmpSteps, CmpEnds
<1>3. IInv' /\ Step(p)
  <2>1. ASSUME Copy(p) PROVE IInv' /\ Step(p)
    BY <2>1, CopyOpensInv, CopyCreatesInv, CopyGetsInv, CopyAppendsInv, CopyFlushesInv, CopyClosesInv DEF Copy
  <2>2. ASSUME Cmp(p) PROVE IInv' /\ Step(p)
    BY <2>2, CmpOpensInv, CmpGetsInv, CmpStepsInv, CmpEndsInv DEF Cmp
  <2> QED
    BY <2>1, <2>2, KillInv
<1>4. ASSUME pc[p] # "done", pc'[p] = "done", ~disturbed[p], job[p].tool = "copy", job[p].f1 # job[p].f2
      PROVE  CopyTellsTruth(p)
  <2>1. CASE CopyOpens(p)
    BY <1>4, <2>1, CopyOpensTruth
  <2>2. CASE CopyCreates(p)
    BY <1>4, <2>2, CopyCreatesTruth
  <2>3. CASE CopyGets(p)
    BY <1>4, <2>3 DEF CopyGets, Fill
  <2>4. CASE CopyPuts(p)
    BY <1>4, <2>4, CopyAppendsInv, CopyFlushesInv
  <2>5. CASE CopyCloses(p)
    BY <1>4, <2>5, CopyClosesInv
  <2>6. CASE Kill(p)
    BY <1>4, <2>6, KillInv, KillTruth
  <2> QED
    BY <1>2, <1>4, <2>1, <2>2, <2>3, <2>4, <2>5, <2>6 DEF Copy
<1>5. ASSUME pc[p] # "done", pc'[p] = "done", ~disturbed[p], Unfailing(p),
             result'[p] \in {"equal", "distinct"}
      PROVE  CmpTellsTruth(p, disk[job[p].f1], disk[job[p].f2])
  <2>1. CASE Copy(p)
    BY <1>1, <1>5, <2>1, CopySays
  <2>2. CASE CmpOpens(p)
    BY <1>5, <2>2, CmpOpensInv
  <2>3. CASE CmpGets(p)
    BY <1>5, <2>3, CmpGetsInv
  <2>4. CASE CmpSteps(p)
    BY <1>5, <2>4, CmpStepsInv DEF Unharmed
  <2>5. CASE CmpEnds(p)
    BY <1>5, <2>5, CmpEndsInv DEF Unharmed
  <2>6. CASE Kill(p)
    BY <1>5, <2>6, KillInv
  <2> QED
    BY <2>1, <2>2, <2>3, <2>4, <2>5, <2>6 DEF Cmp
<1> QED
  BY <1>3, <1>4, <1>5

\* The invariant holds always: in particular, what a running copy that was left alone has
\* read of its source is its target and the two buffers, and what a running cmp has read
\* of its two files is the same.
THEOREM Invariance == Spec => []IInv
<1>1. IInv /\ [Next]_vars => IInv'
  <2> SUFFICES ASSUME IInv, [Next]_vars PROVE IInv'
    OBVIOUS
  <2>1. CASE Next
    BY <2>1, NextInv DEF Next
  <2>2. CASE UNCHANGED vars
    BY <2>2, SameInv
  <2> QED
    BY <2>1, <2>2
<1> QED
  BY <1>1, InitInv, PTL DEF Spec

\* Every variable keeps its type, a buffer never holds more than Block bytes, and a
\* process that has ended, and no other, has said why.
THEOREM TypeCorrect == Spec => []TypeOK
<1>1. IInv => TypeOK
  BY DEF IInv
<1> QED
  BY <1>1, Invariance, PTL

\* Only its own step ends an invocation.
LEMMA EndsItself ==
  ASSUME IInv, Next, NEW p \in Procs, EndsAlone(p)
  PROVE  Copy(p) \/ Cmp(p) \/ Kill(p)
<1>1. PICK q \in Procs : Copy(q) \/ Cmp(q) \/ Kill(q)
  BY DEF Next
<1>2. Step(q)
  BY <1>1, NextInv
<1>3. p # q => pc'[p] = pc[p]
  BY <1>2 DEF Step, Spared
<1> QED
  BY <1>1, <1>3 DEF EndsAlone

\* A copy that had its two files to itself does what it says (copy.c:16-65): see the
\* property.
THEOREM CopyKeepsWord == Spec => CopyKeepsItsWord
<1>1. ASSUME IInv, [Next]_vars
      PROVE  [\A p \in Procs :
                EndsAlone(p) /\ job[p].tool = "copy" /\ job[p].f1 # job[p].f2 => CopyTellsTruth(p)]_vars
  <2> SUFFICES ASSUME Next, NEW p \in Procs, EndsAlone(p), job[p].tool = "copy", job[p].f1 # job[p].f2
               PROVE  CopyTellsTruth(p)
    BY <1>1
  <2>1. Copy(p) \/ Cmp(p) \/ Kill(p)
    BY <1>1, EndsItself
  <2> QED
    BY <1>1, <2>1, NextInv DEF EndsAlone
<1> QED
  BY <1>1, Invariance, PTL DEF Spec, CopyKeepsItsWord

\* The verdict of a cmp whose files nobody changed meanwhile is right (cmp.c:61-95): see
\* the property.
THEOREM CmpIsRight == Spec => CmpVerdict
<1>1. ASSUME IInv, [Next]_vars
      PROVE  [\A p \in Procs :
                EndsAlone(p) /\ Unfailing(p) /\ result'[p] \in {"equal", "distinct"} =>
                  CmpTellsTruth(p, disk[job[p].f1], disk[job[p].f2])]_vars
  <2> SUFFICES ASSUME Next, NEW p \in Procs, EndsAlone(p), Unfailing(p),
                      result'[p] \in {"equal", "distinct"}
               PROVE  CmpTellsTruth(p, disk[job[p].f1], disk[job[p].f2])
    BY <1>1
  <2>1. Copy(p) \/ Cmp(p) \/ Kill(p)
    BY <1>1, EndsItself
  <2> QED
    BY <1>1, <2>1, NextInv DEF EndsAlone
<1> QED
  BY <1>1, Invariance, PTL DEF Spec, CmpVerdict

=============================================================================
