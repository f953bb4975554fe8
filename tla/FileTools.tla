-------------------------------- MODULE FileTools --------------------------------
(***************************************************************************)
(* copy and cmp of Assignment-2, run by several users at the same time on  *)
(* the files of one disk.  Each goes through the streams of stdio: a read  *)
(* takes up to Block bytes or fails, an end of file once seen stays, and   *)
(* what is written reaches the file when the buffer is full or is closed.  *)
(* Others use the disk too: how much of a write still fits on it is not    *)
(* known.                                                                  *)
(***************************************************************************)
EXTENDS Integers, SequencesExt

CONSTANTS Procs,     \* invocations
          Jobs,      \* the command lines they may have, with the files the user may read
          Contents,  \* what a file may hold at first
          Files,
          Block      \* bytes in a buffer

EOF == -1
Byte == 0..255
IsDisk(d) == DOMAIN d \subseteq Files /\ d \in [DOMAIN d -> Seq(Byte)]
\* err: no read has failed, the last one has and fgetc is about to return EOF for it, or
\* one has before.
Streams == [pos : Nat, buf : Seq(Byte), eof : BOOLEAN, err : {"no", "now", "before"}]

ASSUME FileToolsAssumption ==
  /\ Jobs \subseteq [tool : {"copy", "cmp"}, f1 : Files, f2 : Files,
                     opt : {"none", "-f", "-i", "-x"}, may : SUBSET Files]
  /\ Contents \subseteq Seq(Byte)
  /\ Block \in Nat \ {0}

VARIABLES disk,      \* [the files that exist -> their bytes]
          job,       \* [Procs -> Jobs]
          pc,        \* [Procs -> label]
          stream,    \* [Procs -> [1..2 -> stream]]: of the two files of its job
          result,    \* [Procs -> what the user is told]
          (* history *)
          began,     \* [Procs -> the disk when it began]
          disturbed, \* [Procs -> BOOLEAN]: another one has changed a file of its job
          short      \* [Procs -> BOOLEAN]: a write did not fit on the disk

vars == <<disk, job, pc, stream, result, began, disturbed, short>>

Fresh == [pos |-> 0, buf |-> <<>>, eof |-> FALSE, err |-> "no"]
Quiet == [p \in Procs |-> FALSE]

Init == /\ disk \in UNION {[S -> Contents] : S \in SUBSET Files}
        /\ job \in [Procs -> Jobs]
        /\ pc = [p \in Procs |-> "start"]
        /\ stream = [p \in Procs |-> [k \in 1..2 |-> Fresh]]
        /\ result = [p \in Procs |-> "none"]
        /\ began = [p \in Procs |-> disk]
        /\ disturbed = Quiet /\ short = Quiet

Goto(p, label) == pc' = [pc EXCEPT ![p] = label] /\ UNCHANGED result
Tells(p, what) == pc' = [pc EXCEPT ![p] = "done"] /\ result' = [result EXCEPT ![p] = what]
Starts(p, tool) == /\ pc[p] = "start" /\ job[p].tool = tool
                   /\ began' = [began EXCEPT ![p] = disk]

-----------------------------------------------------------------------------
(* stdio                                                                   *)

\* fopen of a file to be read succeeds.
Opens(p, f) == f \in DOMAIN disk /\ f \in job[p].may

Known(s) == s.buf # <<>> \/ s.eof \/ s.err = "now"
Next1(s) == IF s.buf = <<>> THEN EOF ELSE Head(s.buf)
Rest(s) == IF s.buf # <<>> THEN [s EXCEPT !.buf = Tail(@)]
           ELSE [s EXCEPT !.err = IF @ = "now" THEN "before" ELSE @]

\* fgetc finds its buffer empty; a read that fails gives no bytes, and may succeed when it
\* is tried again.
Fill(p, k) ==
  LET s == stream[p][k]
      c == disk[IF k = 1 THEN job[p].f1 ELSE job[p].f2]
      block == SubSeq(c, s.pos + 1, IF s.pos + Block < Len(c) THEN s.pos + Block ELSE Len(c))
  IN  /\ ~Known(s)
      /\ \/ stream' = [stream EXCEPT ![p][k] = [pos |-> s.pos + Len(block), buf |-> block,
                                                eof |-> block = <<>>, err |-> s.err]]
         \/ stream' = [stream EXCEPT ![p][k] = [s EXCEPT !.err = "now"]]
      /\ UNCHANGED <<disk, job, pc, result, began, disturbed, short>>

\* The file of p's job that p writes is now c.
Changes(p, c) ==
  LET f == job[p].f2
  IN  /\ disk' = [g \in DOMAIN disk \cup {f} |-> IF g = f THEN c ELSE disk[g]]
      /\ disturbed' = [q \in Procs |-> disturbed[q] \/ (q # p /\ pc[q] \notin {"start", "done"}
                                                        /\ f \in {job[q].f1, job[q].f2})]

\* A file that holds c once out is written at pos; behind an end that was moved it is filled up.
Overwritten(c, pos, out) ==
  LET end == pos + Len(out)
  IN  [i \in 1..(IF end > Len(c) THEN end ELSE Len(c)) |->
         IF i > pos /\ i <= end THEN out[i - pos] ELSE IF i <= Len(c) THEN c[i] ELSE 0]

\* What is in the buffer of the target goes to the disk, or as much of it as fits.
Flush(p) ==
  LET s == stream[p][2]
  IN  \E fits \in 0..Len(s.buf) :
        /\ IF fits = 0 THEN UNCHANGED <<disk, disturbed>>
           ELSE Changes(p, Overwritten(disk[job[p].f2], s.pos, SubSeq(s.buf, 1, fits)))
        /\ short' = [short EXCEPT ![p] = fits < Len(s.buf)]

-----------------------------------------------------------------------------
(* copy                                                                    *)

\* Variant: only a target that holds something is in the way.
CopyOpensEmpty(p) ==
  /\ Starts(p, "copy")
  /\ IF ~Opens(p, job[p].f1) THEN Tells(p, "no source")
     ELSE IF Opens(p, job[p].f2) /\ disk[job[p].f2] # <<>> /\ job[p].opt # "-f"
          THEN Tells(p, "target exists") ELSE Goto(p, "create")
  /\ UNCHANGED <<disk, job, stream, disturbed, short>>

\* Opens the source, and the target to find out whether it exists: one that may not be
\* read passes for one that does not.  With no third argument, strcmp is given NULL.
CopyOpens(p) ==
  /\ Starts(p, "copy")
  /\ IF ~Opens(p, job[p].f1) THEN Tells(p, "no source")
     ELSE IF ~Opens(p, job[p].f2) \/ job[p].opt = "-f" THEN Goto(p, "create")
     ELSE Tells(p, IF job[p].opt = "none" THEN "killed" ELSE "target exists")
  /\ UNCHANGED <<disk, job, stream, disturbed, short>>

\* The target is emptied or created, or may not be written.
CopyCreates(p) ==
  /\ pc[p] = "create"
  /\ \/ Changes(p, <<>>) /\ Goto(p, "copy")
     \/ Tells(p, "not created") /\ UNCHANGED <<disk, disturbed>>
  /\ UNCHANGED <<job, stream, began, short>>

CopyGets(p) == pc[p] = "copy" /\ Fill(p, 1)

\* fputc; it fails when the buffer is full and does not fit on the disk, and what did
\* not fit is dropped.
CopyPuts(p) ==
  /\ pc[p] = "copy" /\ stream[p][1].buf # <<>>
  /\ LET in == stream[p][1]
         out == stream[p][2]
     IN  IF Len(out.buf) < Block
         THEN /\ stream' = [stream EXCEPT ![p] = <<Rest(in), [out EXCEPT !.buf = Append(@, Head(in.buf))]>>]
              /\ UNCHANGED <<disk, disturbed, short, pc, result>>
         ELSE /\ Flush(p)
              /\ stream' = [stream EXCEPT ![p] = <<Rest(in), [out EXCEPT !.pos = @ + Len(out.buf),
                                                                         !.buf = <<Head(in.buf)>>]>>]
              /\ IF short'[p] THEN Tells(p, "General failure") ELSE UNCHANGED <<pc, result>>
  /\ UNCHANGED <<job, began>>

\* Variant: nothing is said when the buffer did not fit.
CopyClosesSilently(p) == /\ pc[p] = "copy" /\ Known(stream[p][1]) /\ Next1(stream[p][1]) = EOF
                         /\ Flush(p)
                         /\ pc' = [pc EXCEPT ![p] = "done"]
                         /\ result' = [result EXCEPT ![p] = IF short'[p] THEN @ ELSE "Success"]
                         /\ UNCHANGED <<job, stream, began>>

\* The loop ends at the end of the source or when a read of it fails, which looks the
\* same.  fclose writes the buffer; that it may fail is not looked at either.
CopyCloses(p) == /\ pc[p] = "copy" /\ Known(stream[p][1]) /\ Next1(stream[p][1]) = EOF
                 /\ Flush(p)
                 /\ Tells(p, "Success")
                 /\ UNCHANGED <<job, stream, began>>

Copy(p) == CopyOpens(p) \/ CopyCreates(p) \/ CopyGets(p) \/ CopyPuts(p) \/ CopyCloses(p)

-----------------------------------------------------------------------------
(* cmp                                                                     *)

CmpOpens(p) == /\ Starts(p, "cmp")
               /\ IF Opens(p, job[p].f1) /\ Opens(p, job[p].f2) THEN Goto(p, "compare")
                  ELSE Tells(p, "cannot open")
               /\ UNCHANGED <<disk, job, stream, disturbed, short>>

\* toupper, which is called for a char
Fold(b) == IF b \in 97..122 THEN b - 32 ELSE b
Upper(p, b) == IF job[p].opt = "-i" THEN Fold(b) ELSE b

\* An int kept in a char: the byte 0xFF is EOF.
Char(c) == IF c = 255 THEN EOF ELSE c

\* The first file is read first, and the second only when that did not end the loop.
CmpGets(p) == \/ pc[p] \in {"compare", "last"} /\ Fill(p, 1)
              \/ /\ pc[p] = "last" \/ (pc[p] = "compare" /\ Char(Next1(stream[p][1])) # EOF)
                 /\ Known(stream[p][1]) /\ Fill(p, 2)

\* Variant: the loop ends only when both files have.
CmpStepsBoth(p) ==
  /\ pc[p] = "compare" /\ Known(stream[p][1]) /\ Known(stream[p][2])
  /\ LET c1 == Next1(stream[p][1])
         c2 == Next1(stream[p][2])
     IN  IF c1 = EOF /\ c2 = EOF THEN Goto(p, "last")
         ELSE IF Upper(p, c1) # Upper(p, c2) THEN Tells(p, "distinct")
         ELSE UNCHANGED <<pc, result>>
  /\ stream' = [stream EXCEPT ![p] = [k \in 1..2 |-> Rest(@[k])]]
  /\ UNCHANGED <<disk, job, began, disturbed, short>>

\* One turn of the loop.
CmpSteps(p) ==
  /\ pc[p] = "compare" /\ Known(stream[p][1])
  /\ LET c1 == Char(Next1(stream[p][1]))
         c2 == Char(Next1(stream[p][2]))
     IN  IF c1 = EOF
         THEN Goto(p, "last") /\ stream' = [stream EXCEPT ![p][1] = Rest(@)]
         ELSE /\ Known(stream[p][2])
              /\ stream' = [stream EXCEPT ![p] = [k \in 1..2 |-> Rest(@[k])]]
              /\ IF c2 = EOF THEN Goto(p, "last")
                 ELSE IF Upper(p, c1) # Upper(p, c2) THEN Tells(p, "distinct")
                 ELSE UNCHANGED <<pc, result>>
  /\ UNCHANGED <<disk, job, began, disturbed, short>>

\* One more character of each file.
CmpEnds(p) == /\ pc[p] = "last" /\ \A k \in 1..2 : Known(stream[p][k])
              /\ Tells(p, IF Next1(stream[p][1]) = Next1(stream[p][2]) THEN "equal" ELSE "distinct")
              /\ UNCHANGED <<disk, job, stream, began, disturbed, short>>

Cmp(p) == CmpOpens(p) \/ CmpGets(p) \/ CmpSteps(p) \/ CmpEnds(p)

-----------------------------------------------------------------------------
\* Ctrl+C
Kill(p) == /\ pc[p] \notin {"start", "done"}
           /\ Tells(p, "killed")
           /\ UNCHANGED <<disk, job, stream, began, disturbed, short>>

Next == \E p \in Procs : Copy(p) \/ Cmp(p) \/ Kill(p)

Spec == Init /\ [][Next]_vars

-----------------------------------------------------------------------------
(* Properties.                                                             *)

\* The type of every variable; a process that has ended has said why.
TypeOK ==
  /\ IsDisk(disk)
  /\ job \in [Procs -> Jobs]
  /\ pc \in [Procs -> {"start", "create", "copy", "compare", "last", "done"}]
  /\ stream \in [Procs -> [1..2 -> Streams]]
  /\ \A p \in Procs, k \in 1..2 : Len(stream[p][k].buf) <= Block
  /\ result \in [Procs -> {"none", "killed", "no source", "target exists", "not created", "Success",
                           "General failure", "cannot open", "equal", "distinct"}]
  /\ \A p \in Procs : result[p] = "none" <=> pc[p] # "done"
  /\ DOMAIN began = Procs /\ \A p \in Procs : IsDisk(began[p])
  /\ disturbed \in [Procs -> BOOLEAN] /\ short \in [Procs -> BOOLEAN]

\* p ends with this step, and nobody else has changed its files meanwhile.
EndsAlone(p) == pc[p] # "done" /\ pc'[p] = "done" /\ ~disturbed[p]

\* No read of p has failed.
Unfailing(p) == \A k \in 1..2 : stream[p][k].err = "no"

\* What copy has told its user is true of the disk.
CopyTellsTruth(p) ==
  LET src == job[p].f1
      tgt == job[p].f2
      whole == result'[p] = "Success" /\ ~short'[p]
      touched == result'[p] \in {"Success", "General failure"}
  IN  /\ touched => /\ disk'[src] = began[p][src]
                    /\ IF whole /\ Unfailing(p) THEN disk'[tgt] = disk'[src]
                       ELSE IF whole THEN IsPrefix(disk'[tgt], disk'[src])
                       ELSE IsStrictPrefix(disk'[tgt], disk'[src])
      /\ result'[p] \notin {"none", "killed"} /\ ~touched =>
           \A f \in {src, tgt} \cap DOMAIN began'[p] : disk'[f] = began'[p][f]
      /\ tgt \in DOMAIN began'[p] \cap job[p].may /\ job[p].opt # "-f" =>
           tgt \in DOMAIN disk' /\ disk'[tgt] = began'[p][tgt]

\* A copy that had its two files to itself does what it says.  After "Success" the
\* target is the source when every read of it succeeded, or what of it fitted on a disk
\* that was full at the very end; when a read failed it is a beginning of the source.
\* After "General failure" it is less than the source, and a beginning of it; after any
\* other message all is as before.  However copy ends, also by Ctrl+C, without -f it
\* leaves a target alone that it may read; one that may only be written passes for
\* absent, and what it held is lost (copy.c:16-65).
CopyKeepsItsWord ==
  [][\A p \in Procs :
       EndsAlone(p) /\ job[p].tool = "copy" /\ job[p].f1 # job[p].f2 => CopyTellsTruth(p)]_vars

Same(p, c, d) == Len(c) = Len(d) /\ \A i \in DOMAIN c : Upper(p, c[i]) = Upper(p, d[i])
Plain(c) == \A i \in DOMAIN c : c[i] # 255

\* What cmp, having read c and d, has told its user is true of them.
CmpTellsTruth(p, c, d) ==
  IF Plain(c) /\ Plain(d)
  THEN result'[p] = "equal" <=> Same(p, c, d) \/ (c # <<>> /\ Same(p, Front(c), d))
  ELSE result'[p] = "equal" =>
         \A n \in 0..Len(c) \cap 0..Len(d) :
           Plain(SubSeq(c, 1, n)) /\ Plain(SubSeq(d, 1, n)) =>
             Same(p, SubSeq(c, 1, n), SubSeq(d, 1, n))

\* Of two files that nobody changed meanwhile, that have no byte 0xFF and that were read
\* without a failure (which cmp takes for an end of file and does not tell), cmp says
\* "equal" exactly when they are, up to case with -i, or when the first is the second
\* and one character more; with a 0xFF, "equal" says no more than that the two agree as
\* far as both go and neither has had one (cmp.c:61-95).
CmpVerdict ==
  [][\A p \in Procs :
       EndsAlone(p) /\ Unfailing(p) /\ result'[p] \in {"equal", "distinct"} =>
         CmpTellsTruth(p, disk[job[p].f1], disk[job[p].f2])]_vars
=============================================================================
