---------------------------- MODULE Assignment2Proofs ----------------------------
(***************************************************************************)
(* stshell, for every set of programs and lines, any size of argv and of   *)
(* the pipes; and the codecs, for every text.                              *)
(*                                                                         *)
(* The shell is about what one command leaves to the next: the descriptors *)
(* in_fd and out_fd, and what is in the last pipe.  Clean says when the    *)
(* descriptors are the terminal again; Chained, that a pipe which the next *)
(* command is to read holds only what the command run last has written;    *)
(* Running, what the command that runs is connected to.                    *)
(***************************************************************************)
EXTENDS Shell, Algorithms, SequenceTheorems, TLAPS

-----------------------------------------------------------------------------
(* The invariant.                                                          *)

HasOperator(l) == \E i \in 1..Len(l) : l[i] \in Operators

\* What strtok has still to return has been typed.
LeftOver == shell \in {"parse", "pipe_wait"} =>
              \A i \in 1..Len(line) : \E j \in 1..Len(typed) : typed[j] = line[i]

\* A line that began with the terminal on both sides keeps it up to its first operator.
Clean == /\ shell = "prompt" /\ ~bare => in_fd = Terminal /\ out_fd = Terminal
         /\ shell = "parse" /\ ~bare /\ ~HasOperator(typed) => in_fd = Terminal /\ out_fd = Terminal
         /\ shell = "pipe_wait" => HasOperator(typed)

\* All that is in pipe q was written by command w.
OnlyBy(q, w) == \A k \in 1..Len(q) : q[k] = w

\* The next command reads the terminal or the last pipe, in which only the command run
\* last has written, and does not write to an old one.
Chained == /\ in_fd \in 0..Len(pipes)
           /\ shell \in {"prompt", "parse"} =>
                /\ in_fd # Terminal => in_fd = Len(pipes) /\ OnlyBy(pipes[in_fd], n)
                /\ out_fd \notin Pipes
           /\ shell = "pipe_wait" => Len(pipes) > 0 /\ OnlyBy(pipes[Len(pipes)], n)

\* The command that runs is the last one, and its pipe, if it has one to read, holds what
\* the one before it wrote.
Running == child # Nobody =>
             /\ child.id = n
             /\ child.in \in 0..Len(pipes)
             /\ child.in # Terminal => OnlyBy(pipes[child.in], n - 1)
             /\ shell = "pipe_wait" => child.out = Len(pipes) /\ child.in < child.out
             /\ shell = "last_wait" => child.out \notin Pipes

IInv == TypeOK /\ LeftOver /\ Clean /\ Chained /\ Running /\ ReadsItsPredecessor

-----------------------------------------------------------------------------
(* The codecs.                                                             *)

\* codecA decodes what it encoded, whatever it was: decode is encode, and swapping the
\* case twice changes nothing (codecA.c:3-21).
THEOREM CodecARoundTrip == ASSUME NEW s \in Seq(Chars) PROVE decodeA(encodeA(s)) = s
<1>1. \A c \in Chars : SwapCase(c) \in Int /\ SwapCase(SwapCase(c)) = c
  BY DEF Chars, SwapCase, islower, isupper
<1>2. \A i \in 1..Len(s) : s[i] \in Chars
  OBVIOUS
<1>3. /\ encodeA(s) \in Seq(Int) /\ Len(encodeA(s)) = Len(s)
      /\ \A i \in 1..Len(s) : encodeA(s)[i] = SwapCase(s[i])
  <2>1. \A i \in 1..Len(s) : SwapCase(s[i]) \in Int
    BY <1>1, <1>2
  <2> QED BY <2>1 DEF encodeA
<1>4. Len(decodeA(encodeA(s))) = Len(s) /\ \A i \in 1..Len(s) : decodeA(encodeA(s))[i] = s[i]
  BY <1>1, <1>2, <1>3 DEF decodeA, encodeA
<1>5. decodeA(encodeA(s)) = [i \in 1..Len(s) |-> s[i]]
  BY <1>1, <1>2, <1>3 DEF decodeA, encodeA
<1> QED BY <1>5

\* A text of which nothing is cut by a 0 is visible as it is, and one that is cut at
\* its first 0 is visible up to there.
LEMMA VisibleUpTo ==
  ASSUME NEW buf \in Seq(Int), NEW e \in 0..Len(buf),
         \A i \in 1..e : buf[i] # 0,
         e < Len(buf) => buf[e + 1] = 0
  PROVE  Visible(buf) = SubSeq(buf, 1, e)
<1> DEFINE P(m) == (\A i \in 1..m : buf[i] # 0) /\ (m < Len(buf) => buf[m + 1] = 0)
<1>1. P(e)
  OBVIOUS
<1>2. \A m \in 0..Len(buf) : P(m) => m = e
  <2> SUFFICES ASSUME NEW m \in 0..Len(buf), P(m), m # e PROVE FALSE
    OBVIOUS
  <2>0. Len(buf) \in Nat
    OBVIOUS
  <2>1. CASE m < e
    BY <2>0, <2>1
  <2>2. CASE e < m
    BY <2>0, <2>2
  <2> QED BY <2>0, <2>1, <2>2
<1>3. (CHOOSE m \in 0..Len(buf) : P(m)) = e
  <2> HIDE DEF P
  <2> QED BY <1>1, <1>2
<1> QED BY <1>3 DEF Visible

\* codecB gives back an ASCII text up to its first character 125, which encode makes
\* the end of the string (codecB.c:1-15).
THEOREM CodecBRoundTrip ==
  ASSUME NEW s \in Seq(Ascii), NEW e \in 0..Len(s),
         \A i \in 1..e : s[i] # 125,
         e < Len(s) => s[e + 1] = 125
  PROVE  decodeB(Visible(encodeB(s))) = SubSeq(s, 1, e)
<1>1. \A c \in Ascii : /\ Rem(c + 3, 128) \in Int
                       /\ Rem(c + 3, 128) = 0 <=> c = 125
                       /\ Rem(Rem(c + 3, 128) + 125, 128) = c
  BY DEF Ascii, Rem
<1>2. \A i \in 1..Len(s) : s[i] \in Ascii
  OBVIOUS
<1>3. /\ encodeB(s) \in Seq(Int) /\ Len(encodeB(s)) = Len(s)
      /\ \A i \in 1..Len(s) : encodeB(s)[i] = Rem(s[i] + 3, 128)
  BY <1>1, <1>2 DEF encodeB
<1>4. Visible(encodeB(s)) = SubSeq(encodeB(s), 1, e)
  <2>1. \A i \in 1..e : encodeB(s)[i] # 0
    <3>1. ASSUME NEW i \in 1..e PROVE encodeB(s)[i] # 0
      <4>1. i \in 1..Len(s) /\ s[i] # 125
        OBVIOUS
      <4>2. s[i] \in Ascii /\ encodeB(s)[i] = Rem(s[i] + 3, 128)
        BY <1>2, <1>3, <4>1
      <4> QED
        BY <1>1, <4>1, <4>2
    <3> QED
      BY <3>1
  <2>2. ASSUME e < Len(encodeB(s)) PROVE encodeB(s)[e + 1] = 0
    <3>1. e + 1 \in 1..Len(s) /\ s[e + 1] = 125
      BY <1>3, <2>2
    <3>2. s[e + 1] \in Ascii /\ encodeB(s)[e + 1] = Rem(s[e + 1] + 3, 128)
      BY <1>2, <1>3, <3>1
    <3> QED
      BY <1>1, <3>1, <3>2
  <2>3. e \in 0..Len(encodeB(s))
    BY <1>3
  <2> QED BY <1>3, <2>1, <2>2, <2>3, VisibleUpTo
<1> DEFINE v == SubSeq(encodeB(s), 1, e)
<1>5. v \in Seq(Int) /\ Len(v) = e /\ \A i \in 1..e : v[i] = Rem(s[i] + 3, 128)
  BY <1>3
<1>6. \A i \in 1..e : Rem(v[i] + 125, 128) = s[i]
  BY <1>1, <1>2, <1>5
<1>7. decodeB(v) = [i \in 1..e |-> s[i]]
  <2> HIDE DEF v
  <2> QED BY <1>5, <1>6 DEF decodeB
<1>8. SubSeq(s, 1, e) = [i \in 1..e |-> s[i]]
  OBVIOUS
<1> QED BY <1>4, <1>7, <1>8
-----------------------------------------------------------------------------
(* The shell.                                                              *)

\* What is left of a line when its first token has been taken.
LEMMA TailFacts ==
  ASSUME NEW S, NEW q \in Seq(S), q # <<>>
  PROVE  /\ Head(q) \in S /\ Head(q) = q[1] /\ Len(q) \in Nat \ {0}
         /\ Tail(q) \in Seq(S) /\ Len(Tail(q)) = Len(q) - 1
         /\ \A i \in 1..Len(Tail(q)) : i + 1 \in 1..Len(q) /\ Tail(q)[i] = q[i + 1]
<1>1. Len(q) \in Nat \ {0}
  BY EmptySeq
<1>2. Head(q) = q[1] /\ Tail(q) \in Seq(S) /\ Len(Tail(q)) = Len(q) - 1
  BY HeadTailProperties
<1>3. \A i \in 1..Len(Tail(q)) : Tail(q)[i] = q[i + 1]
  BY HeadTailProperties
<1> QED
  BY <1>1, <1>2, <1>3

\* The lines that may be typed are made of words.
LEMMA LinesFacts == \A l \in Lines : l \in Seq(Words)
<1> SUFFICES ASSUME NEW l \in Lines PROVE l \in Seq(Words)
  OBVIOUS
<1>1. l \in Seq(STRING)
  BY ShellAssumption
<1>2. Len(l) \in Nat /\ DOMAIN l = 1..Len(l) /\ l = [i \in 1..Len(l) |-> l[i]]
  BY <1>1
<1>3. \A i \in 1..Len(l) : l[i] \in Words
  <2>1. {l[i] : i \in DOMAIN l} \subseteq Tokens
    BY Zenon DEF Tokens
  <2> QED
    BY <1>2, <2>1 DEF Words
<1>4. [i \in 1..Len(l) |-> l[i]] \in Seq(Words)
  BY <1>2, <1>3
<1> QED
  BY <1>2, <1>4

\* What is in a pipe stays of one command, when that one writes or somebody reads.
LEMMA OnlyByFacts ==
  ASSUME NEW q \in Seq(Nat), NEW w \in Nat, OnlyBy(q, w)
  PROVE  /\ OnlyBy(Append(q, w), w)
         /\ q # <<>> => OnlyBy(Tail(q), w) /\ Head(q) = w
<1>1. Len(q) \in Nat
  BY LenProperties
<1>2. OnlyBy(Append(q, w), w)
  <2>1. /\ Len(Append(q, w)) = Len(q) + 1 /\ Append(q, w)[Len(q) + 1] = w
        /\ \A k \in 1..Len(q) : Append(q, w)[k] = q[k]
    BY AppendProperties
  <2>2. \A k \in 1..(Len(q) + 1) : k \in 1..Len(q) \/ k = Len(q) + 1
    BY <1>1
  <2> QED
    BY <2>1, <2>2 DEF OnlyBy
<1>3. q # <<>> => OnlyBy(Tail(q), w) /\ Head(q) = w
  BY <1>1, TailFacts DEF OnlyBy
<1> QED
  BY <1>2, <1>3

\* The shell has no command while it is not waiting for one.
LEMMA NoChild ==
  ASSUME TypeOK, shell \notin Waiting
  PROVE  child = Nobody
  BY DEF TypeOK

\* A line that begins.
LEMMA BeginInv ==
  ASSUME IInv, shell = "prompt", NEW l \in Seq(Words), Begin(l), child' = Nobody,
         left' \in 0..WordLength, lines' \in 0..MaxLines, handler' \in BOOLEAN, ended' \in BOOLEAN,
         UNCHANGED <<argv, in_fd, out_fd, pipes, held, bare, n>>
  PROVE  IInv'
<1>1. /\ shell' \in {"exited", "parse"} /\ line' = l /\ typed' = l /\ argc' = 0 /\ asTyped' = TRUE
      /\ interrupted' = FALSE
  BY DEF Begin
<1>2. TypeOK'
  <2>1. 0 \in 0..(MAX_ARGS - 1)
    BY ShellAssumption
  <2>2. child' = child
    BY NoChild DEF IInv, Waiting
  <2> QED
    BY <1>1, <2>1, <2>2 DEF IInv, TypeOK, Waiting
<1>3. LeftOver'
  BY <1>1 DEF LeftOver
<1>4. Clean'
  BY <1>1 DEF IInv, Clean
<1>5. Chained'
  BY <1>1 DEF IInv, Chained, OnlyBy
<1>6. Running' /\ ReadsItsPredecessor'
  BY DEF Running, ReadsItsPredecessor, Nobody
<1> QED
  BY <1>2, <1>3, <1>4, <1>5, <1>6 DEF IInv

\* What is left in the buffer when fgets fails.
LEMMA OldLineFacts ==
  ASSUME TypeOK, OldLine
  PROVE  left' \in 0..WordLength /\ \E l \in Seq(Words) : Begin(l)
<1>1. left' \in 0..WordLength
  BY ShellAssumption DEF TypeOK, OldLine
<1>2. PICK w \in Programs \cup Operators \cup {"other", "exit"} : Begin(IF left' = 0 THEN <<>> ELSE <<w>>)
  BY DEF OldLine
<1>3. w \in Words
  BY <1>2 DEF Words
<1>4. (IF left' = 0 THEN <<>> ELSE <<w>>) \in Seq(Words)
  <2>1. <<>> \in Seq(Words) /\ <<w>> \in Seq(Words)
    BY <1>3, EmptySeq
  <2> QED
    BY <2>1
<1> QED
  BY <1>1, <1>2, <1>4

\* A line is typed.
LEMMA ReadLineInv ==
  ASSUME IInv, ReadLine
  PROVE  IInv'
<1>1. /\ shell = "prompt" /\ lines < MaxLines /\ lines' = lines + 1
      /\ UNCHANGED <<argv, in_fd, out_fd, handler, ended, child, pipes, held, bare, n>>
  BY DEF ReadLine
<1>2. PICK l \in Lines : Begin(l) /\ left' = IF l = <<>> THEN 0 ELSE WordLength
  BY DEF ReadLine
<1>3. l \in Seq(Words) /\ left' \in 0..WordLength
  BY <1>2, LinesFacts, ShellAssumption
<1>4. lines' \in 0..MaxLines /\ handler' \in BOOLEAN /\ ended' \in BOOLEAN
  BY <1>1, ShellAssumption DEF IInv, TypeOK
<1>5. child' = Nobody
  BY <1>1, NoChild DEF IInv, Waiting
<1> QED
  BY <1>1, <1>2, <1>3, <1>4, <1>5, BeginInv

\* The input has ended.
LEMMA EndOfInputInv ==
  ASSUME IInv, EndOfInput
  PROVE  IInv'
<1>1. /\ shell = "prompt" /\ ended' = TRUE /\ OldLine
      /\ UNCHANGED <<lines, argv, in_fd, out_fd, handler, child, pipes, held, bare, n>>
  BY DEF EndOfInput
<1>2. left' \in 0..WordLength
  BY <1>1, OldLineFacts DEF IInv
<1>3. PICK l \in Seq(Words) : Begin(l)
  BY <1>1, OldLineFacts DEF IInv
<1>4. lines' \in 0..MaxLines /\ handler' \in BOOLEAN /\ child' = Nobody
  BY <1>1, NoChild DEF IInv, TypeOK, Waiting
<1> QED
  BY <1>1, <1>2, <1>3, <1>4, BeginInv

\* A word.
LEMMA WordInv ==
  ASSUME IInv, Word
  PROVE  IInv'
<1>1. /\ shell = "parse" /\ line # <<>> /\ argc < MAX_ARGS - 1
      /\ argv' = [argv EXCEPT ![argc] = Head(line)] /\ argc' = argc + 1 /\ line' = Tail(line)
      /\ UNCHANGED <<shell, left, ended, typed, interrupted, lines, in_fd, out_fd, handler, child, pipes, held,
                     asTyped, n, bare>>
  BY DEF Word, MoreTokens, input, run
<1>2. /\ Head(line) \in Words /\ line' \in Seq(Words)
      /\ \A i \in 1..Len(line') : i + 1 \in 1..Len(line) /\ line'[i] = line[i + 1]
  BY <1>1, TailFacts DEF IInv, TypeOK
<1>3. TypeOK'
  <2>1. argc' \in 0..(MAX_ARGS - 1)
    BY <1>1, ShellAssumption DEF IInv, TypeOK
  <2>2. argv' \in [0..(MAX_ARGS - 1) -> Entries]
    BY <1>1, <1>2 DEF IInv, TypeOK, Entries
  <2> QED
    BY <1>1, <1>2, <2>1, <2>2 DEF IInv, TypeOK
<1>4. LeftOver'
  BY <1>1, <1>2 DEF IInv, LeftOver
<1>5. Clean' /\ Chained' /\ Running' /\ ReadsItsPredecessor'
  BY <1>1 DEF IInv, Clean, HasOperator, Chained, Running, ReadsItsPredecessor, OnlyBy
<1> QED
  BY <1>3, <1>4, <1>5 DEF IInv

\* The operator at the head of what is left was typed.
LEMMA OperatorTyped ==
  ASSUME IInv, shell = "parse", line # <<>>, Head(line) \in Operators
  PROVE  HasOperator(typed)
<1>1. Head(line) = line[1] /\ 1 \in 1..Len(line)
  BY TailFacts DEF IInv, TypeOK
<1>2. PICK j \in 1..Len(typed) : typed[j] = line[1]
  BY <1>1 DEF IInv, LeftOver
<1> QED
  BY <1>1, <1>2 DEF HasOperator

\* A redirection.
LEMMA RedirectInv ==
  ASSUME IInv, Redirect
  PROVE  IInv'
<1>1. /\ shell = "parse" /\ line # <<>> /\ Head(line) \in {">", ">>"}
      /\ out_fd' \in {File, BadFd} /\ line' = <<>>
      /\ UNCHANGED <<shell, left, ended, typed, interrupted, lines, argv, argc, in_fd, handler, child, pipes, held,
                     asTyped, n, bare>>
  BY DEF Redirect, MoreTokens, input, run
<1>2. HasOperator(typed)
  BY <1>1, OperatorTyped DEF Operators
<1>3. TypeOK'
  BY <1>1 DEF IInv, TypeOK
<1>4. LeftOver' /\ Clean'
  BY <1>1, <1>2 DEF IInv, LeftOver, Clean, HasOperator
<1>5. child' = Nobody
  BY <1>1, NoChild DEF IInv, Waiting
<1>6. Chained' /\ Running' /\ ReadsItsPredecessor'
  BY <1>1, <1>5 DEF IInv, Chained, Running, ReadsItsPredecessor, OnlyBy, Nobody, Pipes, File, BadFd
<1> QED
  BY <1>3, <1>4, <1>6 DEF IInv

\* A command begins to run.
LEMMA ExecuteFacts ==
  ASSUME TypeOK, NEW args \in [0..(MAX_ARGS - 1) -> Entries], NEW in \in Nat,
         NEW out \in Nat \cup {File, BadFd}, Execute(args, in, out)
  PROVE  /\ child'.id = n + 1 /\ child'.in = in /\ child'.got = {}
         /\ child'.out = IF out = BadFd THEN Terminal ELSE out
         /\ child' \in [id : 0..n', wants : {"nothing", "one", "all"}, gives : Nat,
                        in : Nat, out : Nat \cup {File}, got : SUBSET Nat]
         /\ n' = n + 1 /\ n' \in Nat /\ asTyped' \in BOOLEAN
<1>1. n \in Nat /\ asTyped \in BOOLEAN
  BY DEF TypeOK
<1>2. PICK o \in Outcomes(args, argc > 0 /\ args[argc] = "NULL") :
        child' = [id |-> n + 1, wants |-> o.wants, gives |-> o.gives, in |-> in,
                  out |-> IF out = BadFd THEN Terminal ELSE out, got |-> {}]
  BY DEF Execute
<1>3. o.wants \in {"nothing", "one", "all"} /\ o.gives \in Nat
  <2>1. \A q \in Programs : Wants[q] \in {"nothing", "one", "all"} /\ Gives[q] \in Nat
    BY ShellAssumption
  <2>2. \/ o = [wants |-> "nothing", gives |-> 0]
        \/ \E q \in Programs : o = [wants |-> Wants[q], gives |-> Gives[q]]
    BY <1>2 DEF Outcomes
  <2> QED
    BY <2>1, <2>2
<1>4. (IF out = BadFd THEN Terminal ELSE out) \in Nat \cup {File}
  BY DEF Terminal
<1>5. n' = n + 1 /\ asTyped' = (asTyped /\ argc > 0 /\ args[argc] = "NULL")
  BY DEF Execute
<1>6. n + 1 \in 0..n' /\ {} \in SUBSET Nat
  BY <1>1, <1>5
<1> QED
  BY <1>1, <1>2, <1>3, <1>4, <1>5, <1>6
\* One pipe more: the old ones keep what is in them, and the shell holds its ends.
LEMMA PipeFacts ==
  ASSUME TypeOK, pipes' = Append(pipes, <<>>), held' = held \cup Ends(Len(pipes'))
  PROVE  /\ Len(pipes) \in Nat /\ Len(pipes') = Len(pipes) + 1
         /\ pipes' \in Seq(Seq(Nat)) /\ \A i \in DOMAIN pipes' : Len(pipes'[i]) <= Capacity
         /\ \A i \in 1..Len(pipes) : pipes'[i] = pipes[i]
         /\ pipes'[Len(pipes')] = <<>>
         /\ held' = UNION {Ends(i) : i \in DOMAIN pipes'}
<1> DEFINE m == Len(pipes)
<1>1. pipes \in Seq(Seq(Nat)) /\ m \in Nat /\ DOMAIN pipes = 1..m
  BY LenProperties DEF TypeOK
<1>2. <<>> \in Seq(Nat) /\ Len(<<>>) = 0
  BY EmptySeq
<1>3. /\ pipes' \in Seq(Seq(Nat)) /\ Len(pipes') = m + 1 /\ pipes'[m + 1] = <<>>
      /\ \A i \in 1..m : pipes'[i] = pipes[i]
  BY <1>1, <1>2, AppendProperties
<1>4. DOMAIN pipes' = 1..(m + 1)
  BY <1>3, LenProperties
<1> HIDE DEF m
<1>5. \A i \in DOMAIN pipes' : Len(pipes'[i]) <= Capacity
  <2>1. \A i \in 1..m : Len(pipes[i]) <= Capacity
    BY <1>1 DEF TypeOK
  <2>2. 0 <= Capacity
    BY ShellAssumption
  <2>3. \A i \in 1..(m + 1) : i \in 1..m \/ i = m + 1
    BY <1>1
  <2> QED
    BY <1>2, <1>3, <1>4, <2>1, <2>2, <2>3
<1>6. held' = UNION {Ends(i) : i \in DOMAIN pipes'}
  <2>1. held = UNION {Ends(i) : i \in 1..m} /\ held' = held \cup Ends(m + 1)
    BY <1>1, <1>3 DEF TypeOK
  <2>2. 1..(m + 1) = 1..m \cup {m + 1}
    BY <1>1
  <2> QED
    BY <1>4, <2>1, <2>2
<1> QED
  BY <1>1, <1>3, <1>5, <1>6 DEF m

\* A "|": the command before it runs, and writes to a new pipe.
LEMMA PipeInv ==
  ASSUME IInv, Pipe
  PROVE  IInv'
<1> DEFINE m == Len(pipes)
<1>1. /\ shell = "parse" /\ shell' = "pipe_wait" /\ line # <<>> /\ Head(line) = "|"
      /\ pipes' = Append(pipes, <<>>) /\ held' = held \cup Ends(Len(pipes'))
      /\ Execute(argv, in_fd, Len(pipes')) /\ out_fd' = Len(pipes') /\ line' = Tail(line)
      /\ UNCHANGED <<left, ended, typed, interrupted, lines, argv, argc, in_fd, handler, bare>>
  BY DEF Pipe, MoreTokens, input
<1>2. /\ m \in Nat /\ Len(pipes') = m + 1
      /\ pipes' \in Seq(Seq(Nat)) /\ \A i \in DOMAIN pipes' : Len(pipes'[i]) <= Capacity
      /\ \A i \in 1..m : pipes'[i] = pipes[i]
      /\ pipes'[m + 1] = <<>>
      /\ held' = UNION {Ends(i) : i \in DOMAIN pipes'}
  BY <1>1, PipeFacts DEF IInv
<1>3. argv \in [0..(MAX_ARGS - 1) -> Entries] /\ in_fd \in Nat /\ Len(pipes') \in Nat \cup {File, BadFd}
  BY <1>2 DEF IInv, TypeOK
<1>4. /\ child'.id = n + 1 /\ child'.in = in_fd /\ child'.got = {} /\ child'.out = m + 1
      /\ child' \in [id : 0..n', wants : {"nothing", "one", "all"}, gives : Nat,
                     in : Nat, out : Nat \cup {File}, got : SUBSET Nat]
      /\ n' = n + 1 /\ n' \in Nat /\ asTyped' \in BOOLEAN
  <2>1. m + 1 # BadFd
    BY <1>2 DEF BadFd
  <2> QED
    BY <1>1, <1>2, <1>3, <2>1, ExecuteFacts DEF IInv
<1> HIDE DEF m
<1>5. HasOperator(typed)
  BY <1>1, OperatorTyped DEF Operators
<1>6. line' \in Seq(Words) /\ \A i \in 1..Len(line') : i + 1 \in 1..Len(line) /\ line'[i] = line[i + 1]
  BY <1>1, TailFacts DEF IInv, TypeOK
<1>7. TypeOK'
  <2>1. out_fd' \in Nat
    BY <1>1, <1>2
  <2>2. shell' \in Waiting
    BY <1>1 DEF Waiting
  <2> QED
    BY <1>1, <1>2, <1>4, <1>6, <2>1, <2>2 DEF IInv, TypeOK
<1>8. LeftOver' /\ Clean'
  <2>1. HasOperator(typed')
    BY <1>1, <1>5
  <2>2. LeftOver'
    BY <1>1, <1>6 DEF IInv, LeftOver
  <2> QED
    BY <1>1, <2>1, <2>2 DEF Clean
<1>9. /\ in_fd \in 0..m
      /\ in_fd # Terminal => in_fd = m /\ OnlyBy(pipes[in_fd], n)
  BY <1>1 DEF IInv, Chained, m
<1>10. Chained'
  <2>1. OnlyBy(pipes'[Len(pipes')], n')
    <3>1. Len(pipes'[Len(pipes')]) = 0
      BY <1>2, EmptySeq
    <3> QED
      BY <3>1 DEF OnlyBy
  <2>2. in_fd' \in 0..Len(pipes') /\ Len(pipes') > 0
    BY <1>1, <1>2, <1>9
  <2> QED
    BY <1>1, <2>1, <2>2 DEF Chained
<1>11. Running'
  <2>1. in_fd \in 0..Len(pipes') /\ in_fd < m + 1
    BY <1>2, <1>9
  <2>2. in_fd # Terminal => OnlyBy(pipes'[in_fd], n)
    <3>1. in_fd # Terminal => in_fd \in 1..m
      BY <1>2, <1>9 DEF Terminal
    <3> QED
      BY <1>2, <1>9, <3>1
  <2>3. n' - 1 = n
    BY <1>4 DEF IInv, TypeOK
  <2>4. in_fd # Terminal => OnlyBy(pipes'[child'.in], n' - 1)
    BY <1>4, <2>2, <2>3
  <2> QED
    BY <1>1, <1>2, <1>4, <2>1, <2>4 DEF Running
<1>12. ReadsItsPredecessor'
  BY <1>4 DEF ReadsItsPredecessor
<1> QED
  BY <1>7, <1>8, <1>10, <1>11, <1>12 DEF IInv

\* The command before a "|" has ended.
LEMMA AfterPipeInv ==
  ASSUME IInv, AfterPipe
  PROVE  IInv'
<1>1. /\ shell = "pipe_wait" /\ child = Nobody
      /\ in_fd' = Len(pipes) /\ out_fd' = Terminal /\ argc' = 0 /\ shell' = "parse"
      /\ UNCHANGED <<left, ended, typed, interrupted, lines, line, argv, handler, child, pipes, held, asTyped, n, bare>>
  BY DEF AfterPipe, input, run
<1>2. Len(pipes) \in Nat /\ 0 \in 0..(MAX_ARGS - 1)
  BY LenProperties, ShellAssumption DEF IInv, TypeOK
<1>3. TypeOK'
  BY <1>1, <1>2 DEF IInv, TypeOK, Terminal
<1>4. LeftOver' /\ Clean'
  BY <1>1 DEF IInv, LeftOver, Clean
<1>5. Chained'
  <2>1. Len(pipes) > 0 /\ OnlyBy(pipes[Len(pipes)], n)
    BY <1>1 DEF IInv, Chained
  <2> QED
    BY <1>1, <1>2, <2>1 DEF Chained, Pipes, Terminal
<1>6. Running' /\ ReadsItsPredecessor'
  BY <1>1 DEF Running, ReadsItsPredecessor, Nobody
<1> QED
  BY <1>3, <1>4, <1>5, <1>6 DEF IInv

\* The end of a line: its last command runs, if there is one.
LEMMA EndOfLineInv ==
  ASSUME IInv, EndOfLine
  PROVE  IInv'
<1>1. /\ shell = "parse" /\ argv' = [argv EXCEPT ![argc] = "NULL"]
      /\ UNCHANGED <<left, ended, typed, interrupted, lines, line, argc, in_fd, out_fd, handler, pipes, held>>
  BY DEF EndOfLine, input
<1>2. argv' \in [0..(MAX_ARGS - 1) -> Entries]
  BY <1>1 DEF IInv, TypeOK, Entries
<1>3. CASE argc = 0
  <2>1. /\ shell' = "prompt" /\ UNCHANGED <<child, asTyped, n>>
        /\ bare' = (bare \/ \E i \in DOMAIN typed : typed[i] \in Operators)
    BY <1>3 DEF EndOfLine
  <2>2. bare' = (bare \/ HasOperator(typed))
    <3>1. DOMAIN typed = 1..Len(typed)
      BY LenProperties DEF IInv, TypeOK
    <3> QED
      BY <2>1, <3>1 DEF HasOperator
  <2>3. TypeOK'
    BY <1>1, <1>2, <2>1 DEF IInv, TypeOK, Waiting
  <2>4. LeftOver' /\ Clean'
    BY <1>1, <2>1, <2>2 DEF IInv, TypeOK, LeftOver, Clean
  <2>5. Chained'
    BY <1>1, <2>1 DEF IInv, Chained, OnlyBy
  <2>6. Running' /\ ReadsItsPredecessor'
    BY <1>1, <2>1, NoChild DEF IInv, Running, ReadsItsPredecessor, Waiting, Nobody
  <2> QED
    BY <2>3, <2>4, <2>5, <2>6 DEF IInv
<1>4. CASE argc # 0
  <2>1. shell' = "last_wait" /\ Execute(argv', in_fd, out_fd) /\ bare' = bare
    BY <1>4 DEF EndOfLine
  <2>2. in_fd \in Nat /\ out_fd \in Nat \cup {File, BadFd}
    BY DEF IInv, TypeOK
  <2>3. /\ child'.id = n + 1 /\ child'.in = in_fd /\ child'.got = {}
        /\ child'.out = IF out_fd = BadFd THEN Terminal ELSE out_fd
        /\ child' \in [id : 0..n', wants : {"nothing", "one", "all"}, gives : Nat,
                       in : Nat, out : Nat \cup {File}, got : SUBSET Nat]
        /\ n' = n + 1 /\ n' \in Nat /\ asTyped' \in BOOLEAN
    BY <1>2, <2>1, <2>2, ExecuteFacts DEF IInv
  <2>4. TypeOK'
    BY <1>1, <1>2, <2>1, <2>3 DEF IInv, TypeOK, Waiting
  <2>5. LeftOver' /\ Clean'
    BY <2>1 DEF LeftOver, Clean
  <2>6. Chained'
    BY <1>1, <2>1 DEF IInv, Chained
  <2>7. Running'
    <3>1. in_fd \in 0..Len(pipes) /\ (in_fd # Terminal => OnlyBy(pipes[in_fd], n)) /\ out_fd \notin Pipes
      BY <1>1 DEF IInv, Chained
    <3>2. child'.out \notin Pipes
      BY <2>3, <3>1 DEF Pipes, Terminal
    <3>3. n' - 1 = n
      BY <2>3 DEF IInv, TypeOK
    <3>4. child'.in # Terminal => OnlyBy(pipes'[child'.in], n' - 1)
      BY <1>1, <2>3, <3>1, <3>3
    <3> QED
      BY <1>1, <2>1, <2>3, <3>1, <3>2, <3>4 DEF Running
  <2>8. ReadsItsPredecessor'
    BY <2>3 DEF ReadsItsPredecessor
  <2> QED
    BY <2>4, <2>5, <2>6, <2>7, <2>8 DEF IInv
<1> QED
  BY <1>3, <1>4

\* The last command of a line has ended.
LEMMA AfterLastInv ==
  ASSUME IInv, AfterLast
  PROVE  IInv'
<1>1. /\ shell = "last_wait" /\ child = Nobody
      /\ in_fd' = Terminal /\ out_fd' = Terminal /\ shell' = "prompt" /\ bare' = FALSE
      /\ UNCHANGED <<left, ended, typed, interrupted, lines, line, argv, argc, handler, child, pipes, held, asTyped, n>>
  BY DEF AfterLast, input, parse, run
<1>2. Len(pipes) \in Nat
  BY LenProperties DEF IInv, TypeOK
<1>3. TypeOK'
  BY <1>1 DEF IInv, TypeOK, Terminal
<1>4. LeftOver' /\ Clean'
  BY <1>1 DEF LeftOver, Clean
<1>5. Chained'
  BY <1>1, <1>2 DEF Chained, Pipes, Terminal
<1>6. Running' /\ ReadsItsPredecessor'
  BY <1>1 DEF Running, ReadsItsPredecessor, Nobody
<1> QED
  BY <1>3, <1>4, <1>5, <1>6 DEF IInv

-----------------------------------------------------------------------------
(* The command.                                                            *)

\* The command reads: what it takes from a pipe, the one before it has put there.
LEMMA ChildReadsInv ==
  ASSUME IInv, ChildReads
  PROVE  IInv'
<1> DEFINE i == child.in
           m == Len(pipes)
<1>1. /\ child.wants # "nothing"
      /\ UNCHANGED <<shell, left, ended, typed, interrupted, lines, line, argv, argc, in_fd, out_fd, handler, bare,
                     asTyped, n, held>>
  BY DEF ChildReads, main, input, parse
<1>2. child # Nobody /\ shell \in Waiting
  BY <1>1 DEF Nobody, IInv, TypeOK
<1>3. /\ child \in [id : 0..n, wants : {"nothing", "one", "all"}, gives : Nat,
                    in : Nat, out : Nat \cup {File}, got : SUBSET Nat]
      /\ pipes \in Seq(Seq(Nat)) /\ m \in Nat /\ DOMAIN pipes = 1..m
  BY LenProperties DEF IInv, TypeOK
<1>4. /\ child.id = n /\ i \in 0..m
      /\ i # Terminal => OnlyBy(pipes[i], n - 1)
      /\ shell = "pipe_wait" => child.out = m /\ i < m
      /\ shell = "last_wait" => child.out \notin Pipes
  BY <1>2 DEF IInv, Running
<1> HIDE DEF m
<1>5. CASE i \in Pipes /\ pipes[i] # <<>> /\ pipes' = [pipes EXCEPT ![i] = Tail(@)]
           /\ child' = [child EXCEPT !.got = @ \cup {Head(pipes[i])},
                                     !.wants = IF @ = "one" THEN "nothing" ELSE @]
  <2>1. i \in 1..m /\ i # Terminal /\ pipes[i] \in Seq(Nat)
    BY <1>3, <1>4, <1>5, ElementOfSeq DEF Pipes, Terminal, m
  <2>2. /\ Head(pipes[i]) \in Nat /\ Head(pipes[i]) = pipes[i][1] /\ Len(pipes[i]) \in Nat \ {0}
        /\ Tail(pipes[i]) \in Seq(Nat) /\ Len(Tail(pipes[i])) = Len(pipes[i]) - 1
        /\ \A k \in 1..Len(Tail(pipes[i])) :
             k + 1 \in 1..Len(pipes[i]) /\ Tail(pipes[i])[k] = pipes[i][k + 1]
    BY <1>5, <2>1, TailFacts
  <2>3. /\ pipes' \in Seq(Seq(Nat)) /\ Len(pipes') = m /\ DOMAIN pipes' = 1..m
        /\ pipes'[i] = Tail(pipes[i]) /\ \A j \in 1..m : j # i => pipes'[j] = pipes[j]
    BY <1>3, <1>5, <2>1, <2>2, ExceptSeq DEF m
  <2>4. /\ child'.id = child.id /\ child'.in = i /\ child'.out = child.out
        /\ child'.got = child.got \cup {Head(pipes[i])}
        /\ child'.wants \in {"nothing", "one", "all"} /\ child'.gives = child.gives
        /\ child' \in [id : 0..n, wants : {"nothing", "one", "all"}, gives : Nat,
                       in : Nat, out : Nat \cup {File}, got : SUBSET Nat]
    BY <1>3, <1>5, <2>2
  <2>5. n - 1 \in Nat /\ Head(pipes[i]) = n - 1 /\ OnlyBy(Tail(pipes[i]), n - 1)
    <3>1. Head(pipes[i]) = n - 1
      BY <1>4, <2>1, <2>2 DEF OnlyBy
    <3>2. n - 1 \in Nat
      BY <2>2, <3>1
    <3> QED
      BY <1>4, <1>5, <2>1, <3>1, <3>2, OnlyByFacts
  <2>6. TypeOK'
    <3>1. \A j \in 1..m : Len(pipes'[j]) <= Capacity
      <4>1. \A j \in 1..m : Len(pipes[j]) <= Capacity
        BY <1>3 DEF IInv, TypeOK
      <4>2. Capacity \in Nat
        BY ShellAssumption
      <4>3. Len(pipes'[i]) <= Capacity
        BY <2>1, <2>2, <2>3, <4>1, <4>2
      <4> QED
        BY <2>3, <4>1, <4>3
    <3> QED
      BY <1>1, <1>2, <1>3, <2>3, <2>4, <3>1 DEF IInv, TypeOK
  <2>7. LeftOver' /\ Clean'
    BY <1>1 DEF IInv, LeftOver, Clean, HasOperator
  <2>8. Chained'
    <3>1. in_fd \in 0..m /\ (shell = "pipe_wait" => m > 0 /\ OnlyBy(pipes[m], n))
      BY DEF IInv, Chained, m
    <3>2. shell = "pipe_wait" => m \in 1..m /\ pipes'[m] = pipes[m]
      BY <1>3, <1>4, <2>3, <3>1
    <3> QED
      BY <1>1, <1>2, <2>3, <3>1, <3>2 DEF Chained, Waiting
  <2>9. OnlyBy(pipes'[child.in], n - 1)
    BY <2>3, <2>5
  <2>10. Running'
    BY <1>1, <1>4, <2>3, <2>4, <2>9 DEF Running
  <2>11. ReadsItsPredecessor'
    BY <1>4, <2>4, <2>5 DEF IInv, ReadsItsPredecessor
  <2> QED
    BY <2>6, <2>7, <2>8, <2>10, <2>11 DEF IInv
<1>6. CASE child' = [child EXCEPT !.wants = "nothing"] /\ pipes' = pipes
  <2>1. /\ child'.id = child.id /\ child'.in = i /\ child'.out = child.out /\ child'.got = child.got
        /\ child' \in [id : 0..n, wants : {"nothing", "one", "all"}, gives : Nat,
                       in : Nat, out : Nat \cup {File}, got : SUBSET Nat]
    BY <1>3, <1>6
  <2>2. TypeOK'
    BY <1>1, <1>2, <1>6, <2>1 DEF IInv, TypeOK
  <2>3. LeftOver' /\ Clean' /\ Chained'
    BY <1>1, <1>6 DEF IInv, LeftOver, Clean, HasOperator, Chained, OnlyBy
  <2>4. Running'
    BY <1>1, <1>4, <1>6, <2>1 DEF Running, m
  <2>5. ReadsItsPredecessor'
    BY <2>1 DEF IInv, ReadsItsPredecessor
  <2> QED
    BY <2>2, <2>3, <2>4, <2>5 DEF IInv
<1> QED
  BY <1>5, <1>6 DEF ChildReads

\* The command writes, to the last pipe if to a pipe at all.
LEMMA ChildWritesInv ==
  ASSUME IInv, ChildWrites
  PROVE  IInv'
<1> DEFINE o == child.out
           m == Len(pipes)
<1>1. /\ child.gives > 0 /\ child' = [child EXCEPT !.gives = @ - 1]
      /\ UNCHANGED <<shell, left, ended, typed, interrupted, lines, line, argv, argc, in_fd, out_fd, handler, bare,
                     asTyped, n, held>>
  BY DEF ChildWrites, main, input, parse
<1>2. child # Nobody /\ shell \in Waiting
  BY <1>1 DEF Nobody, IInv, TypeOK
<1>3. /\ child \in [id : 0..n, wants : {"nothing", "one", "all"}, gives : Nat,
                    in : Nat, out : Nat \cup {File}, got : SUBSET Nat]
      /\ pipes \in Seq(Seq(Nat)) /\ m \in Nat /\ DOMAIN pipes = 1..m
  BY LenProperties DEF IInv, TypeOK
<1>4. /\ child.id = n /\ child.in \in 0..m
      /\ child.in # Terminal => OnlyBy(pipes[child.in], n - 1)
      /\ shell = "pipe_wait" => o = m /\ child.in < m
      /\ shell = "last_wait" => o \notin Pipes
  BY <1>2 DEF IInv, Running
<1>5. /\ child'.id = child.id /\ child'.in = child.in /\ child'.out = o /\ child'.got = child.got
      /\ child' \in [id : 0..n, wants : {"nothing", "one", "all"}, gives : Nat,
                     in : Nat, out : Nat \cup {File}, got : SUBSET Nat]
  <2>1. child.gives - 1 \in Nat
    BY <1>1, <1>3
  <2> QED
    BY <1>1, <1>3, <2>1
<1>6. LeftOver' /\ Clean' /\ ReadsItsPredecessor'
  BY <1>1, <1>5 DEF IInv, LeftOver, Clean, HasOperator, ReadsItsPredecessor
<1> HIDE DEF m
<1>7. CASE o \in Pipes /\ Len(pipes[o]) < Capacity /\ pipes' = [pipes EXCEPT ![o] = Append(@, child.id)]
  <2>1. shell = "pipe_wait" /\ o = m /\ child.in < m /\ m \in 1..m
    BY <1>2, <1>3, <1>4, <1>7 DEF Waiting, Pipes
  <2>2. pipes[m] \in Seq(Nat) /\ child.id \in Nat
    BY <1>3, <2>1, ElementOfSeq DEF m
  <2>3. /\ Append(pipes[m], child.id) \in Seq(Nat) /\ Len(Append(pipes[m], child.id)) = Len(pipes[m]) + 1
        /\ Len(pipes[m]) \in Nat
        /\ \A k \in 1..Len(pipes[m]) : Append(pipes[m], child.id)[k] = pipes[m][k]
        /\ Append(pipes[m], child.id)[Len(pipes[m]) + 1] = child.id
    BY <2>2, AppendProperties, LenProperties
  <2>4. /\ pipes' \in Seq(Seq(Nat)) /\ Len(pipes') = m /\ DOMAIN pipes' = 1..m
        /\ pipes'[m] = Append(pipes[m], child.id) /\ \A j \in 1..m : j # m => pipes'[j] = pipes[j]
    <3> DEFINE e == Append(pipes[m], child.id)
    <3>1. pipes' = [pipes EXCEPT ![m] = e] /\ e \in Seq(Nat)
      BY <1>7, <2>1, <2>3
    <3> HIDE DEF e
    <3>2. /\ pipes' \in Seq(Seq(Nat)) /\ Len(pipes') = Len(pipes)
          /\ \A j \in 1..Len(pipes) : pipes'[j] = IF j = m THEN e ELSE pipes[j]
      BY <1>3, <2>1, <3>1, ExceptSeq DEF m
    <3>3. DOMAIN pipes' = 1..m
      BY <3>2, LenProperties DEF m
    <3> QED
      BY <2>1, <3>2, <3>3 DEF e, m
  <2>5. TypeOK'
    <3>1. \A j \in 1..m : Len(pipes'[j]) <= Capacity
      <4>1. \A j \in 1..m : Len(pipes[j]) <= Capacity
        BY <1>3 DEF IInv, TypeOK
      <4>2. Len(pipes[m]) < Capacity /\ Capacity \in Nat
        BY <1>7, <2>1, ShellAssumption
      <4>3. Len(pipes'[m]) <= Capacity
        BY <2>3, <2>4, <4>2
      <4> QED
        BY <2>4, <4>1, <4>3
    <3> QED
      BY <1>1, <1>2, <1>3, <1>5, <2>4, <3>1 DEF IInv, TypeOK
  <2>6. OnlyBy(pipes'[m], n)
    <3>1. OnlyBy(pipes[m], n)
      BY <2>1 DEF IInv, Chained, m
    <3> QED
      BY <1>4, <2>2, <2>4, <3>1, OnlyByFacts
  <2>7. Chained'
    BY <1>1, <2>1, <2>4, <2>6 DEF IInv, Chained, m
  <2>8. Running'
    <3>1. child.in # Terminal => child.in \in 1..m /\ child.in # m
      BY <1>3, <1>4, <2>1 DEF Terminal
    <3>2. child.in # Terminal => OnlyBy(pipes'[child.in], n - 1)
      BY <1>4, <2>4, <3>1
    <3> QED
      BY <1>1, <1>4, <1>5, <2>1, <2>4, <3>2 DEF Running
  <2> QED
    BY <1>6, <2>5, <2>7, <2>8 DEF IInv
<1>8. CASE pipes' = pipes
  <2>1. TypeOK'
    BY <1>1, <1>2, <1>5, <1>8 DEF IInv, TypeOK
  <2>2. Chained'
    BY <1>1, <1>8 DEF IInv, Chained, OnlyBy
  <2>3. Running'
    BY <1>1, <1>4, <1>5, <1>8 DEF Running, m
  <2> QED
    BY <1>6, <2>1, <2>2, <2>3 DEF IInv
<1> QED
  BY <1>7, <1>8 DEF ChildWrites

\* The command ends.
LEMMA ChildExitsInv ==
  ASSUME IInv, ChildExits
  PROVE  IInv'
<1>1. /\ child' = Nobody
      /\ UNCHANGED <<shell, left, ended, typed, interrupted, lines, line, argv, argc, in_fd, out_fd, handler, bare,
                     asTyped, n, held, pipes>>
  BY DEF ChildExits, main, input, parse
<1>2. Nobody \in [id : 0..n, wants : {"nothing", "one", "all"}, gives : Nat,
                  in : Nat, out : Nat \cup {File}, got : SUBSET Nat]
  BY DEF IInv, TypeOK, Nobody, Terminal
<1>3. TypeOK'
  BY <1>1, <1>2 DEF IInv, TypeOK
<1>4. LeftOver' /\ Clean' /\ Chained'
  BY <1>1 DEF IInv, LeftOver, Clean, HasOperator, Chained, OnlyBy
<1>5. Running' /\ ReadsItsPredecessor'
  BY <1>1 DEF Running, ReadsItsPredecessor, Nobody
<1> QED
  BY <1>3, <1>4, <1>5 DEF IInv

\* Ctrl+C.
LEMMA InterruptInv ==
  ASSUME IInv, Interrupt
  PROVE  IInv'
<1>1. /\ child' = Nobody /\ handler' = FALSE
      /\ UNCHANGED <<lines, argv, in_fd, out_fd, ended, pipes, held, bare, n>>
  BY DEF Interrupt
<1>2. CASE handler /\ shell = "prompt"
  <2>1. OldLine
    BY <1>2 DEF Interrupt
  <2>2. left' \in 0..WordLength
    BY <2>1, OldLineFacts DEF IInv
  <2>3. PICK l \in Seq(Words) : Begin(l)
    BY <2>1, OldLineFacts DEF IInv
  <2>4. lines' \in 0..MaxLines /\ handler' \in BOOLEAN /\ ended' \in BOOLEAN
    BY <1>1 DEF IInv, TypeOK
  <2> QED
    BY <1>1, <1>2, <2>2, <2>3, <2>4, BeginInv
<1>3. CASE ~(handler /\ shell = "prompt")
  <2>1. /\ UNCHANGED <<line, argc, left, typed, asTyped>> /\ (shell' = shell \/ shell' = "killed")
        /\ interrupted' = TRUE
    BY <1>3 DEF Interrupt
  <2>2. Nobody \in [id : 0..n, wants : {"nothing", "one", "all"}, gives : Nat,
                    in : Nat, out : Nat \cup {File}, got : SUBSET Nat]
    BY DEF IInv, TypeOK, Nobody, Terminal
  <2>3. TypeOK'
    BY <1>1, <2>1, <2>2 DEF IInv, TypeOK
  <2>4. LeftOver' /\ Clean'
    BY <1>1, <2>1 DEF IInv, LeftOver, Clean, HasOperator
  <2>5. Chained'
    BY <1>1, <2>1 DEF IInv, Chained, OnlyBy
  <2>6. Running' /\ ReadsItsPredecessor'
    BY <1>1 DEF Running, ReadsItsPredecessor, Nobody
  <2> QED
    BY <2>3, <2>4, <2>5, <2>6 DEF IInv
<1> QED
  BY <1>2, <1>3

-----------------------------------------------------------------------------
(* The theorems about the shell.                                           *)

\* The shell at the start.
LEMMA InitInv == Init => IInv
<1> SUFFICES ASSUME Init PROVE IInv
  OBVIOUS
<1>1. /\ shell = "prompt" /\ line = <<>> /\ argc = 0 /\ left = 0
      /\ argv = [i \in 0..(MAX_ARGS - 1) |-> "junk"] /\ in_fd = 0 /\ out_fd = 0
      /\ handler = TRUE /\ ended = FALSE /\ child = Nobody /\ pipes = <<>> /\ held = {}
      /\ typed = <<>> /\ interrupted = FALSE /\ lines = 0 /\ bare = FALSE /\ asTyped = TRUE /\ n = 0
  BY DEF Init, Terminal
<1>2. TypeOK
  <2>1. /\ <<>> \in Seq(Words) /\ <<>> \in Seq(Seq(Nat)) /\ DOMAIN pipes = {}
    BY <1>1, EmptySeq
  <2>2. argv \in [0..(MAX_ARGS - 1) -> Entries] /\ argc \in 0..(MAX_ARGS - 1)
    BY <1>1, ShellAssumption DEF Entries
  <2>3. left \in 0..WordLength /\ lines \in 0..MaxLines
    BY <1>1, ShellAssumption
  <2>4. Nobody \in [id : 0..n, wants : {"nothing", "one", "all"}, gives : Nat,
                    in : Nat, out : Nat \cup {File}, got : SUBSET Nat]
    BY <1>1 DEF Nobody, Terminal
  <2>5. held = UNION {Ends(i) : i \in DOMAIN pipes}
    BY <1>1, <2>1
  <2> QED
    BY <1>1, <2>1, <2>2, <2>3, <2>4, <2>5 DEF TypeOK
<1>3. LeftOver /\ Clean
  BY <1>1 DEF LeftOver, Clean, Terminal
<1>4. Chained
  <2>1. Len(pipes) = 0
    BY <1>1, EmptySeq
  <2> QED
    BY <1>1, <2>1 DEF Chained, Pipes, Terminal
<1>5. Running /\ ReadsItsPredecessor
  BY <1>1 DEF Running, ReadsItsPredecessor, Nobody
<1> QED
  BY <1>2, <1>3, <1>4, <1>5 DEF IInv

\* A step of the shell, of its command or of the user keeps the invariant.
LEMMA NextInv == IInv /\ [Next]_vars => IInv'
<1> SUFFICES ASSUME IInv, [Next]_vars PROVE IInv'
  OBVIOUS
<1>1. CASE Next
  BY <1>1, ReadLineInv, EndOfInputInv, WordInv, RedirectInv, PipeInv, AfterPipeInv, EndOfLineInv,
     AfterLastInv, ChildReadsInv, ChildWritesInv, ChildExitsInv, InterruptInv DEF Next, Main, Child
<1>2. CASE UNCHANGED vars
  <2>1. UNCHANGED <<shell, left, ended, typed, interrupted, lines, line, argv, argc, in_fd, out_fd, handler, bare,
                    asTyped, n, held, child, pipes>>
    BY <1>2 DEF vars, main, run, input, parse
  <2>2. TypeOK'
    BY <2>1 DEF IInv, TypeOK
  <2>3. LeftOver' /\ Clean' /\ Chained' /\ Running' /\ ReadsItsPredecessor'
    BY <2>1 DEF IInv, LeftOver, Clean, HasOperator, Chained, Running, ReadsItsPredecessor, OnlyBy
  <2> QED
    BY <2>2, <2>3 DEF IInv
<1> QED
  BY <1>1, <1>2

\* The invariant of the shell (stshell.c, main and execute_command).
THEOREM Invariance == Spec => []IInv
  BY InitInv, NextInv, PTL DEF Spec

\* Types: argc stays inside argv, and a command exists only while the shell waits.
THEOREM TypeCorrect == Spec => []TypeOK
<1>1. IInv => TypeOK
  BY DEF IInv
<1> QED
  BY <1>1, Invariance, PTL

\* What a command reads from a pipe, the command run right before it has written
\* (stshell.c, execute_command and the branch of main for "|").
THEOREM PipesConnectNeighbours == Spec => []ReadsItsPredecessor
<1>1. IInv => ReadsItsPredecessor
  BY DEF IInv
<1> QED
  BY <1>1, Invariance, PTL

\* A line starts with the terminal on both sides, unless the line before it ended in an
\* operator (stshell.c, main).
THEOREM LinesStartClean == Spec => []StartsClean
<1>1. IInv => StartsClean
  BY DEF IInv, Clean, StartsClean
<1> QED
  BY <1>1, Invariance, PTL
=============================================================================
