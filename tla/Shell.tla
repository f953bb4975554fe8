--------------------------------- MODULE Shell ---------------------------------
(***************************************************************************)
(* stshell of Assignment-2: main and execute_command of stshell.c, the     *)
(* command it is waiting for, and the pipes between commands.              *)
(*                                                                         *)
(* A line is a sequence of tokens.  The shell takes them from left to      *)
(* right; at a "|" it runs the command that stands before it and waits for *)
(* it, and only then goes on.  At most one command runs at a time.         *)
(*                                                                         *)
(* What a program does is given by Wants and Gives: it first reads         *)
(* nothing, one unit, or all there is up to the end, then writes its       *)
(* units, then exits.  A unit in a pipe is the number of the command that  *)
(* wrote it.  A descriptor is known by what it refers to: 0 the terminal,  *)
(* i > 0 an end of the i-th pipe, File a redirection, BadFd the -1 of a    *)
(* failed open, which dup2 refuses, so that the command keeps the          *)
(* terminal.  fork and pipe succeed.                                       *)
(***************************************************************************)
EXTENDS Integers, Sequences

CONSTANTS MAX_ARGS,    \* entries of argv
          Capacity,    \* units a pipe holds
          Wants,       \* [programs -> {"nothing", "one", "all"}]
          Gives,       \* [programs -> Nat]
          Lines,       \* the lines the user may type
          WordLength,  \* characters in a word
          MaxLines     \* bound: lines typed

Programs == DOMAIN Gives

ASSUME ShellAssumption == /\ MAX_ARGS \in Nat \ {0, 1} /\ Capacity \in Nat \ {0}
                          /\ Wants \in [Programs -> {"nothing", "one", "all"}]
                          /\ Gives \in [Programs -> Nat]
                          /\ WordLength \in Nat \ {0} /\ MaxLines \in Nat
                          /\ \A l \in Lines : l \in Seq(STRING)

\* What the shell may find in a line, and in argv.
Tokens == UNION {{l[i] : i \in DOMAIN l} : l \in Lines}
Operators == {"|", ">", ">>"}
Words == Tokens \cup Programs \cup Operators \cup {"other", "exit"}
Entries == Words \cup {"NULL", "junk"}

Terminal == 0
File == -1
BadFd == -2
Pipes == Nat \ {0}

VARIABLES shell,    \* where main is
          line,     \* the tokens strtok has still to return
          argv,     \* [0..MAX_ARGS-1 -> word, "NULL" or "junk"]
          argc,
          in_fd, out_fd,
          handler,  \* SIGINT has its handler: signal() of this build is good for one
          left,     \* characters of the last line's first word that are in the buffer
          ended,    \* the input has ended
          child,    \* the command that is running
          pipes,    \* what is in each pipe that was made
          held,     \* the ends of pipes that the shell has open
          (* history *)
          typed,    \* the line as it was typed
          interrupted, \* Ctrl+C has come while this line was parsed or run
          lines,    \* lines typed so far
          bare,     \* the last line had an operator and no command after it
          asTyped,  \* every command of this line was run with the words typed for it
          n         \* commands run so far

input == <<left, ended, typed, interrupted, lines>>
parse == <<line, argv, argc>>
run == <<child, pipes, held, asTyped, n>>
main == <<shell, input, parse, in_fd, out_fd, handler, bare, asTyped, n, held>>
vars == <<main, run>>

Nobody == [id |-> 0, wants |-> "nothing", gives |-> 0, in |-> Terminal, out |-> Terminal, got |-> {}]
Waiting == {"pipe_wait", "last_wait"}
Ends(i) == {<<i, "read">>, <<i, "write">>}

Init == /\ shell = "prompt" /\ line = <<>> /\ argc = 0 /\ left = 0
        /\ argv = [i \in 0..(MAX_ARGS - 1) |-> "junk"]
        /\ in_fd = Terminal /\ out_fd = Terminal
        /\ handler = TRUE /\ ended = FALSE
        /\ child = Nobody /\ pipes = <<>> /\ held = {}
        /\ typed = <<>> /\ interrupted = FALSE /\ lines = 0 /\ bare = FALSE /\ asTyped = TRUE /\ n = 0

-----------------------------------------------------------------------------
(* The prompt.                                                             *)

Begin(l) == /\ shell' = IF l = <<"exit">> THEN "exited" ELSE "parse"
            /\ line' = l /\ argc' = 0
            /\ typed' = l /\ asTyped' = TRUE /\ interrupted' = FALSE

ReadLine == /\ shell = "prompt" /\ ~ended /\ lines < MaxLines
            /\ \E l \in Lines : /\ Begin(l)
                                /\ left' = IF l = <<>> THEN 0 ELSE WordLength
            /\ lines' = lines + 1
            /\ UNCHANGED <<argv, in_fd, out_fd, handler, ended, child, pipes, held, bare, n>>

\* fgets returned NULL.  The buffer still holds the first word of the last line,
\* which strtok cut off there; main takes one character more from it, and goes on
\* with what that leaves, which may be any word.
OldLine == /\ left' = IF left > 0 THEN left - 1 ELSE 0
           /\ \E w \in Programs \cup Operators \cup {"other", "exit"} :
                Begin(IF left' = 0 THEN <<>> ELSE <<w>>)

EndOfInput == /\ shell = "prompt"
              /\ ended' = TRUE
              /\ OldLine
              /\ UNCHANGED <<lines, argv, in_fd, out_fd, handler, child, pipes, held, bare, n>>

-----------------------------------------------------------------------------
(* execute_command                                                         *)

\* What execvp makes of argv: nothing when it starts with NULL or with a typed word that
\* is no program's name; what the program does when argv ends where the typed words end;
\* and when old or uninitialised entries follow them, or none was typed, a failure or what
\* any program might do: an old entry points into the buffer, where the text is another.
Outcomes(args, exact) ==
  LET does(q) == [wants |-> Wants[q], gives |-> Gives[q]]
      fails == [wants |-> "nothing", gives |-> 0]
  IN  IF args[0] = "NULL" \/ (argc > 0 /\ args[0] \notin Programs) THEN {fails}
      ELSE IF exact THEN {does(args[0])} ELSE {fails} \cup {does(q) : q \in Programs}

Execute(args, in, out) ==
  LET exact == argc > 0 /\ args[argc] = "NULL"
  IN  /\ \E o \in Outcomes(args, exact) :
           child' = [id |-> n + 1, wants |-> o.wants, gives |-> o.gives, in |-> in,
                     out |-> IF out = BadFd THEN Terminal ELSE out, got |-> {}]
      /\ asTyped' = (asTyped /\ exact)
      /\ n' = n + 1

-----------------------------------------------------------------------------
(* The tokens of a line.                                                   *)

\* Variant: argv may be filled up, with no room for its terminator.
MoreTokensFull == shell = "parse" /\ line # <<>> /\ argc < MAX_ARGS

MoreTokens == shell = "parse" /\ line # <<>> /\ argc < MAX_ARGS - 1

Word == /\ MoreTokens /\ Head(line) \notin Operators
        /\ argv' = [argv EXCEPT ![argc] = Head(line)]
        /\ argc' = argc + 1
        /\ line' = Tail(line)
        /\ UNCHANGED <<shell, input, in_fd, out_fd, handler, run, bare>>

\* open(NULL) fails, when no name follows; whatever follows the name is not looked at.
Redirect == /\ MoreTokens /\ Head(line) \in {">", ">>"}
            /\ out_fd' \in IF Tail(line) = <<>> THEN {BadFd} ELSE {File, BadFd}
            /\ line' = <<>>
            /\ UNCHANGED <<shell, input, argv, argc, in_fd, handler, run, bare>>

\* argv has not been terminated here.  No end of the pipe is ever closed.
Pipe == /\ MoreTokens /\ Head(line) = "|"
        /\ pipes' = Append(pipes, <<>>)
        /\ held' = held \cup Ends(Len(pipes'))
        /\ Execute(argv, in_fd, Len(pipes'))
        /\ out_fd' = Len(pipes')
        /\ shell' = "pipe_wait"
        /\ line' = Tail(line)
        /\ UNCHANGED <<input, argv, argc, in_fd, handler, bare>>

AfterPipe == /\ shell = "pipe_wait" /\ child = Nobody
             /\ in_fd' = Len(pipes)
             /\ out_fd' = Terminal
             /\ argc' = 0
             /\ shell' = "parse"
             /\ UNCHANGED <<input, line, argv, handler, run, bare>>

EndOfLine == /\ shell = "parse" /\ ~MoreTokens
             /\ argv' = [argv EXCEPT ![argc] = "NULL"]
             /\ IF argc = 0
                THEN /\ shell' = "prompt"
                     /\ bare' = (bare \/ \E i \in DOMAIN typed : typed[i] \in Operators)
                     /\ UNCHANGED <<child, asTyped, n>>
                ELSE /\ shell' = "last_wait"
                     /\ Execute(argv', in_fd, out_fd)
                     /\ UNCHANGED bare
             /\ UNCHANGED <<input, line, argc, in_fd, out_fd, handler, pipes, held>>

\* Variant: only the output goes back to the terminal.
AfterLastKeepsIn == /\ shell = "last_wait" /\ child = Nobody
                    /\ out_fd' = Terminal
                    /\ shell' = "prompt"
                    /\ bare' = FALSE
                    /\ UNCHANGED <<input, parse, in_fd, handler, run>>

\* Variant: a command that Ctrl+C has ended leaves the descriptors as they are.
AfterLastUnlessKilled == /\ shell = "last_wait" /\ child = Nobody
                         /\ IF interrupted THEN UNCHANGED <<in_fd, out_fd>>
                            ELSE in_fd' = Terminal /\ out_fd' = Terminal
                         /\ shell' = "prompt"
                         /\ bare' = FALSE
                         /\ UNCHANGED <<input, parse, handler, run>>

AfterLast == /\ shell = "last_wait" /\ child = Nobody
             /\ in_fd' = Terminal
             /\ out_fd' = Terminal
             /\ shell' = "prompt"
             /\ bare' = FALSE
             /\ UNCHANGED <<input, parse, handler, run>>

-----------------------------------------------------------------------------
(* The command that runs.  It has the shell's descriptors too, so that the *)
(* end of a pipe is the moment the shell has closed the other end.         *)

\* What is typed to a command ends when the user wants it to.
AtEnd(i) == IF i = Terminal THEN TRUE ELSE pipes[i] = <<>> /\ <<i, "write">> \notin held

ChildReads == /\ child.wants # "nothing"
              /\ LET i == child.in
                 IN \/ /\ i \in Pipes /\ pipes[i] # <<>>
                       /\ pipes' = [pipes EXCEPT ![i] = Tail(@)]
                       /\ child' = [child EXCEPT !.got = @ \cup {Head(pipes[i])},
                                                 !.wants = IF @ = "one" THEN "nothing" ELSE @]
                    \/ /\ AtEnd(i)
                       /\ child' = [child EXCEPT !.wants = "nothing"]
                       /\ UNCHANGED pipes
              /\ UNCHANGED main

ChildWrites == /\ child.wants = "nothing" /\ child.gives > 0
               /\ LET o == child.out
                  IN \/ /\ o \in Pipes /\ Len(pipes[o]) < Capacity
                        /\ pipes' = [pipes EXCEPT ![o] = Append(@, child.id)]
                     \/ o \notin Pipes /\ UNCHANGED pipes
               /\ child' = [child EXCEPT !.gives = @ - 1]
               /\ UNCHANGED main

ChildExits == /\ child # Nobody /\ child.wants = "nothing" /\ child.gives = 0
              /\ child' = Nobody
              /\ UNCHANGED <<main, pipes>>

Child == ChildReads \/ ChildWrites \/ ChildExits

-----------------------------------------------------------------------------
(* Ctrl+C reaches the shell and its command.  It kills the command; the    *)
(* shell's handler runs the first time, and no handler is left.  At the    *)
(* prompt the handler makes fgets fail.                                    *)

Interrupt == /\ shell # "exited" /\ shell # "killed"
             /\ child' = Nobody
             /\ handler' = FALSE
             /\ IF ~handler
                THEN /\ shell' = "killed" /\ interrupted' = TRUE
                     /\ UNCHANGED <<line, argc, left, typed, asTyped>>
                ELSE IF shell = "prompt" THEN OldLine
                ELSE interrupted' = TRUE /\ UNCHANGED <<shell, line, argc, left, typed, asTyped>>
             /\ UNCHANGED <<lines, argv, in_fd, out_fd, ended, pipes, held, bare, n>>

-----------------------------------------------------------------------------
Main == Word \/ Redirect \/ Pipe \/ AfterPipe \/ EndOfLine \/ AfterLast

Next == ReadLine \/ EndOfInput \/ Main \/ Child \/ Interrupt

Spec == Init /\ [][Next]_vars

\* The shell and its command go on as long as they are not blocked; the user need
\* do nothing.
FairSpec == Spec /\ WF_vars(Main) /\ WF_vars(Child)

-----------------------------------------------------------------------------
(* Properties.                                                             *)

\* The type of every variable; a command exists only while the shell waits for it,
\* and a pipe never holds more than its capacity.
TypeOK == /\ shell \in {"prompt", "parse", "exited", "killed"} \cup Waiting
          /\ line \in Seq(Words) /\ typed \in Seq(Words)
          /\ argv \in [0..(MAX_ARGS - 1) -> Entries] /\ argc \in 0..(MAX_ARGS - 1)
          /\ in_fd \in Nat /\ out_fd \in Nat \cup {File, BadFd}
          /\ handler \in BOOLEAN /\ ended \in BOOLEAN /\ bare \in BOOLEAN /\ asTyped \in BOOLEAN
          /\ interrupted \in BOOLEAN
          /\ left \in 0..WordLength /\ lines \in 0..MaxLines /\ n \in Nat
          /\ child \in [id : 0..n, wants : {"nothing", "one", "all"}, gives : Nat,
                        in : Nat, out : Nat \cup {File}, got : SUBSET Nat]
          /\ child # Nobody => shell \in Waiting
          /\ pipes \in Seq(Seq(Nat)) /\ \A i \in DOMAIN pipes : Len(pipes[i]) <= Capacity
          /\ held = UNION {Ends(i) : i \in DOMAIN pipes}

\* What a command reads from a pipe was written by the command that ran right
\* before it, whatever earlier pipelines left unread in theirs, commands that were
\* interrupted, and lines that ended in a "|" (stshell.c:96-106, 127).
ReadsItsPredecessor == child.got \subseteq {child.id - 1}

\* A line starts with the terminal on both sides, unless the line before it ended in
\* an operator with no command behind it, which leaves its descriptors to the next
\* (stshell.c:118-128).
StartsClean == shell = "prompt" /\ ~bare => in_fd = Terminal /\ out_fd = Terminal

\* The commands of a line, and whether the shell gets through them one by one: what
\* each writes to a pipe fits in it, and none waits for more than was written.
Starts(l) == {s \in DOMAIN l : l[s] \in Programs /\ (s = 1 \/ l[s - 1] = "|")}
Precedes(l, r, s) == r < s - 1 /\ \A j \in r..(s - 2) : l[j] # "|"
Harmless(l) ==
  \A s \in Starts(l) :
    /\ (\E i \in s..Len(l) : l[i] = "|") => Gives[l[s]] <= Capacity
    /\ s > 1 => \/ Wants[l[s]] = "nothing"
                \/ Wants[l[s]] = "one" /\ \E r \in Starts(l) : Precedes(l, r, s) /\ Gives[l[r]] > 0

\* The shell comes back from every such line, a plain one or a pipeline, when it
\* started with clean descriptors: no earlier line, however it ended, can block it, also
\* not one that was blocked itself and that Ctrl+C has ended.  Not said of a line one of
\* whose commands got arguments that were not typed, nor of one during which Ctrl+C came
\* (stshell.c:37-44, 67-129).
HarmlessLineReturns ==
  (shell \in {"parse"} \cup Waiting /\ ~bare /\ Harmless(typed))
    ~> (shell \in {"prompt", "exited", "killed"} \/ ~asTyped \/ interrupted)
=============================================================================
