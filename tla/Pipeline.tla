------------------------------- MODULE Pipeline -------------------------------
(***************************************************************************)
(* st_pipeline of Assignment-5: StPipeline::run on the main thread and the *)
(* threads of the four active objects it creates.                          *)
(*                                                                         *)
(* enqueue and dequeue are single steps here: module Queue shows that they *)
(* implement the atomic queue of FifoQueue.  Everything else that the      *)
(* threads share is interleaved access by access: the stop flags, and num, *)
(* the local variable of run's loop that every task captures by reference. *)
(* The loop body reuses one stack slot, so that all the tasks read and     *)
(* write the same cell, which the main thread overwrites with the next     *)
(* number: a data race, modelled as the interleavings of loads and stores. *)
(*                                                                         *)
(* A task is the position of its number in the order of generation; AO k   *)
(* is only ever given the k-th stage's lambda, so a task need not say      *)
(* which.  The empty task that stop enqueues is NoNumber.  sleep_for and   *)
(* the clock are left out: they delay the main thread and decide nothing.  *)
(***************************************************************************)
EXTENDS Integers, Sequences, FiniteSets

CONSTANTS N,        \* how many numbers run generates (N_)
          Generated \* [1..N -> Nat]: what generateNumber returns, call by call
                    \* (rand after srand(seed_) is one fixed sequence)

ASSUME PipelineAssumption == N \in Nat /\ Generated \in [1..N -> Nat]

AO == 1..4            \* the active objects ao1 .. ao4
Stages == 1..3        \* those that are ever given a number
Numbers == 1..N
NoNumber == 0         \* the empty task []{}

VARIABLES queue,          \* [AO -> Seq(0..N)]: queue1_ .. queue4_
          stopRequested,  \* [AO -> BOOLEAN]: stopRequested_ of each active object
          wpc,            \* [AO -> label]: the next step of each thread
          task,           \* [AO -> 0..N]: the task each thread runs
          reg,            \* [Stages -> Int]: num as loaded by num += d, not yet stored
          num,            \* the shared cell
          mpc,            \* the next step of run
          k,              \* the active object run is creating, stopping or joining
          (* history *)
          last,           \* [0..3 -> 0..N]: the number each stage passed on last
          overlapped,     \* numbers that were in the pipeline with another one
          wrong           \* numbers of which a stage used a wrong value

vars == <<queue, stopRequested, wpc, task, reg, num, mpc, k, last, overlapped, wrong>>
history == <<last, overlapped, wrong>>

-----------------------------------------------------------------------------
(* Variants: mistakes that the code does not make.  None is part of Next. *)

\* The new task goes to the front of the queue.
EnqueueFront(a, t) == queue' = [queue EXCEPT ![a] = <<t>> \o @]

\* The sign of the second stage's correction is wrong.
AddsWrongSign == <<11, 13, 2>>

\* One active object too many.
NextAOTooFar(phase, again) == \/ k <= 4 /\ k' = k + 1 /\ mpc' = again
                              \/ k > 4 /\ k' = 1 /\ mpc' = phase

\* What each stage adds to num, and what it should find in it, from the
\* generated number.
Adds == <<11, -13, 2>>
Finds == <<0, 11, -2>>

Body == {"print", "prime", "load", "store", "pass", "reprint"}
WorkerLabels == {"none", "dequeue", "check", "exited"} \cup Body
MainLabels == {"create", "generate", "enqueue", "set_stop", "wake_stop", "join", "done"}

Init == /\ queue = [a \in AO |-> <<>>]
        /\ stopRequested = [a \in AO |-> FALSE]
        /\ wpc = [a \in AO |-> "none"]
        /\ task = [a \in AO |-> NoNumber]
        /\ reg = [s \in Stages |-> 0]
        /\ num = 0
        /\ mpc = "create"
        /\ k = 1
        /\ last = [s \in 0..3 |-> 0]
        /\ overlapped = {}
        /\ wrong = {}

Enqueue(a, t) == queue' = [queue EXCEPT ![a] = Append(@, t)]

-----------------------------------------------------------------------------
(* The main thread: run.                                                   *)

\* Moves run to the next active object, or to the first one and the next phase.
NextAO(phase, again) == \/ k < 4 /\ k' = k + 1 /\ mpc' = again
                        \/ k = 4 /\ k' = 1 /\ mpc' = phase

\* stop only sets the flag.
WakeNobody == /\ mpc = "wake_stop"
              /\ NextAO("join", "set_stop")
              /\ UNCHANGED <<queue, stopRequested, wpc, task, reg, num, history>>

\* The thread never looks at the flag.
CheckNothing(a) == /\ wpc[a] = "check"
                   /\ wpc' = [wpc EXCEPT ![a] = "dequeue"]
                   /\ task' = [task EXCEPT ![a] = NoNumber]
                   /\ UNCHANGED <<queue, stopRequested, reg, num, mpc, k, history>>

\* A number is not passed on to an active object that was told to stop.
PassUnlessStopped(s) ==
  /\ wpc[s] = "pass"
  /\ IF stopRequested[s + 1] THEN UNCHANGED queue ELSE Enqueue(s + 1, task[s])
  /\ last' = [last EXCEPT ![s] = task[s]]
  /\ wpc' = [wpc EXCEPT ![s] = "check"]
  /\ UNCHANGED <<stopRequested, task, reg, num, mpc, k, overlapped, wrong>>

\* ActiveObject's constructor, bindQueue and createActiveObject: thread k starts.
Create == /\ mpc = "create"
          /\ wpc' = [wpc EXCEPT ![k] = "dequeue"]
          /\ NextAO("generate", "create")
          /\ UNCHANGED <<queue, stopRequested, task, reg, num, history>>

\* num = generateNumber(): the cell is overwritten, whoever still uses it.
Unfinished == {n \in Numbers : last[3] < n /\ n <= last[0]}

Generate == /\ mpc = "generate"
            /\ last[0] < N
            /\ num' = Generated[last[0] + 1]
            /\ overlapped' = IF Unfinished = {} THEN overlapped
                             ELSE overlapped \cup Unfinished \cup {last[0] + 1}
            /\ mpc' = "enqueue"
            /\ UNCHANGED <<queue, stopRequested, wpc, task, reg, k, last, wrong>>

\* queue1_.enqueue(task1)
EnqueueFirst == /\ mpc = "enqueue"
                /\ Enqueue(1, last[0] + 1)
                /\ last' = [last EXCEPT ![0] = @ + 1]
                /\ mpc' = "generate"
                /\ UNCHANGED <<stopRequested, wpc, task, reg, num, k, overlapped, wrong>>

EndOfLoop == /\ mpc = "generate"
             /\ last[0] = N
             /\ mpc' = "set_stop"
             /\ UNCHANGED <<queue, stopRequested, wpc, task, reg, num, k, history>>

\* stop: the flag first, then an empty task for a thread blocked in dequeue
SetStop == /\ mpc = "set_stop"
           /\ stopRequested' = [stopRequested EXCEPT ![k] = TRUE]
           /\ mpc' = "wake_stop"
           /\ UNCHANGED <<queue, wpc, task, reg, num, k, history>>

WakeStop == /\ mpc = "wake_stop"
            /\ Enqueue(k, NoNumber)
            /\ NextAO("join", "set_stop")
            /\ UNCHANGED <<stopRequested, wpc, task, reg, num, history>>

Join == /\ mpc = "join"
        /\ wpc[k] = "exited"
        /\ NextAO("done", "join")
        /\ UNCHANGED <<queue, stopRequested, wpc, task, reg, num, history>>

Main == Create \/ Generate \/ EnqueueFirst \/ EndOfLoop \/ SetStop \/ WakeStop \/ Join

-----------------------------------------------------------------------------
(* The threads of the active objects.                                      *)

At(a, label) == wpc[a] = label
Goto(a, label) == wpc' = [wpc EXCEPT ![a] = label]

\* An empty task has no body: the thread goes on to look at its stop flag.
Dequeue(a) == /\ At(a, "dequeue")
              /\ queue[a] # <<>>
              /\ queue' = [queue EXCEPT ![a] = Tail(@)]
              /\ task' = [task EXCEPT ![a] = Head(queue[a])]
              /\ Goto(a, IF Head(queue[a]) = NoNumber THEN "check" ELSE "print")
              /\ UNCHANGED <<stopRequested, reg, num, mpc, k, history>>

\* A use of the cell for the number the stage works on: recorded when it is not
\* the value that number should have at this point.
Use(s, offset) == wrong' = IF num = Generated[task[s]] + offset THEN wrong
                           ELSE wrong \cup {task[s]}

\* std::cout << num, then std::cout << isPrime(num): two reads of the cell
PrintNumber(s) == /\ At(s, "print")
                  /\ Use(s, Finds[s])
                  /\ Goto(s, "prime")
                  /\ UNCHANGED <<queue, stopRequested, task, reg, num, mpc, k,
                                 last, overlapped>>

PrintPrime(s) == /\ At(s, "prime")
                 /\ Use(s, Finds[s])
                 /\ Goto(s, "load")
                 /\ UNCHANGED <<queue, stopRequested, task, reg, num, mpc, k,
                                last, overlapped>>

\* num += d is a load and a store; the register is dead after the store
Load(s) == /\ At(s, "load")
           /\ reg' = [reg EXCEPT ![s] = num]
           /\ Goto(s, "store")
           /\ UNCHANGED <<queue, stopRequested, task, num, mpc, k, history>>

Store(s) == /\ At(s, "store")
            /\ num' = reg[s] + Adds[s]
            /\ reg' = [reg EXCEPT ![s] = 0]
            /\ Goto(s, IF s < 3 THEN "pass" ELSE "reprint")
            /\ UNCHANGED <<queue, stopRequested, task, mpc, k, history>>

\* Stages 1 and 2 end by giving the number to the next active object ...
Pass(s) == /\ At(s, "pass")
           /\ Enqueue(s + 1, task[s])
           /\ last' = [last EXCEPT ![s] = task[s]]
           /\ Goto(s, "check")
           /\ UNCHANGED <<stopRequested, task, reg, num, mpc, k, overlapped, wrong>>

\* ... and stage 3, which has none, by printing the result.
Reprint(s) == /\ At(s, "reprint")
              /\ Use(s, 0)
              /\ last' = [last EXCEPT ![s] = task[s]]
              /\ Goto(s, "check")
              /\ UNCHANGED <<queue, stopRequested, task, reg, num, mpc, k, overlapped>>

\* The thread stops after the task during or before which the flag was set,
\* however many tasks are left in its queue.  task goes out of scope.
Check(a) == /\ At(a, "check")
            /\ Goto(a, IF stopRequested[a] THEN "exited" ELSE "dequeue")
            /\ task' = [task EXCEPT ![a] = NoNumber]
            /\ UNCHANGED <<queue, stopRequested, reg, num, mpc, k, history>>

Stage(s) == \/ PrintNumber(s) \/ PrintPrime(s) \/ Load(s) \/ Store(s)
            \/ Pass(s) \/ Reprint(s)

Worker(a) == Dequeue(a) \/ Check(a) \/ (a \in Stages /\ Stage(a))

-----------------------------------------------------------------------------
Finished == mpc = "done" /\ UNCHANGED vars

Next == Main \/ (\E a \in AO : Worker(a)) \/ Finished

Spec == Init /\ [][Next]_vars

\* Each thread goes on as long as it can.
FairSpec == Spec /\ WF_vars(Main) /\ \A a \in AO : WF_vars(Worker(a))

-----------------------------------------------------------------------------
(* Properties *)

\* The type of every variable.
TypeOK == /\ queue \in [AO -> Seq(0..N)]
          /\ stopRequested \in [AO -> BOOLEAN]
          /\ wpc \in [AO -> WorkerLabels]
          /\ task \in [AO -> 0..N]
          /\ reg \in [Stages -> Int]
          /\ num \in Int
          /\ mpc \in MainLabels
          /\ k \in AO
          /\ last \in [0..3 -> 0..N]
          /\ overlapped \subseteq Numbers
          /\ wrong \subseteq Numbers

\* run has finished ao.stop() for active object a.
StopSent(a) == mpc \in {"join", "done"} \/ (mpc \in {"set_stop", "wake_stop"} /\ a < k)

\* A stop request is never missed: once stop() has returned, a thread that has
\* not ended finds the flag set, and if it waits for a task there is one to wake
\* it (ActiveObject.hpp:29-36 against 39-43: flag, then task; task, then flag).
StopNotMissed == \A a \in AO :
                   StopSent(a) => /\ stopRequested[a]
                                  /\ At(a, "dequeue") => queue[a] # <<>>

\* The number that stage s has taken from its queue last, and passed on unless it
\* is in hand.
Taken(s) == last[s] + IF wpc[s] \in Body THEN 1 ELSE 0

\* The numbers after a up to b, in order; and the same with the empty task behind z.
Numbered(a, b) == [i \in 1..(b - a) |-> a + i]
WithStop(a, z, b) == [i \in 1..(b - a + 1) |-> IF a + i <= z THEN a + i
                                              ELSE IF a + i = z + 1 THEN NoNumber
                                              ELSE a + i - 1]

\* Nothing is lost, duplicated or overtaken between two stages, stop or no stop:
\* stage s works on the number after the one it passed on last, and its queue holds
\* those from there to the one that the stage in front of it passed on last, with at
\* most one empty task among them (StPipeline.hpp:40-59).
NothingLost ==
  \A s \in Stages :
    /\ wpc[s] \in Body => task[s] = last[s] + 1
    /\ Taken(s) <= last[s - 1]
    /\ \/ queue[s] = Numbered(Taken(s), last[s - 1])
       \/ \E z \in Taken(s)..last[s - 1] : queue[s] = WithStop(Taken(s), z, last[s - 1])

\* A number that was alone in the pipeline from its generation to its last print
\* is right at every stage, although all numbers share one cell
\* (StPipeline.hpp:37-56).
AloneIsExact == wrong \subseteq overlapped

\* The stages handle the numbers in the order of their generation.
Ordered == INSTANCE OrderedStages
ImplementsStages == Ordered!StagesSpec

\* run ends: every stop is answered and every join returns.
Terminates == <>(mpc = "done")

\* README.md:35: the first active object will "process the numbers and
\* transfer them to the subsequent AOs", and each of those processes them.
EveryNumberProcessed == mpc = "done" => \A s \in Stages : last[s] = N

\* README.md:36: "Each AO will print the received number, check if it is prime".
EveryValueRight == wrong = {}
=============================================================================
