---------------------------- MODULE PipelineProofs ----------------------------
(***************************************************************************)
(* Pipeline, for every number of numbers and whatever is generated.        *)
(*                                                                         *)
(* The argument has two layers.  The first follows the numbers: what stop  *)
(* puts in the queues, and that every queue holds exactly what lies        *)
(* between two stages (NothingLost).  The second follows the shared cell   *)
(* num for a number that was alone all the time (Alone): NothingLost says  *)
(* that no other stage has a number in hand then, so that nobody else      *)
(* stores, and the value is known at each step of its way.                 *)
(*                                                                         *)
(* At the end, isPrime: the one thing the tasks compute.                   *)
(***************************************************************************)
EXTENDS Pipeline, Algorithms, SequenceTheorems, TLAPS

-----------------------------------------------------------------------------
(* The contents of a queue.                                                *)

\* The numbers after a up to b are a sequence of b - a tasks.
LEMMA NumberedType ==
  ASSUME NEW a \in Nat, NEW b \in a..N
  PROVE  Numbered(a, b) \in Seq(0..N) /\ Len(Numbered(a, b)) = b - a
  BY PipelineAssumption DEF Numbered

\* With the empty task among them they are one more.
LEMMA WithStopType ==
  ASSUME NEW a \in Nat, NEW b \in a..N, NEW z \in a..b
  PROVE  WithStop(a, z, b) \in Seq(0..N) /\ Len(WithStop(a, z, b)) = b - a + 1
  BY PipelineAssumption DEF WithStop, NoNumber

\* The next number, or the empty task, goes behind them.
LEMMA TasksAppend ==
  ASSUME NEW a \in Nat, NEW b \in a..N, NEW z \in a..b
  PROVE  /\ b < N => /\ Append(Numbered(a, b), b + 1) = Numbered(a, b + 1)
                     /\ Append(WithStop(a, z, b), b + 1) = WithStop(a, z, b + 1)
         /\ Append(Numbered(a, b), NoNumber) = WithStop(a, b, b)
<1>1. Append(Numbered(a, b), NoNumber) = WithStop(a, b, b)
  BY PipelineAssumption, NumberedType DEF Numbered, WithStop, NoNumber
<1>2. ASSUME b < N PROVE Append(Numbered(a, b), b + 1) = Numbered(a, b + 1)
  BY <1>2, PipelineAssumption, NumberedType DEF Numbered
<1>3. ASSUME b < N PROVE Append(WithStop(a, z, b), b + 1) = WithStop(a, z, b + 1)
  BY <1>3, PipelineAssumption, WithStopType DEF WithStop, NoNumber
<1> QED
  BY <1>1, <1>2, <1>3

\* A sequence taken apart.
LEMMA HeadTailIs ==
  ASSUME NEW S, NEW q \in Seq(S), NEW t \in Seq(S),
         Len(q) = Len(t) + 1, \A i \in 1..Len(t) : q[i + 1] = t[i]
  PROVE  q # <<>> /\ Head(q) = q[1] /\ Tail(q) = t
<1>1. q # <<>> /\ Len(t) \in Nat
  BY LenProperties
<1>2. Tail(q) \in Seq(S) /\ Len(Tail(q)) = Len(t) /\ \A i \in 1..Len(t) : Tail(q)[i] = t[i]
  BY <1>1, HeadTailProperties
<1>3. Tail(q) = t
  BY <1>2, SeqEqual
<1> QED
  BY <1>1, <1>3

\* The oldest number, or the empty task, is taken from the front.
LEMMA TasksHead ==
  ASSUME NEW a \in Nat, NEW b \in a..N
  PROVE  /\ a = b => Numbered(a, b) = <<>>
         /\ a < b => /\ Numbered(a, b) # <<>> /\ Head(Numbered(a, b)) = a + 1
                     /\ Tail(Numbered(a, b)) = Numbered(a + 1, b)
         /\ \A z \in a..b :
              /\ WithStop(a, z, b) # <<>>
              /\ z = a => /\ Head(WithStop(a, z, b)) = NoNumber
                          /\ Tail(WithStop(a, z, b)) = Numbered(a, b)
              /\ z > a => /\ Head(WithStop(a, z, b)) = a + 1
                          /\ Tail(WithStop(a, z, b)) = WithStop(a + 1, z, b)
<1> USE PipelineAssumption
<1>1. a = b => Numbered(a, b) = <<>>
  BY DEF Numbered
<1>2. ASSUME a < b
      PROVE  /\ Numbered(a, b) # <<>> /\ Head(Numbered(a, b)) = a + 1
             /\ Tail(Numbered(a, b)) = Numbered(a + 1, b)
  <2> DEFINE q == Numbered(a, b)
             t == Numbered(a + 1, b)
  <2>1. a + 1 \in Nat /\ b \in (a + 1)..N
    BY <1>2
  <2>2. q \in Seq(0..N) /\ Len(q) = b - a /\ t \in Seq(0..N) /\ Len(t) = b - (a + 1)
    BY <2>1, NumberedType
  <2>3. q[1] = a + 1 /\ \A i \in 1..(b - (a + 1)) : q[i + 1] = t[i]
    BY <1>2 DEF Numbered
  <2> HIDE DEF q, t
  <2>4. Len(q) = Len(t) + 1 /\ \A i \in 1..Len(t) : q[i + 1] = t[i]
    BY <2>2, <2>3
  <2>5. q # <<>> /\ Head(q) = q[1] /\ Tail(q) = t
    BY <2>2, <2>4, HeadTailIs
  <2> QED
    BY <2>3, <2>5 DEF q, t
<1>3. ASSUME NEW z \in a..b
      PROVE  /\ WithStop(a, z, b) # <<>>
             /\ z = a => /\ Head(WithStop(a, z, b)) = NoNumber
                         /\ Tail(WithStop(a, z, b)) = Numbered(a, b)
             /\ z > a => /\ Head(WithStop(a, z, b)) = a + 1
                         /\ Tail(WithStop(a, z, b)) = WithStop(a + 1, z, b)
  <2> DEFINE q == WithStop(a, z, b)
             t == IF z = a THEN Numbered(a, b) ELSE WithStop(a + 1, z, b)
  <2>1. z > a => a + 1 \in Nat /\ b \in (a + 1)..N /\ z \in (a + 1)..b
    OBVIOUS
  <2>2. q \in Seq(0..N) /\ Len(q) = b - a + 1 /\ t \in Seq(0..N) /\ Len(t) = b - a
    <3>1. CASE z = a
      BY <3>1, NumberedType, WithStopType
    <3>2. CASE z > a
      <4>1. WithStop(a + 1, z, b) \in Seq(0..N) /\ Len(WithStop(a + 1, z, b)) = b - a
        <5>1. b - (a + 1) + 1 = b - a
          OBVIOUS
        <5> QED
          BY <3>2, <2>1, <5>1, WithStopType
      <4>2. q \in Seq(0..N) /\ Len(q) = b - a + 1
        BY WithStopType
      <4>3. t = WithStop(a + 1, z, b)
        BY <3>2
      <4>4. t \in Seq(0..N) /\ Len(t) = b - a
        BY <4>1, <4>3
      <4> QED
        BY <4>2, <4>4
    <3> QED
      BY <3>1, <3>2
  <2>3. q[1] = IF z = a THEN NoNumber ELSE a + 1
    BY DEF WithStop
  <2>4. \A i \in 1..(b - a) : q[i + 1] = t[i]
    <3>1. CASE z = a
      BY <3>1 DEF Numbered, WithStop
    <3>2. CASE z > a
      BY <3>2 DEF WithStop
    <3> QED
      BY <3>1, <3>2
  <2> HIDE DEF q, t
  <2>5. Len(q) = Len(t) + 1 /\ \A i \in 1..Len(t) : q[i + 1] = t[i]
    BY <2>2, <2>4
  <2>6. q # <<>> /\ Head(q) = q[1] /\ Tail(q) = t
    BY <2>2, <2>5, HeadTailIs
  <2> QED
    BY <2>3, <2>6 DEF q, t
<1> QED
  BY <1>1, <1>2, <1>3

-----------------------------------------------------------------------------
(* The invariant.                                                          *)

\* Where run and the stages are: k counts the active objects only while they are
\* created, stopped or joined; each stage ends in its own way.
Control == /\ mpc = "create" => \A a \in AO : a >= k => wpc[a] = "none"
           /\ mpc \in {"generate", "enqueue"} => k = 1
           /\ mpc = "enqueue" => last[0] < N
           /\ mpc = "wake_stop" => stopRequested[k]
           /\ wpc[3] # "pass" /\ wpc[1] # "reprint" /\ wpc[2] # "reprint"

\* What is between a stage and the one in front of it; the empty task is there only
\* after stop has put it there.
Flow(s) == /\ wpc[s] \in Body => task[s] = last[s] + 1
           /\ Taken(s) <= last[s - 1]
           /\ \/ queue[s] = Numbered(Taken(s), last[s - 1])
              \/ /\ StopSent(s)
                 /\ \E z \in Taken(s)..last[s - 1] : queue[s] = WithStop(Taken(s), z, last[s - 1])

AllFlow == \A s \in Stages : Flow(s)

\* A number that was alone so far: nothing was generated since, all before it are
\* finished, ...
AloneIsLast == \A n \in Numbers \ overlapped :
                 last[3] < n /\ n <= last[0] => n = last[0] /\ last[3] = n - 1 /\ mpc # "enqueue"

\* ... the shared cell holds it when it is generated ...
AloneAtFirst == mpc = "enqueue" /\ last[0] + 1 \notin overlapped =>
                  last[3] = last[0] /\ num = Generated[last[0] + 1]

\* ... and what it should be at the stage that has it next.
AloneAt(s) ==
  last[0] \notin overlapped /\ last[3] = last[0] - 1 /\ last[s - 1] = last[0] /\ last[s] = last[3] =>
    /\ num = Generated[last[0]] + Finds[s] + IF wpc[s] \in {"pass", "reprint"} THEN Adds[s] ELSE 0
    /\ wpc[s] = "store" => reg[s] = num

Alone == AloneIsLast /\ AloneAtFirst /\ \A s \in Stages : AloneAt(s)

IInv == /\ TypeOK /\ Control
        /\ StopNotMissed /\ AllFlow
        /\ Alone /\ AloneIsExact

\* Nothing is lost when it flows.
LEMMA FlowIsNothingLost == AllFlow => NothingLost
  BY DEF AllFlow, Flow, NothingLost

\* Initially there are no numbers and no threads.
LEMMA InitInv == Init => IInv
<1> SUFFICES ASSUME Init PROVE IInv
  OBVIOUS
<1> USE PipelineAssumption DEF Init
<1>1. TypeOK
  BY DEF TypeOK, WorkerLabels, MainLabels, AO, Stages, Numbers, NoNumber
<1>2. \A s \in Stages : queue[s] = Numbered(Taken(s), last[s - 1]) /\ Taken(s) = 0 /\ last[s - 1] = 0
                        /\ wpc[s] \notin Body
  BY DEF Numbered, Taken, Body, Stages, AO
<1>3. AllFlow
  BY <1>2 DEF AllFlow, Flow
<1>4. Control /\ StopNotMissed /\ AloneIsExact
  BY DEF Control, StopNotMissed, StopSent, AloneIsExact, At, AO
<1>5. Alone
  BY DEF Alone, AloneIsLast, AloneAtFirst, AloneAt, Numbers, Stages
<1> QED
  BY <1>1, <1>3, <1>4, <1>5 DEF IInv

-----------------------------------------------------------------------------
(* What the numbers of the last tasks say of each other.                   *)

\* The stages follow each other, and a stage that has a number in hand has passed
\* on less than the one in front of it.
LEMMA Monotone ==
  ASSUME TypeOK, AllFlow
  PROVE  /\ last[0] \in 0..N /\ last[1] \in 0..last[0] /\ last[2] \in 0..last[1] /\ last[3] \in 0..last[2]
         /\ \A s \in Stages : /\ last[s] \in 0..N /\ last[s - 1] \in 0..N /\ Taken(s) \in Nat
                              /\ last[3] <= last[s] /\ last[s] <= last[s - 1] /\ last[s - 1] <= last[0]
                              /\ wpc[s] \in Body => /\ last[s] < last[s - 1]
                                                    /\ task[s] = last[s] + 1 /\ task[s] \in Numbers
<1>1. last[0] \in 0..N /\ last[1] \in 0..N /\ last[2] \in 0..N /\ last[3] \in 0..N
  BY DEF TypeOK
<1>2. /\ last[1] <= last[0] /\ (wpc[1] \in Body => task[1] = last[1] + 1 /\ last[1] < last[0])
      /\ last[2] <= last[1] /\ (wpc[2] \in Body => task[2] = last[2] + 1 /\ last[2] < last[1])
      /\ last[3] <= last[2] /\ (wpc[3] \in Body => task[3] = last[3] + 1 /\ last[3] < last[2])
  BY <1>1 DEF AllFlow, Flow, Taken, Stages
<1>3. last[1] \in 0..last[0] /\ last[2] \in 0..last[1] /\ last[3] \in 0..last[2]
  BY <1>1, <1>2
<1>4. ASSUME NEW s \in Stages
      PROVE  /\ last[s] \in 0..N /\ last[s - 1] \in 0..N /\ Taken(s) \in Nat
             /\ last[3] <= last[s] /\ last[s] <= last[s - 1] /\ last[s - 1] <= last[0]
             /\ wpc[s] \in Body => /\ last[s] < last[s - 1]
                                   /\ task[s] = last[s] + 1 /\ task[s] \in Numbers
  <2>1. s = 1 \/ s = 2 \/ s = 3
    BY DEF Stages
  <2>2. last[s] \in 0..N /\ last[s - 1] \in 0..N
    BY <1>1, <2>1
  <2>3. last[3] <= last[s] /\ last[s] <= last[s - 1] /\ last[s - 1] <= last[0]
    BY <1>1, <1>2, <2>1
  <2>4. wpc[s] \in Body => task[s] = last[s] + 1 /\ last[s] < last[s - 1]
    BY <1>2, <2>1
  <2>5. wpc[s] \in Body => task[s] \in Numbers
    BY <2>2, <2>4, PipelineAssumption DEF Numbers
  <2>6. Taken(s) \in Nat
    BY <2>2 DEF Taken
  <2> QED
    BY <2>2, <2>3, <2>4, <2>5, <2>6
<1> QED
  BY <1>1, <1>3, <1>4

-----------------------------------------------------------------------------
(* Types and control.                                                      *)

\* The steps of run keep the types and what Control says.
LEMMA MainType ==
  ASSUME TypeOK, Control, Main
  PROVE  TypeOK' /\ Control'
<1> USE PipelineAssumption
<1>1. last[0] \in 0..N /\ k \in 1..4
  BY DEF TypeOK, AO
<1>2. ASSUME Create PROVE TypeOK' /\ Control'
  <2>1. wpc' \in [AO -> WorkerLabels]
    BY <1>2 DEF Create, TypeOK, WorkerLabels
  <2>2. k' \in 1..4 /\ mpc' \in {"create", "generate"} /\ (mpc' = "generate" => k' = 1)
        /\ (mpc' = "create" => k' = k + 1)
    BY <1>1, <1>2 DEF Create, NextAO
  <2>3. TypeOK'
    BY <1>2, <2>1, <2>2 DEF Create, TypeOK, AO, MainLabels, history
  <2>4. wpc'[3] \in {wpc[3], "dequeue"} /\ wpc'[1] \in {wpc[1], "dequeue"} /\ wpc'[2] \in {wpc[2], "dequeue"}
    BY <1>2 DEF Create, TypeOK, AO
  <2>5. mpc' = "create" => \A a \in AO : a >= k' => wpc'[a] = "none"
    <3>1. \A a \in AO : a >= k + 1 => a >= k /\ a # k
      BY <1>1 DEF AO
    <3> QED
      BY <1>2, <2>2, <3>1 DEF Create, Control, TypeOK
  <2> QED
    BY <2>2, <2>3, <2>4, <2>5 DEF Control
<1>3. ASSUME Generate PROVE TypeOK' /\ Control'
  <2>1. last[0] + 1 \in Numbers
    BY <1>1, <1>3 DEF Generate, Numbers
  <2>2. Generated[last[0] + 1] \in Int
    BY <2>1 DEF Numbers
  <2>3. overlapped' \subseteq Numbers
    BY <1>3, <2>1 DEF Generate, Unfinished, TypeOK
  <2>4. TypeOK'
    BY <1>3, <2>2, <2>3 DEF Generate, MainLabels, TypeOK
  <2> QED
    BY <1>3, <2>4 DEF Generate, Control
<1>4. ASSUME EnqueueFirst PROVE TypeOK' /\ Control'
  <2>1. last[0] + 1 \in 0..N
    BY <1>1, <1>4 DEF EnqueueFirst, Control
  <2>2. Append(queue[1], last[0] + 1) \in Seq(0..N)
    BY <2>1 DEF TypeOK, AO
  <2>3. queue' \in [AO -> Seq(0..N)]
    BY <1>4, <2>2 DEF EnqueueFirst, Enqueue, TypeOK
  <2>4. last' \in [0..3 -> 0..N]
    BY <1>4, <2>1 DEF EnqueueFirst, TypeOK
  <2>5. TypeOK'
    BY <1>4, <2>3, <2>4 DEF EnqueueFirst, MainLabels, TypeOK
  <2> QED
    BY <1>4, <2>5 DEF EnqueueFirst, Control
<1>5. ASSUME EndOfLoop PROVE TypeOK' /\ Control'
  <2>1. TypeOK'
    BY <1>5 DEF EndOfLoop, MainLabels, history, TypeOK
  <2> QED
    BY <1>5, <2>1 DEF EndOfLoop, history, Control
<1>6. ASSUME SetStop PROVE TypeOK' /\ Control'
  <2>1. TypeOK'
    BY <1>6 DEF SetStop, MainLabels, history, TypeOK
  <2>2. stopRequested'[k']
    BY <1>6 DEF SetStop, TypeOK
  <2> QED
    BY <1>6, <2>1, <2>2 DEF SetStop, history, Control
<1>7. ASSUME WakeStop PROVE TypeOK' /\ Control'
  <2>1. Append(queue[k], NoNumber) \in Seq(0..N)
    BY DEF NoNumber, TypeOK
  <2>2. queue' \in [AO -> Seq(0..N)]
    BY <1>7, <2>1 DEF WakeStop, Enqueue, TypeOK
  <2>3. k' \in AO /\ mpc' \in {"set_stop", "join"}
    BY <1>1, <1>7 DEF WakeStop, NextAO, AO
  <2>4. TypeOK'
    BY <1>7, <2>2, <2>3 DEF WakeStop, MainLabels, history, TypeOK
  <2> QED
    BY <1>7, <2>3, <2>4 DEF WakeStop, history, Control
<1>8. ASSUME Join PROVE TypeOK' /\ Control'
  <2>1. k' \in AO /\ mpc' \in {"join", "done"}
    BY <1>1, <1>8 DEF Join, NextAO, AO
  <2>2. TypeOK'
    BY <1>8, <2>1 DEF Join, MainLabels, history, TypeOK
  <2> QED
    BY <1>8, <2>1, <2>2 DEF Join, history, Control
<1> QED
  BY <1>2, <1>3, <1>4, <1>5, <1>6, <1>7, <1>8 DEF Main

\* So do the steps of a thread; that there is a number in hand where the code uses
\* one follows from the flow.
LEMMA WorkerType ==
  ASSUME TypeOK, Control, AllFlow, NEW a \in AO, Worker(a)
  PROVE  TypeOK' /\ Control'
<1> USE PipelineAssumption
<1>1. ASSUME NEW l \in {"check", "exited", "dequeue"} \cup Body,
             wpc[a] # "none", Goto(a, l), mpc' = mpc, k' = k, stopRequested' = stopRequested,
             last'[0] = last[0], l = "pass" => a # 3, l = "reprint" => a = 3
      PROVE  wpc' \in [AO -> WorkerLabels] /\ Control'
  <2>1. wpc' \in [AO -> WorkerLabels]
    BY <1>1 DEF Goto, WorkerLabels, TypeOK
  <2>2. wpc'[3] # "pass" /\ wpc'[1] # "reprint" /\ wpc'[2] # "reprint"
    <3>1. 1 \in AO /\ 2 \in AO /\ 3 \in AO
      BY DEF AO
    <3>2. wpc[3] # "pass" /\ wpc[1] # "reprint" /\ wpc[2] # "reprint"
      BY DEF Control
    <3>3. \A y \in AO : wpc'[y] = IF y = a THEN l ELSE wpc[y]
      BY <1>1 DEF Goto, TypeOK
    <3> QED
      BY <1>1, <3>1, <3>2, <3>3
  <2>3. \A y \in AO : wpc[y] = "none" => wpc'[y] = "none"
    BY <1>1 DEF Goto, TypeOK
  <2>4. mpc' = "create" => \A y \in AO : y >= k' => wpc'[y] = "none"
    BY <1>1, <2>3 DEF Control
  <2> QED
    BY <1>1, <2>1, <2>2, <2>4 DEF Control
<1>2. ASSUME Dequeue(a) PROVE TypeOK' /\ Control'
  <2>1. Head(queue[a]) \in 0..N /\ Tail(queue[a]) \in Seq(0..N)
    <3>1. queue[a] \in Seq(0..N) /\ queue[a] # <<>>
      BY <1>2 DEF Dequeue, TypeOK
    <3> QED
      BY <3>1, HeadTailProperties
  <2>2. queue' \in [AO -> Seq(0..N)] /\ task' \in [AO -> 0..N]
    BY <1>2, <2>1 DEF Dequeue, TypeOK
  <2>3. wpc' \in [AO -> WorkerLabels] /\ Control'
    BY <1>2, <1>1 DEF Dequeue, Body, At, history
  <2> QED
    BY <1>2, <2>2, <2>3 DEF Dequeue, history, TypeOK
<1>3. ASSUME Check(a) PROVE TypeOK' /\ Control'
  <2>1. wpc' \in [AO -> WorkerLabels] /\ Control'
    BY <1>3, <1>1 DEF Check, At, history
  <2>2. task' \in [AO -> 0..N]
    BY <1>3 DEF Check, NoNumber, TypeOK
  <2> QED
    BY <1>3, <2>1, <2>2 DEF Check, history, TypeOK
<1>4. ASSUME a \in Stages, Stage(a) PROVE TypeOK' /\ Control'
  <2>1. wpc[a] \in Body
    BY <1>4 DEF Stage, PrintNumber, PrintPrime, Load, Store, Pass, Reprint, Body, At
  <2>2. task[a] \in Numbers
    BY <1>4, <2>1, Monotone
  <2>3. a \in 0..3 /\ a + 1 \in 2..4 /\ (a = 1 \/ a = 2 \/ a = 3) /\ a # 0
    BY <1>4 DEF Stages
  <2>4. last[a] \in 0..N /\ last' \in {last, [last EXCEPT ![a] = task[a]]}
    <3>1. last[a] \in 0..N
      BY <2>3 DEF TypeOK
    <3>2. CASE Pass(a) \/ Reprint(a)
      BY <3>1, <3>2 DEF Pass, Reprint
    <3>3. CASE PrintNumber(a) \/ PrintPrime(a) \/ Load(a) \/ Store(a)
      BY <3>1, <3>3 DEF PrintNumber, PrintPrime, Load, Store, history
    <3> QED
      BY <1>4, <3>2, <3>3 DEF Stage
  <2>5. last' \in [0..3 -> 0..N] /\ last'[0] = last[0]
    <3>1. last \in [0..3 -> 0..N] /\ task[a] \in 0..N
      BY <2>2 DEF TypeOK, Numbers
    <3>2. CASE last' = last
      BY <3>1, <3>2
    <3>3. CASE last' = [last EXCEPT ![a] = task[a]]
      BY <2>3, <3>1, <3>3
    <3> QED
      BY <2>4, <3>2, <3>3
  <2>6. wrong' \subseteq Numbers
    BY <1>4, <2>2
       DEF TypeOK, Stage, PrintNumber, PrintPrime, Load, Store, Pass, Reprint, history, Use
  <2>7. PICK l \in Body \cup {"check"} : Goto(a, l) /\ (l = "pass" => a # 3) /\ (l = "reprint" => a = 3)
    BY <1>4, <2>3 DEF Stage, PrintNumber, PrintPrime, Load, Store, Pass, Reprint, Body
  <2>8. wpc' \in [AO -> WorkerLabels] /\ Control'
    <3>1. mpc' = mpc /\ k' = k /\ stopRequested' = stopRequested /\ wpc[a] # "none"
      BY <1>4, <2>1 DEF Stage, PrintNumber, PrintPrime, Load, Store, Pass, Reprint, Body
    <3> QED
      BY <1>1, <2>5, <2>7, <3>1
  <2>9. reg' \in [Stages -> Int] /\ num' \in Int
    <3>1. Adds[a] \in Int
      BY <2>3 DEF Adds
    <3>2. reg[a] + Adds[a] \in Int
      BY <1>4, <3>1 DEF TypeOK
    <3>3. CASE Load(a)
      BY <1>4, <3>3 DEF TypeOK, Load
    <3>5. CASE Store(a)
      BY <1>4, <3>2, <3>5 DEF TypeOK, Store
    <3>4. CASE PrintNumber(a) \/ PrintPrime(a) \/ Pass(a) \/ Reprint(a)
      BY <3>4 DEF TypeOK, PrintNumber, PrintPrime, Pass, Reprint
    <3> QED
      BY <1>4, <3>3, <3>4, <3>5 DEF Stage
  <2>10. queue' \in [AO -> Seq(0..N)]
    <3>1. CASE Pass(a)
      <4>1. a + 1 \in AO /\ task[a] \in 0..N
        BY <2>2, <2>3 DEF AO, Numbers
      <4>2. queue[a + 1] \in Seq(0..N)
        BY <4>1 DEF TypeOK
      <4>3. Append(queue[a + 1], task[a]) \in Seq(0..N)
        BY <4>1, <4>2
      <4> QED
        BY <3>1, <4>3 DEF Pass, Enqueue, TypeOK
    <3> QED
      BY <1>4, <3>1 DEF TypeOK, Stage, PrintNumber, PrintPrime, Load, Store, Reprint
  <2>11. UNCHANGED <<stopRequested, task, mpc, k, overlapped>>
    BY <1>4 DEF Stage, PrintNumber, PrintPrime, Load, Store, Pass, Reprint, history
  <2> QED
    BY <2>5, <2>6, <2>8, <2>9, <2>10, <2>11 DEF TypeOK
<1> QED
  BY <1>2, <1>3, <1>4 DEF Worker

-----------------------------------------------------------------------------
(* Stop.                                                                   *)

\* stop puts the flag before the empty task, and a thread looks at the flag after
\* every task: no step makes a thread wait that was told to stop.
LEMMA StopStep ==
  ASSUME TypeOK, Control, StopNotMissed, Next
  PROVE  StopNotMissed'
<1> USE PipelineAssumption
<1>1. SUFFICES ASSUME NEW a \in AO, StopSent(a)'
               PROVE  stopRequested'[a] /\ (wpc'[a] = "dequeue" => queue'[a] # <<>>)
  BY DEF StopNotMissed, At
<1>2. StopSent(a) => stopRequested[a] /\ (wpc[a] = "dequeue" => queue[a] # <<>>)
  BY DEF StopNotMissed, At
<1>3. a \in 1..4 /\ k \in 1..4 /\ queue[a] \in Seq(0..N)
  BY DEF TypeOK, AO
<1>4. ASSUME Main PROVE stopRequested'[a] /\ (wpc'[a] = "dequeue" => queue'[a] # <<>>)
  <2>1. CASE Create
    BY <1>1, <2>1 DEF Create, NextAO, StopSent
  <2>2. CASE Generate
    BY <1>1, <2>2 DEF Generate, StopSent
  <2>3. CASE EnqueueFirst
    BY <1>1, <2>3 DEF EnqueueFirst, StopSent
  <2>4. CASE EndOfLoop
    BY <1>1, <1>3, <2>4 DEF EndOfLoop, StopSent, Control
  <2>5. CASE SetStop
    <3>1. StopSent(a)
      BY <1>1, <2>5 DEF SetStop, StopSent
    <3> QED
      BY <1>2, <2>5, <3>1 DEF SetStop, TypeOK, history
  <2>6. CASE WakeStop
    <3>1. stopRequested' = stopRequested /\ wpc' = wpc /\ queue' = [queue EXCEPT ![k] = Append(@, NoNumber)]
      BY <2>6 DEF WakeStop, Enqueue
    <3>2. CASE a = k
      <4>1. stopRequested[a] /\ queue'[a] = Append(queue[a], NoNumber)
        BY <2>6, <3>1, <3>2 DEF WakeStop, Control, TypeOK
      <4>2. queue'[a] # <<>>
        BY <1>3, <4>1, AppendProperties DEF NoNumber
      <4> QED
        BY <3>1, <4>1, <4>2
    <3>3. CASE a # k
      <4>1. StopSent(a)
        BY <1>1, <1>3, <2>6, <3>3 DEF WakeStop, NextAO, StopSent
      <4>2. queue'[a] = queue[a]
        BY <3>1, <3>3 DEF TypeOK
      <4> QED
        BY <1>2, <3>1, <4>1, <4>2
    <3> QED
      BY <3>2, <3>3
  <2>7. CASE Join
    <3>1. StopSent(a)
      BY <2>7 DEF Join, StopSent
    <3> QED
      BY <1>2, <2>7, <3>1 DEF Join, history
  <2> QED
    BY <1>4, <2>1, <2>2, <2>3, <2>4, <2>5, <2>6, <2>7 DEF Main
<1>5. ASSUME NEW b \in AO, Worker(b)
      PROVE  stopRequested'[a] /\ (wpc'[a] = "dequeue" => queue'[a] # <<>>)
  <2>1. stopRequested' = stopRequested /\ mpc' = mpc /\ k' = k
    BY <1>5 DEF Worker, Dequeue, Check, Stage, PrintNumber, PrintPrime, Load, Store, Pass, Reprint
  <2>2. StopSent(a) /\ stopRequested[a]
    BY <1>1, <1>2, <2>1 DEF StopSent
  <2>3. ASSUME wpc'[a] = "dequeue" PROVE wpc[a] = "dequeue" /\ a # b
    BY <1>5, <2>2, <2>3
       DEF Worker, Dequeue, Check, Stage, PrintNumber, PrintPrime, Load, Store, Pass, Reprint, Goto, TypeOK
  <2>4. ASSUME a # b, queue[a] # <<>> PROVE queue'[a] # <<>>
    <3>1. CASE b \in Stages /\ Pass(b)
      <4>1. b + 1 \in AO /\ queue' = [queue EXCEPT ![b + 1] = Append(@, task[b])]
        BY <3>1 DEF Pass, Enqueue, Control, At, Stages, AO
      <4>2. CASE a = b + 1
        <5>1. queue'[a] = Append(queue[a], task[b]) /\ task[b] \in 0..N
          BY <4>1, <4>2 DEF TypeOK
        <5>2. \A t \in 0..N : Append(queue[a], t) # <<>>
          BY <1>3, AppendProperties
        <5> QED
          BY <5>1, <5>2
      <4>3. CASE a # b + 1
        BY <2>4, <4>1, <4>3 DEF TypeOK
      <4> QED
        BY <4>2, <4>3
    <3>2. CASE Dequeue(b)
      BY <2>4, <3>2 DEF Dequeue, TypeOK
    <3>3. CASE Check(b)
      BY <2>4, <3>3 DEF Check
    <3>4. CASE PrintNumber(b) \/ PrintPrime(b) \/ Load(b) \/ Store(b) \/ Reprint(b)
      BY <2>4, <3>4 DEF PrintNumber, PrintPrime, Load, Store, Reprint
    <3> QED
      BY <1>5, <3>1, <3>2, <3>3, <3>4 DEF Worker, Stage
  <2> QED
    BY <1>2, <2>1, <2>2, <2>3, <2>4
<1>6. ASSUME Finished PROVE stopRequested'[a] /\ (wpc'[a] = "dequeue" => queue'[a] # <<>>)
  BY <1>1, <1>2, <1>6 DEF Finished, vars, StopSent
<1> QED
  BY <1>4, <1>5, <1>6 DEF Next

-----------------------------------------------------------------------------
(* The flow.                                                               *)

\* A stage of which a step touches neither the queue nor the numbers at its two ends.
LEMMA FlowUnmoved ==
  ASSUME NEW s \in Stages, Flow(s),
         queue'[s] = queue[s], last'[s] = last[s], last'[s - 1] = last[s - 1],
         wpc'[s] \in Body <=> wpc[s] \in Body,
         wpc[s] \in Body => task'[s] = task[s],
         StopSent(s) => StopSent(s)'
  PROVE  Flow(s)'
<1>1. Taken(s)' = Taken(s)
  BY DEF Taken
<1>2. Numbered(Taken(s), last[s - 1])' = Numbered(Taken(s), last[s - 1])
      /\ \A z \in Taken(s)..last[s - 1] :
            WithStop(Taken(s)', z, last'[s - 1]) = WithStop(Taken(s), z, last[s - 1])
  BY <1>1 DEF Numbered
<1> QED
  BY <1>1, <1>2 DEF Flow

\* A stage that is given the next number by the one in front of it.
LEMMA FlowGiven ==
  ASSUME NEW s \in Stages, Flow(s), TypeOK, AllFlow, last[s - 1] < N,
         queue'[s] = Append(queue[s], last[s - 1] + 1), last'[s - 1] = last[s - 1] + 1,
         last'[s] = last[s], wpc'[s] = wpc[s], task'[s] = task[s],
         StopSent(s) => StopSent(s)'
  PROVE  Flow(s)'
<1> USE PipelineAssumption
<1> DEFINE a == Taken(s)
           b == last[s - 1]
<1>1. a \in Nat /\ b \in a..N /\ b < N /\ Taken(s)' = a
  BY Monotone DEF Flow, Taken
<1>2. (wpc[s] \in Body => task[s] = last[s] + 1)' /\ Taken(s)' <= last'[s - 1]
  BY <1>1 DEF Flow
<1>3. CASE queue[s] = Numbered(a, b)
  <2>1. b \in a..b
    BY <1>1
  <2>2. queue'[s] = Numbered(a, b + 1)
    BY <1>1, <1>3, <2>1, TasksAppend
  <2> QED
    BY <1>1, <1>2, <2>2 DEF Flow
<1>4. CASE StopSent(s) /\ \E z \in a..b : queue[s] = WithStop(a, z, b)
  <2>1. PICK z \in a..b : queue[s] = WithStop(a, z, b)
    BY <1>4
  <2>2. queue'[s] = WithStop(a, z, b + 1)
    BY <1>1, <2>1, TasksAppend
  <2>3. z \in a..(b + 1)
    BY <1>1
  <2> QED
    BY <1>1, <1>2, <1>4, <2>2, <2>3 DEF Flow
<1> QED
  BY <1>3, <1>4 DEF Flow

\* The steps of run.
LEMMA MainFlow ==
  ASSUME TypeOK, Control, AllFlow, Main
  PROVE  AllFlow'
<1> USE PipelineAssumption
<1>1. SUFFICES ASSUME NEW s \in Stages PROVE Flow(s)'
  BY DEF AllFlow
<1>2. Flow(s) /\ s \in 1..3 /\ s \in AO /\ k \in 1..4
  <2>1. Flow(s) /\ k \in 1..4
    BY DEF AllFlow, TypeOK, AO
  <2> QED
    BY <2>1 DEF Stages, AO
<1>3. CASE Create
  <2>1. wpc[k] = "none"
    BY <1>2, <1>3 DEF Create, Control, AO
  <2>2. wpc'[s] \in Body <=> wpc[s] \in Body
    BY <1>2, <1>3, <2>1 DEF Create, TypeOK, Body
  <2> QED
    BY <1>2, <1>3, <2>2, FlowUnmoved DEF Create, history, StopSent
<1>4. CASE Generate
  BY <1>2, <1>4, FlowUnmoved DEF Generate, StopSent
<1>5. CASE EnqueueFirst
  <2>1. last[0] < N /\ ~ StopSent(s)
    BY <1>5 DEF EnqueueFirst, Control, StopSent
  <2>2. CASE s = 1
    <3>1. queue'[s] = Append(queue[s], last[s - 1] + 1) /\ last'[s - 1] = last[s - 1] + 1 /\ last'[s] = last[s]
      BY <1>2, <1>5, <2>2 DEF EnqueueFirst, Enqueue, TypeOK
    <3> QED
      BY <1>2, <1>5, <2>1, <2>2, <3>1, FlowGiven DEF EnqueueFirst
  <2>3. CASE s # 1
    <3>1. s - 1 \in 1..3 /\ s \in 0..3
      BY <1>2, <2>3
    <3>2. queue'[s] = queue[s] /\ last'[s - 1] = last[s - 1] /\ last'[s] = last[s]
      BY <1>2, <1>5, <2>3, <3>1 DEF EnqueueFirst, Enqueue, TypeOK
    <3> QED
      BY <1>2, <1>5, <2>1, <3>2, FlowUnmoved DEF EnqueueFirst
  <2> QED
    BY <2>2, <2>3
<1>6. CASE EndOfLoop
  BY <1>2, <1>6, FlowUnmoved DEF EndOfLoop, history, StopSent
<1>7. CASE SetStop
  BY <1>2, <1>7, FlowUnmoved DEF SetStop, history, StopSent
<1>8. CASE WakeStop
  <2>1. s <= k => StopSent(s)'
    BY <1>2, <1>8 DEF WakeStop, NextAO, StopSent
  <2>2. StopSent(s) => s < k
    BY <1>8 DEF WakeStop, StopSent
  <2>3. CASE s # k
    <3>1. queue'[s] = queue[s]
      BY <1>2, <1>8, <2>3 DEF WakeStop, Enqueue, TypeOK
    <3> QED
      BY <1>2, <1>8, <2>1, <2>2, <3>1, FlowUnmoved DEF WakeStop, history
  <2>4. CASE s = k
    <3> DEFINE a == Taken(s)
               b == last[s - 1]
    <3>1. a \in Nat /\ b \in a..N /\ b \in a..b
      BY <1>2, Monotone DEF Flow
    <3>2. queue[s] = Numbered(a, b)
      BY <1>2, <2>2, <2>4 DEF Flow
    <3>3. queue'[s] = Append(queue[s], NoNumber)
      BY <1>2, <1>8, <2>4 DEF WakeStop, Enqueue, TypeOK
    <3>4. queue'[s] = WithStop(a, b, b)
      <4> HIDE DEF a, b
      <4> QED
        BY <3>1, <3>2, <3>3, TasksAppend
    <3>5. Taken(s)' = a /\ last'[s - 1] = b /\ wpc' = wpc /\ task' = task /\ last' = last
      BY <1>8 DEF WakeStop, history, Taken
    <3> QED
      BY <1>2, <2>1, <2>4, <3>1, <3>4, <3>5 DEF Flow
  <2> QED
    BY <2>3, <2>4
<1>9. CASE Join
  BY <1>2, <1>9, FlowUnmoved DEF Join, NextAO, history, StopSent
<1> QED
  BY <1>3, <1>4, <1>5, <1>6, <1>7, <1>8, <1>9 DEF Main

\* A thread that takes a task takes the one that its stage waits for.
LEMMA DequeueFlow ==
  ASSUME TypeOK, AllFlow, NEW s \in Stages, Dequeue(s)
  PROVE  Flow(s)'
<1> USE PipelineAssumption
<1> DEFINE a == last[s]
           b == last[s - 1]
<1>1. Flow(s) /\ s \in AO /\ a \in Nat /\ b \in a..N /\ Taken(s) = a
  <2>1. wpc[s] \notin Body
    BY DEF Dequeue, At, Body
  <2>2. last[s] \in 0..N /\ last[s - 1] \in 0..N /\ last[s] <= last[s - 1]
    BY Monotone
  <2> QED
    BY <2>1, <2>2 DEF AllFlow, Stages, AO, Taken
<1>2. /\ queue[s] # <<>> /\ queue'[s] = Tail(queue[s]) /\ task'[s] = Head(queue[s])
      /\ wpc'[s] = IF Head(queue[s]) = NoNumber THEN "check" ELSE "print"
      /\ last' = last /\ (StopSent(s) => StopSent(s)')
  BY <1>1 DEF Dequeue, Goto, TypeOK, history, StopSent
<1>3. wpc'[s] \in Body <=> Head(queue[s]) # NoNumber
  BY <1>2 DEF Body
<1>4. Taken(s)' = IF Head(queue[s]) = NoNumber THEN a ELSE a + 1
  BY <1>1, <1>2, <1>3 DEF Taken
<1>5. CASE queue[s] = Numbered(a, b)
  <2>1. a < b
    BY <1>1, <1>2, <1>5, TasksHead
  <2>2. Head(queue[s]) = a + 1 /\ queue'[s] = Numbered(a + 1, b)
    BY <1>1, <1>2, <1>5, <2>1, TasksHead
  <2>3. Taken(s)' = a + 1 /\ a + 1 <= b /\ task'[s] = a + 1
    BY <1>1, <1>2, <1>4, <2>1, <2>2 DEF NoNumber
  <2> QED
    BY <1>2, <2>2, <2>3 DEF Flow
<1>6. CASE StopSent(s) /\ \E z \in a..b : queue[s] = WithStop(a, z, b)
  <2>1. PICK z \in a..b : queue[s] = WithStop(a, z, b)
    BY <1>6
  <2>2. CASE z = a
    <3>1. Head(WithStop(a, z, b)) = NoNumber /\ Tail(WithStop(a, z, b)) = Numbered(a, b)
      BY <1>1, <2>2, TasksHead
    <3>2. Head(queue[s]) = NoNumber /\ queue'[s] = Numbered(a, b)
      BY <1>2, <2>1, <3>1
    <3> QED
      BY <1>1, <1>2, <1>3, <1>4, <3>2 DEF Flow
  <2>3. CASE z > a
    <3>0. Head(WithStop(a, z, b)) = a + 1 /\ Tail(WithStop(a, z, b)) = WithStop(a + 1, z, b)
      BY <1>1, <2>3, TasksHead
    <3>1. Head(queue[s]) = a + 1 /\ queue'[s] = WithStop(a + 1, z, b)
      BY <1>2, <2>1, <3>0
    <3>2. Taken(s)' = a + 1 /\ a + 1 <= b /\ task'[s] = a + 1 /\ z \in (a + 1)..b
      BY <1>1, <1>2, <1>4, <2>3, <3>1 DEF NoNumber
    <3> QED
      BY <1>2, <1>6, <3>1, <3>2 DEF Flow
  <2> QED
    BY <1>1, <2>2, <2>3
<1> QED
  BY <1>1, <1>5, <1>6 DEF Flow

\* The steps of the threads.
LEMMA WorkerFlow ==
  ASSUME TypeOK, Control, AllFlow, NEW x \in AO, Worker(x)
  PROVE  AllFlow'
<1> USE PipelineAssumption
<1>1. SUFFICES ASSUME NEW s \in Stages PROVE Flow(s)'
  BY DEF AllFlow
<1>2. Flow(s) /\ s \in 1..3 /\ s \in AO /\ s - 1 \in 0..3 /\ s \in 0..3
  <2>1. Flow(s)
    BY DEF AllFlow
  <2> QED
    BY <2>1 DEF Stages, AO
<1>3. StopSent(s) => StopSent(s)'
  BY DEF StopSent, Worker, Dequeue, Check, Stage, PrintNumber, PrintPrime, Load, Store, Pass, Reprint
<1>4. ASSUME Dequeue(x) PROVE Flow(s)'
  <2>1. CASE x = s
    BY <1>4, <2>1, DequeueFlow
  <2>2. CASE x # s
    BY <1>2, <1>3, <1>4, <2>2, FlowUnmoved DEF Dequeue, Goto, TypeOK, history
  <2> QED
    BY <2>1, <2>2
<1>5. ASSUME Check(x) PROVE Flow(s)'
  <2>1. wpc'[s] \in Body <=> wpc[s] \in Body
    BY <1>2, <1>5 DEF Check, At, Goto, TypeOK, Body
  <2>2. wpc[s] \in Body => task'[s] = task[s]
    BY <1>2, <1>5 DEF Check, At, TypeOK, Body
  <2> QED
    BY <1>2, <1>3, <1>5, <2>1, <2>2, FlowUnmoved DEF Check, history
<1>6. ASSUME x \in Stages, PrintNumber(x) \/ PrintPrime(x) \/ Load(x) \/ Store(x) PROVE Flow(s)'
  <2>1. wpc'[s] \in Body <=> wpc[s] \in Body
    BY <1>2, <1>6 DEF PrintNumber, PrintPrime, Load, Store, At, Goto, TypeOK, Body
  <2>2. queue' = queue /\ last' = last /\ task' = task
    BY <1>6 DEF PrintNumber, PrintPrime, Load, Store, history
  <2> QED
    BY <1>2, <1>3, <2>1, <2>2, FlowUnmoved
<1>7. ASSUME x \in Stages, Pass(x) PROVE Flow(s)'
  <2>1. task[x] = last[x] + 1 /\ last[x] < last[x - 1] /\ last[x] < N /\ last[x] \in Nat
    <3>1. wpc[x] \in Body
      BY <1>7 DEF Pass, At, Body
    <3> QED
      BY <1>7, <3>1, Monotone
  <2>2. x \in 1..2
    BY <1>7 DEF Pass, At, Control, Stages
  <2>3. queue' = [queue EXCEPT ![x + 1] = Append(@, last[x] + 1)]
        /\ last' = [last EXCEPT ![x] = last[x] + 1]
        /\ wpc' = [wpc EXCEPT ![x] = "check"] /\ task' = task
    BY <1>7, <2>1 DEF Pass, Enqueue, Goto
  <2>4. CASE s = x
    <3>1. s - 1 # x /\ s # x + 1
      BY <1>2, <2>4
    <3>2. /\ queue'[s] = queue[s] /\ last'[s] = last[s] + 1 /\ last'[s - 1] = last[s - 1]
          /\ wpc[s] \in Body /\ wpc'[s] \notin Body /\ task'[s] = task[s]
      BY <1>2, <1>7, <2>3, <2>4, <3>1 DEF Pass, At, TypeOK, Body
    <3>3. Taken(s)' = Taken(s)
      BY <2>1, <2>4, <3>2 DEF Taken
    <3> QED
      BY <1>2, <1>3, <3>2, <3>3 DEF Flow
  <2>5. CASE s = x + 1
    <3>1. /\ queue'[s] = Append(queue[s], last[s - 1] + 1) /\ last'[s] = last[s]
          /\ last'[s - 1] = last[s - 1] + 1 /\ wpc'[s] = wpc[s]
      <4>1. s # x /\ s - 1 = x
        BY <1>2, <2>2, <2>5
      <4> QED
        BY <1>2, <2>3, <2>5, <4>1 DEF TypeOK
    <3>2. last[s - 1] < N
      BY <2>1, <2>2, <2>5
    <3> QED
      BY <1>2, <1>3, <2>3, <3>1, <3>2, FlowGiven
  <2>6. CASE s # x /\ s # x + 1
    <3>1. s - 1 # x
      BY <1>2, <2>2, <2>6
    <3>2. queue'[s] = queue[s] /\ last'[s] = last[s] /\ last'[s - 1] = last[s - 1] /\ wpc'[s] = wpc[s]
      BY <1>2, <2>3, <2>6, <3>1 DEF TypeOK
    <3> QED
      BY <1>2, <1>3, <2>3, <3>2, FlowUnmoved
  <2> QED
    BY <2>4, <2>5, <2>6
<1>8. ASSUME x \in Stages, Reprint(x) PROVE Flow(s)'
  <2>1. x = 3 /\ wpc[x] \in Body
    BY <1>8 DEF Reprint, At, Control, Stages, Body
  <2>2. task[x] = last[x] + 1 /\ last[x] \in Nat
    BY <1>8, <2>1, Monotone
  <2>3. queue' = queue /\ last' = [last EXCEPT ![x] = last[x] + 1]
        /\ wpc' = [wpc EXCEPT ![x] = "check"] /\ task' = task
    BY <1>8, <2>2 DEF Reprint, Goto
  <2>4. last'[s - 1] = last[s - 1]
    BY <1>2, <2>1, <2>3 DEF TypeOK
  <2>5. CASE s = x
    <3>1. last'[s] = last[s] + 1 /\ wpc'[s] \notin Body
      BY <1>2, <2>3, <2>5 DEF TypeOK, Body
    <3>2. Taken(s)' = Taken(s)
      BY <2>1, <2>2, <2>5, <3>1 DEF Taken
    <3> QED
      BY <1>2, <1>3, <2>3, <2>4, <3>1, <3>2 DEF Flow
  <2>6. CASE s # x
    <3>1. last'[s] = last[s] /\ wpc'[s] = wpc[s]
      BY <1>2, <2>3, <2>6 DEF TypeOK
    <3> QED
      BY <1>2, <1>3, <2>3, <2>4, <3>1, FlowUnmoved
  <2> QED
    BY <2>5, <2>6
<1> QED
  BY <1>4, <1>5, <1>6, <1>7, <1>8 DEF Worker, Stage

-----------------------------------------------------------------------------
(* The number that is alone.                                               *)

\* A step that changes neither a number's place nor the cell nor a register.
LEMMA AloneUnmoved ==
  ASSUME Alone, UNCHANGED <<last, num, reg, overlapped>>, mpc' = "enqueue" => mpc = "enqueue",
         \A s \in Stages : /\ wpc'[s] \in {"pass", "reprint"} <=> wpc[s] \in {"pass", "reprint"}
                           /\ wpc'[s] = "store" => wpc[s] = "store"
  PROVE  Alone'
<1>1. AloneIsLast' /\ AloneAtFirst'
  BY DEF Alone, AloneIsLast, AloneAtFirst
<1>2. ASSUME NEW s \in Stages PROVE AloneAt(s)'
  BY DEF Alone, AloneAt
<1> QED
  BY <1>1, <1>2 DEF Alone

\* The steps of run: a number is generated alone when all before it are finished.
LEMMA MainAlone ==
  ASSUME TypeOK, Control, AllFlow, Alone, Main
  PROVE  Alone'
<1> USE PipelineAssumption
<1>1. last[0] \in 0..N /\ last[1] \in 0..last[0] /\ last[2] \in 0..last[1] /\ last[3] \in 0..last[2]
  BY Monotone
<1>2. \A s \in Stages : /\ last[s] \in 0..N /\ last[s - 1] \in 0..N
                        /\ last[3] <= last[s] /\ last[s] <= last[s - 1] /\ last[s - 1] <= last[0]
                        /\ wpc[s] \in Body => last[s] < last[s - 1]
  BY Monotone
<1>3. CASE Create
  <2>1. wpc[k] = "none" /\ wpc'[k] = "dequeue" /\ k \in AO /\ \A x \in AO : x # k => wpc'[x] = wpc[x]
    <3>1. k \in AO /\ k >= k
      BY DEF TypeOK, AO
    <3> QED
      BY <1>3, <3>1 DEF Create, Control, TypeOK
  <2>2. Stages \subseteq AO
    BY DEF Stages, AO
  <2> QED
    BY <1>3, <2>1, <2>2, AloneUnmoved DEF Create, NextAO, history
<1>4. CASE Generate
  <2>1. CASE Unfinished = {}
    <3>1. last[3] = last[0]
      <4>1. last[3] < last[0] => last[0] \in Unfinished
        BY <1>1 DEF Unfinished, Numbers
      <4> QED
        BY <1>1, <2>1, <4>1
    <3>2. last' = last /\ num' = Generated[last[0] + 1]
      BY <1>4 DEF Generate
    <3>3. AloneIsLast'
      BY <1>1, <3>1, <3>2 DEF AloneIsLast, Numbers
    <3>4. AloneAtFirst'
      BY <3>1, <3>2 DEF AloneAtFirst
    <3>5. \A s \in Stages : AloneAt(s)'
      BY <1>1, <3>1, <3>2 DEF AloneAt
    <3> QED
      BY <3>3, <3>4, <3>5 DEF Alone
  <2>2. CASE Unfinished # {}
    <3>1. last' = last /\ overlapped' = overlapped \cup Unfinished \cup {last[0] + 1}
      BY <1>4, <2>2 DEF Generate
    <3>2. AloneIsLast'
      BY <3>1 DEF AloneIsLast, Unfinished
    <3>3. AloneAtFirst'
      BY <3>1 DEF AloneAtFirst
    <3>4. ASSUME NEW s \in Stages PROVE AloneAt(s)'
      <4>1. last[3] = last[0] - 1 => last[0] \in Unfinished
        BY <1>1 DEF Unfinished, Numbers
      <4> QED
        BY <3>1, <4>1 DEF AloneAt
    <3> QED
      BY <3>2, <3>3, <3>4 DEF Alone
  <2> QED
    BY <2>1, <2>2
<1>5. CASE EnqueueFirst
  <2>1. /\ mpc = "enqueue" /\ mpc' = "generate" /\ last'[0] = last[0] + 1
        /\ last'[1] = last[1] /\ last'[2] = last[2] /\ last'[3] = last[3]
        /\ UNCHANGED <<num, reg, overlapped, wpc>>
    BY <1>5 DEF EnqueueFirst, TypeOK
  <2>2. last[0] + 1 \notin overlapped => last[3] = last[0] /\ num = Generated[last[0] + 1]
    BY <2>1 DEF Alone, AloneAtFirst
  <2>3. AloneIsLast'
    <3>1. SUFFICES ASSUME NEW n \in Numbers \ overlapped, last[3] < n, n <= last[0] + 1
                   PROVE  n = last[0] + 1 /\ last[3] = n - 1
      BY <2>1 DEF AloneIsLast
    <3>2. ~ n <= last[0]
      BY <2>1, <3>1 DEF Alone, AloneIsLast
    <3>3. n = last[0] + 1
      BY <1>1, <3>1, <3>2 DEF Numbers
    <3> QED
      BY <1>1, <2>2, <3>3
  <2>4. AloneAtFirst'
    BY <2>1 DEF AloneAtFirst
  <2>5. ASSUME NEW s \in Stages PROVE AloneAt(s)'
    <3>1. SUFFICES ASSUME last[0] + 1 \notin overlapped, last'[s - 1] = last[0] + 1
                   PROVE  /\ num = Generated[last[0] + 1] + Finds[s]
                                     + IF wpc[s] \in {"pass", "reprint"} THEN Adds[s] ELSE 0
                          /\ wpc[s] # "store"
      BY <2>1 DEF AloneAt
    <3>2. s = 1
      <4>1. s = 1 \/ (s = 2 /\ s - 1 = 1) \/ (s = 3 /\ s - 1 = 2)
        BY DEF Stages
      <4> QED
        BY <1>1, <2>1, <3>1, <4>1
    <3>3. wpc[1] \notin Body
      BY <1>1, <1>2, <2>2, <3>1, <3>2
    <3>4. num = Generated[last[0] + 1] /\ Generated[last[0] + 1] \in Nat
      <4>1. last[0] + 1 \in 1..N
        BY <1>1, <2>1 DEF Control
      <4> QED
        BY <2>2, <3>1, <4>1
    <3> QED
      BY <3>2, <3>3, <3>4 DEF Body, Finds
  <2> QED
    BY <2>3, <2>4, <2>5 DEF Alone
<1>6. CASE EndOfLoop
  BY <1>6, AloneUnmoved DEF EndOfLoop, history
<1>7. CASE SetStop
  BY <1>7, AloneUnmoved DEF SetStop, history
<1>8. CASE WakeStop
  BY <1>8, AloneUnmoved DEF WakeStop, NextAO, history
<1>9. CASE Join
  BY <1>9, AloneUnmoved DEF Join, NextAO, history
<1> QED
  BY <1>3, <1>4, <1>5, <1>6, <1>7, <1>8, <1>9 DEF Main

\* A stage with a number in hand that was alone so far has it all to itself: the
\* number is the last one, and the stage is the next one to pass it on.
LEMMA AloneInHand ==
  ASSUME TypeOK, Control, AllFlow, Alone, NEW s \in Stages, wpc[s] \in Body,
         task[s] \notin overlapped
  PROVE  /\ task[s] = last[0] /\ task[s] \in Numbers
         /\ num = Generated[task[s]] + Finds[s] + IF wpc[s] \in {"pass", "reprint"} THEN Adds[s] ELSE 0
         /\ wpc[s] = "store" => reg[s] = num
<1>1. /\ last[s] \in 0..N /\ last[s - 1] \in 0..N /\ last[0] \in 0..N /\ last[3] \in 0..N
      /\ last[3] <= last[s] /\ last[s] < last[s - 1] /\ last[s - 1] <= last[0]
      /\ task[s] = last[s] + 1 /\ task[s] \in Numbers
  <2>1. last[0] \in 0..N /\ last[3] \in 0..N
    BY DEF TypeOK
  <2> QED
    BY <2>1, Monotone
<1>2. /\ last[s] \in Nat /\ last[s - 1] \in Nat /\ last[0] \in Nat /\ last[3] \in Nat
      /\ last[3] < task[s] /\ task[s] <= last[0]
  <2>1. \A i \in 0..N : i \in Nat
    BY PipelineAssumption
  <2>2. /\ last[s] \in Nat /\ last[s - 1] \in Nat /\ last[0] \in Nat /\ last[3] \in Nat
    BY <1>1, <2>1
  <2> QED
    BY <1>1, <2>2
<1>3. task[s] = last[0] /\ last[3] = task[s] - 1
  BY <1>1, <1>2 DEF Alone, AloneIsLast
<1>4. last[3] = last[0] - 1 /\ last[s - 1] = last[0] /\ last[s] = last[3]
  BY <1>1, <1>2, <1>3
<1>5. AloneAt(s)
  BY DEF Alone
<1> QED
  BY <1>1, <1>3, <1>4, <1>5 DEF AloneAt

\* A stage that stores has a number in hand; if another number is alone, it is
\* somewhere else, which cannot be.
LEMMA StoreAlone ==
  ASSUME TypeOK, Control, AllFlow, Alone, NEW x \in Stages, Store(x)
  PROVE  Alone'
<1> USE PipelineAssumption
<1>1. last[0] \in 0..N /\ last[1] \in 0..last[0] /\ last[2] \in 0..last[1] /\ last[3] \in 0..last[2]
  BY Monotone
<1>2. /\ wpc[x] = "store" /\ wpc[x] \in Body /\ num' = reg[x] + Adds[x]
      /\ wpc' = [wpc EXCEPT ![x] = IF x < 3 THEN "pass" ELSE "reprint"]
      /\ UNCHANGED <<last, overlapped, mpc>>
  BY DEF Store, At, Goto, Body, history
<1>3. last[x] < last[x - 1] /\ last[3] <= last[x] /\ last[x - 1] <= last[0]
  BY <1>2, Monotone
<1>4. AloneIsLast'
  BY <1>2 DEF Alone, AloneIsLast
<1>5. AloneAtFirst'
  <2>1. last[3] # last[0]
    BY <1>1, <1>3, Monotone
  <2> QED
    BY <1>2, <2>1 DEF Alone, AloneAtFirst
<1>6. ASSUME NEW s \in Stages PROVE AloneAt(s)'
  <2>1. SUFFICES ASSUME last[0] \notin overlapped, last[3] = last[0] - 1,
                        last[s - 1] = last[0], last[s] = last[3]
                 PROVE  /\ num' = Generated[last[0]] + Finds[s]
                                   + IF wpc'[s] \in {"pass", "reprint"} THEN Adds[s] ELSE 0
                        /\ wpc'[s] # "store"
    BY <1>2 DEF AloneAt
  <2>2. (s = 1 \/ s = 2 \/ s = 3) /\ (x = 1 \/ x = 2 \/ x = 3)
    BY DEF Stages
  <2>3. s = x
    BY <1>1, <1>3, <2>1, <2>2
  <2>4. wpc'[s] \in {"pass", "reprint"}
    <3>1. x \in AO
      BY <2>2 DEF AO
    <3> QED
      BY <1>2, <2>3, <3>1 DEF TypeOK
  <2>5. reg[x] = num /\ num = Generated[last[0]] + Finds[x]
    <3>1. num = Generated[last[0]] + Finds[s] + 0 /\ reg[s] = num
      BY <1>2, <2>1, <2>3 DEF Alone, AloneAt
    <3>2. Generated[last[0]] \in Nat /\ Finds[s] \in Int
      <4>1. last[0] \in 1..N
        BY <1>1, <2>1
      <4> QED
        BY <2>2, <4>1 DEF Finds
    <3> QED
      BY <2>3, <3>1, <3>2
  <2> QED
    BY <1>2, <2>3, <2>4, <2>5
<1> QED
  BY <1>4, <1>5, <1>6 DEF Alone

\* A number that is passed on takes the right value with it.
LEMMA PassAlone ==
  ASSUME TypeOK, Control, AllFlow, Alone, NEW x \in Stages, Pass(x)
  PROVE  Alone'
<1> USE PipelineAssumption
<1>1. last[0] \in 0..N /\ last[1] \in 0..last[0] /\ last[2] \in 0..last[1] /\ last[3] \in 0..last[2]
  BY Monotone
<1>2. /\ wpc[x] = "pass" /\ wpc[x] \in Body
      /\ wpc' = [wpc EXCEPT ![x] = "check"]
      /\ UNCHANGED <<num, reg, overlapped, mpc>>
  BY DEF Pass, At, Goto, Body
<1>3. last[x] < last[x - 1] /\ task[x] = last[x] + 1 /\ last[x] \in 0..N /\ last[x - 1] \in 0..N
  BY <1>2, Monotone
<1>4. x = 1 \/ x = 2
  BY <1>2 DEF Stages, Control
<1>5. last'[x] = last[x] + 1 /\ \A y \in 0..3 : y # x => last'[y] = last[y]
  BY <1>3, <1>4 DEF Pass, TypeOK
<1>6. last'[3] = last[3] /\ last'[0] = last[0]
  BY <1>4, <1>5
<1>7. AloneIsLast' /\ AloneAtFirst'
  BY <1>2, <1>6 DEF Alone, AloneIsLast, AloneAtFirst
<1>8. ASSUME NEW s \in Stages PROVE AloneAt(s)'
  <2>1. SUFFICES ASSUME last[0] \notin overlapped, last[3] = last[0] - 1,
                        last'[s - 1] = last[0], last'[s] = last[3]
                 PROVE  /\ num = Generated[last[0]] + Finds[s]
                                   + IF wpc'[s] \in {"pass", "reprint"} THEN Adds[s] ELSE 0
                        /\ wpc'[s] = "store" => reg[s] = num
    BY <1>2, <1>6 DEF AloneAt
  <2>2. s = 1 \/ s = 2 \/ s = 3
    BY DEF Stages
  <2>3. s # x
    BY <1>1, <1>3, <1>4, <1>5, <2>1
  <2>4. CASE s = x + 1
    <3>1. last[x] = last[0] - 1 /\ last[x - 1] = last[0]
      <4>1. s - 1 = x /\ last'[x] = last[0]
        BY <1>4, <2>1, <2>4
      <4>2. last[x] = last[0] - 1
        BY <1>1, <1>4, <1>5, <4>1
      <4> QED
        BY <1>1, <1>3, <1>4, <4>2
    <3>2. num = Generated[last[0]] + Finds[x] + Adds[x]
      BY <1>2, <2>1, <3>1 DEF Alone, AloneAt
    <3>3. Finds[x] + Adds[x] = Finds[s] /\ Finds[x] \in Int /\ Adds[x] \in Int
      BY <1>4, <2>4 DEF Finds, Adds
    <3>4. Generated[last[0]] \in Nat
      BY <1>1, <2>1
    <3>5. num = Generated[last[0]] + Finds[s]
      BY <3>2, <3>3, <3>4
    <3>6. wpc[s] \notin Body /\ wpc'[s] = wpc[s]
      <4>1. last[s] = last[3] /\ last[s - 1] = last[x]
        BY <1>4, <1>5, <2>1, <2>4
      <4>2. ~ last[s] < last[s - 1]
        BY <1>1, <2>1, <3>1, <4>1
      <4>3. wpc[s] \notin Body
        BY <4>2, Monotone
      <4> QED
        BY <1>2, <2>3, <4>3 DEF TypeOK
    <3> QED
      BY <3>3, <3>4, <3>5, <3>6 DEF Body
  <2>5. CASE s # x + 1
    <3>1. last[s - 1] = last'[s - 1] /\ last[s] = last'[s]
      BY <1>4, <1>5, <2>2, <2>3, <2>5
    <3>2. CASE x = 1
      <4>1. s = 3 /\ last[2] = last[0]
        BY <2>1, <2>2, <2>3, <2>5, <3>1, <3>2
      <4> QED
        BY <1>1, <1>3, <3>2, <4>1
    <3>3. CASE x = 2
      <4>1. s = 1 /\ last[1] = last[3]
        BY <2>1, <2>2, <2>3, <2>5, <3>1, <3>3
      <4> QED
        BY <1>1, <1>3, <3>3, <4>1
    <3> QED
      BY <1>4, <3>2, <3>3
  <2> QED
    BY <2>4, <2>5
<1> QED
  BY <1>7, <1>8 DEF Alone

\* After its last print a number is finished.
LEMMA ReprintAlone ==
  ASSUME TypeOK, Control, AllFlow, Alone, NEW x \in Stages, Reprint(x)
  PROVE  Alone'
<1> USE PipelineAssumption
<1>1. last[0] \in 0..N /\ last[1] \in 0..last[0] /\ last[2] \in 0..last[1] /\ last[3] \in 0..last[2]
  BY Monotone
<1>2. x = 3 /\ wpc[x] \in Body /\ UNCHANGED <<overlapped, mpc, num, reg>>
  BY DEF Reprint, At, Control, Stages, Body
<1>3. task[3] = last[3] + 1 /\ last[3] < last[2]
  <2>1. 3 - 1 = 2
    OBVIOUS
  <2> QED
    BY <1>2, <2>1, Monotone
<1>4. last'[3] = last[3] + 1 /\ last'[0] = last[0]
  BY <1>2, <1>3 DEF Reprint, TypeOK
<1>5. AloneIsLast'
  <2>1. last[0] \in Nat /\ last[3] \in Nat
    BY <1>1
  <2>2. SUFFICES ASSUME NEW n \in Numbers \ overlapped, last[3] + 1 < n, n <= last[0]
                 PROVE  FALSE
    BY <1>2, <1>4 DEF AloneIsLast
  <2>3. n \in Nat /\ last[3] < n
    BY <2>1, <2>2 DEF Numbers
  <2>4. last[3] = n - 1
    BY <2>2, <2>3 DEF Alone, AloneIsLast
  <2> QED
    BY <2>1, <2>2, <2>3, <2>4
<1>6. AloneAtFirst'
  BY <1>1, <1>2, <1>3, <1>4 DEF Alone, AloneAtFirst
<1>7. ASSUME NEW s \in Stages PROVE AloneAt(s)'
  <2>1. last[3] + 1 = last[0] - 1 => last[0] \in overlapped
    <3>1. SUFFICES ASSUME last[3] + 1 = last[0] - 1, last[0] \notin overlapped PROVE FALSE
      OBVIOUS
    <3>2. last[0] \in Numbers /\ last[3] < last[0] /\ last[3] # last[0] - 1
      BY <1>1, <3>1 DEF Numbers
    <3> QED
      BY <1>1, <3>1, <3>2 DEF Alone, AloneIsLast
  <2> QED
    BY <1>2, <1>4, <2>1 DEF AloneAt
<1> QED
  BY <1>5, <1>6, <1>7 DEF Alone

\* The steps of the threads.
LEMMA WorkerAlone ==
  ASSUME TypeOK, Control, AllFlow, Alone, NEW x \in AO, Worker(x)
  PROVE  Alone'
<1>1. Stages \subseteq AO
  BY DEF Stages, AO
<1>2. CASE Dequeue(x)
  BY <1>1, <1>2, AloneUnmoved DEF Dequeue, At, Goto, TypeOK, history
<1>3. CASE Check(x)
  BY <1>1, <1>3, AloneUnmoved DEF Check, At, Goto, TypeOK, history
<1>4. CASE x \in Stages /\ (PrintNumber(x) \/ PrintPrime(x))
  BY <1>1, <1>4, AloneUnmoved DEF PrintNumber, PrintPrime, At, Goto, TypeOK
<1>5. CASE x \in Stages /\ Load(x)
  <2>1. /\ UNCHANGED <<num, last, overlapped, mpc>> /\ reg' = [reg EXCEPT ![x] = num]
        /\ wpc' = [wpc EXCEPT ![x] = "store"] /\ wpc[x] = "load"
    BY <1>5 DEF Load, At, Goto, history
  <2>2. AloneIsLast' /\ AloneAtFirst'
    BY <2>1 DEF Alone, AloneIsLast, AloneAtFirst
  <2>3. ASSUME NEW s \in Stages PROVE AloneAt(s)'
    BY <1>1, <2>1 DEF Alone, AloneAt, TypeOK
  <2> QED
    BY <2>2, <2>3 DEF Alone
<1>6. CASE x \in Stages /\ Store(x)
  BY <1>6, StoreAlone
<1>7. CASE x \in Stages /\ Pass(x)
  BY <1>7, PassAlone
<1>8. CASE x \in Stages /\ Reprint(x)
  BY <1>8, ReprintAlone
<1> QED
  BY <1>2, <1>3, <1>4, <1>5, <1>6, <1>7, <1>8 DEF Worker, Stage

-----------------------------------------------------------------------------
(* What is wrong.                                                          *)

\* A stage that uses a wrong value works on a number that was not alone.
LEMMA ExactStep ==
  ASSUME TypeOK, Control, AllFlow, Alone, AloneIsExact, Next
  PROVE  AloneIsExact'
<1> USE PipelineAssumption
<1>1. wrong \subseteq overlapped
  BY DEF AloneIsExact
<1>2. overlapped \subseteq overlapped'
  BY DEF Next, Main, Create, Generate, EnqueueFirst, EndOfLoop, SetStop, WakeStop, Join, history,
         Worker, Dequeue, Check, Stage, PrintNumber, PrintPrime, Load, Store, Pass, Reprint,
         Finished, vars
<1>3. ASSUME NEW s \in Stages, PrintNumber(s) \/ PrintPrime(s) \/ Reprint(s) PROVE wrong' \subseteq overlapped
  <2>1. SUFFICES ASSUME task[s] \notin overlapped PROVE wrong' = wrong
    BY <1>1, <1>3 DEF PrintNumber, PrintPrime, Reprint, Use
  <2>2. wpc[s] \in Body
    BY <1>3 DEF PrintNumber, PrintPrime, Reprint, At, Body
  <2>3. /\ num = Generated[task[s]] + Finds[s] + IF wpc[s] \in {"pass", "reprint"} THEN Adds[s] ELSE 0
        /\ task[s] \in Numbers
    BY <2>1, <2>2, AloneInHand
  <2>4. Generated[task[s]] \in Nat /\ Finds[s] \in Int /\ Finds[3] + Adds[3] = 0 /\ Adds[s] \in Int
    <3>1. s = 1 \/ s = 2 \/ s = 3
      BY DEF Stages
    <3>2. Finds[s] \in Int /\ Finds[3] + Adds[3] = 0 /\ Adds[s] \in Int
      BY <3>1 DEF Finds, Adds
    <3> QED
      BY <2>3, <3>2 DEF Numbers
  <2>5. CASE PrintNumber(s) \/ PrintPrime(s)
    <3>1. num = Generated[task[s]] + Finds[s]
      BY <2>3, <2>4, <2>5 DEF PrintNumber, PrintPrime, At
    <3> QED
      BY <2>5, <3>1 DEF PrintNumber, PrintPrime, Use
  <2>6. CASE Reprint(s)
    <3>1. s = 3
      BY <2>6 DEF Reprint, At, Control, Stages
    <3>2. num = Generated[task[s]] + 0
      BY <2>3, <2>4, <2>6, <3>1 DEF Reprint, At
    <3> QED
      BY <2>6, <3>2 DEF Reprint, Use
  <2> QED
    BY <1>3, <2>5, <2>6
<1>4. CASE \E s \in Stages : PrintNumber(s) \/ PrintPrime(s) \/ Reprint(s)
  BY <1>2, <1>3, <1>4 DEF AloneIsExact
<1>5. CASE ~ \E s \in Stages : PrintNumber(s) \/ PrintPrime(s) \/ Reprint(s)
  <2>1. wrong' = wrong
    BY <1>5 DEF Next, Main, Create, Generate, EnqueueFirst, EndOfLoop, SetStop, WakeStop, Join, history,
                Worker, Dequeue, Check, Stage, Load, Store, Pass, Finished, vars
  <2> QED
    BY <1>1, <1>2, <2>1 DEF AloneIsExact
<1> QED
  BY <1>4, <1>5

-----------------------------------------------------------------------------
(* The theorems.                                                           *)

\* Every step keeps the invariant.
LEMMA NextInv == IInv /\ [Next]_vars => IInv'
<1> SUFFICES ASSUME IInv, [Next]_vars PROVE IInv'
  OBVIOUS
<1> USE DEF IInv
<1>1. CASE Main
  BY <1>1, MainType, StopStep, MainFlow, MainAlone, ExactStep DEF Next
<1>2. CASE \E a \in AO : Worker(a)
  BY <1>2, WorkerType, StopStep, WorkerFlow, WorkerAlone, ExactStep DEF Next
<1>3. CASE UNCHANGED vars
  <2>1. TypeOK' /\ Control'
    BY <1>3 DEF vars, TypeOK, Control
  <2>2. StopNotMissed'
    BY <1>3 DEF vars, StopNotMissed, StopSent, At
  <2>3. AllFlow'
    BY <1>3, FlowUnmoved DEF vars, AllFlow, StopSent
  <2>4. Alone' /\ AloneIsExact'
    BY <1>3, AloneUnmoved DEF vars, AloneIsExact
  <2> QED
    BY <2>1, <2>2, <2>3, <2>4
<1> QED
  BY <1>1, <1>2, <1>3 DEF Next, Finished

\* IInv, from which the four invariants of the runs follow.
THEOREM Invariance == Spec => []IInv
<1>1. Init => IInv
  BY InitInv
<1>2. IInv /\ [Next]_vars => IInv'
  BY NextInv
<1> QED
  BY <1>1, <1>2, PTL DEF Spec

\* Every variable keeps its type.
THEOREM TypeCorrect == Spec => []TypeOK
<1>1. IInv => TypeOK
  BY DEF IInv
<1> QED
  BY <1>1, Invariance, PTL

\* No active object waits for a task after stop() has returned (ActiveObject.hpp:29-43).
THEOREM StopIsSeen == Spec => []StopNotMissed
<1>1. IInv => StopNotMissed
  BY DEF IInv
<1> QED
  BY <1>1, Invariance, PTL

\* Between two stages no number is lost, duplicated or overtaken (StPipeline.hpp:40-59).
THEOREM KeepsNumbers == Spec => []NothingLost
<1>1. IInv => NothingLost
  BY FlowIsNothingLost DEF IInv
<1> QED
  BY <1>1, Invariance, PTL

\* A number that is alone in the pipeline is right at every stage, in spite of the
\* shared cell (StPipeline.hpp:37-56).
THEOREM AloneIsRight == Spec => []AloneIsExact
<1>1. IInv => AloneIsExact
  BY DEF IInv
<1> QED
  BY <1>1, Invariance, PTL

\* The pipeline implements OrderedStages: generating a number is Generate, passing it
\* on or printing it for the last time is Handle, and every other step is a stutter.
THEOREM Implements == Spec => ImplementsStages
<1>1. Init => Ordered!StagesInit
  BY DEF Init, Ordered!StagesInit
<1>2. ASSUME IInv, [Next]_vars PROVE [Ordered!StagesNext]_last
  <2> USE <1>2, PipelineAssumption DEF IInv
  <2>1. CASE EnqueueFirst
    <3>1. Ordered!Generate
      <4>1. last[0] < N /\ last' = [last EXCEPT ![0] = last[0] + 1]
        BY <2>1 DEF EnqueueFirst, Control
      <4> QED
        BY <4>1 DEF Ordered!Generate
    <3> QED
      BY <3>1 DEF Ordered!StagesNext
  <2>2. ASSUME NEW s \in Stages, Pass(s) \/ Reprint(s) PROVE Ordered!Handle(s)
    <3>1. wpc[s] \in Body
      BY <2>2 DEF Pass, Reprint, At, Body
    <3>2. task[s] = last[s] + 1 /\ last[s] < last[s - 1]
      BY <3>1, Monotone
    <3> QED
      BY <2>2, <3>2 DEF Pass, Reprint, Ordered!Handle
  <2>3. CASE \E s \in Stages : Pass(s) \/ Reprint(s)
    BY <2>2, <2>3 DEF Ordered!StagesNext, Stages
  <2>4. CASE ~ EnqueueFirst /\ ~ \E s \in Stages : Pass(s) \/ Reprint(s)
    <3>1. UNCHANGED last
      BY <2>4 DEF Next, Main, Create, Generate, EndOfLoop, SetStop, WakeStop, Join, history,
                  Worker, Dequeue, Check, Stage, PrintNumber, PrintPrime, Load, Store, Finished, vars
    <3> QED
      BY <3>1
  <2> QED
    BY <2>1, <2>3, <2>4
<1> QED
  BY <1>1, <1>2, Invariance, PTL DEF Spec, ImplementsStages, Ordered!StagesSpec

-----------------------------------------------------------------------------
(* isPrime, which each stage's task runs on num.                           *)

\* The product of two numbers above r is above x.
LEMMA SmallFactor ==
  ASSUME NEW x \in Nat, NEW r \in Nat, IsRoot(r, x), NEW a \in Nat, NEW b \in Nat,
         a > r, b > r
  PROVE  a * b > x
<1>1. a * b >= (r + 1) * b
  OBVIOUS
<1>2. (r + 1) * b >= (r + 1) * (r + 1)
  OBVIOUS
<1> QED BY <1>1, <1>2 DEF IsRoot

\* Trial division up to the root of x finds out whether x is a prime, also at the
\* squares of primes (PrimeCheck.hpp:6-23).
THEOREM IsPrimeCorrect ==
  ASSUME NEW x \in Nat, NEW r \in Nat, IsRoot(r, x)
  PROVE  isPrime(x, r) <=> Prime(x)
<1>1. ASSUME x > 1, ~Prime(x) PROVE ~isPrime(x, r)
  <2>1. PICK a \in 2..x, b \in 2..x : a * b = x
    BY <1>1 DEF Prime
  <2>2. PICK d \in 2..r : \E q \in Nat : x = d * q
    <3>1. a <= r \/ b <= r
      BY <2>1, SmallFactor
    <3>2. CASE a <= r
      BY <2>1, <3>2
    <3>3. CASE b <= r
      <4>1. x = b * a
        BY <2>1
      <4> QED BY <4>1, <3>3
    <3> QED BY <3>1, <3>2, <3>3
  <2>3. x % d = 0
    BY <2>2
  <2> QED BY <2>2, <2>3 DEF isPrime
<1>2. ASSUME x > 1, ~isPrime(x, r) PROVE ~Prime(x)
  <2>1. PICK d \in 2..r : x % d = 0
    BY <1>2 DEF isPrime
  <2>2. x = d * (x \div d) /\ x \div d \in Nat
    BY <2>1
  <2>3. r < x
    BY <1>2 DEF IsRoot
  <2>4. x \div d >= 2
    BY <2>1, <2>2, <2>3
  <2>5. x \div d <= x
    BY <2>1, <2>2
  <2> QED BY <1>2, <2>1, <2>2, <2>3, <2>4, <2>5 DEF Prime
<1>3. isPrime(x, r) => x > 1
  BY DEF isPrime
<1>4. Prime(x) => x > 1
  BY DEF Prime
<1> QED BY <1>1, <1>2, <1>3, <1>4
=============================================================================
