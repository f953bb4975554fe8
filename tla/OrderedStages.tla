---------------------------- MODULE OrderedStages ----------------------------
(***************************************************************************)
(* What the pipeline of Assignment-5 promises about the passage of its     *)
(* numbers, whatever the schedule: the numbers 1..N are generated in order *)
(* and each of the three stages handles them in that order, none twice,    *)
(* none skipped, and none before the stage in front of it.  It does not    *)
(* promise that a stage handles them all.                                  *)
(***************************************************************************)
EXTENDS Naturals

CONSTANT N          \* how many numbers there are

VARIABLE last       \* [0..3 -> 0..N]: the number each stage handled last;
                    \* stage 0 is the generation of the numbers

StagesInit == last = [k \in 0..3 |-> 0]

Generate == /\ last[0] < N
            /\ last' = [last EXCEPT ![0] = @ + 1]

Handle(k) == /\ last[k] < last[k - 1]
             /\ last' = [last EXCEPT ![k] = @ + 1]

StagesNext == Generate \/ \E k \in 1..3 : Handle(k)

StagesSpec == StagesInit /\ [][StagesNext]_last
=============================================================================
