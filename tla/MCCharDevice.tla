---------------------------- MODULE MCCharDevice ----------------------------
(***************************************************************************)
(* CharDevice on two words of two bytes: enough for a write of one word,   *)
(* of a tail, across the two words, and of the whole page.                 *)
(***************************************************************************)
EXTENDS CharDevice, TLC

MCKeys == {[j \in 0..1 |-> j = 0], [j \in 0..1 |-> TRUE]}
MCSymmetry == Permutations(Procs)
=============================================================================
