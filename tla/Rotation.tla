-------------------------------- MODULE Rotation --------------------------------
(***************************************************************************)
(* What the page sequence promises: a text that grows at its end, and one  *)
(* reader that takes its pieces in turn, beginning again after the last.   *)
(***************************************************************************)
EXTENDS Integers, Sequences

CONSTANT Data

VARIABLES text,  \* the pieces
          at,    \* the piece that is read next, 0 when there is none
          out    \* the piece that was read last

Init == text = <<>> /\ at = 0 /\ out \in Data

Write(d) == /\ text' = Append(text, d)
            /\ at' = IF at = 0 THEN 1 ELSE at
            /\ UNCHANGED out

Read == /\ at # 0
        /\ out' = text[at]
        /\ at' = IF at = Len(text) THEN 1 ELSE at + 1
        /\ UNCHANGED text

Clear == text' = <<>> /\ at' = 0 /\ UNCHANGED out

Next == Read \/ Clear \/ \E d \in Data : Write(d)

Spec == Init /\ [][Next]_<<text, at, out>>
=============================================================================
