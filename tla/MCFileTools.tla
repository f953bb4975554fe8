------------------------------ MODULE MCFileTools ------------------------------
(***************************************************************************)
(* FileTools with two invocations of every kind on two files, whose bytes  *)
(* are a letter in both cases and 0xFF, shorter and longer than a buffer.  *)
(***************************************************************************)
EXTENDS FileTools, TLC

MCSymmetry == Permutations(Procs)

MCContents == {<<>>, <<97>>, <<65>>, <<97, 255>>, <<97, 65>>, <<97, 65, 97>>}
Job(t, a, b, o, may) == [tool |-> t, f1 |-> a, f2 |-> b, opt |-> o, may |-> may]
MCJobs ==
  {Job("copy", "f", "g", o, {"f", "g"}) : o \in {"none", "-f", "-x"}} \cup
  {Job("copy", "f", "g", "none", {"f"}), Job("copy", "g", "f", "-f", {"f", "g"}),
   Job("copy", "f", "f", "-f", {"f", "g"}),
   Job("cmp", "f", "g", "none", {"f", "g"}), Job("cmp", "f", "g", "-i", {"f", "g"}),
   Job("cmp", "g", "f", "none", {"f", "g"}), Job("cmp", "f", "g", "none", {"f"})}
=============================================================================
