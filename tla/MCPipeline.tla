------------------------------ MODULE MCPipeline ------------------------------
(***************************************************************************)
(* Pipeline on a small instance: two numbers, so that every pair of steps  *)
(* of the main thread and the stages meets.  They differ by none of the    *)
(* sums of what the stages add, so that a value taken from the wrong       *)
(* number, or from the right one at the wrong stage, is never right by     *)
(* accident.                                                               *)
(***************************************************************************)
EXTENDS Pipeline

MCGenerated == <<100000, 100100>>
=============================================================================
