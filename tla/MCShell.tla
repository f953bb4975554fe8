-------------------------------- MODULE MCShell --------------------------------
(***************************************************************************)
(* Shell with programs that write one unit (gen), more than a pipe holds   *)
(* (flood), read one unit and write it (head), and read to the end (sink), *)
(* and lines of every shape: plain, pipelines that pass and that block,    *)
(* longer than argv, ending in an operator, starting with one, empty.      *)
(***************************************************************************)
EXTENDS Shell

MCGives == [gen |-> 1, flood |-> 3, head |-> 1, sink |-> 0]
MCWants == [gen |-> "nothing", flood |-> "nothing", head |-> "one", sink |-> "all"]
MCLines == {<<>>, <<"exit">>, <<"gen", "x">>, <<"head">>, <<"sink", ">", "f">>,
            <<"gen", "|", "head">>, <<"gen", "|", "x", "|", "head">>, <<"gen", "|", "gen">>,
            <<"flood", "|", "sink">>, <<"gen", "|", "sink">>,
            <<"gen", "x", "x", "x", "|", "head">>, <<"gen", "|">>, <<"|", "head">>, <<">", "f">>,
            <<"gen", ">">>}
=============================================================================
