----------------------------- MODULE MCOzRunner -----------------------------
(***************************************************************************)
(* Two threads, one slow file and three others, OpenZeppelin 3 and 4, in a *)
(* results directory that is empty or holds the logs of an earlier run.    *)
(***************************************************************************)
EXTENDS OzRunner

CONSTANTS j1, j2, k1, k2, f1, f2, f3, f4, f5

MCPreparedKeys == <<k1, k2>>
MCPriority == <<f1>>
MCOthers == <<f2, f3, f4>>

\* Hardhat did not get to the tests; all passed; one failed.
MCResults == { [passing |-> 0, failing |-> 0],
               [passing |-> 1, failing |-> 0],
               [passing |-> 1, failing |-> 1] }

\* Nothing, or an earlier run with another file passed but for one of its files.
MCOldResults ==
    { [f \in LogNames |-> NoLog],
      [f \in LogNames |-> [passing |-> IF f = f1 THEN 0 ELSE 1, failing |-> 0]] }

\* A file that passes counts 1: three of four files must.
MCThreshold == [m \in {3} |-> 3]

MCEarlier == {EmptyLog, [EmptyLog EXCEPT !.failures[Oz] = <<NoName>>]}
=============================================================================
