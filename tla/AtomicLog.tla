------------------------------ MODULE AtomicLog ------------------------------
(***************************************************************************)
(* What utils/error_log.py promises to the processes that share the file   *)
(* click_cmd_err.log: a log to which entries are added, and which is       *)
(* emptied, one whole operation at a time.  ErrorLog.tla, where the same   *)
(* operations are lock, read, truncate, write and unlock steps of many     *)
(* processes, is shown to implement this module.                           *)
(***************************************************************************)
EXTENDS LogModel

CONSTANT Adds   \* the additions that are requested

VARIABLE log

Init == log \in Logs

Add == \E r \in Adds : log' = Apply(r, log)

Clear == log' = EmptyLog

Next == Add \/ Clear

Spec == Init /\ [][Next]_log
=============================================================================
