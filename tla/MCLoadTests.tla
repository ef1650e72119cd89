----------------------------- MODULE MCLoadTests -----------------------------
(***************************************************************************)
(* A user who sends; two who store, of whom one only starts; and a tracer. *)
(***************************************************************************)
EXTENDS LoadTests

CONSTANTS s1, c1, c2, q1

ValuesOf == [c \in {c1, c2} |-> IF c = c1 THEN 2 ELSE 0]
=============================================================================
