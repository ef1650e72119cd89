---------------------------- MODULE MCTestSession ----------------------------
(***************************************************************************)
(* Two workers and two tests, from no log, or from a log in which an       *)
(* earlier run recorded an error of the same test.                         *)
(***************************************************************************)
EXTENDS TestSession

CONSTANTS w1, w2, t1, t2, basic

MCEarlier == {[EmptyLog EXCEPT !.errors[basic] = <<t1>>]}
=============================================================================
