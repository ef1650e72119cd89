----------------------------- MODULE MCErrorLog -----------------------------
(***************************************************************************)
(* Two processes that add, clear and read at will, from no file or from a  *)
(* file an earlier run left.                                               *)
(***************************************************************************)
EXTENDS ErrorLog

CONSTANTS p1, p2, basic, t1, note

MCEarlier == {EmptyLog, [EmptyLog EXCEPT !.errors[basic] = <<t1>>]}

MCCalls ==
    { [kind |-> "failures", group |-> basic, names |-> <<t1>>],
      [kind |-> "failures", group |-> basic, names |-> <<>>],
      [kind |-> "errors", group |-> basic, names |-> <<t1>>],
      [kind |-> "comment", text |-> note],
      Wipe, Read }
=============================================================================
