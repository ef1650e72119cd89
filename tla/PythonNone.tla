------------------------------ MODULE PythonNone ------------------------------
(***************************************************************************)
(* Python's None, for modules that are used together.                      *)
(***************************************************************************)
CONSTANT None
=============================================================================
