--------------------------- MODULE TableRuntimeMC ---------------------------
(***************************************************************************)
(* Small instances of TableRuntime.  Tables, operators and lines are       *)
(* interchangeable in every action and property.                           *)
(***************************************************************************)
EXTENDS TableRuntime, TLC

Symmetry ==
  Permutations(Tables) \cup Permutations(Operators) \cup Permutations(Lines)
=============================================================================
