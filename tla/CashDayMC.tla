----------------------------- MODULE CashDayMC -----------------------------
(***************************************************************************)
(* Small instances of CashDay.  Tables, desks, closure requests and        *)
(* services are interchangeable in every action and property.              *)
(***************************************************************************)
EXTENDS CashDay, TLC

Symmetry == Permutations(Services) \cup Permutations(Tables)
              \cup Permutations(Desks) \cup Permutations(Closers)
=============================================================================
