--------------------------- MODULE TablePaymentMC ---------------------------
(***************************************************************************)
(* Small instances of TablePayment.  Line, check, desk and session ids are *)
(* interchangeable in every action and property, so their permutations are *)
(* a symmetry of the state graph.                                          *)
(***************************************************************************)
EXTENDS TablePayment, TLC

Symmetry == Permutations(Counters) \cup Permutations(Tables \ Counters) \cup
             Permutations(Lines) \cup Permutations(Checks)
              \cup Permutations(Desks) \cup Permutations(Sessions)
              \cup Permutations(Requests)
=============================================================================
