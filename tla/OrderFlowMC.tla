---------------------------- MODULE OrderFlowMC ----------------------------
(***************************************************************************)
(* Small instances of OrderFlow.  Devices and orders are interchangeable   *)
(* in every action and property; lines are not: one is of a held course,   *)
(* one has a discount.                                                     *)
(***************************************************************************)
EXTENDS OrderFlow, TLC

Symmetry == Permutations(Devices) \cup Permutations(Orders)
=============================================================================
