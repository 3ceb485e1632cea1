---------------------------- MODULE TillScreenMC ----------------------------
(***************************************************************************)
(* A small instance of TillScreen.  Tables, requests and checks            *)
(* are interchangeable.                                                    *)
(***************************************************************************)
EXTENDS TillScreen, TLC

Symmetry == Permutations(Tables) \cup Permutations(Requests) \cup
            Permutations(Checks)
=============================================================================
