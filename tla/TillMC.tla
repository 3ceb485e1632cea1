------------------------------- MODULE TillMC -------------------------------
(***************************************************************************)
(* A small instance of Till: a price that rounds badly by three, a small   *)
(* one that six cannot share, a cover for two and one for nobody.          *)
(***************************************************************************)
EXTENDS Till

MCDishes == {[price |-> 333, quantity |-> 2], [price |-> 70, quantity |-> 1]}
MCCovers == {[price |-> 0, guests |-> 0], [price |-> 151, guests |-> 2]}
=============================================================================
