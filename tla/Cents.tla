------------------------------- MODULE Cents -------------------------------
(***************************************************************************)
(* Amounts in cents (packages/fiscal: rounding.ts, vat.ts, line-price.ts;  *)
(* calculateLineTotal of services/edge-api lib/bill.ts).                   *)
(*                                                                         *)
(* The code holds amounts in binary floating point and rounds them to the  *)
(* cent after each step: here they are exact.  The two differ on an exact  *)
(* half cent, which floating point may round either way.                   *)
(***************************************************************************)
EXTENDS Integers

\* Math.round of a quotient: halves go up, also below zero.
RoundDiv(a, b) == (2 * a + b) \div (2 * b)

\* Up to five cents.
RoundToFiveCents(cents) ==
  IF cents % 5 = 0 THEN cents ELSE (cents \div 5 + 1) * 5

\* Every share of a total but the last.
EvenShare(total, shares) ==
  RoundToFiveCents(RoundToFiveCents(total) \div shares)

\* Mutant: the last share is like the others.
SplitEvenly(total, shares) == [i \in 1 .. shares |-> EvenShare(total, shares)]

\* The last share takes the rest.
SplitRoundedTotal(total, shares) ==
  [i \in 1 .. shares |->
     IF i < shares THEN EvenShare(total, shares)
     ELSE RoundToFiveCents(total) - (shares - 1) * EvenShare(total, shares)]

\* What a line costs: quantity still to serve, price, discount in per cent.
CalculateLineTotal(quantity, price, off) ==
  RoundDiv(quantity * price * (100 - off), 100)

\* Amounts include VAT.
CalculateNetAmount(gross, rate) == RoundDiv(gross * 100, 100 + rate)
CalculateVatAmount(gross, rate) == RoundDiv(gross * rate, 100 + rate)
=============================================================================
