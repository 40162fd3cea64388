----------------------------- MODULE MCCheckout -----------------------------
(* Instances of Checkout for TLC.                                          *)
EXTENDS Checkout, TLC

CONSTANTS u1, u2, r1, r2, x1, x2

\* Two orders of one shopper: double clicks, retries, edits of the cart.
OneShopper == r1 :> u1 @@ r2 :> u1

\* Orders of two shoppers.
TwoShoppers == r1 :> u1 @@ r2 :> u2

UnitSymmetry == Permutations(Units)
=============================================================================
