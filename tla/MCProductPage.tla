---------------------------- MODULE MCProductPage ----------------------------
(* Two pages, and four products of which one is recommended.                  *)
EXTENDS ProductPage

CONSTANTS p1, p2

TwoPages == {p1, p2}

\* A product, with another in the cart.
SomePages == {{1, 2}}
=============================================================================
