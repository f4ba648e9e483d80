------------------------------ MODULE MCSearch ------------------------------
(* Two recipes; one search text finds the first, the other finds none.      *)
EXTENDS Search, TLC

CONSTANTS a, b, apple, zebra

Titles == (apple :> {a}) @@ (zebra :> {})
=============================================================================
