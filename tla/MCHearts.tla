------------------------------ MODULE MCHearts ------------------------------
(* Small instances of Hearts: a and b have one title and share a row.     *)
EXTENDS Hearts, TLC

CONSTANTS a, b, row1, row2, cell1, cell2

OneTitle == (a :> "twin") @@ (b :> "twin")
TwoRows == (row1 :> {a}) @@ (row2 :> {a, b})
=============================================================================
