----------------------------- MODULE MCScreens -----------------------------
(* Small instances of Screens. *)
EXTENDS Screens, TLC
=============================================================================
