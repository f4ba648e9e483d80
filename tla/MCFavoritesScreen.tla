------------------------- MODULE MCFavoritesScreen -------------------------
(* Two recipes. *)
EXTENDS FavoritesScreen

CONSTANTS a, b
=============================================================================
