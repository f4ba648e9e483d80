------------------------------ MODULE ListView ------------------------------
(***************************************************************************)
(* What a screen with a collection view promises: the array behind the     *)
(* view is replaced at any time, by any thread, and the view, which counts *)
(* the items when it reloads, does not go on with an old count for ever.   *)
(*                                                                         *)
(* Search.tla and FavoritesScreen.tla implement this specification.        *)
(***************************************************************************)
CONSTANT Recipe

VARIABLES
    items,  \* the array
    drawn,  \* the array that the view last counted
    loaded  \* is there a view?

listVars == <<items, drawn, loaded>>

ListInit ==
    /\ items = {}
    /\ drawn = {}
    /\ loaded \in BOOLEAN

LoadView ==
    /\ ~loaded
    /\ loaded' = TRUE
    /\ UNCHANGED <<items, drawn>>

Replace ==
    /\ items' \in SUBSET Recipe
    /\ UNCHANGED <<drawn, loaded>>

Refresh ==
    /\ loaded
    /\ drawn # items
    /\ drawn' = items
    /\ UNCHANGED <<items, loaded>>

ListNext == LoadView \/ Replace \/ Refresh

ListSafety == ListInit /\ [][ListNext]_listVars

ListSpec == ListSafety /\ WF_listVars(Refresh)
=============================================================================
