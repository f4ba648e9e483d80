---------------------------- MODULE MCFavorites ----------------------------
(* Small instances of Favorites.  Request slots and recipes are alike.     *)
EXTENDS Favorites, TLC

CONSTANTS r1, r2, a1, a2, t1, t2

OneRecipe == {r1}
TwoRecipes == {r1, r2}
OneAccount == {a1}
TwoAccounts == {a1, a2}
TwoTasks == {t1, t2}

Alike == Permutations(TwoTasks) \union Permutations(TwoRecipes)
         \union Permutations(TwoAccounts)
=============================================================================
