------------------------------- MODULE Search -------------------------------
(***************************************************************************)
(* The search screen: SearchViewModel's two lists of recipes, the array    *)
(* behind the collection view, and the three threads that replace it.  The *)
(* main thread does on a keystroke and on an edit of the favourites, the   *)
(* delegate queue when the recipes arrive, the thread of the favourites    *)
(* manager's initialiser when the sync is through.                         *)
(*                                                                         *)
(* A list is the set of its recipes: the server's order is kept            *)
(* everywhere.  The module covers one life of the screen, from viewDidLoad *)
(* on, where the recipes are requested.                                    *)
(***************************************************************************)
EXTENDS Naturals

CONSTANTS
    Recipe,
    Text,       \* what may stand in the search bar
    NoText,     \* the empty search bar
    Match,      \* Match[x]: recipes whose title contains x, in lower case
    MaxBacklog  \* bound: the user waits while more blocks are queued

ASSUME TextAssumption == NoText \notin Text /\ Match \in [Text -> SUBSET Recipe]

ASSUME BacklogAssumption == MaxBacklog \in Nat

VARIABLES
    text,             \* of the search bar
    popularRecipes, filteredRecipes,
    items,            \* collectionCellViewModels.value
    drawn,            \* the array the collection view last counted
    blocks,           \* reloadData blocks in the main queue
    awaited,          \* threads that have yet to bring the answer, the sync
    at,               \* where a thread is in replacing the array
    source,           \* why it does, and from which list
    list,             \* the recipes it has made view models of
    fresh,            \* history: has nothing changed since it looked?
    astray            \* history: was the array replaced by an outdated one?

lists == <<text, popularRecipes, filteredRecipes>>
vars == <<lists, items, drawn, blocks, awaited, at, source, list, fresh, astray>>

Thread == {"main", "handler", "sync"}

TypeOK ==
    /\ text \in Text \union {NoText}
    /\ popularRecipes \subseteq Recipe /\ filteredRecipes \subseteq Recipe
    /\ items \subseteq Recipe /\ drawn \subseteq Recipe
    /\ blocks \in Nat
    /\ awaited \subseteq {"handler", "sync"}
    /\ at \in [Thread -> {"idle", "pick", "assign", "queue"}]
    /\ source \in [Thread -> {"direct", "popular", "filtered"}]
    /\ list \in [Thread -> SUBSET Recipe]
    /\ fresh \in [Thread -> BOOLEAN]
    /\ astray \in BOOLEAN

\* The sync may have been through before the screen was first opened.
Init ==
    /\ text = NoText
    /\ popularRecipes = {} /\ filteredRecipes = {}
    /\ items = {} /\ drawn = {}
    /\ blocks = 0
    /\ awaited \in {{"handler"}, {"handler", "sync"}}
    /\ at = [t \in Thread |-> "idle"]
    /\ source = [t \in Thread |-> "direct"]
    /\ list = [t \in Thread |-> {}]
    /\ fresh = [t \in Thread |-> TRUE]
    /\ astray = FALSE

-----------------------------------------------------------------------------
Filter(x) == popularRecipes \intersect Match[x]

\* What the search bar asks for.
Wanted == IF text = NoText THEN popularRecipes ELSE Filter(text)

UserActs == at["main"] = "idle" /\ blocks <= MaxBacklog

\* updateCollectionViewModels(with:) begins, on lists that have just changed.
Show(t, recipes) ==
    /\ at' = [at EXCEPT ![t] = "assign"]
    /\ source' = [source EXCEPT ![t] = "direct"]
    /\ list' = [list EXCEPT ![t] = recipes]
    /\ fresh' = [u \in Thread |-> u = t]

\* A bug to catch: an emptied search bar leaves the old filter.
TypeKeepsFilter(x) ==
    /\ UserActs
    /\ text' = x
    /\ filteredRecipes' = IF x = NoText THEN filteredRecipes ELSE Filter(x)
    /\ Show("main", IF x = NoText THEN popularRecipes ELSE Filter(x))
    /\ UNCHANGED <<popularRecipes, items, drawn, blocks, awaited, astray>>

\* updateSearchResults, on every change of the search bar.
Type(x) ==
    /\ UserActs
    /\ text' = x
    /\ filteredRecipes' = IF x = NoText THEN {} ELSE Filter(x)
    /\ Show("main", IF x = NoText THEN popularRecipes ELSE Filter(x))
    /\ UNCHANGED <<popularRecipes, items, drawn, blocks, awaited, astray>>

\* The completion handler of getHealthy; [] on any error.
Answer ==
    /\ "handler" \in awaited
    /\ awaited' = awaited \ {"handler"}
    /\ \E recipes \in SUBSET Recipe :
          popularRecipes' = recipes /\ Show("handler", recipes)
    /\ UNCHANGED <<text, filteredRecipes, items, drawn, blocks, astray>>

\* updateFavorites looks whether there is a filter ...
Look(t) ==
    /\ at[t] = "idle"
    /\ at' = [at EXCEPT ![t] = "pick"]
    /\ source' = [source EXCEPT ![t] = IF filteredRecipes = {} THEN "popular" ELSE "filtered"]
    /\ fresh' = [fresh EXCEPT ![t] = TRUE]
    /\ UNCHANGED <<lists, items, drawn, blocks, list, astray>>

\* ... after an edit of the favourites, or after the sync ...
EditPosted == UserActs /\ Look("main") /\ UNCHANGED awaited

SyncPosted ==
    /\ "sync" \in awaited
    /\ awaited' = awaited \ {"sync"}
    /\ Look("sync")

\* ... and then takes the filtered list, or all recipes.
Pick(t) ==
    /\ at[t] = "pick"
    /\ at' = [at EXCEPT ![t] = "assign"]
    /\ list' = [list EXCEPT ![t] =
           IF source[t] = "filtered" THEN filteredRecipes ELSE popularRecipes]
    /\ UNCHANGED <<lists, items, drawn, blocks, awaited, source, fresh, astray>>

\* collectionCellViewModels.value = ...
Assign(t) ==
    /\ at[t] = "assign"
    /\ at' = [at EXCEPT ![t] = "queue"]
    /\ items' = list[t]
    /\ astray' = ~fresh[t]
    /\ UNCHANGED <<lists, drawn, blocks, awaited, source, list, fresh>>

\* A bug to catch: only a search and an answer reload the view.
QueueDirect(t) ==
    /\ at[t] = "queue"
    /\ at' = [at EXCEPT ![t] = "idle"]
    /\ blocks' = blocks + (IF source[t] = "direct" THEN 1 ELSE 0)
    /\ UNCHANGED <<lists, items, drawn, awaited, source, list, fresh, astray>>

\* The array's listener queues a reload; the notification's other observer,
\* the view controller, queues one more.
Queue(t) ==
    /\ at[t] = "queue"
    /\ at' = [at EXCEPT ![t] = "idle"]
    /\ blocks' = blocks + (IF source[t] = "direct" THEN 1 ELSE 2)
    /\ UNCHANGED <<lists, items, drawn, awaited, source, list, fresh, astray>>

\* A block runs: the view asks for the number of items.
Reload ==
    /\ at["main"] = "idle"
    /\ blocks > 0
    /\ blocks' = blocks - 1
    /\ drawn' = items
    /\ UNCHANGED <<lists, items, awaited, at, source, list, fresh, astray>>

-----------------------------------------------------------------------------
Step(t) == Pick(t) \/ Assign(t) \/ Queue(t)

Next ==
    \/ \E x \in Text \union {NoText} : Type(x)
    \/ Answer \/ EditPosted \/ SyncPosted
    \/ \E t \in Thread : Step(t)
    \/ Reload

Spec == Init /\ [][Next]_vars

\* A thread finishes what it began; the main thread drains its queue.
Fairness == (\A t \in Thread : WF_vars(Step(t))) /\ WF_vars(Reload)

FairSpec == Spec /\ Fairness

-----------------------------------------------------------------------------
(* Properties *)

\* The view counts items in an array and asks for them later
\* (SearchViewController.swift:94-107).  When the array is another one by
\* then, a reload is on its way: the index may be out of range only so long.
StaleCountIsReloaded ==
    drawn # items => blocks > 0 \/ \E t \in Thread : at[t] = "queue"

\* When no thread is at it, the screen's array is what the search bar asks
\* for, except in two ways: an empty filter under a search text is taken for
\* no search (SearchViewModel.swift:35, and the answer that comes late, line
\* 47), or a thread has assigned recipes it had picked before the search or
\* the recipes changed (line 31).
ShowsTheSearch ==
    (\A t \in Thread : at[t] = "idle") =>
        \/ items = Wanted
        \/ text # NoText /\ filteredRecipes = {} /\ items = popularRecipes
        \/ astray

View == INSTANCE ListView WITH loaded <- TRUE

\* The screen is a list view: it never stays on an old count.
ImplementsListView == View!ListSpec
=============================================================================
