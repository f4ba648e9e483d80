-------------------------- MODULE FavoritesScreen --------------------------
(***************************************************************************)
(* The favourites screen: FavoritesViewModel.loadFavorites copies the list *)
(* of the favourites manager into the array behind a collection view.  The *)
(* manager calls it after every edit, on the main thread, and after its    *)
(* sync, on a thread of its own; the screen calls it when its view loads.  *)
(*                                                                         *)
(* A list is the set of its recipes.  The module covers the life of one    *)
(* FavoritesViewModel; what an edit and the sync make of the list is the   *)
(* matter of Favorites.tla, here it is any list.                           *)
(***************************************************************************)
EXTENDS Naturals

CONSTANTS
    Recipe,
    MaxBacklog  \* bound: the user waits while more blocks are queued

ASSUME BacklogAssumption == MaxBacklog \in Nat

VARIABLES
    favorites,        \* the list in UserDefaults
    sync,             \* the task of the manager's initialiser
    favoriteRecipes,  \* of the view model, shared by the threads
    items,            \* collectionCellViewModels.value
    bound,            \* has the view loaded, and bound its listener?
    emptyLabel,       \* is "You have no favorites yet" visible?
    drawn,            \* the array the collection view last counted
    blocks,           \* the listener's blocks in the main queue
    at,               \* where a thread is in loadFavorites
    list,             \* the list it has in hand
    alone,            \* history: has nothing interfered with its load?
    mixed             \* history: was the array assigned by a load that something interfered with?

view == <<bound, emptyLabel, drawn, blocks>>
history == <<alone, mixed>>
vars == <<favorites, sync, favoriteRecipes, items, view, at, list, history>>

Thread == {"main", "sync"}
Stages == {"fetch", "store", "map", "assign"}

TypeOK ==
    /\ favorites \subseteq Recipe
    /\ sync \in {"running", "saved", "posted"}
    /\ favoriteRecipes \subseteq Recipe /\ items \subseteq Recipe
    /\ bound \in BOOLEAN /\ emptyLabel \in BOOLEAN
    /\ drawn \subseteq Recipe
    /\ blocks \in Nat
    /\ at \in [Thread -> Stages \union {"idle", "queue", "reload"}]
    /\ list \in [Thread -> SUBSET Recipe]
    /\ alone \in [Thread -> BOOLEAN]
    /\ mixed \in BOOLEAN

\* The list is that of an earlier launch.  The home screen may have started
\* the manager long before the tab bar makes this view model.
Init ==
    /\ favorites \in SUBSET Recipe
    /\ sync \in {"running", "posted"}
    /\ favoriteRecipes = {} /\ items = {}
    /\ bound = FALSE /\ emptyLabel = FALSE
    /\ drawn = {}
    /\ blocks = 0
    /\ at = [t \in Thread |-> "idle"]
    /\ list = [t \in Thread |-> {}]
    /\ alone = [t \in Thread |-> TRUE]
    /\ mixed = FALSE

-----------------------------------------------------------------------------
Loading(t) == at[t] \in Stages

\* A thread enters loadFavorites.
Begin(t) ==
    /\ at' = [at EXCEPT ![t] = "fetch"]
    /\ alone' = IF \E u \in Thread \ {t} : Loading(u)
                   THEN [u \in Thread |-> FALSE]
                   ELSE [alone EXCEPT ![t] = TRUE]
    /\ UNCHANGED <<favoriteRecipes, items, list, mixed>>

UserActs == at["main"] = "idle" /\ blocks <= MaxBacklog

\* A bug to catch: the view is bound, and waits for the next edit.
OpenOnly ==
    /\ UserActs
    /\ ~bound
    /\ bound' = TRUE
    /\ UNCHANGED <<favorites, sync, favoriteRecipes, items, emptyLabel, drawn, blocks, at, list, history>>

\* viewDidLoad, when the tab is first selected.
Open ==
    /\ UserActs
    /\ ~bound
    /\ bound' = TRUE
    /\ Begin("main")
    /\ UNCHANGED <<favorites, sync, emptyLabel, drawn, blocks>>

\* A bug to catch: an edit that does not call onFavoritesUpdated.
EditOnly ==
    /\ UserActs
    /\ favorites' \in SUBSET Recipe
    /\ UNCHANGED <<sync, favoriteRecipes, items, view, at, list, history>>

\* A heart of any screen is tapped: the list is saved, and the screen told.
Edit ==
    /\ UserActs
    /\ favorites' \in SUBSET Recipe
    /\ Begin("main")
    /\ UNCHANGED <<sync, view>>

\* A bug to catch: the task posts first, and saves then.
SyncSavesLate ==
    /\ sync = "posted"
    /\ favorites' \in SUBSET Recipe
    /\ alone' = [t \in Thread |-> FALSE]
    /\ UNCHANGED <<sync, favoriteRecipes, items, view, at, list, mixed>>

SyncSave ==
    /\ sync = "running"
    /\ sync' = "saved"
    /\ favorites' \in SUBSET Recipe
    /\ alone' = [t \in Thread |-> FALSE]
    /\ UNCHANGED <<favoriteRecipes, items, view, at, list, mixed>>

\* A sync that fails calls onFavoritesUpdated too.
SyncPost ==
    /\ sync \in {"running", "saved"}
    /\ sync' = "posted"
    /\ Begin("sync")
    /\ UNCHANGED <<favorites, view>>

-----------------------------------------------------------------------------
(* favoriteRecipes = favoritesManager.getFavorites(); then that variable   *)
(* is read again for the view models.                                      *)

Fetch(t) ==
    /\ at[t] = "fetch"
    /\ at' = [at EXCEPT ![t] = "store"]
    /\ list' = [list EXCEPT ![t] = favorites]
    /\ UNCHANGED <<favorites, sync, favoriteRecipes, items, view, history>>

Store(t) ==
    /\ at[t] = "store"
    /\ at' = [at EXCEPT ![t] = "map"]
    /\ favoriteRecipes' = list[t]
    /\ UNCHANGED <<favorites, sync, items, view, list, history>>

Map(t) ==
    /\ at[t] = "map"
    /\ at' = [at EXCEPT ![t] = "assign"]
    /\ list' = [list EXCEPT ![t] = favoriteRecipes]
    /\ UNCHANGED <<favorites, sync, favoriteRecipes, items, view, history>>

Assign(t) ==
    /\ at[t] = "assign"
    /\ at' = [at EXCEPT ![t] = "queue"]
    /\ items' = list[t]
    /\ mixed' = ~alone[t]
    /\ UNCHANGED <<favorites, sync, favoriteRecipes, view, list, alone>>

\* The listener, if there is one.
Queue(t) ==
    /\ at[t] = "queue"
    /\ at' = [at EXCEPT ![t] = "idle"]
    /\ blocks' = IF bound THEN blocks + 1 ELSE blocks
    /\ UNCHANGED <<favorites, sync, favoriteRecipes, items, bound, emptyLabel, drawn, list, history>>

\* A bug to catch: the label that was shown is not hidden again.
ShowLabelForGood ==
    /\ at["main"] = "idle"
    /\ blocks > 0
    /\ blocks' = blocks - 1
    /\ emptyLabel' = (emptyLabel \/ items = {})
    /\ at' = [at EXCEPT !["main"] = "reload"]
    /\ UNCHANGED <<favorites, sync, favoriteRecipes, items, bound, drawn, list, history>>

\* The block looks whether there are items ...
ShowLabel ==
    /\ at["main"] = "idle"
    /\ blocks > 0
    /\ blocks' = blocks - 1
    /\ emptyLabel' = (items = {})
    /\ at' = [at EXCEPT !["main"] = "reload"]
    /\ UNCHANGED <<favorites, sync, favoriteRecipes, items, bound, drawn, list, history>>

\* ... and the view counts them.
Reload ==
    /\ at["main"] = "reload"
    /\ at' = [at EXCEPT !["main"] = "idle"]
    /\ drawn' = items
    /\ UNCHANGED <<favorites, sync, favoriteRecipes, items, bound, emptyLabel, blocks, list, history>>

-----------------------------------------------------------------------------
Step(t) == Fetch(t) \/ Store(t) \/ Map(t) \/ Assign(t) \/ Queue(t)

Next ==
    \/ Open \/ Edit \/ SyncSave \/ SyncPost
    \/ \E t \in Thread : Step(t)
    \/ ShowLabel \/ Reload

Spec == Init /\ [][Next]_vars

\* A thread finishes what it began; the sync ends, at the latest with a
\* timeout; the main thread drains its queue.
Fairness ==
    /\ \A t \in Thread : WF_vars(Step(t))
    /\ WF_vars(SyncPost)
    /\ WF_vars(ShowLabel) /\ WF_vars(Reload)

FairSpec == Spec /\ Fairness

-----------------------------------------------------------------------------
(* Properties *)

\* The array is the list of favourites unless a load is under way or about
\* to be, or the last one was interfered with: the list changed meanwhile or
\* the other thread was loading (FavoritesViewModel.swift:28-31).
ShowsFavorites ==
    bound => \/ items = favorites
             \/ sync = "saved"
             \/ \E t \in Thread : Loading(t)
             \/ mixed

\* The empty label and the view's count are those of the array, or a block
\* that renews both is queued or about to be (FavoritesViewControler.swift:79-88).
LabelAndCountRenewed ==
    bound /\ (emptyLabel # (items = {}) \/ drawn # items) =>
        blocks > 0 \/ \E t \in Thread : at[t] # "idle"

View == INSTANCE ListView WITH loaded <- bound

\* The screen is a list view: it never stays on an old count.
ImplementsListView == View!ListSpec

\* Only loads that overlap with the sync are interfered with: an array that
\* is right when the sync and its load are over will not be mixed again.
OnlyTheSyncMixes ==
    [][mixed' /\ ~mixed => sync # "posted" \/ Loading("sync")]_vars
=============================================================================
