------------------------------- MODULE Hearts -------------------------------
(***************************************************************************)
(* The hearts of the home screen: CollectionCellViewModel copies a         *)
(* recipe's membership out of the favourites when it is made, and the      *)
(* copy is refreshed by the table cell that holds its row, when the        *)
(* notification favoritesUpdated is posted.                                *)
(*                                                                         *)
(* There are fewer table cells than rows: a cell that is scrolled away is  *)
(* configured with another row, and the hearts of a row that no cell holds *)
(* are not refreshed.  A notification runs its observers on the thread     *)
(* that posts it: the main thread after an edit, and the thread of the     *)
(* manager's initialiser after the sync, beside the main thread.           *)
(*                                                                         *)
(* A recipe is its id.  The list is the number of copies of each recipe;   *)
(* an edit reads and writes it in one step (Favorites.tla has the two).    *)
(* The module covers one life of the tab bar.                              *)
(***************************************************************************)
EXTENDS Naturals

CONSTANTS
    Recipe,
    Title,     \* Title[r]: what isFavorite compares
    Rows,      \* the lists of the home screen
    Contents,  \* Contents[w]: the recipes of row w
    Cells,     \* the table's cells
    MaxCopies, \* bound: copies of a recipe in the list
    NoRow,     \* a cell not made yet
    NoTap, NoRead

ASSUME RowsAssumption == Contents \in [Rows -> SUBSET Recipe] /\ NoRow \notin Rows

ASSUME CopiesAssumption == MaxCopies \in Nat \ {0}

VARIABLES
    favorites,  \* the list in UserDefaults
    loaded,     \* view models made
    isFavorite, \* the flag of every view model
    cell,       \* the row a cell was last configured with
    sync,       \* the initialiser: the answer to come, stored, posted
    observers,  \* cells a thread's notification has not reached
    todo,       \* hearts a thread still has to look at in a cell
    got,        \* what a thread has read and not compared
    tap,        \* toggleFavorite in progress
    excused     \* history: wrong hearts that missed a refresh or were given
                \* an outdated one

threads == <<observers, todo, got>>
vars == <<favorites, loaded, isFavorite, cell, sync, threads, tap, excused>>

Thread == {"main", "sync"}

\* One view model per recipe and row.
ViewModel == {v \in Rows \X Recipe : v[2] \in Contents[v[1]]}

\* was: the flag at the tap.  alone: was the sync over?  last: is
\* toggleFavorite at its last statement?
Tap == [vm : ViewModel, was : BOOLEAN, alone : BOOLEAN, last : BOOLEAN]
Reading == [vm : ViewModel, value : BOOLEAN]

TypeOK ==
    /\ favorites \in [Recipe -> 0..MaxCopies]
    /\ loaded \subseteq ViewModel
    /\ isFavorite \in [ViewModel -> BOOLEAN]
    /\ cell \in [Cells -> Rows \union {NoRow}]
    /\ sync \in {"running", "saved", "posted"}
    /\ observers \in [Thread -> SUBSET Cells]
    /\ todo \in [Thread -> SUBSET ViewModel]
    /\ got \in [Thread -> Reading \union {NoRead}]
    /\ tap \in Tap \union {NoTap}
    /\ excused \subseteq ViewModel

Init ==
    /\ favorites \in [Recipe -> {0, 1}]
    /\ loaded = {}
    /\ isFavorite = [v \in ViewModel |-> FALSE]
    /\ cell = [c \in Cells |-> NoRow]
    /\ sync = "running"
    /\ observers = [t \in Thread |-> {}]
    /\ todo = [t \in Thread |-> {}]
    /\ got = [t \in Thread |-> NoRead]
    /\ tap = NoTap
    /\ excused = {}

-----------------------------------------------------------------------------
\* By title; the edits go by id.
IsFavorite(r) == \E q \in Recipe : favorites[q] > 0 /\ Title[q] = Title[r]

Held(v) == \E c \in Cells : cell[c] = v[1]

Wrong(v) == v \in loaded /\ isFavorite[v] # IsFavorite(v[2])

Made == {c \in Cells : cell[c] # NoRow}

Done(t) == observers[t] = {} /\ todo[t] = {}

MainIdle == tap = NoTap /\ Done("main")

SyncOver == sync = "posted" /\ Done("sync")

\* Of those in S, the hearts that are wrong by now are so with an excuse.
Excuse(S) == excused' = {v \in excused \union S : Wrong(v)'}

Unheld == {v \in ViewModel : ~Held(v)}

-----------------------------------------------------------------------------
(* Rows and cells                                                          *)

\* A bug to catch: a view model is made with an empty heart.
LoadEmpty(v) ==
    /\ v \notin loaded
    /\ loaded' = loaded \union {v}
    /\ UNCHANGED <<favorites, isFavorite, cell, sync, threads, tap, excused>>

\* The handler of an arrived row (HomeFeed.tla) makes its view models one at a
\* time, on the delegate queue.
Load(v) ==
    /\ v \notin loaded
    /\ loaded' = loaded \union {v}
    /\ isFavorite' = [isFavorite EXCEPT ![v] = IsFavorite(v[2])]
    /\ UNCHANGED <<favorites, cell, sync, threads, tap, excused>>

\* The table shows row w in a new or a recycled cell.  It has sections once
\* every row has arrived (HomeFeed.tla).
Configure(c, w) ==
    /\ MainIdle
    /\ loaded = ViewModel /\ cell[c] # w
    /\ cell' = [cell EXCEPT ![c] = w]
    /\ UNCHANGED <<favorites, loaded, isFavorite, sync, threads, tap>>
    /\ Excuse({v \in ViewModel : v[1] = cell[c]})

-----------------------------------------------------------------------------
(* The favourites manager, on the main thread                              *)

Post(t) == observers' = [observers EXCEPT ![t] = Made]

\* A bug to catch: one copy is removed.
EditOneCopy(r, remove) ==
    /\ favorites' = [favorites EXCEPT ![r] =
           IF remove THEN (IF @ > 0 THEN @ - 1 ELSE 0) ELSE @ + 1]
    /\ Post("main")

\* addToFavorites, removeFromFavorites: the list, then the notification.
Edit(r, remove) ==
    /\ favorites' = [favorites EXCEPT ![r] = IF remove THEN 0 ELSE @ + 1]
    /\ Post("main")

\* A bug to catch: the flag is not looked at.
ToggleAdds(v) ==
    /\ MainIdle
    /\ Held(v)
    /\ isFavorite[v] \/ favorites[v[2]] < MaxCopies
    /\ Edit(v[2], FALSE)
    /\ tap' = [vm |-> v, was |-> isFavorite[v], alone |-> SyncOver, last |-> FALSE]
    /\ UNCHANGED <<loaded, isFavorite, cell, sync, todo, got>>
    /\ Excuse(Unheld)

\* toggleFavorite trusts the flag.
ToggleFavorite(v) ==
    /\ MainIdle
    /\ Held(v)
    /\ isFavorite[v] \/ favorites[v[2]] < MaxCopies
    /\ Edit(v[2], isFavorite[v])
    /\ tap' = [vm |-> v, was |-> isFavorite[v], alone |-> SyncOver, last |-> FALSE]
    /\ UNCHANGED <<loaded, isFavorite, cell, sync, todo, got>>
    /\ Excuse(Unheld)

\* toggleFavorite on the search or the favourites screen, by a flag that is not
\* modelled here and may be stale too.
ToggleElsewhere(r, remove) ==
    /\ MainIdle
    /\ remove \/ favorites[r] < MaxCopies
    /\ Edit(r, remove)
    /\ UNCHANGED <<loaded, isFavorite, cell, sync, todo, got, tap>>
    /\ Excuse(Unheld)

\* toggleFavorite's last statement looks at the tapped heart again.
LastLook ==
    /\ tap # NoTap /\ ~tap.last
    /\ Done("main")
    /\ tap' = [tap EXCEPT !.last = TRUE]
    /\ todo' = [todo EXCEPT !["main"] = {tap.vm}]
    /\ UNCHANGED <<favorites, loaded, isFavorite, cell, sync, observers, got, excused>>

ToggleReturns ==
    /\ tap # NoTap /\ tap.last
    /\ Done("main")
    /\ tap' = NoTap
    /\ UNCHANGED <<favorites, loaded, isFavorite, cell, sync, threads, excused>>

-----------------------------------------------------------------------------
(* RecipeTableViewCell.updateFavorites, on the thread that posted          *)

\* A bug to catch: only the row's hearts that are off are looked at.
VisitOff(t, c) ==
    /\ todo[t] = {}
    /\ c \in observers[t]
    /\ observers' = [observers EXCEPT ![t] = @ \ {c}]
    /\ todo' = [todo EXCEPT ![t] = {v \in ViewModel : v[1] = cell[c] /\ ~isFavorite[v]}]
    /\ UNCHANGED <<favorites, loaded, isFavorite, cell, sync, got, tap, excused>>

Visit(t, c) ==
    /\ todo[t] = {}
    /\ c \in observers[t]
    /\ observers' = [observers EXCEPT ![t] = @ \ {c}]
    /\ todo' = [todo EXCEPT ![t] = {v \in ViewModel : v[1] = cell[c]}]
    /\ UNCHANGED <<favorites, loaded, isFavorite, cell, sync, got, tap, excused>>

Read(t, v) ==
    /\ got[t] = NoRead
    /\ v \in todo[t]
    /\ got' = [got EXCEPT ![t] = [vm |-> v, value |-> IsFavorite(v[2])]]
    /\ UNCHANGED <<favorites, loaded, isFavorite, cell, sync, observers, todo, tap, excused>>

\* The other thread may have changed the list, and the flag, since Read.
Write(t) ==
    /\ got[t] # NoRead
    /\ isFavorite' = [isFavorite EXCEPT ![got[t].vm] = got[t].value]
    /\ todo' = [todo EXCEPT ![t] = @ \ {got[t].vm}]
    /\ got' = [got EXCEPT ![t] = NoRead]
    /\ UNCHANGED <<favorites, loaded, cell, sync, observers, tap>>
    /\ Excuse({got[t].vm})

-----------------------------------------------------------------------------
(* FavoritesManager's initialiser, on a thread of its own                  *)

SyncSave ==
    /\ sync = "running"
    /\ sync' = "saved"
    /\ favorites' \in [Recipe -> {0, 1}]
    /\ UNCHANGED <<loaded, isFavorite, cell, threads, tap>>
    /\ Excuse(Unheld)

\* A bug to catch: nothing is posted when the sync is through.
SyncPostsNothing ==
    /\ sync = "saved"
    /\ sync' = "posted"
    /\ UNCHANGED <<favorites, loaded, isFavorite, cell, threads, tap, excused>>

\* A sync that fails posts too.
SyncPost ==
    /\ sync \in {"running", "saved"}
    /\ sync' = "posted"
    /\ Post("sync")
    /\ UNCHANGED <<favorites, loaded, isFavorite, cell, todo, got, tap, excused>>

-----------------------------------------------------------------------------
ThreadStep(t) ==
    \/ \E c \in Cells : Visit(t, c)
    \/ \E v \in ViewModel : Read(t, v)
    \/ Write(t)

Next ==
    \/ \E v \in ViewModel : Load(v)
    \/ \E c \in Cells, w \in Rows : Configure(c, w)
    \/ \E v \in ViewModel : ToggleFavorite(v)
    \/ \E r \in Recipe, remove \in BOOLEAN : ToggleElsewhere(r, remove)
    \/ LastLook \/ ToggleReturns
    \/ \E t \in Thread : ThreadStep(t)
    \/ SyncSave \/ SyncPost

Spec == Init /\ [][Next]_vars

\* Both threads go on; requests end, at the latest with a timeout.
Fairness ==
    /\ \A t \in Thread : WF_vars(ThreadStep(t))
    /\ WF_vars(LastLook) /\ WF_vars(ToggleReturns)
    /\ WF_vars(SyncPost)

FairSpec == Spec /\ Fairness

-----------------------------------------------------------------------------
(* Properties *)

\* Some thread is about to look at v.
Due(v) ==
    \/ sync = "saved"
    \/ \E t \in Thread : v \in todo[t] \/ \E c \in observers[t] : cell[c] = v[1]

\* A heart that contradicts the list is about to be refreshed, or its row was
\* without a cell when the list changed or lost the cell before the refresh
\* came (RecipeTableViewCell.swift:75), or one thread's refresh overtook the
\* other's edit (RecipeTableViewCell.swift:58-61).
HeartsAgree == \A v \in ViewModel : Wrong(v) => Due(v) \/ v \in excused

\* A tap changes the heart, right or wrong, once the sync is over
\* (CollectionCellViewModel.swift:20-28), unless another recipe of the same
\* title keeps it on (FavoritesManager.swift:36, 67).
TapFlips ==
    tap # NoTap =>
        (tap.last /\ tap.alone /\ Done("main") =>
            \/ isFavorite[tap.vm] # tap.was
            \/ \E q \in Recipe : q # tap.vm[2] /\ Title[q] = Title[tap.vm[2]]
                                 /\ favorites[q] > 0)

\* A tap on the home screen puts a recipe into the list a second time only if
\* its heart is wrong with an excuse, or while the sync is under way
\* (FavoritesManager.swift:55).
SecondCopyByStaleHeart ==
    [][\A v \in ViewModel :
           /\ tap = NoTap /\ tap' # NoTap /\ tap'.vm = v
           /\ favorites'[v[2]] > 1 /\ favorites'[v[2]] > favorites[v[2]]
           => ~SyncOver \/ v \in excused]_vars

\* No heart stays wrong without an excuse while a cell holds it.
HeartsSettle ==
    \A v \in ViewModel : Wrong(v) ~> ~Wrong(v) \/ v \in excused
=============================================================================
