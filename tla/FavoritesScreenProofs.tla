----------------------- MODULE FavoritesScreenProofs -----------------------
(***************************************************************************)
(* Theorems about FavoritesScreen, for any recipes.                        *)
(***************************************************************************)
EXTENDS FavoritesScreen, TLAPS

\* The values the variables may have (FavoritesViewModel's lists, the array
\* and the view): the type invariant is inductive.
THEOREM TypeCorrect == Spec => []TypeOK
<1>1. Init => TypeOK
  <2> SUFFICES ASSUME Init PROVE TypeOK
    OBVIOUS
  <2>1. sync \in {"running", "saved", "posted"}
    BY DEF Init
  <2>2. bound \in BOOLEAN /\ emptyLabel \in BOOLEAN
    BY DEF Init
  <2> QED
    BY <2>1, <2>2 DEF Init, TypeOK
<1>2. TypeOK /\ [Next]_vars => TypeOK'
  <2> SUFFICES ASSUME TypeOK, [Next]_vars PROVE TypeOK'
    OBVIOUS
  <2> USE DEF TypeOK, view, history, Thread, Stages
  <2>1. ASSUME NEW t \in Thread, Begin(t)
        PROVE  /\ at' \in [Thread -> Stages \union {"idle", "queue", "reload"}]
               /\ alone' \in [Thread -> BOOLEAN]
    BY <2>1 DEF Begin
  <2>2. CASE Open
    BY <2>1, <2>2 DEF Open, Begin
  <2>3. CASE Edit
    BY <2>1, <2>3 DEF Edit, Begin
  <2>4. CASE SyncSave
    BY <2>4 DEF SyncSave
  <2>5. CASE SyncPost
    BY <2>1, <2>5 DEF SyncPost, Begin
  <2>6. ASSUME NEW t \in Thread, Step(t) PROVE TypeOK'
    <3>1. CASE Fetch(t) \/ Store(t) \/ Map(t)
      BY <3>1 DEF Fetch, Store, Map
    <3>2. CASE Assign(t)
      BY <3>2 DEF Assign
    <3>3. CASE Queue(t)
      BY <3>3 DEF Queue
    <3> QED
      BY <2>6, <3>1, <3>2, <3>3 DEF Step
  <2>7. CASE ShowLabel
    BY <2>7 DEF ShowLabel
  <2>8. CASE Reload
    BY <2>8 DEF Reload
  <2>9. CASE UNCHANGED vars
    BY <2>9 DEF vars
  <2> QED
    BY <2>2, <2>3, <2>4, <2>5, <2>6, <2>7, <2>8, <2>9 DEF Next
<1> QED
  BY <1>1, <1>2, PTL DEF Spec

-----------------------------------------------------------------------------
(* What a load that nothing has interfered with has in hand is the list of *)
(* favourites, at every stage; and it is the only load.                    *)

InHand ==
    \A t \in Thread : alone[t] =>
        /\ at[t] \in {"store", "assign"} => list[t] = favorites
        /\ at[t] = "map" => favoriteRecipes = favorites

Solo ==
    \A t, u \in Thread : alone[t] /\ Loading(t) /\ Loading(u) => t = u

Shown ==
    \/ ~bound
    \/ items = favorites
    \/ sync = "saved"
    \/ \E t \in Thread : Loading(t)
    \/ mixed

Following == InHand /\ Solo /\ Shown

LEMMA FollowingInit == Init => Following
  BY DEF Init, Following, InHand, Solo, Shown, Loading, Stages

LEMMA BeginStep ==
  ASSUME TypeOK, Following, NEW t \in Thread, Begin(t),
         t = "main" \/ favorites' = favorites
  PROVE  Following'
<1> USE DEF TypeOK, Begin, Loading, Stages, Thread
<1>1. InHand'
  <2>1. CASE \E u \in Thread \ {t} : Loading(u)
    BY <2>1 DEF InHand
  <2>2. CASE ~\E u \in Thread \ {t} : Loading(u)
    BY <2>2 DEF InHand
  <2> QED
    BY <2>1, <2>2
<1>2. Solo'
  <2>1. CASE \E u \in Thread \ {t} : Loading(u)
    BY <2>1 DEF Solo
  <2>2. CASE ~\E u \in Thread \ {t} : Loading(u)
    BY <2>2 DEF Solo
  <2> QED
    BY <2>1, <2>2
<1>3. Shown'
  BY DEF Shown
<1> QED
  BY <1>1, <1>2, <1>3 DEF Following

LEMMA LoadStep ==
  ASSUME TypeOK, Following, NEW t \in Thread, Step(t)
  PROVE  Following'
<1> USE DEF TypeOK, Following, Loading, Stages, view, history
<1>1. CASE Fetch(t)
  <2>1. InHand'
    BY <1>1 DEF Fetch, InHand
  <2>2. Solo'
    BY <1>1 DEF Fetch, Solo
  <2>3. Shown'
    BY <1>1 DEF Fetch, Shown
  <2> QED
    BY <2>1, <2>2, <2>3
<1>2. CASE Store(t)
  <2>1. InHand'
    <3> SUFFICES ASSUME NEW u \in Thread, alone'[u]
                 PROVE  /\ at'[u] \in {"store", "assign"} => list'[u] = favorites'
                        /\ at'[u] = "map" => favoriteRecipes' = favorites'
      BY DEF InHand
    <3>1. CASE u = t
      BY <1>2, <3>1 DEF Store, InHand
    <3>2. CASE u # t
      BY <1>2, <3>2 DEF Store, InHand, Solo
    <3> QED
      BY <3>1, <3>2
  <2>2. Solo'
    BY <1>2 DEF Store, Solo
  <2>3. Shown'
    BY <1>2 DEF Store, Shown
  <2> QED
    BY <2>1, <2>2, <2>3
<1>3. CASE Map(t)
  <2>1. InHand'
    BY <1>3 DEF Map, InHand
  <2>2. Solo'
    BY <1>3 DEF Map, Solo
  <2>3. Shown'
    BY <1>3 DEF Map, Shown
  <2> QED
    BY <2>1, <2>2, <2>3
<1>4. CASE Assign(t)
  <2>1. InHand'
    BY <1>4 DEF Assign, InHand
  <2>2. Solo'
    BY <1>4 DEF Assign, Solo
  <2>3. alone[t] => items' = favorites'
    BY <1>4 DEF Assign, InHand
  <2>4. ~alone[t] => mixed'
    BY <1>4 DEF Assign
  <2>5. Shown'
    BY <2>3, <2>4 DEF Shown
  <2> QED
    BY <2>1, <2>2, <2>5
<1>5. CASE Queue(t)
  <2>1. InHand'
    BY <1>5 DEF Queue, InHand
  <2>2. Solo'
    BY <1>5 DEF Queue, Solo
  <2>3. Shown'
    BY <1>5 DEF Queue, Shown
  <2> QED
    BY <2>1, <2>2, <2>3
<1> QED
  BY <1>1, <1>2, <1>3, <1>4, <1>5 DEF Step

LEMMA FollowingStep ==
  ASSUME TypeOK, Following, [Next]_vars
  PROVE  Following'
<1>1. CASE Open
  BY <1>1, BeginStep DEF Open, Thread
<1>2. CASE Edit
  BY <1>2, BeginStep DEF Edit, Thread
<1>3. CASE SyncSave
  BY <1>3 DEF SyncSave, view, TypeOK, Following, InHand, Solo, Shown, Loading
<1>4. CASE SyncPost
  BY <1>4, BeginStep DEF SyncPost, Thread
<1>5. ASSUME NEW t \in Thread, Step(t) PROVE Following'
  BY <1>5, LoadStep
<1>6. CASE ShowLabel
  BY <1>6 DEF ShowLabel, history, TypeOK, Following, InHand, Solo, Shown, Loading, Stages, Thread
<1>7. CASE Reload
  BY <1>7 DEF Reload, history, TypeOK, Following, InHand, Solo, Shown, Loading, Stages, Thread
<1>8. CASE UNCHANGED vars
  BY <1>8 DEF vars, view, history, Following, InHand, Solo, Shown, Loading
<1> QED
  BY <1>1, <1>2, <1>3, <1>4, <1>5, <1>6, <1>7, <1>8 DEF Next

\* The array shows the favourites unless a load is under way, is due, or was
\* interfered with (FavoritesViewModel.swift:28-31).
THEOREM ShowsFavoritesAlways == Spec => []ShowsFavorites
<1>1. Following => ShowsFavorites
  BY DEF Following, Shown, ShowsFavorites
<1> QED
  BY <1>1, TypeCorrect, FollowingInit, FollowingStep, PTL DEF Spec

-----------------------------------------------------------------------------
(* When the sync's load is over, a load of the main thread that it has     *)
(* interfered with will only confirm that the array is mixed.              *)

Confirmed ==
    sync = "posted" /\ ~Loading("sync") /\ Loading("main") => alone["main"] \/ mixed

LEMMA ConfirmedStep ==
  ASSUME TypeOK, Following, Confirmed, [Next]_vars
  PROVE  Confirmed' /\ (mixed' /\ ~mixed => sync # "posted" \/ Loading("sync"))
<1> USE DEF TypeOK, Confirmed, Loading, Stages, Thread, view, history
<1>1. CASE Open
  BY <1>1 DEF Open, Begin
<1>2. CASE Edit
  BY <1>2 DEF Edit, Begin
<1>3. CASE SyncSave
  BY <1>3 DEF SyncSave
<1>4. CASE SyncPost
  BY <1>4 DEF SyncPost, Begin
<1>5. ASSUME NEW t \in Thread, Assign(t)
      PROVE  Confirmed' /\ (mixed' /\ ~mixed => sync # "posted" \/ Loading("sync"))
  <2>1. CASE t = "main"
    BY <1>5, <2>1 DEF Assign
  <2>2. CASE t = "sync"
    <3>1. Loading("main") => ~alone["sync"]
      BY <1>5, <2>2 DEF Assign, Following, Solo
    <3> QED
      BY <1>5, <2>2, <3>1 DEF Assign
  <2> QED
    BY <2>1, <2>2
<1>6. ASSUME NEW t \in Thread, Fetch(t) \/ Store(t) \/ Map(t) \/ Queue(t)
      PROVE  Confirmed' /\ (mixed' /\ ~mixed => sync # "posted" \/ Loading("sync"))
  BY <1>6 DEF Fetch, Store, Map, Queue
<1>7. CASE ShowLabel \/ Reload
  BY <1>7 DEF ShowLabel, Reload
<1>8. CASE UNCHANGED vars
  BY <1>8 DEF vars
<1> QED
  BY <1>1, <1>2, <1>3, <1>4, <1>5, <1>6, <1>7, <1>8 DEF Next, Step

\* Only a load that overlaps with the sync's can mix the lists
\* (FavoritesManager.swift:24-30 against 53-76).
THEOREM OnlyTheSyncEverMixes == Spec => OnlyTheSyncMixes
<1>1. Init => Confirmed
  BY DEF Init, Confirmed, Loading, Stages, Thread
<1>2. TypeOK /\ Following /\ Confirmed /\ [Next]_vars
        => [mixed' /\ ~mixed => sync # "posted" \/ Loading("sync")]_vars
  BY ConfirmedStep
<1>3. TypeOK /\ Following /\ Confirmed /\ [Next]_vars => Confirmed'
  BY ConfirmedStep
<1> QED
  BY <1>1, <1>2, <1>3, TypeCorrect, FollowingInit, FollowingStep, PTL
     DEF Spec, OnlyTheSyncMixes

-----------------------------------------------------------------------------
(* The label and the count: blocks exist only once there is a view, and a  *)
(* label that a running block has just set is wrong only if the other      *)
(* thread has its own block still to queue.                                *)

ViewExists == blocks > 0 \/ at["main"] = "reload" => bound

LabelInBlock ==
    at["main"] = "reload" /\ emptyLabel # (items = {}) =>
        blocks > 0 \/ at["sync"] = "queue"

NotYetPosted == sync # "posted" => at["sync"] = "idle"

Renewing == ViewExists /\ LabelInBlock /\ NotYetPosted /\ LabelAndCountRenewed

LEMMA RenewingStep ==
  ASSUME TypeOK, Renewing, [Next]_vars
  PROVE  Renewing'
<1> USE DEF TypeOK, Renewing, ViewExists, LabelInBlock, NotYetPosted, LabelAndCountRenewed, Thread,
            Stages, view, history
<1>1. CASE Open
  BY <1>1 DEF Open, Begin, UserActs
<1>7. CASE Edit
  BY <1>7 DEF Edit, Begin, UserActs
<1>8. CASE SyncPost
  BY <1>8 DEF SyncPost, Begin
<1>2. CASE SyncSave
  BY <1>2 DEF SyncSave
<1>3. ASSUME NEW t \in Thread, Step(t) PROVE Renewing'
  <2>1. CASE Fetch(t)
    BY <2>1 DEF Fetch
  <2>2. CASE Store(t)
    BY <2>2 DEF Store
  <2>3. CASE Map(t)
    BY <2>3 DEF Map
  <2>4. CASE Assign(t)
    BY <2>4 DEF Assign
  <2>5. CASE Queue(t)
    BY <2>5 DEF Queue
  <2> QED
    BY <1>3, <2>1, <2>2, <2>3, <2>4, <2>5 DEF Step
<1>4. CASE ShowLabel
  BY <1>4 DEF ShowLabel
<1>5. CASE Reload
  BY <1>5 DEF Reload
<1>6. CASE UNCHANGED vars
  BY <1>6 DEF vars
<1> QED
  BY <1>1, <1>2, <1>3, <1>4, <1>5, <1>6, <1>7, <1>8 DEF Next

\* A label or a count that is not the array's is renewed by a block that is
\* queued or will be (FavoritesViewControler.swift:79-88).
THEOREM LabelAndCountAlwaysRenewed == Spec => []LabelAndCountRenewed
<1>1. Init => Renewing
  BY DEF Init, Renewing, ViewExists, LabelInBlock, NotYetPosted, LabelAndCountRenewed, Thread
<1>2. Renewing => LabelAndCountRenewed
  BY DEF Renewing
<1> QED
  BY <1>1, <1>2, TypeCorrect, RenewingStep, PTL DEF Spec

-----------------------------------------------------------------------------
\* The safety part of the refinement (Dynamic.swift:18-22).
THEOREM FavoritesScreenIsAListView == Spec => View!ListSafety
<1>1. Init => View!ListInit
  BY DEF Init, View!ListInit
<1>2. TypeOK /\ Renewing /\ [Next]_vars => [View!ListNext]_(View!listVars)
  <2> SUFFICES ASSUME TypeOK, Renewing, [Next]_vars
               PROVE  View!ListNext \/ UNCHANGED <<items, drawn, bound>>
    BY DEF View!listVars
  <2> USE DEF view, history
  <2>1. CASE Open
    BY <2>1 DEF Open, Begin, View!ListNext, View!LoadView
  <2>2. ASSUME NEW t \in Thread, Assign(t) PROVE View!ListNext
    BY <2>2 DEF Assign, TypeOK, View!ListNext, View!Replace
  <2>3. CASE Reload
    BY <2>3 DEF Reload, Renewing, ViewExists, View!ListNext, View!Refresh
  <2>4. CASE Edit \/ SyncSave \/ SyncPost \/ ShowLabel \/ UNCHANGED vars
    BY <2>4 DEF Edit, SyncSave, SyncPost, Begin, ShowLabel, vars
  <2>5. ASSUME NEW t \in Thread, Fetch(t) \/ Store(t) \/ Map(t) \/ Queue(t)
        PROVE  UNCHANGED <<items, drawn, bound>>
    BY <2>5 DEF Fetch, Store, Map, Queue
  <2> QED
    BY <2>1, <2>2, <2>3, <2>4, <2>5 DEF Next, Step
<1>3. Init => Renewing
  BY DEF Init, Renewing, ViewExists, LabelInBlock, NotYetPosted, LabelAndCountRenewed, Thread
<1> QED
  BY <1>1, <1>2, <1>3, TypeCorrect, RenewingStep, PTL DEF Spec, View!ListSafety
=============================================================================
