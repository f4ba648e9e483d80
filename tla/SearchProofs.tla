---------------------------- MODULE SearchProofs ----------------------------
(***************************************************************************)
(* Theorems about Search, for any recipes, texts and matches.              *)
(***************************************************************************)
EXTENDS Search, TLAPS

\* The values the variables may have (SearchViewModel's lists, the array of
\* the view and the blocks that reload it): the type invariant is inductive.
THEOREM TypeCorrect == Spec => []TypeOK
<1> USE TextAssumption
<1>1. Init => TypeOK
  <2> SUFFICES ASSUME Init PROVE TypeOK
    OBVIOUS
  <2>1. awaited \subseteq {"handler", "sync"}
    BY DEF Init
  <2> QED
    BY <2>1 DEF Init, TypeOK
<1>2. TypeOK /\ [Next]_vars => TypeOK'
  <2> SUFFICES ASSUME TypeOK, [Next]_vars PROVE TypeOK'
    OBVIOUS
  <2> USE DEF TypeOK, lists, Thread
  <2>1. ASSUME NEW x \in Text \union {NoText}, Type(x) PROVE TypeOK'
    BY <2>1 DEF Type, Show, Filter, UserActs
  <2>2. CASE Answer
    BY <2>2 DEF Answer, Show
  <2>3. CASE EditPosted
    BY <2>3 DEF EditPosted, Look
  <2>4. CASE SyncPosted
    BY <2>4 DEF SyncPosted, Look
  <2>5. ASSUME NEW t \in Thread, Step(t) PROVE TypeOK'
    <3>1. CASE Pick(t)
      BY <3>1 DEF Pick
    <3>2. CASE Assign(t)
      BY <3>2 DEF Assign
    <3>3. CASE Queue(t)
      BY <3>3 DEF Queue
    <3> QED
      BY <2>5, <3>1, <3>2, <3>3 DEF Step
  <2>6. CASE Reload
    BY <2>6 DEF Reload
  <2>7. CASE UNCHANGED vars
    BY <2>7 DEF vars
  <2> QED
    BY <2>1, <2>2, <2>3, <2>4, <2>5, <2>6, <2>7 DEF Next
<1> QED
  BY <1>1, <1>2, PTL DEF Spec

-----------------------------------------------------------------------------
(* The answer finds its thread idle, and the lists as they were at first.  *)

Awaiting ==
    "handler" \in awaited =>
        at["handler"] = "idle" /\ popularRecipes = {} /\ filteredRecipes = {}

LEMMA AwaitingInit == Init => Awaiting
  BY DEF Init, Awaiting, Thread

LEMMA AwaitingStep ==
  ASSUME TypeOK, Awaiting, [Next]_vars
  PROVE  Awaiting'
<1> USE DEF TypeOK, Awaiting, lists, Thread
<1>1. ASSUME NEW x \in Text \union {NoText}, Type(x) PROVE Awaiting'
  BY <1>1 DEF Type, Show, Filter
<1>2. CASE Answer
  BY <1>2 DEF Answer
<1>3. CASE EditPosted
  BY <1>3 DEF EditPosted, Look
<1>4. CASE SyncPosted
  BY <1>4 DEF SyncPosted, Look
<1>5. ASSUME NEW t \in Thread, Step(t) PROVE Awaiting'
  BY <1>5 DEF Step, Pick, Assign, Queue
<1>6. CASE Reload
  BY <1>6 DEF Reload
<1>7. CASE UNCHANGED vars
  BY <1>7 DEF vars
<1> QED
  BY <1>1, <1>2, <1>3, <1>4, <1>5, <1>6, <1>7 DEF Next

\* The view's count is renewed (SearchViewController.swift:64-78): whoever
\* replaces the array still has its reload to queue, and a block that runs
\* takes the array of that moment.
THEOREM StaleCountAlwaysReloaded == Spec => []StaleCountIsReloaded
<1>1. Init => StaleCountIsReloaded
  BY DEF Init, StaleCountIsReloaded
<1>2. TypeOK /\ Awaiting /\ StaleCountIsReloaded /\ [Next]_vars => StaleCountIsReloaded'
  <2> SUFFICES ASSUME TypeOK, Awaiting, StaleCountIsReloaded, [Next]_vars
               PROVE  StaleCountIsReloaded'
    OBVIOUS
  <2> USE DEF TypeOK, StaleCountIsReloaded, lists, Thread
  <2>1. ASSUME NEW x \in Text \union {NoText}, Type(x) PROVE StaleCountIsReloaded'
    BY <2>1 DEF Type, Show, UserActs
  <2>2. CASE Answer
    BY <2>2 DEF Answer, Show, Awaiting
  <2>3. CASE EditPosted
    BY <2>3 DEF EditPosted, Look, UserActs
  <2>4. CASE SyncPosted
    BY <2>4 DEF SyncPosted, Look
  <2>5. ASSUME NEW t \in Thread, Step(t) PROVE StaleCountIsReloaded'
    <3>1. CASE Pick(t)
      BY <3>1 DEF Pick
    <3>2. CASE Assign(t)
      BY <3>2 DEF Assign
    <3>3. CASE Queue(t)
      BY <3>3 DEF Queue
    <3> QED
      BY <2>5, <3>1, <3>2, <3>3 DEF Step
  <2>6. CASE Reload
    BY <2>6 DEF Reload
  <2>7. CASE UNCHANGED vars
    BY <2>7 DEF vars
  <2> QED
    BY <2>1, <2>2, <2>3, <2>4, <2>5, <2>6, <2>7 DEF Next
<1> QED
  BY <1>1, <1>2, TypeCorrect, AwaitingInit, AwaitingStep, PTL DEF Spec

-----------------------------------------------------------------------------
(* ShowsTheSearch is inductive once one follows a thread from its look at  *)
(* the lists to the array: what is fresh is right at every stage, and a    *)
(* wrong array is astray or about to be replaced by something fresh.       *)

Right(l) ==
    \/ l = Wanted
    \/ text # NoText /\ filteredRecipes = {} /\ l = popularRecipes

FilterRight ==
    filteredRecipes = {} \/ (text # NoText /\ filteredRecipes = Filter(text))

PickRight ==
    \A t \in Thread :
        at[t] = "pick" /\ fresh[t] =>
            (source[t] = "filtered" <=> filteredRecipes # {})

AssignRight ==
    \A t \in Thread : at[t] = "assign" /\ fresh[t] => Right(list[t])

ItemsRight ==
    \/ Right(items)
    \/ astray
    \/ \E t \in Thread : at[t] \in {"pick", "assign"} /\ fresh[t]

Showing == FilterRight /\ PickRight /\ AssignRight /\ ItemsRight

LEMMA ShowingInit == Init => Showing
  BY DEF Init, Showing, FilterRight, PickRight, AssignRight, ItemsRight, Right, Wanted

LEMMA ShowStep ==
  ASSUME TypeOK, NEW t \in Thread, NEW recipes, Show(t, recipes),
         Right(recipes)', FilterRight'
  PROVE  Showing'
<1>1. at'[t] = "assign" /\ fresh'[t] /\ list'[t] = recipes
  BY DEF Show, TypeOK
<1>2. \A u \in Thread : fresh'[u] => u = t
  BY DEF Show
<1>3. PickRight'
  BY <1>1, <1>2 DEF PickRight
<1>4. AssignRight'
  BY <1>1, <1>2 DEF AssignRight, Right, Wanted, Filter
<1>5. ItemsRight'
  BY <1>1 DEF ItemsRight
<1> QED
  BY <1>3, <1>4, <1>5 DEF Showing

LEMMA LookStep ==
  ASSUME TypeOK, Showing, NEW t \in Thread, Look(t)
  PROVE  Showing'
<1> USE DEF TypeOK, Look, lists
<1>1. FilterRight'
  BY DEF Showing, FilterRight, Filter
<1>2. PickRight'
  BY DEF Showing, PickRight
<1>3. AssignRight'
  BY DEF Showing, AssignRight, Right, Wanted, Filter
<1>4. ItemsRight'
  <2>1. at'[t] = "pick" /\ fresh'[t]
    OBVIOUS
  <2> QED
    BY <2>1 DEF ItemsRight
<1> QED
  BY <1>1, <1>2, <1>3, <1>4 DEF Showing

LEMMA ThreadStep ==
  ASSUME TypeOK, Showing, NEW t \in Thread, Step(t)
  PROVE  Showing'
<1> USE DEF TypeOK, lists
<1>0. lists' = lists /\ fresh' = fresh
  BY DEF Step, Pick, Assign, Queue
<1>1. FilterRight'
  BY <1>0 DEF Showing, FilterRight, Filter
<1>2. \A l : Right(l)' <=> Right(l)
  BY <1>0 DEF Right, Wanted, Filter
<1>3. CASE Pick(t)
  <2>1. PickRight'
    BY <1>3 DEF Showing, PickRight, Pick
  <2>2. fresh[t] => Right(list'[t])
    BY <1>3 DEF Showing, FilterRight, PickRight, Pick, Right, Wanted
  <2>3. AssignRight'
    <3> SUFFICES ASSUME NEW u \in Thread, at'[u] = "assign", fresh[u]
                 PROVE  Right(list'[u])
      BY <1>0, <1>2 DEF AssignRight, Right, Wanted, Filter
    <3>1. CASE u = t
      BY <2>2, <3>1
    <3>2. CASE u # t
      BY <1>3, <3>2 DEF Showing, AssignRight, Pick
    <3> QED
      BY <3>1, <3>2
  <2>4. ItemsRight'
    BY <1>0, <1>3 DEF Showing, ItemsRight, Pick, Right, Wanted, Filter
  <2> QED
    BY <1>1, <2>1, <2>3, <2>4 DEF Showing
<1>4. CASE Assign(t)
  <2>1. PickRight'
    BY <1>4 DEF Showing, PickRight, Assign
  <2>2. AssignRight'
    BY <1>0, <1>4 DEF Showing, AssignRight, Assign, Right, Wanted, Filter
  <2>3. ItemsRight'
    <3>1. fresh[t] => Right(items')
      BY <1>4 DEF Showing, AssignRight, Assign
    <3>2. ~fresh[t] => astray'
      BY <1>4 DEF Assign
    <3> QED
      BY <1>0, <3>1, <3>2 DEF ItemsRight, Right, Wanted, Filter
  <2> QED
    BY <1>1, <2>1, <2>2, <2>3 DEF Showing
<1>5. CASE Queue(t)
  <2>1. PickRight'
    BY <1>5 DEF Showing, PickRight, Queue
  <2>2. AssignRight'
    BY <1>0, <1>5 DEF Showing, AssignRight, Queue, Right, Wanted, Filter
  <2>3. ItemsRight'
    BY <1>0, <1>5 DEF Showing, ItemsRight, Queue, Right, Wanted, Filter
  <2> QED
    BY <1>1, <2>1, <2>2, <2>3 DEF Showing
<1> QED
  BY <1>3, <1>4, <1>5 DEF Step

LEMMA ShowingStep ==
  ASSUME TypeOK, Awaiting, Showing, [Next]_vars
  PROVE  Showing'
<1>1. ASSUME NEW x \in Text \union {NoText}, Type(x) PROVE Showing'
  <2>1. PICK l : l = IF x = NoText THEN popularRecipes ELSE Filter(x)
    OBVIOUS
  <2>2. Show("main", l)
    BY <1>1, <2>1 DEF Type
  <2>3. FilterRight'
    BY <1>1 DEF Type, FilterRight, Filter
  <2>4. Right(l)'
    BY <1>1, <2>1 DEF Type, Right, Wanted, Filter
  <2> QED
    BY <2>2, <2>3, <2>4, ShowStep DEF Thread
<1>2. CASE Answer
  <2>1. PICK recipes \in SUBSET Recipe :
            popularRecipes' = recipes /\ Show("handler", recipes)
    BY <1>2 DEF Answer
  <2>2. text' = text /\ filteredRecipes' = {}
    BY <1>2 DEF Answer, Awaiting
  <2>3. FilterRight'
    BY <2>2 DEF FilterRight
  <2>4. Right(recipes)'
    BY <2>1, <2>2 DEF Right, Wanted
  <2> QED
    BY <2>1, <2>3, <2>4, ShowStep DEF Thread
<1>3. CASE EditPosted
  BY <1>3, LookStep DEF EditPosted, Thread
<1>4. CASE SyncPosted
  BY <1>4, LookStep DEF SyncPosted, Thread
<1>5. ASSUME NEW t \in Thread, Step(t) PROVE Showing'
  BY <1>5, ThreadStep
<1>6. CASE Reload
  BY <1>6 DEF Reload, lists, Showing, FilterRight, PickRight, AssignRight, ItemsRight,
              Right, Wanted, Filter
<1>7. CASE UNCHANGED vars
  BY <1>7 DEF vars, lists, Showing, FilterRight, PickRight, AssignRight, ItemsRight,
              Right, Wanted, Filter
<1> QED
  BY <1>1, <1>2, <1>3, <1>4, <1>5, <1>6, <1>7 DEF Next

\* Once the threads rest, the array is what the search bar asks for
\* (SearchViewModel.swift:63-71), or all recipes under an empty filter (35,
\* 47), or was assigned by a thread that a change overtook (31).
THEOREM ShowsTheSearchAlways == Spec => []ShowsTheSearch
<1>1. Showing => ShowsTheSearch
  BY DEF Showing, ItemsRight, Right, ShowsTheSearch, Thread
<1> QED
  BY <1>1, TypeCorrect, AwaitingInit, AwaitingStep, ShowingInit, ShowingStep, PTL DEF Spec

-----------------------------------------------------------------------------
\* The safety part of the refinement: every step of the screen replaces the
\* array, reloads the view, or does not concern them (Dynamic.swift:18-22).
THEOREM SearchIsAListView == Spec => View!ListSafety
<1>1. Init => View!ListInit
  BY DEF Init, View!ListInit
<1>2. TypeOK /\ [Next]_vars => [View!ListNext]_(View!listVars)
  <2> SUFFICES ASSUME TypeOK, [Next]_vars
               PROVE  View!ListNext \/ UNCHANGED <<items, drawn>>
    BY DEF View!listVars
  <2>1. ASSUME NEW t \in Thread, Assign(t) PROVE View!Replace
    BY <2>1 DEF Assign, TypeOK, View!Replace
  <2>2. CASE Reload
    BY <2>2 DEF Reload, View!ListNext, View!Refresh
  <2>3. CASE ~Reload /\ ~\E t \in Thread : Assign(t)
    BY <2>3 DEF Next, Type, Answer, EditPosted, SyncPosted, Look, Step, Pick, Queue, vars
  <2> QED
    BY <2>1, <2>2, <2>3 DEF View!ListNext
<1> QED
  BY <1>1, <1>2, TypeCorrect, PTL DEF Spec, View!ListSafety
=============================================================================
