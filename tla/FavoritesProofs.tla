-------------------------- MODULE FavoritesProofs --------------------------
(***************************************************************************)
(* Theorems about Favorites, for any recipes, accounts and request slots.  *)
(***************************************************************************)
EXTENDS Favorites, TLAPS

\* The values the variables may have (FavoritesManager's UserDefaults list,
\* the tokens, its requests and its sync): the type invariant is inductive.
THEOREM TypeCorrect == Spec => []TypeOK
<1>1. Init => TypeOK
  <2> SUFFICES ASSUME Init PROVE TypeOK
    OBVIOUS
  <2>1. TasksOK
    BY DEF Init, TasksOK, Free
  <2>2. SyncOK
    BY DEF Init, SyncOK, Sync, NoSync, Token
  <2> QED
    BY <2>1, <2>2 DEF Init, TypeOK, Token
<1>2. TypeOK /\ [Next]_vars => TypeOK'
  <2> SUFFICES ASSUME TypeOK, [Next]_vars PROVE TypeOK'
    OBVIOUS
  <2> USE NoneAssumption DEF TypeOK, Token, session, Ops, TasksOK, SyncOK
  <2>0. TasksOK /\ SyncOK
    OBVIOUS
  <2>1. ASSUME NEW op \in Ops, NEW r \in Recipes, BeginEdit(op, r) PROVE TypeOK'
    BY <2>1 DEF BeginEdit, MainThreadFree, Edit
  <2>2. ASSUME NEW t \in Tasks, CommitEdit(t) PROVE TypeOK'
    <3>1. edit \in Edit
      BY <2>2 DEF CommitEdit
    <3>2. Edited(edit) \in [Recipes -> Nat]
      BY <3>1 DEF Edited, Edit
    <3>3. TasksOK'
      BY <3>1, <2>2 DEF CommitEdit, Edit, Request
    <3>4. SyncOK'
      BY <2>2 DEF CommitEdit, Sync
    <3> QED
      BY <2>2, <3>1, <3>2, <3>3, <3>4 DEF CommitEdit, Idle
  <2>3. ASSUME NEW t \in Tasks, RequestStep(t) PROVE TypeOK'
    <3>1. tasks[t] \in Request
      BY <2>3 DEF RequestStep, Send, Apply, Lose, TimeOut, Reject, RefreshOk,
          RefreshFail, Free
    <3>2. ASSUME GiveUp(t) PROVE TasksOK' /\ agreed' \in [Recipes -> Token]
      BY <3>1, <3>2 DEF GiveUp, Request, Free
    <3>3. CASE Send(t)
      BY <3>1, <3>2, <3>3 DEF Send, Request
    <3>4. CASE Apply(t)
      <4>1. saved' \in [Accounts -> SUBSET Recipes]
        BY <3>1, <3>4 DEF Apply, Request
      <4>2. TasksOK' /\ agreed' \in [Recipes -> Token]
        BY <3>1, <3>4 DEF Apply, Request, Free
      <4> QED
        BY <4>1, <4>2, <3>4 DEF Apply
    <3>5. CASE Lose(t)
      BY <3>2, <3>5 DEF Lose
    <3>9. CASE TimeOut(t)
      BY <3>1, <3>9 DEF TimeOut, Request
    <3>6. CASE Reject(t)
      BY <3>1, <3>2, <3>6 DEF Reject, Request
    <3>7. CASE RefreshOk(t)
      BY <3>1, <3>7 DEF RefreshOk, Request
    <3>8. CASE RefreshFail(t)
      BY <3>2, <3>8 DEF RefreshFail
    <3> QED
      BY <2>3, <3>3, <3>4, <3>5, <3>6, <3>7, <3>8, <3>9 DEF RequestStep
  <2>4. CASE ManagerInit
    BY <2>4 DEF ManagerInit, Sync
  <2>5. CASE SyncStep
    <3>1. CASE SyncSend
      BY <3>1 DEF SyncSend, Sync
    <3>2. CASE SyncAnswer
      <4>1. sync.tok \in Accounts /\ saved[sync.tok] \in SUBSET Recipes
        BY <3>2 DEF SyncAnswer
      <4>2. SyncOK'
        BY <3>2, <4>1 DEF SyncAnswer, Sync
      <4> QED
        BY <3>2, <4>2 DEF SyncAnswer
    <3>3. CASE SyncFail
      BY <3>3 DEF SyncFail, Sync, NoSync
    <3>4. CASE SyncSave
      BY <3>4 DEF SyncSave, Sync, NoSync
    <3> QED
      BY <2>5, <3>1, <3>2, <3>3, <3>4 DEF SyncStep
  <2>6. tasks' = Moved => TasksOK'
    <3> SUFFICES ASSUME tasks' = Moved PROVE TasksOK'
      OBVIOUS
    <3>1. ASSUME NEW t \in Tasks
          PROVE  /\ Moved[t] \in {Free} \union Request
                 /\ Moved[t].pc \notin {"free", "spawned"} => Moved[t].tok \in Accounts
      <4>1. CASE tasks[t].pc = "free"
        BY <4>1 DEF Moved, Free
      <4>2. CASE tasks[t].pc # "free"
        BY <4>2 DEF Moved, Free, Request
      <4> QED
        BY <4>1, <4>2
    <3>2. Moved = [t \in Tasks |-> Moved[t]]
      BY DEF Moved
    <3> QED
      BY <3>1, <3>2
  <2>7. ASSUME NEW a \in Accounts, SignIn(a) PROVE TypeOK'
    BY <2>6, <2>7 DEF SignIn, PutAccessToken
  <2>11. ASSUME NEW a \in Accounts, SaveUnheard(a) PROVE TypeOK'
    BY <2>11 DEF SaveUnheard, PutAccessToken
  <2>8. CASE SignOut \/ DropTokens \/ ShowAuth
    BY <2>6, <2>8 DEF SignOut, DropTokens, ShowAuth, PutAccessToken
  <2>12. CASE PutRefreshToken
    BY <2>12 DEF PutRefreshToken
  <2>9. CASE Relaunch
    <3>1. TasksOK'
      BY <2>9 DEF Relaunch, Request, Free
    <3>2. SyncOK'
      BY <2>9 DEF Relaunch, NoSync, Sync
    <3> QED
      BY <2>9, <3>1, <3>2 DEF Relaunch, Idle
  <2>10. CASE UNCHANGED vars
    BY <2>10 DEF vars
  <2> QED
    BY <2>1, <2>2, <2>3, <2>4, <2>5, <2>7, <2>8, <2>9, <2>10, <2>11, <2>12
       DEF Next
<1> QED
  BY <1>1, <1>2, PTL DEF Spec

-----------------------------------------------------------------------------
(* ListFollowsServer is inductive once one knows that the recipes with an  *)
(* agreed account have at most one request, which asks for what the list   *)
(* says, that an edit in progress has not read an old list about them, and *)
(* that the sync's snapshot is still true of its clean recipes.            *)

On(t, r) == tasks[t].pc # "free" /\ tasks[t].id = r

OneRequest ==
    \A r \in Recipes : \A t, u \in Tasks :
        agreed[r] # None /\ On(t, r) /\ On(u, r) => t = u

Asked ==
    \A r \in Recipes : \A t \in Tasks :
        agreed[r] # None /\ On(t, r) => (favorites[r] > 0 <=> tasks[t].op = "save")

Reached ==
    \A r \in Recipes :
        agreed[r] # None /\ (\A t \in Tasks : ~On(t, r))
            => (favorites[r] > 0 <=> r \in saved[agreed[r]])

EditIsCurrent ==
    edit # Idle => \A r \in Recipes : agreed[r] # None => edit.list[r] = favorites[r]

SnapIsCurrent ==
    sync.pc = "answered" =>
        \A r \in sync.clean :
            (\A t \in Tasks : ~On(t, r)) /\ (r \in sync.snap <=> r \in saved[sync.tok])

Following == OneRequest /\ Asked /\ Reached /\ EditIsCurrent /\ SnapIsCurrent

LEMMA FollowingSuffices ==
  ASSUME Following
  PROVE  ListFollowsServer
<1> SUFFICES ASSUME NEW r \in Recipes, agreed[r] # None
             PROVE  favorites[r] > 0 <=> WillBeSaved(r, agreed[r])
  BY DEF ListFollowsServer
<1>1. CASE PendingOn(r) = {}
  BY <1>1 DEF Following, Reached, WillBeSaved, PendingOn, On
<1>2. CASE PendingOn(r) # {}
  BY <1>2 DEF Following, OneRequest, Asked, WillBeSaved, PendingOn, On
<1> QED
  BY <1>1, <1>2

LEMMA CommitEditFollows ==
  ASSUME TypeOK, Following, NEW t \in Tasks, CommitEdit(t)
  PROVE  Following'
<1>0. edit \in Edit
  BY DEF TypeOK, CommitEdit
<1> PICK id \in Recipes : id = edit.id
  BY <1>0 DEF Edit
<1>1. /\ edit \in Edit
      /\ tasks \in [Tasks -> {Free} \union Request]
      /\ agreed \in [Recipes -> Token]
      /\ tasks[t].pc = "free"
      /\ saved' = saved
      /\ edit' = Idle
      /\ favorites' = Edited(edit)
      /\ agreed' = [agreed EXCEPT ![id] = IF PendingOn(id) = {} THEN authToken ELSE None]
      /\ tasks' = [tasks EXCEPT ![t] =
             [pc |-> "spawned", op |-> edit.op, id |-> id, tok |-> None,
              by |-> user, moved |-> FALSE]]
  BY <1>0 DEF TypeOK, TasksOK, CommitEdit
<1>2. id \in Recipes /\ edit.op \in Ops /\ edit.list \in [Recipes -> Nat]
  BY <1>1 DEF Edit
<1>3. ASSUME NEW r \in Recipes, r # id
      PROVE  /\ favorites'[r] = edit.list[r]
             /\ agreed'[r] = agreed[r]
             /\ \A u \in Tasks : On(u, r)' <=> On(u, r)
             /\ \A u \in Tasks : On(u, r) => tasks'[u] = tasks[u]
  <2>1. favorites'[r] = edit.list[r] /\ agreed'[r] = agreed[r]
    BY <1>1, <1>2, <1>3 DEF Edited
  <2>2. ASSUME NEW u \in Tasks
        PROVE (On(u, r)' <=> On(u, r)) /\ (On(u, r) => tasks'[u] = tasks[u])
    BY <1>1, <1>2, <1>3 DEF On
  <2> QED
    BY <2>1, <2>2
<1>4. /\ favorites'[id] > 0 <=> edit.op = "save"
      /\ On(t, id)' /\ tasks'[t].op = edit.op
      /\ agreed'[id] # None => \A u \in Tasks : On(u, id)' => u = t
  <2>1. favorites'[id] > 0 <=> edit.op = "save"
    <3>1. favorites'[id] = IF edit.op = "save" THEN edit.list[id] + 1 ELSE 0
      BY <1>1, <1>2 DEF Edited
    <3>2. edit.list[id] \in Nat
      BY <1>2
    <3> QED
      BY <3>1, <3>2
  <2>2. On(t, id)' /\ tasks'[t].op = edit.op
    BY <1>1 DEF On
  <2>3. ASSUME agreed'[id] # None, NEW u \in Tasks, On(u, id)', u # t PROVE FALSE
    <3>1. PendingOn(id) = {}
      BY <1>1, <1>2, <2>3
    <3>2. On(u, id)
      BY <1>1, <2>3 DEF On
    <3> QED
      BY <3>1, <3>2 DEF PendingOn, On
  <2> QED
    BY <2>1, <2>2, <2>3
<1>5. OneRequest'
  BY <1>3, <1>4 DEF Following, OneRequest
<1>6. Asked'
  <2> SUFFICES ASSUME NEW r \in Recipes, NEW u \in Tasks, agreed'[r] # None, On(u, r)'
               PROVE  favorites'[r] > 0 <=> tasks'[u].op = "save"
    BY DEF Asked
  <2>1. CASE r = id
    BY <1>4, <2>1
  <2>2. CASE r # id
    <3>1. edit.list[r] = favorites[r]
      BY <1>1, <1>3, <2>2 DEF Following, EditIsCurrent, CommitEdit
    <3> QED
      BY <1>3, <2>2, <3>1 DEF Following, Asked
  <2> QED
    BY <2>1, <2>2
<1>7. Reached'
  <2> SUFFICES ASSUME NEW r \in Recipes, agreed'[r] # None, \A u \in Tasks : ~On(u, r)'
               PROVE  favorites'[r] > 0 <=> r \in saved'[agreed'[r]]
    BY DEF Reached
  <2>1. r # id
    BY <1>4
  <2>2. edit.list[r] = favorites[r]
    BY <1>1, <1>3, <2>1 DEF Following, EditIsCurrent, CommitEdit
  <2> QED
    BY <1>1, <1>3, <2>1, <2>2 DEF Following, Reached
<1>8. EditIsCurrent'
  BY <1>1 DEF EditIsCurrent
<1>9. SnapIsCurrent'
  <2>1. /\ sync'.pc = sync.pc /\ sync'.tok = sync.tok /\ sync'.snap = sync.snap
        /\ sync'.clean = sync.clean \ {id}
        /\ sync.clean \subseteq Recipes
    BY DEF CommitEdit, TypeOK, SyncOK, Sync
  <2> QED
    BY <1>1, <1>3, <2>1 DEF Following, SnapIsCurrent
<1> QED
  BY <1>5, <1>6, <1>7, <1>8, <1>9 DEF Following

\* A step that leaves every request for what it is about and asks for.
LEMMA SameRequestsFollow ==
  ASSUME Following,
         UNCHANGED <<favorites, agreed, saved, sync>>,
         edit' = edit \/ edit' = Idle \/ (edit' \in Edit /\ edit'.list = favorites),
         \A u \in Tasks : \A r \in Recipes : On(u, r)' <=> On(u, r),
         \A u \in Tasks : tasks[u].pc # "free" => tasks'[u].op = tasks[u].op,
         sync.clean \subseteq Recipes
  PROVE  Following'
<1>1. OneRequest'
  BY DEF Following, OneRequest
<1>2. Asked'
  BY DEF Following, Asked, On
<1>3. Reached'
  BY DEF Following, Reached
<1>4. EditIsCurrent'
  BY DEF Following, EditIsCurrent
<1>5. SnapIsCurrent'
  BY DEF Following, SnapIsCurrent
<1> QED
  BY <1>1, <1>2, <1>3, <1>4, <1>5 DEF Following

\* A request leaves, and with it what was known of its recipe.
LEMMA GiveUpFollows ==
  ASSUME TypeOK, Following, NEW t \in Tasks, tasks[t].pc # "free", GiveUp(t),
         UNCHANGED <<favorites, saved, edit, sync>>
  PROVE  Following'
<1>1. /\ tasks[t] \in Request /\ tasks' = [tasks EXCEPT ![t] = Free]
      /\ agreed' = [agreed EXCEPT ![tasks[t].id] = None]
      /\ agreed \in [Recipes -> Token] /\ tasks \in [Tasks -> {Free} \union Request]
      /\ sync.clean \subseteq Recipes
  BY DEF GiveUp, TypeOK, TasksOK, SyncOK, Sync, Free
<1>2. ASSUME NEW r \in Recipes, NEW u \in Tasks
      PROVE  /\ On(u, r)' => On(u, r) /\ tasks'[u] = tasks[u]
             /\ On(u, r) /\ u # t => On(u, r)'
  BY <1>1 DEF On, Free
<1>3. ASSUME NEW r \in Recipes, agreed'[r] # None
      PROVE  agreed'[r] = agreed[r] /\ ~On(t, r)
  BY <1>1, <1>3 DEF On, Request
<1>4. OneRequest'
  BY <1>2, <1>3 DEF Following, OneRequest
<1>5. Asked'
  BY <1>2, <1>3 DEF Following, Asked
<1>6. Reached'
  BY <1>2, <1>3 DEF Following, Reached
<1>7. EditIsCurrent'
  BY <1>3 DEF Following, EditIsCurrent
<1>8. SnapIsCurrent'
  BY <1>1, <1>2 DEF Following, SnapIsCurrent
<1> QED
  BY <1>4, <1>5, <1>6, <1>7, <1>8 DEF Following

\* The only request for its recipe reaches the server.
LEMMA ApplyFollows ==
  ASSUME TypeOK, Following, NEW t \in Tasks, Apply(t)
  PROVE  Following'
<1>0. /\ tasks[t] \in Request /\ tasks[t].pc # "free" /\ tasks[t].tok \in Accounts
      /\ tasks \in [Tasks -> {Free} \union Request]
  BY DEF Apply, TypeOK, TasksOK, Free
<1> PICK id \in Recipes : id = tasks[t].id
  BY <1>0 DEF Request
<1> PICK a \in Accounts : a = tasks[t].tok
  BY <1>0
<1>1. /\ agreed \in [Recipes -> Token] /\ saved \in [Accounts -> SUBSET Recipes]
      /\ sync.clean \subseteq Recipes
      /\ sync.pc = "answered" => sync.tok \in Accounts
      /\ UNCHANGED <<favorites, edit, sync>>
      /\ tasks' = [tasks EXCEPT ![t] = Free]
      /\ agreed' = [agreed EXCEPT ![id] = IF agreed[id] = None THEN None ELSE a]
      /\ saved' = [saved EXCEPT ![a] = IF tasks[t].op = "save"
                                          THEN saved[a] \union {id} ELSE saved[a] \ {id}]
      /\ On(t, id)
  BY <1>0 DEF Apply, TypeOK, SyncOK, Sync, On
<1>2. ASSUME NEW r \in Recipes, NEW u \in Tasks
      PROVE  /\ On(u, r)' => On(u, r) /\ tasks'[u] = tasks[u] /\ u # t
             /\ On(u, r) /\ u # t => On(u, r)'
  BY <1>0, <1>1 DEF On, Free
<1>3. ASSUME NEW r \in Recipes, r # id
      PROVE  /\ agreed'[r] = agreed[r] /\ ~On(t, r)
             /\ \A b \in Accounts : r \in saved'[b] <=> r \in saved[b]
  BY <1>1, <1>3 DEF On
<1>4. ASSUME agreed'[id] # None
      PROVE  /\ agreed[id] # None /\ agreed'[id] = a
             /\ id \in saved'[a] <=> tasks[t].op = "save"
  BY <1>1, <1>4
<1>5. OneRequest'
  BY <1>2, <1>3, <1>4 DEF Following, OneRequest
<1>6. Asked'
  BY <1>1, <1>2, <1>3, <1>4 DEF Following, Asked
<1>7. Reached'
  <2> SUFFICES ASSUME NEW r \in Recipes, agreed'[r] # None, \A u \in Tasks : ~On(u, r)'
               PROVE  favorites'[r] > 0 <=> r \in saved'[agreed'[r]]
    BY DEF Reached
  <2>1. CASE r = id
    BY <1>1, <1>4, <2>1 DEF Following, Asked
  <2>2. CASE r # id
    <3>1. agreed[r] \in Accounts /\ \A u \in Tasks : ~On(u, r)
      BY <1>1, <1>2, <1>3, <2>2 DEF Token
    <3> QED
      BY <1>1, <1>3, <2>2, <3>1 DEF Following, Reached
  <2> QED
    BY <2>1, <2>2
<1>8. EditIsCurrent'
  BY <1>1, <1>3, <1>4 DEF Following, EditIsCurrent
<1>9. SnapIsCurrent'
  <2> SUFFICES ASSUME sync.pc = "answered", NEW r \in Recipes, r \in sync.clean
               PROVE  /\ \A u \in Tasks : ~On(u, r)'
                      /\ r \in sync.snap <=> r \in saved'[sync.tok]
    BY <1>1 DEF SnapIsCurrent
  <2>1. (\A u \in Tasks : ~On(u, r)) /\ (r \in sync.snap <=> r \in saved[sync.tok])
    BY DEF Following, SnapIsCurrent
  <2> QED
    BY <1>1, <1>2, <1>3, <2>1
<1> QED
  BY <1>5, <1>6, <1>7, <1>8, <1>9 DEF Following

LEMMA RequestStepFollows ==
  ASSUME TypeOK, Following, NEW t \in Tasks, RequestStep(t)
  PROVE  Following'
<1>1. /\ tasks \in [Tasks -> {Free} \union Request] /\ tasks[t] \in Request
      /\ tasks[t].pc # "free" /\ sync.clean \subseteq Recipes
  BY DEF TypeOK, TasksOK, SyncOK, Sync, Free, RequestStep, Send, Apply, Lose,
         TimeOut, Reject, RefreshOk, RefreshFail
\* A request that goes on keeps its recipe and its operation.
<1>2. ASSUME NEW pc \in {"spawned", "sent", "refreshing"}, NEW tok,
             tasks' = [tasks EXCEPT ![t].pc = pc, ![t].tok = tok],
             UNCHANGED <<favorites, agreed, saved, edit, sync>>
      PROVE  Following'
  <2>1. ASSUME NEW u \in Tasks
        PROVE  /\ tasks[u].pc # "free" => tasks'[u].op = tasks[u].op
               /\ \A r \in Recipes : On(u, r)' <=> On(u, r)
    BY <1>1, <1>2 DEF On, Request
  <2> QED
    BY <1>1, <1>2, <2>1, SameRequestsFollow
<1>3. CASE Send(t)
  <2>1. CASE authToken = None
    BY <1>1, <1>3, <2>1, GiveUpFollows DEF Send
  <2>2. CASE authToken # None
    BY <1>2, <1>3, <2>2 DEF Send
  <2> QED
    BY <2>1, <2>2
<1>4. CASE Apply(t)
  BY <1>4, ApplyFollows
<1>5. CASE Lose(t)
  BY <1>1, <1>5, GiveUpFollows DEF Lose
<1>9. CASE TimeOut(t)
  <2>1. tasks' = [tasks EXCEPT ![t].pc = "orphan"] /\ tasks[t].pc = "sent"
        /\ UNCHANGED <<favorites, agreed, saved, edit, sync>>
    BY <1>9 DEF TimeOut
  <2>2. ASSUME NEW u \in Tasks
        PROVE  /\ tasks[u].pc # "free" => tasks'[u].op = tasks[u].op
               /\ \A r \in Recipes : On(u, r)' <=> On(u, r)
    BY <1>1, <2>1 DEF On, Request
  <2> QED
    BY <1>1, <2>1, <2>2, SameRequestsFollow
<1>6. CASE Reject(t)
  <2>1. CASE refreshToken = None
    BY <1>1, <1>6, <2>1, GiveUpFollows DEF Reject
  <2>2. CASE refreshToken # None
    BY <1>2, <1>6, <2>2 DEF Reject
  <2> QED
    BY <2>1, <2>2
<1>7. CASE RefreshOk(t)
  BY <1>2, <1>7 DEF RefreshOk
<1>8. CASE RefreshFail(t)
  BY <1>1, <1>8, GiveUpFollows DEF RefreshFail
<1> QED
  BY <1>3, <1>4, <1>5, <1>6, <1>7, <1>8, <1>9 DEF RequestStep

LEMMA SyncStepFollows ==
  ASSUME TypeOK, Following, SyncStep
  PROVE  Following'
<1>1. tasks' = tasks /\ saved' = saved /\ edit' = edit /\ sync \in Sync
      /\ agreed \in [Recipes -> Token]
  BY DEF SyncStep, SyncSend, SyncAnswer, SyncFail, SyncSave, TypeOK, SyncOK
<1>2. ASSUME NEW u \in Tasks, NEW r \in Recipes PROVE On(u, r)' <=> On(u, r)
  BY <1>1 DEF On
<1>3. CASE SyncSave
  <2>1. /\ sync.pc = "answered" /\ sync'.pc = "done"
        /\ sync.clean \subseteq Recipes /\ sync.tok \in Accounts
        /\ \A r \in Recipes : favorites'[r] = IF r \in sync.snap THEN 1 ELSE 0
        /\ \A r \in Recipes : agreed'[r] =
               IF r \in sync.clean /\ edit = Idle THEN sync.tok ELSE None
    BY <1>1, <1>3 DEF SyncSave, NoSync, TypeOK, SyncOK, Sync
  <2>2. ASSUME NEW r \in Recipes, agreed'[r] # None
        PROVE  /\ r \in sync.clean /\ edit = Idle /\ agreed'[r] = sync.tok
               /\ \A u \in Tasks : ~On(u, r)'
               /\ favorites'[r] > 0 <=> r \in saved'[sync.tok]
    BY <1>1, <1>2, <2>1, <2>2 DEF Following, SnapIsCurrent
  <2>3. OneRequest' /\ Asked' /\ Reached' /\ EditIsCurrent'
    BY <1>1, <2>2 DEF OneRequest, Asked, Reached, EditIsCurrent
  <2>4. SnapIsCurrent'
    BY <2>1 DEF SnapIsCurrent
  <2> QED
    BY <2>3, <2>4 DEF Following
<1>4. CASE SyncSend \/ SyncAnswer \/ SyncFail
  <2>1. favorites' = favorites /\ agreed' = agreed
    BY <1>4 DEF SyncSend, SyncAnswer, SyncFail
  <2>2. OneRequest' /\ Asked' /\ Reached' /\ EditIsCurrent'
    BY <1>1, <1>2, <2>1 DEF Following, OneRequest, Asked, Reached, EditIsCurrent
  <2>3. SnapIsCurrent'
    <3>1. CASE SyncSend \/ SyncFail
      BY <1>1, <3>1 DEF SyncSend, SyncFail, SnapIsCurrent, NoSync, Sync
    <3>2. CASE SyncAnswer
      <4>1. /\ sync'.snap = saved[sync'.tok]
            /\ sync'.clean = {r \in Recipes : PendingOn(r) = {}}
        BY <1>1, <3>2 DEF SyncAnswer, Sync
      <4>2. \A r \in sync'.clean : \A u \in Tasks : ~On(u, r)'
        BY <1>2, <4>1 DEF PendingOn, On
      <4> QED
        BY <1>1, <4>1, <4>2 DEF SnapIsCurrent
    <3> QED
      BY <1>4, <3>1, <3>2
  <2> QED
    BY <2>2, <2>3 DEF Following
<1> QED
  BY <1>3, <1>4 DEF SyncStep

LEMMA SessionStepFollows ==
  ASSUME TypeOK, Following, tasks' \in {tasks, Moved},
         UNCHANGED <<favorites, saved, edit, sync, agreed>>
  PROVE  Following'
<1>1. tasks \in [Tasks -> {Free} \union Request] /\ sync.clean \subseteq Recipes
  BY DEF TypeOK, TasksOK, SyncOK, Sync
<1>2. ASSUME NEW u \in Tasks
      PROVE  /\ tasks[u].pc # "free" => tasks'[u].op = tasks[u].op
             /\ \A r \in Recipes : On(u, r)' <=> On(u, r)
  <2>1. CASE tasks' = tasks
    BY <2>1 DEF On
  <2>2. CASE tasks' = Moved /\ tasks[u].pc = "free"
    BY <2>2 DEF On, Moved, Free
  <2>3. CASE tasks' = Moved /\ tasks[u].pc # "free"
    <3>1. tasks[u] \in Request
      BY <1>1, <2>3 DEF Free
    <3>2. tasks'[u] = [tasks[u] EXCEPT !.moved = TRUE]
      BY <2>3 DEF Moved
    <3> QED
      BY <3>1, <3>2 DEF On, Request
  <2> QED
    BY <2>1, <2>2, <2>3
<1> QED
  BY <1>1, <1>2, SameRequestsFollow

LEMMA RelaunchFollows ==
  ASSUME TypeOK, Following, Relaunch
  PROVE  Following'
<1>1. /\ tasks \in [Tasks -> {Free} \union Request]
      /\ favorites' = favorites /\ saved' = saved /\ edit' = Idle /\ sync'.pc = "off"
  BY DEF Relaunch, TypeOK, TasksOK, NoSync
<1>2. ASSUME NEW u \in Tasks, NEW r \in Recipes
      PROVE  /\ On(u, r)' => On(u, r) /\ tasks'[u].op = tasks[u].op
             /\ On(u, r) => On(u, r)' \/ tasks[u].pc \in {"spawned", "refreshing"}
  <2>1. tasks'[u] = IF tasks[u].pc \in {"sent", "orphan"}
                       THEN [tasks[u] EXCEPT !.pc = "orphan"] ELSE Free
    BY DEF Relaunch
  <2>2. CASE tasks[u].pc \in {"sent", "orphan"}
    <3>1. tasks[u] \in Request
      BY <1>1, <2>2 DEF Free
    <3> QED
      BY <2>1, <2>2, <3>1 DEF On, Request
  <2>3. CASE tasks[u].pc \notin {"sent", "orphan"}
    BY <1>1, <2>1, <2>3 DEF On, Free, Request
  <2> QED
    BY <2>2, <2>3
<1>3. ASSUME NEW r \in Recipes, agreed'[r] # None
      PROVE  /\ agreed'[r] = agreed[r]
             /\ \A u \in Tasks : On(u, r)' <=> On(u, r)
  <2>1. agreed'[r] = IF \E t \in PendingOn(r) : tasks[t].pc \in {"spawned", "refreshing"}
                        THEN None ELSE agreed[r]
    BY DEF Relaunch
  <2>2. \A u \in Tasks : On(u, r) => tasks[u].pc \notin {"spawned", "refreshing"}
    BY <1>3, <2>1 DEF PendingOn, On
  <2> QED
    BY <1>2, <1>3, <2>1, <2>2
<1>4. OneRequest' /\ Asked'
  BY <1>1, <1>2, <1>3 DEF Following, OneRequest, Asked
<1>5. Reached'
  BY <1>1, <1>3 DEF Following, Reached
<1>6. EditIsCurrent' /\ SnapIsCurrent'
  BY <1>1 DEF EditIsCurrent, SnapIsCurrent
<1> QED
  BY <1>4, <1>5, <1>6 DEF Following

\* The stored favourites follow the server's list except after the failures
\* and overlaps that unset agreed (FavoritesManager.swift:53-129).
THEOREM ListAgrees == Spec => []ListFollowsServer
<1>1. Init => Following
  BY DEF Init, Following, OneRequest, Asked, Reached, EditIsCurrent, SnapIsCurrent, NoSync
<1>2. TypeOK /\ Following /\ [Next]_vars => Following'
  <2> SUFFICES ASSUME TypeOK, Following, [Next]_vars PROVE Following'
    OBVIOUS
  <2>0. /\ sync \in Sync /\ sync.clean \subseteq Recipes
        /\ favorites \in [Recipes -> Nat]
    BY DEF TypeOK, SyncOK, Sync
  <2>1. ASSUME NEW op \in Ops, NEW r \in Recipes, BeginEdit(op, r) PROVE Following'
    <3>1. edit' \in Edit /\ edit'.list = favorites
      BY <2>0, <2>1 DEF BeginEdit, Edit
    <3> QED
      BY <2>0, <2>1, <3>1, SameRequestsFollow DEF BeginEdit, On
  <2>2. ASSUME NEW t \in Tasks, CommitEdit(t) PROVE Following'
    BY <2>2, CommitEditFollows
  <2>3. ASSUME NEW t \in Tasks, RequestStep(t) PROVE Following'
    BY <2>3, RequestStepFollows
  <2>4. CASE ManagerInit
    <3>1. /\ sync'.pc = "started"
          /\ UNCHANGED <<favorites, agreed, saved, edit, tasks>>
      BY <2>0, <2>4 DEF ManagerInit, Sync
    <3> QED
      BY <3>1 DEF Following, OneRequest, Asked, Reached, EditIsCurrent,
                  SnapIsCurrent, On
  <2>5. CASE SyncStep
    BY <2>5, SyncStepFollows
  <2>6. CASE (\E a \in Accounts : SignIn(a) \/ SaveUnheard(a))
               \/ SignOut \/ DropTokens \/ PutRefreshToken \/ ShowAuth
    BY <2>6, SessionStepFollows DEF SignIn, SaveUnheard, SignOut, DropTokens,
                                    PutRefreshToken, ShowAuth
  <2>7. CASE Relaunch
    BY <2>7, RelaunchFollows
  <2>8. CASE UNCHANGED vars
    BY <2>8, SessionStepFollows DEF vars
  <2> QED
    BY <2>1, <2>2, <2>3, <2>4, <2>5, <2>6, <2>7, <2>8 DEF Next
<1>3. Following => ListFollowsServer
  BY FollowingSuffices
<1> QED
  BY <1>1, <1>2, <1>3, TypeCorrect, PTL DEF Spec

-----------------------------------------------------------------------------
(* RightAccount: what keeps accounts apart as long as no refresh stores    *)
(* its token in another session.                                           *)

TokensOfUser == ~outlived /\ user # None => authToken \in {None, user}

RequestsOfUser ==
    /\ edit # Idle => user # None
    /\ \A t \in Tasks :
        tasks[t].pc \notin {"free", "orphan"} /\ ~tasks[t].moved
            => user # None /\ tasks[t].by = user

Apart == TokensOfUser /\ RequestsOfUser /\ RightAccount

\* No favourite is sent to another account's list (FavoritesManager.swift:
\* 170-199) unless the session changed after the tap, or a refresh or
\* an unheard registration put another account's token in its place.
THEOREM AccountsKeptApart == Spec => []RightAccount
<1>1. Init => Apart
  BY DEF Init, Apart, TokensOfUser, RequestsOfUser, RightAccount, Free
<1>2. TypeOK /\ Apart /\ [Next]_vars => Apart'
  <2> SUFFICES ASSUME TypeOK, Apart, [Next]_vars PROVE Apart'
    OBVIOUS
  <2> USE DEF Apart, TokensOfUser, RequestsOfUser, RightAccount
  <2>0. /\ tasks \in [Tasks -> {Free} \union Request]
        /\ authToken \in Token /\ refreshToken \in Token /\ user \in Token
        /\ \A t \in Tasks : tasks[t].pc # "free" => tasks[t] \in Request
    BY DEF TypeOK, TasksOK, Free
  <2>1. ASSUME NEW op \in Ops, NEW r \in Recipes, BeginEdit(op, r) PROVE Apart'
    BY <2>1 DEF BeginEdit, session
  <2>2. ASSUME NEW t \in Tasks, CommitEdit(t) PROVE Apart'
    BY <2>0, <2>2 DEF CommitEdit, session
  <2>3. ASSUME NEW t \in Tasks, RequestStep(t) PROVE Apart'
    <3>1. tasks[t] \in Request
      BY <2>0, <2>3 DEF RequestStep, Send, Apply, Lose, TimeOut, Reject, RefreshOk,
          RefreshFail
    <3>2. ASSUME tasks' = [tasks EXCEPT ![t] = Free], UNCHANGED <<session, edit, outlived>>
          PROVE  Apart'
      BY <2>0, <3>2 DEF Free, session
    <3>3. CASE Send(t)
      <4>1. CASE authToken = None
        BY <3>2, <3>3, <4>1 DEF Send, GiveUp
      <4>2. CASE authToken # None
        BY <2>0, <3>1, <3>3, <4>2 DEF Send, Request, session
      <4> QED
        BY <4>1, <4>2
    <3>4. CASE Apply(t) \/ Lose(t) \/ RefreshFail(t)
      BY <3>2, <3>4 DEF Apply, Lose, RefreshFail, GiveUp
    <3>7. CASE TimeOut(t)
      BY <2>0, <3>1, <3>7 DEF TimeOut, Request, session
    <3>5. CASE Reject(t)
      <4>1. CASE refreshToken = None
        BY <3>2, <3>5, <4>1 DEF Reject, GiveUp
      <4>2. CASE refreshToken # None
        BY <2>0, <3>1, <3>5, <4>2 DEF Reject, Request, session
      <4> QED
        BY <4>1, <4>2
    <3>6. CASE RefreshOk(t)
      <4>1. RequestsOfUser' /\ RightAccount'
        BY <2>0, <3>1, <3>6 DEF RefreshOk, Request
      <4>2. TokensOfUser'
        <5>1. tasks[t].tok # None
          BY <3>6, NoneAssumption DEF RefreshOk, TypeOK, TasksOK
        <5>2. authToken' = tasks[t].tok /\ UNCHANGED <<refreshToken, user>>
          BY <3>6 DEF RefreshOk
        <5>3. ~outlived' => ~outlived /\ tasks[t].tok = user
          BY <3>6 DEF RefreshOk
        <5> QED
          BY <5>1, <5>2, <5>3
      <4> QED
        BY <4>1, <4>2
    <3> QED
      BY <2>3, <3>3, <3>4, <3>5, <3>6, <3>7 DEF RequestStep
  <2>4. CASE ManagerInit \/ SyncStep
    BY <2>4 DEF ManagerInit, SyncStep, SyncSend, SyncAnswer, SyncFail, SyncSave, session
  <2>5. ASSUME tasks' = Moved, edit = Idle, edit' = Idle PROVE RequestsOfUser' /\ RightAccount'
    <3>1. ASSUME NEW t \in Tasks
          PROVE  tasks'[t].pc = "free" \/ tasks'[t].moved
      <4>1. CASE tasks[t].pc = "free"
        BY <2>5, <4>1 DEF Moved, Free
      <4>2. CASE tasks[t].pc # "free"
        BY <2>0, <2>5, <4>2 DEF Moved, Request
      <4> QED
        BY <4>1, <4>2
    <3> QED
      BY <2>5, <3>1
  <2>6. ASSUME NEW a \in Accounts, SignIn(a) PROVE Apart'
    BY <2>5, <2>6, NoneAssumption DEF SignIn, PutAccessToken, MainThreadFree
  <2>11. ASSUME NEW a \in Accounts, SaveUnheard(a) PROVE Apart'
    BY <2>11 DEF SaveUnheard, PutAccessToken, MainThreadFree
  <2>7. CASE SignOut \/ ShowAuth
    BY <2>5, <2>7 DEF SignOut, ShowAuth, PutAccessToken, MainThreadFree
  <2>8. CASE DropTokens \/ PutRefreshToken
    BY <2>8 DEF DropTokens, PutRefreshToken, PutAccessToken
  <2>9. CASE Relaunch
    <3>1. ASSUME NEW t \in Tasks PROVE tasks'[t].pc \in {"free", "orphan"}
      <4>1. CASE tasks[t].pc \in {"sent", "orphan"}
        BY <2>0, <2>9, <4>1 DEF Relaunch, Request
      <4>2. CASE tasks[t].pc \notin {"sent", "orphan"}
        BY <2>9, <4>2 DEF Relaunch, Free
      <4> QED
        BY <4>1, <4>2
    <3> QED
      BY <2>9, <3>1 DEF Relaunch
  <2>10. CASE UNCHANGED vars
    BY <2>10 DEF vars, session
  <2> QED
    BY <2>1, <2>2, <2>3, <2>4, <2>6, <2>7, <2>8, <2>9, <2>10, <2>11 DEF Next
<1>3. Apart => RightAccount
  BY DEF Apart
<1> QED
  BY <1>1, <1>2, <1>3, TypeCorrect, PTL DEF Spec

-----------------------------------------------------------------------------
(* Who changes the list                                                    *)

\* The list an edit has read is the stored one, unless the sync has saved
\* since (FavoritesManager.swift:54-56).
ReadIsStored ==
    edit # Idle => edit.id \in Recipes /\ (edit.list = favorites \/ sync.pc = "done")

\* What AddedStays is in this code: a recipe comes and goes as the user has
\* asked (FavoritesManager.swift:53-76), or as the server's list has it (line
\* 124), or else an edit of another recipe, overtaken by the sync, writes
\* back what it has read before.
EveryChangeIsMeant ==
    [][\A r \in Recipes : favorites'[r] # favorites[r] =>
           \/ edit # Idle /\ edit.id = r /\ (favorites'[r] > 0 <=> edit.op = "save")
           \/ sync.pc = "answered" /\ (favorites'[r] > 0 <=> r \in sync.snap)
           \/ edit # Idle /\ sync.pc = "done" /\ favorites'[r] = edit.list[r]]_vars

LEMMA ReadIsStoredAlways == Spec => []ReadIsStored
<1>1. Init => ReadIsStored
  BY DEF Init, ReadIsStored
<1>2. TypeOK /\ ReadIsStored /\ [Next]_vars => ReadIsStored'
  <2> SUFFICES ASSUME TypeOK, ReadIsStored, [Next]_vars PROVE ReadIsStored'
    OBVIOUS
  <2> USE DEF ReadIsStored, session
  <2>1. ASSUME NEW op \in Ops, NEW r \in Recipes, BeginEdit(op, r) PROVE ReadIsStored'
    BY <2>1 DEF BeginEdit
  <2>2. ASSUME NEW t \in Tasks, CommitEdit(t) \/ RequestStep(t) PROVE ReadIsStored'
    BY <2>2 DEF CommitEdit, RequestStep, Send, Apply, Lose, TimeOut, Reject, RefreshOk,
          RefreshFail
  <2>3. CASE SyncStep
    BY <2>3 DEF SyncStep, SyncSend, SyncAnswer, SyncFail, SyncSave, SyncOK, TypeOK, Sync, NoSync
  <2>4. CASE \/ ManagerInit \/ SignOut \/ DropTokens \/ PutRefreshToken
             \/ ShowAuth \/ Relaunch
             \/ \E a \in Accounts : SignIn(a) \/ SaveUnheard(a)
    BY <2>4 DEF ManagerInit, SignOut, DropTokens, PutRefreshToken, ShowAuth, Relaunch,
                SignIn, SaveUnheard, PutAccessToken, MainThreadFree
  <2>5. CASE UNCHANGED vars
    BY <2>5 DEF vars
  <2> QED
    BY <2>1, <2>2, <2>3, <2>4, <2>5 DEF Next
<1> QED
  BY <1>1, <1>2, TypeCorrect, PTL DEF Spec

\* FavoritesManager.swift:53-76, 124: who may change the list, and into what.
THEOREM ChangesAreMeant == Spec => EveryChangeIsMeant
<1> DEFINE Meant ==
       \A r \in Recipes : favorites'[r] # favorites[r] =>
           \/ edit # Idle /\ edit.id = r /\ (favorites'[r] > 0 <=> edit.op = "save")
           \/ sync.pc = "answered" /\ (favorites'[r] > 0 <=> r \in sync.snap)
           \/ edit # Idle /\ sync.pc = "done" /\ favorites'[r] = edit.list[r]
<1>1. TypeOK /\ ReadIsStored /\ [Next]_vars => Meant
  <2> SUFFICES ASSUME TypeOK, ReadIsStored, [Next]_vars PROVE Meant
    OBVIOUS
  <2> USE DEF session
  <2>1. ASSUME NEW t \in Tasks, CommitEdit(t) PROVE Meant
    <3>1. /\ edit # Idle /\ edit \in Edit /\ favorites' = Edited(edit)
      BY <2>1 DEF CommitEdit, TypeOK
    <3> SUFFICES ASSUME NEW r \in Recipes, favorites'[r] # favorites[r]
                 PROVE  \/ edit.id = r /\ (favorites'[r] > 0 <=> edit.op = "save")
                        \/ sync.pc = "done" /\ favorites'[r] = edit.list[r]
      BY <3>1
    <3>2. CASE edit.id = r
      BY <3>1, <3>2 DEF Edited, Edit, Ops
    <3>3. CASE edit.id # r
      <4>1. favorites'[r] = edit.list[r]
        BY <3>1, <3>3 DEF Edited, Edit
      <4> QED
        BY <3>1, <4>1 DEF ReadIsStored
    <3> QED
      BY <3>2, <3>3
  <2>2. CASE SyncSave
    BY <2>2 DEF SyncSave
  <2>3. CASE favorites' = favorites
    BY <2>3
  <2> HIDE DEF Meant
  <2>4. ASSUME NEW t \in Tasks, RequestStep(t) PROVE favorites' = favorites
    BY <2>4 DEF RequestStep, Send, Apply, Lose, TimeOut, Reject, RefreshOk,
          RefreshFail
  <2> QED
    BY <2>1, <2>2, <2>3, <2>4 DEF Next, BeginEdit, ManagerInit, SyncStep, SyncSend, SyncAnswer,
       SyncFail, SignIn, SaveUnheard, SignOut, DropTokens, PutRefreshToken, ShowAuth,
       Relaunch, vars
<1> QED
  BY <1>1, TypeCorrect, ReadIsStoredAlways, PTL DEF Spec, EveryChangeIsMeant
=============================================================================
