----------------------------- MODULE Favorites -----------------------------
(***************************************************************************)
(* FavoritesManager: the favourites kept in UserDefaults and their copy on *)
(* the server.                                                             *)
(*                                                                         *)
(* An add or a remove runs on the main thread: it reads the stored list,   *)
(* writes the changed list back and starts a Task that sends a POST or a   *)
(* DELETE with whatever access token is stored by then.  A 401 makes the   *)
(* request refresh the token and try again.  The manager's initialiser     *)
(* starts, once per process, a Task that fetches the server's list and     *)
(* overwrites the local one.  Tasks and completion handlers run on other   *)
(* threads than the main one.  The app may be killed at any moment;        *)
(* UserDefaults survive.                                                   *)
(*                                                                         *)
(* A recipe stands for its id, a token for the account it was issued to.   *)
(* A request may be refused for any reason at any time (Lose, Reject), and *)
(* one the client has given up may still be carried out (orphan).          *)
(* The session is reduced to what the manager sees of it: see Session.tla. *)
(***************************************************************************)
EXTENDS Naturals, FiniteSets

CONSTANTS
    Recipes,   \* recipes, by id
    Accounts,  \* accounts of the server
    Tasks,     \* bound: adds and removes whose request has not ended
    MaxCopies, \* bound: copies of one recipe in the local list
    None       \* no token, nobody signed in

ASSUME NoneAssumption == None \notin Accounts
ASSUME MaxCopiesAssumption == MaxCopies \in Nat \ {0}

VARIABLES
    favorites,    \* favorites[r]: copies of r in the list of UserDefaults
    authToken,    \* UserDefaults "authToken"
    refreshToken, \* UserDefaults "refreshToken"
    saved,        \* saved[a]: the server's saved-recipes of account a
    owed,         \* the refresh token the main thread is about to write, the
                  \* access token being written, if it is between the two
    user,         \* whose tabs are on the screen, None on the login screen
    edit,         \* the main thread between getFavorites and saveFavorites
    tasks,        \* the requests of adds and removes
    sync,         \* the Task of the initialiser
    agreed,       \* history: agreed[r] is the account whose saved-recipes the
                  \* local list is known to follow for r, None if unknown
    outlived      \* history: has a refresh or an unheard registration put a token
                  \* in place that is not of the account on the screen?

session == <<authToken, refreshToken, owed, user>>
vars == <<favorites, authToken, refreshToken, owed, saved, user, edit, tasks,
          sync, agreed, outlived>>

Token == Accounts \union {None}

Ops == {"save", "remove"}

Idle == [op |-> "idle"]
Edit == [op : Ops, id : Recipes, list : [Recipes -> Nat]]

\* tok: the token a request carries, or the one its refresh will return.
\* by and moved are history: who was signed in when the user asked, and has
\* that changed since?
Free == [pc |-> "free"]
Request == [pc : {"spawned", "sent", "refreshing", "orphan"}, op : Ops,
            id : Recipes, tok : Token, by : Token, moved : BOOLEAN]

\* clean is history: the recipes without a request when the server read
\* snap, and without an edit since.
Sync == [pc : {"off", "started", "sent", "answered", "done"}, tok : Token,
         snap : SUBSET Recipes, clean : SUBSET Recipes]
NoSync == [pc |-> "off", tok |-> None, snap |-> {}, clean |-> {}]

\* What is on the network carries a token.
TasksOK ==
    /\ tasks \in [Tasks -> {Free} \union Request]
    /\ \A t \in Tasks : tasks[t].pc \notin {"free", "spawned"} => tasks[t].tok \in Accounts

SyncOK ==
    /\ sync \in Sync
    /\ sync.pc \in {"sent", "answered"} => sync.tok \in Accounts

TypeOK ==
    /\ favorites \in [Recipes -> Nat]
    /\ authToken \in Token
    /\ refreshToken \in Token
    /\ owed \in SUBSET Token
    /\ saved \in [Accounts -> SUBSET Recipes]
    /\ user \in Token
    /\ edit \in {Idle} \union Edit
    /\ TasksOK
    /\ SyncOK
    /\ agreed \in [Recipes -> Token]
    /\ outlived \in BOOLEAN

\* The first launch, with whatever other installations saved before.
Init ==
    /\ favorites = [r \in Recipes |-> 0]
    /\ authToken = None
    /\ refreshToken = None
    /\ owed = {}
    /\ saved \in [Accounts -> SUBSET Recipes]
    /\ user = None
    /\ edit = Idle
    /\ tasks = [t \in Tasks |-> Free]
    /\ sync = NoSync
    /\ agreed = [r \in Recipes |-> None]
    /\ outlived = FALSE

-----------------------------------------------------------------------------
(* Edits, on the main thread                                               *)

MainThreadFree == edit = Idle /\ owed = {}

PendingOn(r) == {t \in Tasks : tasks[t].pc # "free" /\ tasks[t].id = r}

\* addToFavorites and removeFromFavorites up to getFavorites().  The tabs are
\* on the screen, so the manager exists.
BeginEdit(op, r) ==
    /\ MainThreadFree
    /\ user # None
    /\ sync.pc # "off"
    /\ op = "save" => favorites[r] < MaxCopies
    /\ \E t \in Tasks : tasks[t].pc = "free"
    /\ edit' = [op |-> op, id |-> r, list |-> favorites]
    /\ UNCHANGED <<favorites, session, saved, tasks, sync, agreed, outlived>>

\* A bug to catch: a removal takes one copy away instead of all of them.
EditedOneCopy(e) ==
    [e.list EXCEPT ![e.id] = IF e.op = "save" THEN e.list[e.id] + 1 ELSE e.list[e.id] - 1]

\* append(recipe), or removeAll { $0.id == recipe.id }.
Edited(e) ==
    [e.list EXCEPT ![e.id] = IF e.op = "save" THEN e.list[e.id] + 1 ELSE 0]

\* A bug to catch: an edit that leaves the list as it was is not sent.
CommitWithoutRequest(t) ==
    /\ edit # Idle
    /\ tasks[t].pc = "free"
    /\ favorites' = Edited(edit)
    /\ tasks' = IF edit.op = "remove" /\ edit.list[edit.id] = 0
                   THEN tasks
                   ELSE [tasks EXCEPT ![t] =
                            [pc |-> "spawned", op |-> edit.op, id |-> edit.id,
                             tok |-> None, by |-> user, moved |-> FALSE]]
    /\ edit' = Idle
    /\ agreed' = [agreed EXCEPT ![edit.id] =
           IF PendingOn(edit.id) = {} THEN authToken ELSE None]
    /\ sync' = [sync EXCEPT !.clean = sync.clean \ {edit.id}]
    /\ UNCHANGED <<session, saved, outlived>>

\* saveFavorites and the Task.  The local list now says what the new request
\* asks for, which settles the matter unless another request is on its way.
CommitEdit(t) ==
    /\ edit # Idle
    /\ tasks[t].pc = "free"
    /\ favorites' = Edited(edit)
    /\ tasks' = [tasks EXCEPT ![t] =
           [pc |-> "spawned", op |-> edit.op, id |-> edit.id, tok |-> None,
            by |-> user, moved |-> FALSE]]
    /\ edit' = Idle
    /\ agreed' = [agreed EXCEPT ![edit.id] =
           IF PendingOn(edit.id) = {} THEN authToken ELSE None]
    /\ sync' = [sync EXCEPT !.clean = sync.clean \ {edit.id}]
    /\ UNCHANGED <<session, saved, outlived>>

-----------------------------------------------------------------------------
(* performAuthorizedRequest, one request at a time                         *)

\* The request of task t ends without having reached the saved recipes.
GiveUp(t) ==
    /\ tasks' = [tasks EXCEPT ![t] = Free]
    /\ agreed' = [agreed EXCEPT ![tasks[t].id] = None]

\* A bug to catch: without a token the completion is not called.
SendOnlyWithToken(t) ==
    /\ tasks[t].pc = "spawned"
    /\ authToken # None
    /\ tasks' = [tasks EXCEPT ![t].pc = "sent", ![t].tok = authToken]
    /\ UNCHANGED <<favorites, session, saved, edit, sync, agreed, outlived>>

\* Read the token and send, or fail at once without one.
Send(t) ==
    /\ tasks[t].pc = "spawned"
    /\ IF authToken = None
          THEN GiveUp(t)
          ELSE /\ tasks' = [tasks EXCEPT ![t].pc = "sent", ![t].tok = authToken]
               /\ UNCHANGED agreed
    /\ UNCHANGED <<favorites, session, saved, edit, sync, outlived>>

\* The server carries the request out.  (What the answer says changes nothing:
\* the completion handlers only print.)
Apply(t) ==
    /\ tasks[t].pc \in {"sent", "orphan"}
    /\ saved' = [saved EXCEPT ![tasks[t].tok] =
           IF tasks[t].op = "save" THEN @ \union {tasks[t].id} ELSE @ \ {tasks[t].id}]
    /\ tasks' = [tasks EXCEPT ![t] = Free]
    /\ agreed' = [agreed EXCEPT ![tasks[t].id] = IF @ = None THEN None ELSE tasks[t].tok]
    /\ UNCHANGED <<favorites, session, edit, sync, outlived>>

\* It does not, and never will: no connection, a status other than 200 and 401.
Lose(t) ==
    /\ tasks[t].pc \in {"sent", "orphan"}
    /\ GiveUp(t)
    /\ UNCHANGED <<favorites, session, saved, edit, sync, outlived>>

\* URLSession gives the request up; the server may still carry it out.
TimeOut(t) ==
    /\ tasks[t].pc = "sent"
    /\ tasks' = [tasks EXCEPT ![t].pc = "orphan"]
    /\ UNCHANGED <<favorites, session, saved, edit, sync, agreed, outlived>>

\* 401: refreshAccessToken, which fails at once without a refresh token.
Reject(t) ==
    /\ tasks[t].pc = "sent"
    /\ IF refreshToken = None
          THEN GiveUp(t)
          ELSE /\ tasks' = [tasks EXCEPT ![t].pc = "refreshing", ![t].tok = refreshToken]
               /\ UNCHANGED agreed
    /\ UNCHANGED <<favorites, session, saved, edit, sync, outlived>>

\* The refreshed token is stored, whoever is signed in by now, and
\* performAuthorizedRequest starts over.
RefreshOk(t) ==
    /\ tasks[t].pc = "refreshing"
    /\ authToken' = tasks[t].tok
    /\ tasks' = [tasks EXCEPT ![t].pc = "spawned", ![t].tok = None]
    /\ outlived' = (outlived \/ tasks[t].tok # user)
    /\ UNCHANGED <<favorites, refreshToken, owed, user, saved, edit, sync, agreed>>

RefreshFail(t) ==
    /\ tasks[t].pc = "refreshing"
    /\ GiveUp(t)
    /\ UNCHANGED <<favorites, session, saved, edit, sync, outlived>>

-----------------------------------------------------------------------------
(* syncFavorites, called by the initialiser of the shared manager          *)

ManagerInit ==
    /\ MainThreadFree
    /\ user # None
    /\ sync.pc = "off"
    /\ sync' = [sync EXCEPT !.pc = "started"]
    /\ UNCHANGED <<favorites, session, saved, edit, tasks, agreed, outlived>>

\* A bug to catch: the sync waits for somebody to sign in.
SyncSendOnlyWithToken ==
    /\ sync.pc = "started"
    /\ authToken # None
    /\ sync' = [sync EXCEPT !.pc = "sent", !.tok = authToken]
    /\ UNCHANGED <<favorites, session, saved, edit, tasks, agreed, outlived>>

SyncSend ==
    /\ sync.pc = "started"
    /\ sync' = IF authToken = None
                  THEN [sync EXCEPT !.pc = "done"]
                  ELSE [sync EXCEPT !.pc = "sent", !.tok = authToken]
    /\ UNCHANGED <<favorites, session, saved, edit, tasks, agreed, outlived>>

\* The server reads the list it will answer with.
SyncAnswer ==
    /\ sync.pc = "sent"
    /\ sync' = [sync EXCEPT !.pc = "answered", !.snap = saved[sync.tok],
                            !.clean = {r \in Recipes : PendingOn(r) = {}}]
    /\ UNCHANGED <<favorites, session, saved, edit, tasks, agreed, outlived>>

\* No connection, or a body that is not an array: a 401 is not retried.
SyncFail ==
    /\ sync.pc \in {"sent", "answered"}
    /\ sync' = [NoSync EXCEPT !.pc = "done"]
    /\ UNCHANGED <<favorites, session, saved, edit, tasks, agreed, outlived>>

\* A bug to catch: the loaded recipes are added to the list instead.
SyncMerge ==
    /\ sync.pc = "answered"
    /\ favorites' = [r \in Recipes |->
           IF r \in sync.snap /\ favorites[r] = 0 THEN 1 ELSE favorites[r]]
    /\ sync' = [NoSync EXCEPT !.pc = "done"]
    /\ agreed' = [r \in Recipes |->
           IF r \in sync.clean /\ edit = Idle THEN sync.tok ELSE None]
    /\ UNCHANGED <<session, saved, edit, tasks, outlived>>

\* saveFavorites(loadedRecipes).  An edit in progress has already read the
\* list this overwrites and will write it back.
SyncSave ==
    /\ sync.pc = "answered"
    /\ favorites' = [r \in Recipes |-> IF r \in sync.snap THEN 1 ELSE 0]
    /\ sync' = [NoSync EXCEPT !.pc = "done"]
    /\ agreed' = [r \in Recipes |->
           IF r \in sync.clean /\ edit = Idle THEN sync.tok ELSE None]
    /\ UNCHANGED <<session, saved, edit, tasks, outlived>>

-----------------------------------------------------------------------------
(* The session, as far as the manager is concerned                         *)

\* Every request on its way was asked for by another session.
Moved == [t \in Tasks |-> IF tasks[t].pc = "free" THEN Free
                          ELSE [tasks[t] EXCEPT !.moved = TRUE]]

\* The tokens are written one after the other.  The main thread does nothing
\* in between, but other threads go on, and the app may be killed.
PutAccessToken(tok) ==
    /\ MainThreadFree
    /\ authToken' = tok
    /\ owed' = {tok}
    /\ UNCHANGED refreshToken

PutRefreshToken ==
    /\ owed # {}
    /\ refreshToken' \in owed
    /\ owed' = {}
    /\ UNCHANGED <<favorites, authToken, user, saved, edit, tasks, sync, agreed,
                   outlived>>

\* A bug to catch: an access token that is still stored is kept.
SignInKeepsToken(a) ==
    /\ user = None
    /\ MainThreadFree
    /\ authToken' = IF authToken = None THEN a ELSE authToken
    /\ owed' = {a}
    /\ user' = a
    /\ tasks' = Moved
    /\ UNCHANGED <<favorites, refreshToken, saved, edit, sync, agreed, outlived>>

\* saveToken, then finish: the tabs.
SignIn(a) ==
    /\ user = None
    /\ PutAccessToken(a)
    /\ user' = a
    /\ tasks' = Moved
    /\ UNCHANGED <<favorites, saved, edit, sync, agreed, outlived>>

\* A registration whose screen the user has left is answered: the tokens are
\* stored, and nobody hears of it.
SaveUnheard(a) ==
    /\ PutAccessToken(a)
    /\ outlived' = (outlived \/ user \notin {None, a})
    /\ UNCHANGED <<favorites, saved, user, edit, tasks, sync, agreed>>

\* signOut in the profile: both tokens go, the favourites stay.
SignOut ==
    /\ user # None
    /\ PutAccessToken(None)
    /\ user' = None
    /\ tasks' = Moved
    /\ UNCHANGED <<favorites, saved, edit, sync, agreed, outlived>>

\* validateToken's refresh was refused: both tokens are removed, under the
\* tabs when it was the profile that asked, whoever is signed in by now.
DropTokens ==
    /\ PutAccessToken(None)
    /\ UNCHANGED <<favorites, saved, user, edit, tasks, sync, agreed, outlived>>

\* MainCoordinator.start's validation came back false: the login screen,
\* with the tokens still in place after a mere network error.
ShowAuth ==
    /\ MainThreadFree
    /\ user # None
    /\ user' = None
    /\ tasks' = Moved
    /\ UNCHANGED <<favorites, authToken, refreshToken, owed, saved, edit, sync,
                   agreed, outlived>>

\* The app is killed, or stops in the parser while it reads the sync's answer
\* (line 112), and is launched again: MainCoordinator.start shows the tabs when
\* there is a token.  A request that was sent may still be carried out.
Relaunch ==
    /\ tasks' = [t \in Tasks |->
           IF tasks[t].pc \in {"sent", "orphan"}
              THEN [tasks[t] EXCEPT !.pc = "orphan"]
              ELSE Free]
    /\ agreed' = [r \in Recipes |->
           IF \E t \in PendingOn(r) : tasks[t].pc \in {"spawned", "refreshing"}
              THEN None ELSE agreed[r]]
    /\ edit' = Idle
    /\ owed' = {}
    /\ sync' = NoSync
    /\ user' = authToken
    /\ UNCHANGED <<favorites, authToken, refreshToken, saved, outlived>>

-----------------------------------------------------------------------------
RequestStep(t) ==
    \/ Send(t) \/ Apply(t) \/ Lose(t) \/ TimeOut(t)
    \/ Reject(t) \/ RefreshOk(t) \/ RefreshFail(t)

SyncStep == SyncSend \/ SyncAnswer \/ SyncFail \/ SyncSave

Next ==
    \/ \E op \in Ops, r \in Recipes : BeginEdit(op, r)
    \/ \E t \in Tasks : CommitEdit(t) \/ RequestStep(t)
    \/ ManagerInit \/ SyncStep
    \/ \E a \in Accounts : SignIn(a) \/ SaveUnheard(a)
    \/ SignOut \/ DropTokens \/ PutRefreshToken \/ ShowAuth \/ Relaunch

Spec == Init /\ [][Next]_vars

\* A thread that runs reaches its next step, and URLSession ends what it is
\* waiting for, with an error at the latest.  Of the server nothing is assumed.
Fairness ==
    /\ \A t \in Tasks :
        /\ WF_vars(CommitEdit(t))
        /\ WF_vars(Send(t))
        /\ WF_vars(TimeOut(t))
        /\ WF_vars(RefreshFail(t))
    /\ WF_vars(PutRefreshToken)
    /\ WF_vars(SyncSend)
    /\ WF_vars(SyncFail \/ SyncSave)

FairSpec == Spec /\ Fairness

-----------------------------------------------------------------------------
(* Properties *)

\* What the saved-recipes of a will say about r when the requests on their
\* way have been carried out.
WillBeSaved(r, a) ==
    IF PendingOn(r) = {}
       THEN r \in saved[a]
       ELSE \E t \in PendingOn(r) : tasks[t].op = "save"

\* The local list follows the server's (FavoritesManager.swift:53-129): it
\* disagrees about a recipe only after a request for it was given up or lost,
\* two requests for it were on their way at once, or a sync overwrote an edit
\* made since the server answered or under its feet.
ListFollowsServer ==
    \A r \in Recipes :
        agreed[r] # None => (favorites[r] > 0 <=> WillBeSaved(r, agreed[r]))

\* No request (lines 170-199) carries the token of another account than the
\* one whose tabs the user tapped in, unless the session changed after the
\* tap, or a refresh or an unheard registration stored its token in another
\* session than its own.
RightAccount ==
    \A t \in Tasks :
        tasks[t].pc = "sent" /\ ~tasks[t].moved /\ ~outlived =>
            tasks[t].tok = tasks[t].by

\* performAuthorizedRequest (lines 170-199) starts over as often as the server
\* answers 401, without a bound.  That is the only way for the request of an add
\* or a remove not to end: it is sent and its token refreshed again and again.
Asking(t) == tasks[t].pc \notin {"free", "orphan"}

OnlyRefusalsGoOn ==
    \A t \in Tasks :
        \/ []<>(~Asking(t))
        \/ []<>(tasks[t].pc = "sent") /\ []<>(tasks[t].pc = "refreshing")

\* The sync (lines 78-129) ends: it does not try again.
SyncEnds == (sync.pc = "started") ~> (sync.pc \in {"done", "off"})

\* "Добавляйте рецепты в избранное и возвращайтесь к ним в любое время."
\* (OnboardingViewController.swift:27): a recipe leaves the list only when the
\* user removes it.
AddedStays ==
    [][\A r \in Recipes : favorites[r] > 0 /\ favorites'[r] = 0 =>
           edit # Idle /\ edit.op = "remove" /\ edit.id = r]_vars
=============================================================================
