# SmartMeal in TLA+

A verification project for SmartMeal, an iOS application (Swift, UIKit) that shows
recipes of `api.smartmeal.kz`, keeps the user's favourite recipes and their session.
The program is `src/SmartMeal/SmartMeal` (about 4000 lines). Paths below are relative to
that directory. Everything under `src/SmartMeal/Pods` is third-party code. The repository
has no tests and no documentation besides the texts the application shows.

## 1. The system

### Threads of control

* The **main thread** runs the taps, the view controllers, the coordinators and the
  blocks of the main dispatch queue, one at a time and in the queue's order.
* **Completion handlers** of `URLSession.shared` run on its delegate queue, which is
  serial, on another thread.
* **Tasks** (`Task { }` in `FavoritesManager`) run on the concurrency runtime's threads.
* **UserDefaults** is the only state that survives the process: `authToken`,
  `refreshToken`, `hasSeenOnboarding`, `favoriteRecipes`. Every thread reads and writes
  it; a single read or write is atomic, a sequence of them is not.
* The **server** keeps the accounts and their saved recipes, and answers requests in any
  order, late, or not at all. An access token expires; a refresh token may be refused.

### Components

| component | state | operations | interacts with |
|---|---|---|---|
| Home feed: `HomeViewModel`, `HomeViewController` | rows, headers, a `DispatchGroup` | `callFuncToGetData`, `getTableCellModel` | four requests of the token service's class, the table |
| Favourites manager: `FavoritesManager` | the list in UserDefaults, its requests, the sync of its initialiser | `addToFavorites`, `removeFromFavorites`, `isFavorite`, `syncFavorites`, `performAuthorizedRequest` | tokens, server, notification to every cell |
| Token service: `APIService` | the two tokens | `validateToken`, `refreshAccessToken`, `saveToken` | called by `MainCoordinator`, `ProfileViewModel`, `FavoritesManager` |
| Root navigation: `MainCoordinator` and its children | the root screen, `hasSeenOnboarding`, the tree of coordinators | `start`, `showAuth`, `navigateToTabBar`, the finish closures | tokens, main queue |
| Login and registration | forms, overlay | `login`, `register` | `saveToken`, then `start` |
| Profile | labels, whether it has loaded | `fetchUserData`, sign-out | `validateToken`, tokens, `start` |
| Cell models: `CollectionCellViewModel`, `TableCellViewModel`, `RecipeTableViewCell`, `RecipeCell`, `Dynamic` | a flag per view model, the row of each table cell | `toggleFavorite`, `configure`, `updateFavorites` | favourites manager, notification |
| Favourites screen: `FavoritesViewModel`, `FavoritesViewControler` | the array behind its collection view | `loadFavorites`, `removeFromFavorites` | favourites manager's callback |
| Search: `SearchViewModel`, `SearchViewController` | all recipes, filtered recipes, cells | `updateSearchController`, `updateFavorites`, `callFuncToGetData` | requests, notification |
| Onboarding pages | the current page | next, skip, swipe | finish closure |
| Recipe parsing | none | `parseIngredient` | every fetch |
| Recipe details, layout, resources | a pushed screen, views | none to verify | |

### What is hard, and what makes each component correct

* **Home feed.** Answers come in any order, some before the next request is issued.
  Every answer must be shown once, the spinner must outlast the requests, the table must
  come, and the row under a header must be the header's.
* **Favourites.** The local list is changed first and the server told later, by Tasks
  without an order, with whatever token is stored by then; a sync overwrites the list
  from another thread. The two lists must agree once things settle; a favourite must
  reach the account of the user who tapped; nothing may vanish.
* **Session.** Chains of requests outlive the session in which they began and then write
  or remove tokens. The stored pair must make sense, an old check must not end a new
  session, and tabs must not stay without a session.
* **Cell models.** A heart is a flag copied out of the list. It is refreshed by the table
  cell that holds its row, cells are recycled, and the notification runs on two threads
  at once: a stale heart adds a recipe twice. A heart must be right, or about to be, and a
  tap must do what the user sees.
* **Favourites screen and search.** Up to three threads replace the array a collection
  view counts in one block and indexes in later ones; two of them may have looked at
  lists that have changed since. The array must be the list of favourites, or what the
  search bar asks for, and an old count must not stay.
* **Profile.** The user's data are asked for with a token read before a check that may
  renew it. The name shown must be that of the account in store.
* **A process that dies.** The pair of tokens is two keys of UserDefaults, written and
  removed one after the other; favourites are read in one statement and written in
  another. The next launch finds whatever was written, and a request that was sent may
  still be carried out.
* **Forms and coordinators.** The overlay against a second tap comes by a block of the
  main queue, so a form may be sent twice or left; answers come to screens that are
  covered, popped or replaced. Nobody may be locked out of a form, and the tabs need
  their coordinators, which nothing but `childCoordinators` keeps.
* **Parsing.** `parseIngredient` unwraps what need not be there.

The list of hazards, each at its line, with the properties that cover it, is in
`PROJECT.json`.

## 2. Plan

In the order in which the modules were written, the most important behaviour first. All
of it is done.

1. `HomeFeed` with the abstract barrier `FanIn`.
2. `Favorites`.
3. `Session`.
4. `Hearts`: the hearts of the home screen.
5. `Search` and `FavoritesScreen` with the abstract `ListView` that both implement.
6. `Profile` on top of `Session`.
7. `Screens`: the forms, the overlay, the roots, the tabs' children.
8. `Ingredients`: `parseIngredient` against a reference.
9. `Roots`: what the session promises of the window's root.

What the components share is composed in three ways. `Profile` extends `Session` and
takes part in its steps. `Favorites` has the token service's operations as far as a
favourite depends on them. Everything else meets at an interface that each side takes
with all its outcomes: `Hearts`, `Search` and `FavoritesScreen` let the list of favourites
change as an edit and the sync change it, `Screens` lets a check of `start()` end either
way. What is left out is in section 6.

## 3. The modules

### FanIn, HomeFeed, MCHomeFeed, HomeFeedProofs

`HomeFeed` is `HomeViewModel.callFuncToGetData` from the first `enter` to the reloaded
table. `Request(k)` is the k-th `enter` with its request, `AppendRow(k)` and `Leave` the
two statements of a completion handler, `RegisterNotify` the call of `group.notify`,
`Notify` its block, `Reload` what `bind` queues. A recipe list is the number of its
request. `AppendRow` excludes a second handler while one runs because the delegate queue
is serial; a handler and the main thread do interleave.

Before a handler appends its row, `fetchRecipes` puts every ingredient of the answer
through `parseIngredient`. `answer` is what the server sends each request, the texts of
its ingredients; `AppendRow` needs all of them to be parsed and keeps what the parser made
of them in `ingredients`; `CrashOnText` is the handler that meets a text whose `name!` is
nil, and stops the program (`crashed`), after which nothing has a step. So the table comes
(`FeedEventuallyShown`) only when every answer can be read.

`FanIn` says what a barrier promises; `HomeFeed` implements it with "replied" being the
leave of the handler, "announced" the notify block, and "stopped" the crash, which only the
making of a missing reply may bring.

The rows are collected in the order of the answers while the headers are constants. The
run `home_headers` shows the disagreement (a finding).

### Favorites, MCFavorites, FavoritesProofs

State: `favorites` (copies of each recipe in the list: `append` does not look for
duplicates, `removeAll` removes all), the tokens and what the main thread still owes the
second of them (`owed`, see `Session`), `user` (whose tabs are shown), `saved`
(the server), `edit` (the main thread between reading and writing the list), `tasks`
(one record per request of an add or removal), `sync`.

`BeginEdit` / `CommitEdit` are the two halves of `addToFavorites` and
`removeFromFavorites`; `Send`, `Apply`, `Lose`, `TimeOut`, `Reject`, `RefreshOk`,
`RefreshFail` the life of `performAuthorizedRequest`; `ManagerInit`, `SyncSend`,
`SyncAnswer`, `SyncFail`, `SyncSave` that of `syncFavorites`. `SignIn`, `SignOut`,
`DropTokens`, `ShowAuth` and `Relaunch` are what the session does to the manager, which
`Session` models in full. A request that has been sent and that nobody waits for, because
the client's time is up or the program was launched again, is an "orphan": the server may
still carry it out, at any later time, or never.

Three history variables state the properties and guard nothing: `agreed[r]` (the account
whose list the local one is known to follow for r), `outlived` (some refresh has stored
its token in another session than its own), and the fields `by`, `moved`, `clean`.
`agreed[r]` is *unset* by exactly these events: a request for r dropped, refused, lost or
killed; a second request for r started while one is on its way; a sync that overwrites an
edit made since the server answered, or a list the main thread has already read. It is
*set* by a sync and by an edit without a competitor. `ListFollowsServer` says that this
list of causes is complete. With two accounts (`favorites_accounts`) the list follows the
account that `agreed` names across sign-outs and sign-ins, which is not always the one in
the tabs: signing out keeps the list, and the sync runs once per process.

The server is free to refuse every token. `OnlyRefusalsGoOn` says that a request which does
not end is sent and refreshed infinitely often: there is no other way to hang.

The sync, and edits whose request is unsettled, do overwrite each other: the run
`favorites_added` shows a favourite vanishing (a finding).

### Session, SessionProofs

State: the tokens as session numbers (an access token of the n-th session is n however
often it is refreshed), `owed` (what the main thread has yet to write under the second
key), `root`, `seen`, `calls` (a record per chain of `validateToken` or
`performAuthorizedRequest`, with its owner), `forms`, the main queue as a sequence of
blocks, and `starting` (the main thread is about to run `MainCoordinator.start`, whose
reads of UserDefaults a handler may precede).

`Start` is `start()` with the screen it shows and the check it begins. `Accepted`,
`Unreachable`, `Unauthorized`, `UnauthorizedForGood`, `RefreshOk`, `RefreshFail`, `Again`
are the branches of `validateToken` and `refreshAccessToken`. A failed refresh takes two
steps: `Refused` sends the removal of the tokens to the main queue, and only then does the
same handler call the completion (`Complete`, `Invalid`), which for `start()`'s check sends
the login screen and for the profile's does nothing to the session. In between the main
thread may run the removal or serve a tap, so that tabs without a token, with nothing in
the queue, do occur; `StrandedOnlyByProfile` accounts for them. The delegate queue is
serial, so that in the code no other handler runs between the two steps; the model lets
them, which only adds behaviours. `RunRemoval`, `RunShowAuth`, `RunSave` run the queue.

`saveToken` and the removals (of sign-out and of `RunRemoval`) write two keys one after the
other: `PutAccessToken` writes the first and puts the value of the second in `owed`,
`PutRefreshToken` writes the second. The main thread does nothing else in between; the
handlers of other threads do, and the process may die there. `torn` is history: the process
has died between the two writes, and no pair has been written whole since. `PairOrder` and
the profile's `ShowsTheStoredAccount` hold but for a torn pair; `DroppedByItsOwnCheck` and
`StrandedOnlyByProfile` hold with it too.

`ImplementsRoots` says what all this looks like from the window: see `Roots` below.

The history field `began` and the variables `profileDropped` and `torn` guard nothing.
`Session` is checked by TLC as part of `Profile`.

### Profile, MCProfile, ProfileProofs

`Profile` is `Session` with the visible profile screen: `profile` is where `fetchUserData`
is, `token` what it has read, `labels` what it shows. `Open` is `viewDidLoad` with the
check it begins in the session, `CheckStep` a step of that check, `Ask`, `Answer`,
`NoAnswer` and `ShowLabels` the request for the user's data, `Leave` the end of the tab
bar. `OtherStep` and `Elsewhere` are the rest of the session. The completion ignores the
verdict of the check, and the server may answer the request with the user's data, with an
explanation in their place (`explained`: the labels become empty), or not at all.
`overtaken` is history: whether another session's token has come in under the tabs.

A profile screen whose tab bar was replaced may still send a request; it sets labels
nobody sees, and is left out.

### Hearts, MCHearts, HeartsProofs

State: `favorites` (copies per recipe), `loaded` (the view models made), `isFavorite` (a
flag per row and recipe), `cell` (the row a table cell was last configured with), and for
each of the two threads that post, `observers` (cells its notification has not reached),
`todo` (hearts left in the cell it is in) and `got` (a membership read and not yet
written). `tap` is a `toggleFavorite` in progress: its edit and notification, then its last
statement, which refreshes the tapped heart once more.

`Load` makes a view model, `Configure` is `cellForRowAt` with a recycled cell, `Visit`,
`Read` and `Write` are `updateFavorites`, `SyncSave` and `SyncPost` what the manager's
initialiser does from its own thread. `ToggleElsewhere` is a heart of the search or
favourites screen: their flags are not modelled, it may add or remove. `isFavorite`
compares titles while the edits append and remove ids, hence `Title`.

A stale heart is possible in this code, so `HeartsAgree` does not say that hearts are
right: it says that a wrong one is about to be refreshed or is in `excused`, a history
variable that guards nothing. A heart is excused when the list changes while no cell holds
its row, when its cell is given to another row before the refresh came, and when a thread
writes a value that the list has moved away from; a heart that is right is not excused.
`SecondCopyByStaleHeart` says that after the sync a tap on the home screen makes `append`
duplicate a recipe only by such a heart, and `TapFlips` that a tap on any heart, stale
ones included, still changes it.

Abstractions: an edit's read and write of the list are one step (`Favorites` has the two);
the concurrent accesses of a flag by the two threads, a data race in Swift, are taken as
atomic reads and writes; a new `MainCoordinator.start` makes a new tab bar and new view
models, and the module covers the life of one.

### ListView, Search, FavoritesScreen, their MC modules and proofs

`ListView` says what a screen with a collection view promises: the array may be replaced
at any time by any thread, and the view does not stay on an old count. `Search` and
`FavoritesScreen` implement it, with `items` for the array, `drawn` for the array the view
last counted and `loaded` for the bound view.

`Search` is `SearchViewModel` with three threads: the main thread after a keystroke
(`Type`) or an edit (`EditPosted`), the delegate queue with the recipes (`Answer`), the
sync's thread (`SyncPosted`). `Show` is the call of `updateCollectionViewModels` on a list
that has just changed; `updateFavorites` looks whether there is a filter (`Look`) and then
picks a list (`Pick`). `Assign` and `Queue` are the assignment and its listener, which
queues a reload; the view controller, another observer of the notification, queues a
second one. `fresh` and `astray` are history: whether nothing has changed since a thread
looked, and whether the array was assigned by a thread for which something had.

`FavoritesScreen` is `loadFavorites` on two threads, statement by statement (`Fetch`,
`Store`, `Map`, `Assign`): `favoriteRecipes` is written and read again, so that one thread
may map the other's list. `ShowLabel` and `Reload` are the two halves of the listener's
block. `alone` and `mixed` are history: whether something has interfered with a load, and
whether the array was last assigned by such a load.

A list is the set of its recipes, whose order is the server's. A Swift array that two
threads assign is a data race; the assignments are taken as atomic. The block that sets
the label is not ordered with other blocks of the main queue, which do not touch it.
`FavoritesViewModel.removeFromFavorites` has no caller and is left out.

### Screens, MCScreens, ScreensProofs

State: the root, the top of the authentication stack, per form the overlay, the spinner
and the requests not answered, the main queue as a sequence of blocks, the checks of
`start()` that have not ended, the children of the `TabBarCoordinator`, the tabs that show
a recipe. `Submit` is `login` and `register`: `isLoading(true)` queues a block that covers
the form (`RunLoading`), which queues one for the spinner (`RunSpinner`). `RunError` and
`RunSave` are the answers' blocks. `Replace` is what every change of the root has in
common. `DidShow` is the navigation delegate of the tabs.

Blocks and requests name their screen by its role: a form in place; a registration that is
*leaving* while it slides away; *former* screens, replaced with their coordinator, which
their retain cycles keep alive and whose `onSuccess` still works; screens that are *gone*,
whose weak closures do nothing. What `MainCoordinator` decides from the tokens is reduced
to its outcome, which `Session` derives. The alert of a screen that is not to be seen is
not presented; one of a screen that slides away may or may not be.

`slipped`, `replaced` and `untold` are history: a tap has got through while the form was on
its way; a check has replaced such a form; an answer has reached nobody.

### Roots

`Roots` is the window's root as a user of `MainCoordinator` sees it: `root`, whether the
onboarding is over (`finished`), whether a check of `start()`, or the block it queues, is
on its way (`checking`), and whether the user has signed out under tabs that are still
there (`leaving`). Tabs give way to the login screen by `SignOut` and then `LeaveTabs`, or
by `CheckFails`, and only a check that this run of the program began when it showed tabs
can do the latter; the onboarding ends once and for all, and no check is on its way under
it. `Session` implements it: the onboarding is over when it is stored *and* replaced (a
handler may run, or the process die, between), and the user is leaving when `start()` is
due under tabs that are still there and the refresh token is gone or about to be.

### Ingredients

`ParseIngredient` is `parseIngredient`: `Split` goes through the letters, `Take` and
`Finish` are what `split` does with one; a force-unwrapped `nil` is `Crash`. `TakenFrom` is
the reference: where name and amount stand in the text. `HomeFeed` extends the module and
takes its handlers' steps by it; `IngredientsParsed` says that a row in the table has of
each text what the reference says, and that the program has stopped only over a text of
nothing but parentheses, in an answer whose row has not been appended.

## 4. The runs

| run | instance | what it shows |
|---|---|---|
| `home_feed` | 4 requests, as in the code; answers with every text of up to 4 letters of 3, and two answers with several texts | every answer shown once; the table comes, or the program stops over an unreadable text; the feed implements the barrier with its liveness; what the rows have of their texts (`IngredientsParsed`) |
| `home_headers` | the code's endpoints and headers | violation: a row under another category's header |
| `favorites_list` | 2 recipes, 1 account, 2 requests, 2 copies | `ListFollowsServer` |
| `favorites_accounts` | 1 recipe, 2 accounts, 2 requests | `RightAccount`: no favourite is sent to another account's list; `ListFollowsServer` across accounts |
| `favorites_live` | 1 recipe, 1 account, 2 requests | a request goes on only by being refused and refreshed (`OnlyRefusalsGoOn`), the sync ends |
| `favorites_added` | same | violation: an added recipe leaves the list without a removal |
| `hearts` | 2 recipes of one title, 2 rows (one recipe in both), 2 cells, 2 copies | `HeartsAgree`, `TapFlips`, `SecondCopyByStaleHeart`; every wrong heart is put right or excused (`HeartsSettle`) |
| `search` | 2 recipes, 2 texts of which one matches nothing, backlog 1 | `ShowsTheSearch`, `StaleCountIsReloaded`, the screen is a list view |
| `favorites_screen` | 2 recipes, backlog 1 | `ShowsFavorites`, `LabelAndCountRenewed`, `OnlyTheSyncMixes`, the screen is a list view |
| `profile` | 2 chains, 2 forms, 2 sessions, backlog 1 | the session's `PairOrder`, `DroppedByItsOwnCheck`, `StrandedOnlyByProfile`; the profile's `ShowsTheStoredAccount`; what replaces the root (`ImplementsRoots`) |
| `profile_live` | 2 chains, 1 form, 1 session | a check goes on only by being refused and refreshed (`OnlyRefusalsGoOn`), a refused one at launch shows the login screen, the profile comes to its end with its check or is replaced |
| `screens` | 2 requests, 1 check, backlog 1 | `FormsAreFreed`, `OverlayCovers`, `NoStrayRequest`, `TabsKeepTheirCoordinators`; a covered form is uncovered (`OverlayLifts`) |

**Bounds.** Two requests on one recipe, one of them in the other's way, are the smallest
reordering; two recipes show that an edit of one carries a stale entry of the other. Two
copies show a duplicate. Two sessions are an old and a new one, two chains the check of
`start()` and one more that is older or belongs to the profile, two forms the double tap.
`MaxBacklog` keeps the user from acting while many blocks are queued; other threads may
still fill the queue. A recipe in two rows has two hearts that can disagree; two rows and
one cell force recycling; two cells let one row be in two cells and both threads be in
different cells. Two texts, one without a match, tell a filter that is empty from none.
Two requests of the screens are the double tap, or a login and a registration that is
left; one check is enough to replace a form, and a check that `MaxChecks` keeps from being
counted is one that changes nothing. Texts of four letters hold a parenthesis with a part
on each side, empty parts at both ends and in the middle, and nothing but parentheses; the
answers with several texts put one of five letters before and beside an unreadable one.
The theorems hold for every value of these bounds (`MaxChecks` at least 1, since the first
state may have tabs with their check).

Deadlock is checked wherever the system goes on; the home feed stops when its table is
shown, or over an unreadable text. The instances of `favorites_list`, `favorites_accounts`
and `profile` are symmetric in recipes, accounts, requests and chains; no run with a
liveness property uses symmetry.

**Fairness.** Weak fairness of handlers and Tasks (a request times out at the latest), of
the main queue, of the main thread within a handler, of a thread within a notification or
within a load, and of the sync's end. There is no strong fairness, and nothing is assumed
of what the server answers: `validateToken` and `performAuthorizedRequest` refresh and start
over without a bound (`Services/ApiService.swift:232`, `Services/FavoritesManager.swift:188`),
and `OnlyRefusalsGoOn` and `ProfileSettles` say that this is the only way not to end, instead
of assuming it away. The user and the process's death have no fairness.

## 5. The proofs

All are checked by TLAPS for any value of the constants, from the assumptions named in the
modules (`NoneAssumption`: no token is not an account; `NumCallsAssumption`: at least one
request; `LetterAssumption`, `AnswersAssumption`: the parenthesis is a letter, an answer
is a sequence of texts for each request; `BoundsAssumption`; `RowsAssumption`,
`CopiesAssumption`: rows have contents, at least one copy is allowed; `TextAssumption`:
texts have matches, and no text is the empty search bar; `NoCheckAssumption`: no check is
not a chain).

* `HomeFeedProofs`. The inductive invariant `Inv` says that the group's count is the
  number of unanswered requests plus the handler that runs, that the notify block is
  queued only at zero, and that the rows are the answered requests without repetition, as
  many as are issued and answered. Hence `AnswersShownOnce`, `SpinnerCorrect` and
  `FeedImplementsBarrier` (the safety part of the refinement; its liveness is TLC's). What
  `FeedEventuallyShown` rests on is proved too, for any number of requests:
  `SomethingAlwaysDue` (with `AwaitsHandlers`: a registered block has handlers to wait
  for) says that a step's guard holds as long as the table is empty and the program has
  not stopped, `LoadingAlwaysRunsOut` that every step lowers `StepsLeft`, a natural
  number. Only the passage from these two to the temporal formula, by way of ENABLED, is
  not.
* `EveryTextParsed`, in the same module, is about texts of any length: `parseIngredient`
  takes the first and the last stretch between parentheses, and stops the program on a text
  of nothing but parentheses only. It is an induction over the letters. The library's
  induction theorems cannot be used; `SetInduction` states induction as a fact about a set,
  from the least element of its complement, `SplitSteps` derives from it that the recursion
  of `Split` has a solution, and `SplitFinds` carries through the text what has been found
  (`Done`) and since when the current part is under way (`OngoingSince`).
  `IngredientsParsedHolds` is its use for the steps of the home feed: by `Parsed`, a part of
  `Inv`, a row has of each text what the parser made of it, none of which was a crash, and a
  program that has stopped had such a text in an answer not yet in a row.
* `FavoritesProofs`. `TypeCorrect` is inductive. `ListFollowsServer` is not: it needs
  `Following`, which adds that a recipe with an agreed account has at most one request,
  asking for what the list says; that an edit in progress has read the current entry of
  every such recipe; and that the sync's snapshot still holds for its clean recipes. For
  `AccountsKeptApart` the invariant `Apart` adds whose tokens are stored and whose
  requests are unmoved. `AddedStays`, which the run `favorites_added` refutes, has a true
  counterpart: `ChangesAreMeant` says that a recipe comes or goes as the user asked, as the
  server's list has it, or by an edit of *another* recipe that had read the list before the
  sync replaced it, and by nothing else (`ReadIsStored`: what an edit has read is in store
  until then).
* `SessionProofs`. `TypeCorrect`, then `SessInv`, which carries the three safety
  properties. None of them is inductive: an old check may still write a token, and a
  waiting `saveToken` may put a session in place beside an old removal, or be half done.
  `OwedNewest` says that a session half written is newer than all that is stored, running
  or queued before it, with its own access token or an older one in place. `SavesNewer`
  and `SavesOrdered` say that sessions are stored in the order in which the server opened
  them, each newer than everything stored or running before it; `RefreshesOwn` that a
  refresh under way uses the token in place or began before it; `LoginFollows` that the
  removal of `start()`'s check has the login screen behind it in the queue, or a handler
  that has still to call its completion. The steps are gathered in lemmas (a step that
  queues nothing, a refused and an invalid check, a session opened, a key written, the
  second key written, a relaunch) from which `SessionInvariant` follows action by action.
  `SessionImplementsRoots` maps every step to one of `Roots` or to a stutter. It needs
  `RootInv`: until the onboarding has been gone through, and as long as it is on the
  screen, no chain, form, block or token exists; a program that is being launched has
  nothing on its way; when `start()` is due under the login screen a token is stored, and
  when it is due under tabs the user is leaving or a token is stored. `RootInv` rests on
  `SessInv` (the removal of tokens that has the login screen behind it).
  `OnboardingAlwaysUndisturbed` is its part about the onboarding.
* `HeartsProofs`. `HeartsAgree` is not inductive: a wrong heart whose refresh is due could
  have no cell, and the refresh would not reach it. `HoldInv` adds that a wrong heart
  without a cell is excused, that cells are filled only when all rows are there, and that a
  thread writes only hearts it is still looking at. `ListChanges` is the step in which the
  list changes: held hearts become due, the others excused. `SecondCopy` follows: a tap
  that appends a copy is on a wrong heart, nothing is due while the main thread is idle and
  the sync is over, so the heart is excused. `TapFlipsAlways` needs `Undisturbed`: while a
  toggle runs with the sync over, what the main thread has read is still so, and at the
  last statement only the tapped heart is left.

* `SearchProofs`. `ShowsTheSearch` needs `Showing`: as long as nothing has changed since a
  thread looked, the filter is what the text asks for or is empty by one of the two
  overlaps (`FilterRight`), and so are the list it has picked (`PickRight`), the one it is
  about to assign (`AssignRight`) and the array it has assigned (`ItemsRight`).
  `StaleCountIsReloaded` follows from `Awaiting`.
* `FavoritesScreenProofs`. `Following` says of a load that nothing has interfered with that
  its list is the favourites (`InHand`), that it is the only one (`Solo`), and so that the
  array is right after it (`Shown`); `Confirmed` gives `OnlyTheSyncMixes`. `Renewing` says
  what a label or a count that is wrong waits for: a view that has not been opened, a
  block, or a thread that has not queued its block yet.
* `SearchIsAListView` and `FavoritesScreenIsAListView` prove the safety part of the
  refinement of `ListView`.
* `ProfileProofs`. `ProfileKeepsTheSession`: the first component of every step of
  `Profile` is a step of `Session` or leaves it alone, so that the session's theorems
  carry over (`SessionTheoremsCarryOver`). `Known` relates the captured token to the
  stored ones, half written ones included, and carries `ShowsTheStoredAccount`.
* `ScreensProofs`. Three inductive invariants over the queue, which is a sequence of any
  length; lemmas say what appending a block, taking the first and renaming senders do to
  what is in the queue and in which order. `FormsAreFreed` needs `Freed`: behind every
  block that covers a form, and for every form that is covered, there is one that uncovers
  it or an answer that will queue one. `OverlayCovers` and `NoStrayRequest` need `Order`,
  which holds until a tap slips through: a form has at most one request on its way, its
  overlay is on it or queued before the answer, nothing else is queued for it, it is on the
  screen, and nobody waits for an answer who has left. The tabs' children need that only
  screens still in the stack make way.
* `SpinnerCorrect` of the home feed (the spinner outlasts the requests) is proved and not a
  property of a run.

Model-checked only: the liveness properties (`FeedEventuallyShown`, `HeartsSettle`,
`OverlayLifts`, those of `favorites_live` and `profile_live`, the liveness in `FanInSpec`
and `ListSpec`) and whatever needs ENABLED, which the prover does not handle under
fairness; and the two violations, which are counterexamples.

## 6. Not modelled

* Layout and resources, the drawing of cells, the activity indicator of the search screen.
* The decoding of recipes beyond `parseIngredient`: field by field, each with its default.
* The onboarding's pages: the page and the title of its button are assigned in one turn of
  the main thread, and nothing else runs. Its end is in `Session` and `Screens`.
* The details screen, which shows one recipe; that it is pushed and popped is in `Screens`.
* The block with which a table cell reloads index paths it has computed before
  (`Views/Components/RecipeTableViewCell.swift:54`): rows of different lengths, and a
  variable per cell, are beyond the state space of `Hearts`.
* `childCoordinators` of `MainCoordinator`, which only grows: nothing but memory suffers.
* When the profile's labels stay empty: after a check that went well they do so because the
  captured token was renewed, and just as well after a server error or a lost connection, so
  that a property would say no more than what the server answered.
* A refresh that fails because of the network signs the user out: a property against it
  would restate `Services/ApiService.swift:193`.
* Other devices of the same account: between its own requests the server's list changes
  only at the first launch (`Init` of `Favorites`).
* Firebase handles that nothing uses, and the vendored libraries.
