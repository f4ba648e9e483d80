------------------------------ MODULE HomeFeed ------------------------------
(***************************************************************************)
(* HomeViewModel.callFuncToGetData: the home screen's fan-out of recipe    *)
(* requests, gathered with a DispatchGroup.                                *)
(*                                                                         *)
(* Three threads of control take part.  The main thread issues the         *)
(* requests one after the other and then registers the group's notify      *)
(* block.  Completion handlers run on URLSession.shared's delegate queue,  *)
(* which is serial: one handler at a time, in the order of the answers,    *)
(* and possibly before the next request is issued.  The notify block and   *)
(* the reload of the table run later on the main queue.                    *)
(*                                                                         *)
(* Request k is the k-th call of callFuncToGetData.  The recipes of an     *)
(* answer are abstracted to the request that brought them and to their     *)
(* ingredients: fetchRecipes puts every ingredient's text through          *)
(* parseIngredient (Ingredients.tla), which stops the program on a text it *)
(* cannot take apart, and then calls its completion, with [] on an error.  *)
(***************************************************************************)
EXTENDS Naturals, Sequences, Ingredients

CONSTANTS
    NumCalls,  \* how many requests the screen fans out (4 in the code)
    Answers,   \* what the requests may be answered with: an answer is the texts
               \* of its recipes' ingredients, <<>> on an error
    Endpoint,  \* Endpoint[k]: the list of recipes the k-th request asks for
    Category   \* Category[s]: the list the header of section s announces

ASSUME NumCallsAssumption == NumCalls \in Nat \ {0}

Calls == 1..NumCalls

Answer == Seq(Text)

IngredientList == Seq(Ingredient)

ASSUME AnswersAssumption == Answers \subseteq [Calls -> Answer]

NoCall == 0

VARIABLES
    answer,      \* what the server answers each request with
    issued,      \* requests callFuncToGetData has started so far
    group,       \* the DispatchGroup's count: entered and not left
    inFlight,    \* requests the server has not answered
    running,     \* the request whose completion handler has appended its
                 \* row and not yet left the group, or NoCall
    tableViewCellModels, \* the rows, in the order they were appended
    ingredients, \* parsedIngredients of the recipes in each request's row
    notify,      \* the notify block
    categories,  \* are the section headers set?
    isLoading,   \* what the last isLoading callback said
    table,       \* what the table view shows: one row per section
    crashed      \* has unwrapping nil stopped the program?

vars == <<answer, issued, group, inFlight, running, tableViewCellModels,
          ingredients, notify, categories, isLoading, table, crashed>>

NotifyStates == {"unregistered", "registered", "queued", "run"}

TypeOK ==
    /\ answer \in [Calls -> Answer]
    /\ issued \in 0..NumCalls
    /\ group \in Nat
    /\ inFlight \subseteq Calls
    /\ running \in Calls \union {NoCall}
    /\ tableViewCellModels \in Seq(Calls)
    /\ ingredients \in [Calls -> IngredientList]
    /\ notify \in NotifyStates
    /\ categories \in BOOLEAN
    /\ isLoading \in BOOLEAN
    /\ table \in Seq(Calls \union {NoCall})
    /\ crashed \in BOOLEAN

Init ==
    /\ answer \in Answers
    /\ issued = 0
    /\ group = 0
    /\ inFlight = {}
    /\ running = NoCall
    /\ tableViewCellModels = <<>>
    /\ ingredients = [k \in Calls |-> <<>>]
    /\ notify = "unregistered"
    /\ categories = FALSE
    /\ isLoading = FALSE
    /\ table = <<>>
    /\ crashed = FALSE

-----------------------------------------------------------------------------
(* The main thread: isLoading?(true), then enter and request, four times.  *)

\* A bug to catch: the last request is issued without group.enter().
LastRequestNotEntered(k) ==
    /\ ~crashed
    /\ k = issued + 1
    /\ issued' = k
    /\ isLoading' = TRUE
    /\ group' = IF k = NumCalls THEN group ELSE group + 1
    /\ inFlight' = inFlight \union {k}
    /\ UNCHANGED <<answer, running, tableViewCellModels, ingredients, notify,
                   categories, table, crashed>>

Request(k) ==
    /\ ~crashed
    /\ k = issued + 1
    /\ issued' = k
    /\ isLoading' = TRUE
    /\ group' = group + 1
    /\ inFlight' = inFlight \union {k}
    /\ UNCHANGED <<answer, running, tableViewCellModels, ingredients, notify,
                   categories, table, crashed>>

\* A bug to catch: the block is queued with DispatchQueue.main.async instead.
NotifyWithoutGroup ==
    /\ ~crashed
    /\ issued = NumCalls
    /\ notify = "unregistered"
    /\ notify' = "queued"
    /\ UNCHANGED <<answer, issued, group, inFlight, running,
                   tableViewCellModels, ingredients, categories, isLoading,
                   table, crashed>>

\* group.notify(queue: .main): the block is queued at once when the count is
\* already zero, otherwise by the leave that brings it to zero.
RegisterNotify ==
    /\ ~crashed
    /\ issued = NumCalls
    /\ notify = "unregistered"
    /\ notify' = IF group = 0 THEN "queued" ELSE "registered"
    /\ UNCHANGED <<answer, issued, group, inFlight, running,
                   tableViewCellModels, ingredients, categories, isLoading,
                   table, crashed>>

-----------------------------------------------------------------------------
(* The delegate queue: a completion handler appends its row, then leaves.  *)

\* A bug to catch: an error returns without calling the completion.
AppendUnlessEmpty(k) ==
    /\ ~crashed
    /\ k \in inFlight
    /\ running = NoCall
    /\ answer[k] # <<>>
    /\ \A i \in DOMAIN answer[k] : ParseIngredient(answer[k][i]) # Crash
    /\ inFlight' = inFlight \ {k}
    /\ running' = k
    /\ tableViewCellModels' = Append(tableViewCellModels, k)
    /\ ingredients' = [ingredients EXCEPT ![k] =
           [i \in DOMAIN answer[k] |-> ParseIngredient(answer[k][i])]]
    /\ UNCHANGED <<answer, issued, group, notify, categories, isLoading, table,
                   crashed>>

\* fetchRecipes's handler: a parsed answer, or [] on any error, goes to the
\* completion, which appends it.
AppendRow(k) ==
    /\ ~crashed
    /\ k \in inFlight
    /\ running = NoCall
    /\ \A i \in DOMAIN answer[k] : ParseIngredient(answer[k][i]) # Crash
    /\ inFlight' = inFlight \ {k}
    /\ running' = k
    /\ tableViewCellModels' = Append(tableViewCellModels, k)
    /\ ingredients' = [ingredients EXCEPT ![k] =
           [i \in DOMAIN answer[k] |-> ParseIngredient(answer[k][i])]]
    /\ UNCHANGED <<answer, issued, group, notify, categories, isLoading, table,
                   crashed>>

\* The handler meets a text whose name! is nil before it gets to its row.
CrashOnText(k) ==
    /\ ~crashed
    /\ k \in inFlight
    /\ running = NoCall
    /\ \E i \in DOMAIN answer[k] : ParseIngredient(answer[k][i]) = Crash
    /\ crashed' = TRUE
    /\ UNCHANGED <<answer, issued, group, inFlight, running,
                   tableViewCellModels, ingredients, notify, categories,
                   isLoading, table>>

\* A bug to catch: leave on two paths of one handler.
LeaveTwice ==
    /\ ~crashed
    /\ running # NoCall
    /\ running' = NoCall
    /\ group' = group - 2
    /\ notify' = IF notify = "registered" /\ group \in 1..2 THEN "queued" ELSE notify
    /\ UNCHANGED <<answer, issued, inFlight, tableViewCellModels, ingredients,
                   categories, isLoading, table, crashed>>

Leave ==
    /\ ~crashed
    /\ running # NoCall
    /\ running' = NoCall
    /\ group' = group - 1
    /\ notify' = IF notify = "registered" /\ group = 1 THEN "queued" ELSE notify
    /\ UNCHANGED <<answer, issued, inFlight, tableViewCellModels, ingredients,
                   categories, isLoading, table, crashed>>

-----------------------------------------------------------------------------
(* The main queue: the notify block, then the reload that bind() queues.   *)

Notify ==
    /\ ~crashed
    /\ notify = "queued"
    /\ notify' = "run"
    /\ categories' = TRUE
    /\ isLoading' = FALSE
    /\ UNCHANGED <<answer, issued, group, inFlight, running,
                   tableViewCellModels, ingredients, table, crashed>>

\* getTableCellModel: an empty row where there is no model for the section.
TableCellModel(s) ==
    IF s <= Len(tableViewCellModels) THEN tableViewCellModels[s] ELSE NoCall

\* reloadData asks for one section per category and one row in each.
Reload ==
    /\ ~crashed
    /\ notify = "run"
    /\ table = <<>>
    /\ table' = [s \in 1..NumCalls |-> TableCellModel(s)]
    /\ UNCHANGED <<answer, issued, group, inFlight, running,
                   tableViewCellModels, ingredients, notify, categories,
                   isLoading, crashed>>

-----------------------------------------------------------------------------
Next ==
    \/ \E k \in Calls : Request(k)
    \/ RegisterNotify
    \/ \E k \in Calls : AppendRow(k)
    \/ \E k \in Calls : CrashOnText(k)
    \/ Leave
    \/ Notify
    \/ Reload

Spec == Init /\ [][Next]_vars

\* The main thread runs to the end of the method and drains its queue; every
\* data task calls its handler, with an error when it times out; a handler
\* that started runs to its end.
Fairness ==
    /\ \A k \in Calls : WF_vars(Request(k))
    /\ WF_vars(RegisterNotify)
    /\ \A k \in Calls : WF_vars(AppendRow(k))
    /\ \A k \in Calls : WF_vars(CrashOnText(k))
    /\ WF_vars(Leave)
    /\ WF_vars(Notify)
    /\ WF_vars(Reload)

FairSpec == Spec /\ Fairness

-----------------------------------------------------------------------------
(* Properties *)

\* When the table is reloaded (HomeViewModel.swift:66-70) every request has
\* its row in one section and one only: no handler still runs, no section
\* falls back to the empty row of getTableCellModel, no answer is shown
\* twice or dropped.
EveryAnswerShownOnce ==
    table # <<>> =>
        \A k \in Calls : \E s \in 1..NumCalls :
            table[s] = k /\ \A u \in 1..NumCalls : table[u] = k => u = s

\* An answer parseIngredient can take apart.
Readable(k) ==
    \A i \in DOMAIN answer[k] : ~OnlyParentheses(answer[k][i])

\* The screen does not stay on its spinner: the table is eventually filled,
\* unless an answer has an ingredient without a name, and then no order of
\* the answers saves the program (ApiService.swift:91, 261).
FeedEventuallyShown ==
    IF \A k \in Calls : Readable(k) THEN <>(table # <<>>) ELSE <>crashed

\* What the section headers say (HomeViewModel.swift:67): the row under a
\* header comes from the endpoint the header names.
HeadersMatchRows ==
    table # <<>> => \A s \in 1..NumCalls : Endpoint[table[s]] = Category[s]

\* Whatever the texts of the answers and their order: a row that was appended
\* shows of each text the name and the amount where the text has them
\* (ApiService.swift:257-262), and the program has only stopped over a text of
\* an answer that is not in a row, with nothing in it but parentheses.
IngredientsParsed ==
    /\ \A s \in 1..Len(tableViewCellModels) :
           LET k == tableViewCellModels[s]
           IN  /\ DOMAIN ingredients[k] = DOMAIN answer[k]
               /\ \A i \in DOMAIN answer[k] :
                      TakenFrom(answer[k][i], ingredients[k][i])
    /\ crashed => \E k \in inFlight : ~Readable(k)

-----------------------------------------------------------------------------
(* The group as a barrier: a request has replied when its handler has left *)

Replied == {k \in Calls : k <= issued /\ k \notin inFlight /\ k # running}

Barrier == INSTANCE FanIn WITH
    Requests <- Calls,
    replied <- Replied,
    announced <- (notify = "run"),
    stopped <- crashed

ImplementsFanIn == Barrier!FanInSpec
=============================================================================
