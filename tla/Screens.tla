------------------------------ MODULE Screens ------------------------------
(***************************************************************************)
(* What the coordinators put on the screen, and the two forms of the       *)
(* authentication screens.                                                 *)
(*                                                                         *)
(* A form is guarded against a second tap by an overlay and a spinner that *)
(* isLoading shows and hides in later blocks of the main queue, the        *)
(* spinner in a block queued by such a block.  Until the overlay comes the *)
(* screen takes taps: the form may be sent twice, or left.  Answers come   *)
(* through the main queue too, to screens that may have been left, popped  *)
(* or replaced by then.                                                    *)
(*                                                                         *)
(* What MainCoordinator decides from the tokens is reduced to its outcome: *)
(* see Session.tla.                                                        *)
(***************************************************************************)
EXTENDS Naturals, Sequences

CONSTANTS
    MaxForms,  \* bound: logins and registrations not answered
    MaxChecks, \* bound: checks of start() not ended
    MaxBacklog \* bound: blocks in the main queue when the user acts

ASSUME BoundsAssumption ==
    MaxForms \in Nat /\ MaxChecks \in Nat \ {0} /\ MaxBacklog \in Nat

\* The screens of the AuthCoordinator in place; a registration that is being
\* popped; the screens of AuthCoordinators that were replaced, which their
\* retain cycles keep alive; popped registrations, of which nothing is left.
Form == {"login", "registration"}
Sender == Form \union {"leaving", "former", "gone"}

\* The tabs, and those whose coordinators are DetailShowable.
Tab == {"home", "search", "favorites", "profile"}
DetailTab == Tab \ {"profile"}

VARIABLES
    root,      \* window.rootViewController
    top,       \* the top of the AuthCoordinator's navigation stack
    popping,   \* is the registration screen sliding away?
    overlay,   \* overlay[s]: does loadingView hide the form s?
    spinner,   \* spinner[s]: is its activityIndicator animating?
    alert,     \* is an alert on the screen?
    pending,   \* pending[s]: requests of s the server has not answered
    main,      \* the main dispatch queue
    checks,    \* validateToken calls of start() that have not ended
    children,  \* childCoordinators of the TabBarCoordinator in place
    detail,    \* tabs that show a DetailViewController
    slipped,   \* history: has a tap got through while a form was on its way?
    replaced,  \* history: has a check replaced a form that was on its way?
    untold     \* history: has an answer reached nobody?

forms == <<overlay, spinner, pending>>
tabs == <<children, detail>>
history == <<slipped, replaced, untold>>
vars == <<root, top, popping, alert, forms, main, checks, tabs, history>>

Loading == [do : {"loading"}, of : Sender, on : BOOLEAN]
Spinning == [do : {"spinner"}, of : Sender, on : BOOLEAN]
Answered == [do : {"answer"}, of : Sender, ok : BOOLEAN]
ShowAuth == [do : {"showAuth"}]
Block == Loading \union Spinning \union Answered \union ShowAuth

TypeOK ==
    /\ root \in {"onboarding", "auth", "tabs"}
    /\ top \in Form
    /\ popping \in BOOLEAN
    /\ overlay \in [Form -> BOOLEAN]
    /\ spinner \in [Form -> BOOLEAN]
    /\ alert \in BOOLEAN
    /\ pending \in [Sender -> Nat]
    /\ main \in Seq(Block)
    /\ checks \in 0..MaxChecks
    /\ children \subseteq Tab
    /\ detail \subseteq DetailTab
    /\ slipped \in BOOLEAN /\ replaced \in BOOLEAN /\ untold \in BOOLEAN

\* A launch: start() has found UserDefaults in one of three conditions.
Init ==
    /\ root \in {"onboarding", "auth", "tabs"}
    /\ top = "login"
    /\ popping = FALSE
    /\ overlay = [s \in Form |-> FALSE]
    /\ spinner = [s \in Form |-> FALSE]
    /\ alert = FALSE
    /\ pending = [s \in Sender |-> 0]
    /\ main = <<>>
    /\ checks = IF root = "tabs" THEN 1 ELSE 0
    /\ children = IF root = "tabs" THEN Tab ELSE {}
    /\ detail = {}
    /\ slipped = FALSE /\ replaced = FALSE /\ untold = FALSE

-----------------------------------------------------------------------------
(* Screens that change hands                                               *)

\* Whoever was s is t from now on.
PendingAs(p, s, t) == [p EXCEPT ![t] = p[t] + p[s], ![s] = 0]
QueueAs(q, S, t) ==
    [i \in 1..Len(q) |-> IF q[i].do # "showAuth" /\ q[i].of \in S
                           THEN [q[i] EXCEPT !.of = t] ELSE q[i]]

\* A root is set by a coordinator of its own, and what was there is former.
\* An alert may outlive the screen that presented it.
Replace(newRoot, q) ==
    /\ root' = newRoot
    /\ top' = "login"
    /\ overlay' = [s \in Form |-> FALSE]
    /\ spinner' = [s \in Form |-> FALSE]
    /\ alert' \in {FALSE, alert}
    /\ pending' = PendingAs(PendingAs(pending, "login", "former"), "registration", "former")
    /\ main' = QueueAs(q, Form, "former")
    /\ children' = IF newRoot = "tabs" THEN Tab ELSE {}
    /\ detail' = {}
    /\ checks' = IF newRoot = "tabs" /\ checks < MaxChecks THEN checks + 1 ELSE checks
    /\ UNCHANGED popping

-----------------------------------------------------------------------------
(* The user                                                                *)

UserActs == ~alert /\ Len(main) <= MaxBacklog

\* A bug to catch: the overlay does not cover the button to the other screen.
TakesTapsBelow(s) == root = "auth" /\ top = s /\ ~popping /\ UserActs

\* The form s takes taps: nothing is over it.
TakesTaps(s) == root = "auth" /\ top = s /\ ~popping /\ UserActs /\ ~overlay[s]

\* Requests not answered, whoever waits for them.
Unanswered ==
    pending["login"] + pending["registration"] + pending["leaving"]
        + pending["former"] + pending["gone"]

\* s has not got an answer yet.
Waits(s) ==
    pending[s] > 0 \/ \E i \in 1..Len(main) : main[i].do = "answer" /\ main[i].of = s

\* A tap on s while s waits and nothing covers it.
Slips(s) == slipped' = (slipped \/ (Waits(s) /\ ~overlay[s]))

\* A bug to catch: isLoading(true) is forgotten.
SubmitUncovered(s) ==
    /\ TakesTaps(s)
    /\ Unanswered < MaxForms
    /\ pending' = [pending EXCEPT ![s] = @ + 1]
    /\ Slips(s)
    /\ UNCHANGED <<root, top, popping, overlay, spinner, alert, main, checks, tabs,
                   replaced, untold>>

\* login, register: isLoading(true) and the request.
Submit(s) ==
    /\ TakesTaps(s)
    /\ Unanswered < MaxForms
    /\ pending' = [pending EXCEPT ![s] = @ + 1]
    /\ main' = Append(main, [do |-> "loading", of |-> s, on |-> TRUE])
    /\ Slips(s)
    /\ UNCHANGED <<root, top, popping, overlay, spinner, alert, checks, tabs,
                   replaced, untold>>

\* "Full all fields"
SubmitIncomplete(s) ==
    /\ TakesTaps(s)
    /\ alert' = TRUE
    /\ Slips(s)
    /\ UNCHANGED <<root, top, popping, forms, main, checks, tabs, replaced, untold>>

DismissAlert ==
    /\ alert
    /\ alert' = FALSE
    /\ UNCHANGED <<root, top, popping, forms, main, checks, tabs, history>>

\* A registration screen of its own is pushed.
GoToRegister ==
    /\ TakesTaps("login")
    /\ top' = "registration"
    /\ overlay' = [overlay EXCEPT !["registration"] = FALSE]
    /\ spinner' = [spinner EXCEPT !["registration"] = FALSE]
    /\ Slips("login")
    /\ UNCHANGED <<root, popping, alert, pending, main, checks, tabs, replaced, untold>>

\* popViewController: it lives on until it has slid away.
GoToLogin ==
    /\ TakesTaps("registration")
    /\ top' = "login"
    /\ popping' = TRUE
    /\ overlay' = [overlay EXCEPT !["registration"] = FALSE]
    /\ spinner' = [spinner EXCEPT !["registration"] = FALSE]
    /\ pending' = PendingAs(pending, "registration", "leaving")
    /\ main' = QueueAs(main, {"registration"}, "leaving")
    /\ Slips("registration")
    /\ UNCHANGED <<root, alert, checks, tabs, replaced, untold>>

FinishOnboarding ==
    /\ UserActs
    /\ root = "onboarding"
    /\ Replace("auth", main)
    /\ UNCHANGED history

\* The tokens are removed and start() looks for one, which a late refresh may
\* have stored again.
SignOut ==
    /\ UserActs
    /\ root = "tabs" /\ "profile" \in children
    /\ \E newRoot \in {"auth", "tabs"} : Replace(newRoot, main)
    /\ UNCHANGED history

-----------------------------------------------------------------------------
(* The tabs' navigation stacks                                             *)

\* A bug to catch: the delegate does not look whether from is still there.
DidShowAnyway(tab, from, stack) ==
    children' = IF from \in {"search", "favorites", "profile"} THEN children \ {tab} ELSE children

\* TabBarCoordinator, told by UIKit that from has given way: a screen that has
\* left the stack and is Coordinated (HomeViewController is not, nor is
\* DetailViewController) takes its coordinator with it.
DidShow(tab, from, stack) ==
    children' = IF from \notin stack /\ from \in {"search", "favorites", "profile"}
                   THEN children \ {tab} ELSE children

\* A recipe is tapped; the screen holds its coordinator weakly.
ShowDetail(tab) ==
    /\ UserActs
    /\ root = "tabs" /\ tab \notin detail
    /\ tab \in children
    /\ detail' = detail \union {tab}
    /\ DidShow(tab, tab, {tab, "detail"})
    /\ UNCHANGED <<root, top, popping, alert, forms, main, checks, history>>

\* The back button, or a swipe.
Back(tab) ==
    /\ UserActs
    /\ root = "tabs" /\ tab \in detail
    /\ detail' = detail \ {tab}
    /\ DidShow(tab, "detail", {tab})
    /\ UNCHANGED <<root, top, popping, alert, forms, main, checks, history>>

-----------------------------------------------------------------------------
(* Other threads, and UIKit                                                *)

\* A bug to catch: a handler that ends on two paths queues its block twice.
AnswerTwice(s, ok) ==
    /\ pending[s] > 0
    /\ pending' = [pending EXCEPT ![s] = @ - 2]
    /\ main' = main \o <<[do |-> "answer", of |-> s, ok |-> ok],
                        [do |-> "answer", of |-> s, ok |-> ok]>>
    /\ UNCHANGED <<root, top, popping, overlay, spinner, alert, checks, tabs, history>>

\* The completion handler of a login or registration queues its block.
Answer(s, ok) ==
    /\ pending[s] > 0
    /\ pending' = [pending EXCEPT ![s] = @ - 1]
    /\ main' = Append(main, [do |-> "answer", of |-> s, ok |-> ok])
    /\ UNCHANGED <<root, top, popping, overlay, spinner, alert, checks, tabs, history>>

\* validateToken ends; only a token that is not valid leaves a block that does
\* something.
CheckEnds(isValid) ==
    /\ checks > 0
    /\ checks' = checks - 1
    /\ main' = IF isValid THEN main
               ELSE Append(main, [do |-> "showAuth"])
    /\ UNCHANGED <<root, top, popping, alert, forms, tabs, history>>

PopEnds ==
    /\ popping
    /\ popping' = FALSE
    /\ UNCHANGED <<root, top, alert, forms, main, checks, tabs, history>>

\* The popped screen goes when showLoading's blocks have let it go.
Release ==
    /\ ~popping
    /\ \A i \in 1..Len(main) : main[i].do = "spinner" => main[i].of # "leaving"
    /\ pending["leaving"] > 0 \/ \E i \in 1..Len(main) : main[i].do # "showAuth" /\ main[i].of = "leaving"
    /\ pending' = PendingAs(pending, "leaving", "gone")
    /\ main' = QueueAs(main, {"leaving"}, "gone")
    /\ UNCHANGED <<root, top, popping, overlay, spinner, alert, checks, tabs, history>>

-----------------------------------------------------------------------------
(* The main dispatch queue                                                 *)

NextBlock(do) == main # <<>> /\ Head(main).do = do

\* showLoading queues another block; a screen that is gone does nothing.
RunLoading ==
    /\ NextBlock("loading")
    /\ LET b == Head(main) IN
        /\ main' = IF b.of = "gone" THEN Tail(main)
                   ELSE Append(Tail(main), [do |-> "spinner", of |-> b.of, on |-> b.on])
        /\ overlay' = IF b.of \in Form THEN [overlay EXCEPT ![b.of] = b.on] ELSE overlay
    /\ UNCHANGED <<root, top, popping, spinner, alert, pending, checks, tabs, history>>

RunSpinner ==
    /\ NextBlock("spinner")
    /\ LET b == Head(main) IN
        /\ main' = Tail(main)
        /\ spinner' = IF b.of \in Form THEN [spinner EXCEPT ![b.of] = b.on] ELSE spinner
    /\ UNCHANGED <<root, top, popping, overlay, alert, pending, checks, tabs, history>>

\* What every answer does first: isLoading(false) queues a block.
Unloaded(s) == Append(Tail(main), [do |-> "loading", of |-> s, on |-> FALSE])

\* A bug to catch: the way out with an error forgets isLoading(false).
RunErrorStillLoading ==
    /\ NextBlock("answer") /\ ~Head(main).ok
    /\ LET s == Head(main).of IN
        /\ main' = Tail(main)
        /\ IF root = "auth" /\ top = s /\ ~alert
              THEN alert' = TRUE /\ UNCHANGED untold
              ELSE alert' \in (IF s = "leaving" THEN {alert, TRUE} ELSE {alert}) /\ untold' = TRUE
    /\ UNCHANGED <<root, top, popping, forms, checks, tabs, slipped, replaced>>

\* A bug to catch: the form is sent again after an error, without end.
RunErrorTriesAgain ==
    /\ NextBlock("answer") /\ ~Head(main).ok
    /\ main' = Tail(main)
    /\ pending' = [pending EXCEPT ![Head(main).of] = @ + 1]
    /\ UNCHANGED <<root, top, popping, overlay, spinner, alert, checks, tabs, history>>

\* onError: UIKit presents the alert if its screen is to be seen and presents
\* no other.  One presented by a screen that slides away may be seen or not.
RunError ==
    /\ NextBlock("answer") /\ ~Head(main).ok
    /\ LET s == Head(main).of IN
        /\ main' = Unloaded(s)
        /\ IF root = "auth" /\ top = s /\ ~alert
              THEN alert' = TRUE /\ UNCHANGED untold
              ELSE alert' \in (IF s = "leaving" THEN {alert, TRUE} ELSE {alert}) /\ untold' = TRUE
    /\ UNCHANGED <<root, top, popping, forms, checks, tabs, slipped, replaced>>

\* saveToken and onSuccess: start() shows the tabs, if somebody hears it.
RunSave ==
    /\ NextBlock("answer") /\ Head(main).ok /\ Head(main).of # "gone"
    /\ Replace("tabs", Unloaded(Head(main).of))
    /\ UNCHANGED history

RunSaveUnheard ==
    /\ NextBlock("answer") /\ Head(main).ok /\ Head(main).of = "gone"
    /\ main' = Unloaded("gone")
    /\ untold' = TRUE
    /\ UNCHANGED <<root, top, popping, alert, forms, checks, tabs, slipped, replaced>>

\* A check of start() has failed, whatever the root is by now.
RunShowAuth ==
    /\ NextBlock("showAuth")
    /\ Replace("auth", Tail(main))
    /\ replaced' = (replaced \/ \E s \in Form : Waits(s))
    /\ UNCHANGED <<slipped, untold>>

-----------------------------------------------------------------------------
User ==
    \/ \E s \in Form : Submit(s) \/ SubmitIncomplete(s)
    \/ DismissAlert \/ GoToRegister \/ GoToLogin
    \/ FinishOnboarding \/ SignOut
    \/ \E tab \in DetailTab : ShowDetail(tab) \/ Back(tab)

Answers == \E s \in Sender, ok \in BOOLEAN : Answer(s, ok)

MainStep == RunLoading \/ RunSpinner \/ RunError \/ RunSave \/ RunSaveUnheard \/ RunShowAuth

Next ==
    \/ User
    \/ Answers
    \/ \E isValid \in BOOLEAN : CheckEnds(isValid)
    \/ PopEnds \/ Release
    \/ MainStep

Spec == Init /\ [][Next]_vars

\* The main thread serves its queue and requests time out at the latest.
Fairness ==
    /\ WF_vars(MainStep)
    /\ \A s \in Sender : WF_vars(\E ok \in BOOLEAN : Answer(s, ok))

FairSpec == Spec /\ Fairness

-----------------------------------------------------------------------------
(* Properties *)

\* Nobody is locked out of a form (LoginViewController.swift:113-128): once
\* the main queue is empty and every request is answered, overlay and spinner
\* are gone, however many requests overlapped.
FormsAreFreed ==
    main = <<>> => \A s \in Form : ~Waits(s) => ~overlay[s] /\ ~spinner[s]

\* The overlay does its work (LoginViewController.swift:122-126): with the
\* main queue empty a form on its way is covered, unless a tap got through
\* before the overlay came: the first of two answers takes it away.
OverlayCovers ==
    main = <<>> /\ ~slipped => \A s \in Form : Waits(s) => overlay[s]

\* A request of a screen that is no longer there, and an answer that reaches
\* nobody (LoginViewController.swift:133, RegistrationViewController.swift:
\* 149-154), come of a tap that got through before the overlay, or of a late
\* check of start() that replaced the form (MainCoordinator.swift:35-39).
NoStrayRequest ==
    (\E s \in Sender \ Form : Waits(s)) \/ untold => slipped \/ replaced

\* Recipes can be opened and the profile can sign out (TabBarCoordinator.swift:
\* 64-78): no way through the details takes a coordinator from the tabs.
TabsKeepTheirCoordinators ==
    root = "tabs" => children = Tab

\* A covered form is uncovered or replaced.
OverlayLifts == \A s \in Form : overlay[s] ~> ~overlay[s]
=============================================================================
