------------------------------ MODULE Session ------------------------------
(***************************************************************************)
(* The session: the two tokens in UserDefaults, who reads and writes them, *)
(* and the screen MainCoordinator shows because of them.                   *)
(*                                                                         *)
(* Tokens are written by the main thread (saveToken after a login or a     *)
(* registration, the removals of sign-out and of validateToken) and by the *)
(* completion handlers of refreshAccessToken on URLSession's delegate      *)
(* queue.  A check (validateToken) or an authorized request of the         *)
(* favourites is a chain of requests, each sent with what is stored by     *)
(* then, and it is not cancelled when the session it began in ends.  What  *)
(* it decides reaches the main thread through the main dispatch queue.     *)
(*                                                                         *)
(* Logins and registrations are numbered in the order in which the server  *)
(* answers them; the tokens of the n-th session, refreshed ones included,  *)
(* are n, and no token is 0.  The app may be killed and launched again,    *)
(* between the two writes of a pair of tokens too.                         *)
(***************************************************************************)
EXTENDS Naturals, Sequences

CONSTANTS
    Calls,       \* bound: checks and authorized requests not ended
    MaxForms,    \* bound: logins and registrations not answered
    MaxSessions, \* bound: sessions the server ever opens
    MaxBacklog   \* bound: blocks in the main queue when the user acts

ASSUME BoundsAssumption ==
    MaxForms \in Nat /\ MaxSessions \in Nat /\ MaxBacklog \in Nat

VARIABLES
    authToken,     \* UserDefaults "authToken"
    refreshToken,  \* UserDefaults "refreshToken"
    owed,          \* what the main thread, having written the access token,
                   \* is about to make of the refresh token; {}: nothing
    torn,          \* history: did the process die between the two writes, and
                   \* has no pair been written whole since?
    seen,          \* UserDefaults "hasSeenOnboarding"
    root,          \* window.rootViewController
    profileLoaded, \* has the tab bar's profile screen been opened?
    starting,      \* is the main thread about to call MainCoordinator.start?
    calls,         \* checks and authorized requests
    forms,         \* logins and registrations on their way
    issued,        \* sessions the server has opened
    main,          \* the main dispatch queue
    profileDropped \* history: has a check of the profile removed the tokens
                   \* under the present tabs?

tokens == <<authToken, refreshToken, owed, torn>>
screen == <<seen, root, profileLoaded, starting>>
vars == <<tokens, screen, calls, forms, issued, main, profileDropped>>

NoToken == 0
Token == 0..MaxSessions

\* used: the refresh token sent.  began is history: the session, by its
\* refresh token, in which the chain began.
Free == [pc |-> "free"]
Call == [pc : {"asked", "refreshing", "refreshed", "refused"},
         owner : {"start", "profile", "favorites"}, used : Token, began : Token]

\* What completion handlers leave for the main thread.
Removal == [do : {"remove"}, owner : {"start", "profile"}, used : Token, began : Token]
ShowLogin == [do : {"showAuth"}]
SaveToken == [do : {"save"}, session : Token]
Block == Removal \union ShowLogin \union SaveToken

TypeOK ==
    /\ authToken \in Token
    /\ refreshToken \in Token
    /\ owed \in SUBSET Token
    /\ torn \in BOOLEAN
    /\ seen \in BOOLEAN
    /\ root \in {"none", "onboarding", "auth", "tabs"}
    /\ profileLoaded \in BOOLEAN
    /\ starting \in BOOLEAN
    /\ calls \in [Calls -> {Free} \union Call]
    /\ forms \in 0..MaxForms
    /\ issued \in 0..MaxSessions
    /\ main \in Seq(Block)
    /\ profileDropped \in BOOLEAN

Init ==
    /\ authToken = NoToken
    /\ refreshToken = NoToken
    /\ owed = {}
    /\ torn = FALSE
    /\ seen = FALSE
    /\ root = "none"
    /\ profileLoaded = FALSE
    /\ starting = TRUE
    /\ calls = [c \in Calls |-> Free]
    /\ forms = 0
    /\ issued = 0
    /\ main = <<>>
    /\ profileDropped = FALSE

-----------------------------------------------------------------------------
(* MainCoordinator                                                         *)

\* validateToken, performAuthorizedRequest: the first request leaves.
Begin(c, owner) ==
    /\ calls[c] = Free
    /\ calls' = [calls EXCEPT ![c] =
           [pc |-> "asked", owner |-> owner, used |-> NoToken, began |-> refreshToken]]

\* start(): a screen according to what is stored, and a check of the token.
Start ==
    /\ starting /\ owed = {}
    /\ starting' = FALSE
    /\ profileLoaded' = FALSE
    /\ profileDropped' = FALSE
    /\ \/ ~seen /\ root' = "onboarding" /\ UNCHANGED calls
       \/ seen /\ authToken = NoToken /\ root' = "auth" /\ UNCHANGED calls
       \/ /\ seen /\ authToken # NoToken
          /\ root' = "tabs"
          /\ \E c \in Calls : Begin(c, "start")
    /\ UNCHANGED <<tokens, seen, forms, issued, main>>

-----------------------------------------------------------------------------
(* What the user does, on the main thread when it is not in a handler      *)

Idling == ~starting /\ owed = {}
UserActs == Idling /\ Len(main) <= MaxBacklog

FinishOnboarding ==
    /\ UserActs
    /\ root = "onboarding"
    /\ seen' = TRUE
    /\ starting' = TRUE
    /\ UNCHANGED <<tokens, root, profileLoaded, calls, forms, issued, main, profileDropped>>

\* The overlay that hides the button is queued, not shown at once, so that a
\* second tap may get through.
Submit ==
    /\ UserActs
    /\ root = "auth"
    /\ forms < MaxForms
    /\ forms' = forms + 1
    /\ UNCHANGED <<tokens, screen, calls, issued, main, profileDropped>>

\* The profile screen loads once per tab bar, and checks the token.
OpenProfile ==
    /\ UserActs
    /\ root = "tabs" /\ ~profileLoaded
    /\ profileLoaded' = TRUE
    /\ IF authToken = NoToken
          THEN UNCHANGED calls
          ELSE \E c \in Calls : Begin(c, "profile")
    /\ UNCHANGED <<tokens, seen, root, starting, forms, issued, main, profileDropped>>

\* A favourite is added or removed (Favorites.tla).
EditFavorites ==
    /\ UserActs
    /\ root = "tabs"
    /\ authToken # NoToken
    /\ \E c \in Calls : Begin(c, "favorites")
    /\ UNCHANGED <<tokens, screen, forms, issued, main, profileDropped>>

\* UserDefaults holds the tokens under two keys, written one after the other.
PutAccessToken(new) ==
    /\ authToken' = new
    /\ owed' = {new}
    /\ UNCHANGED <<refreshToken, torn>>

PutRefreshToken ==
    /\ refreshToken' \in owed
    /\ owed' = {}
    /\ torn' = FALSE
    /\ UNCHANGED <<authToken, screen, calls, forms, issued, main, profileDropped>>

\* A bug to catch: only the access token is removed.
SignOutKeepsRefreshToken ==
    /\ UserActs
    /\ root = "tabs" /\ profileLoaded
    /\ authToken' = NoToken
    /\ starting' = TRUE
    /\ UNCHANGED <<refreshToken, owed, torn, seen, root, profileLoaded, calls, forms,
                   issued, main, profileDropped>>

\* A refresh may store its token before start() reads it.
SignOut ==
    /\ UserActs
    /\ root = "tabs" /\ profileLoaded
    /\ PutAccessToken(NoToken)
    /\ starting' = TRUE
    /\ UNCHANGED <<seen, root, profileLoaded, calls, forms, issued, main, profileDropped>>

-----------------------------------------------------------------------------
(* Completion handlers, on the delegate queue                              *)

\* A bug to catch: the login screen comes up after any failed check.
InvalidShowsLogin(c) ==
    /\ calls' = [calls EXCEPT ![c] = Free]
    /\ main' = Append(main, [do |-> "showAuth"])

\* The completion is called with false; start()'s sends showAuth to the main
\* queue.
Invalid(c) ==
    /\ calls' = [calls EXCEPT ![c] = Free]
    /\ main' = IF calls[c].owner = "start" THEN Append(main, [do |-> "showAuth"]) ELSE main

RemovalOf(c) ==
    [do |-> "remove", owner |-> calls[c].owner, used |-> calls[c].used,
     began |-> calls[c].began]

\* A bug to catch: every caller of refreshAccessToken removes the tokens.
RefusedForAll(c) ==
    /\ calls' = [calls EXCEPT ![c].pc = "refused"]
    /\ main' = Append(main, RemovalOf(c))

\* A bug to catch: the failed refresh removes the tokens and does not call
\* the completion.
RefusedWithoutCompletion(c) ==
    /\ calls' = [calls EXCEPT ![c] = Free]
    /\ main' = IF calls[c].owner = "favorites" THEN main ELSE Append(main, RemovalOf(c))

\* The refresh has failed: that is the end of an authorized request; a check
\* sends the removal to the main queue, and has still to call its completion.
Refused(c) ==
    IF calls[c].owner = "favorites"
       THEN calls' = [calls EXCEPT ![c] = Free] /\ UNCHANGED main
       ELSE /\ calls' = [calls EXCEPT ![c].pc = "refused"]
            /\ main' = Append(main, RemovalOf(c))

\* 200, or whatever answer ends an authorized request.
Accepted(c) ==
    /\ calls[c].pc = "asked"
    /\ calls' = [calls EXCEPT ![c] = Free]
    /\ UNCHANGED <<tokens, screen, forms, issued, main, profileDropped>>

\* A bug to catch: the tokens are removed when the server is unreachable.
UnreachableRemoves(c) ==
    /\ calls[c].pc = "asked"
    /\ Refused(c)
    /\ UNCHANGED <<tokens, screen, forms, issued, profileDropped>>

\* No answer, or a status other than 200 and 401.
Unreachable(c) ==
    /\ calls[c].pc = "asked"
    /\ Invalid(c)
    /\ UNCHANGED <<tokens, screen, forms, issued, profileDropped>>

\* 401: refreshAccessToken.
Unauthorized(c) ==
    /\ calls[c].pc = "asked"
    /\ refreshToken # NoToken
    /\ calls' = [calls EXCEPT ![c].pc = "refreshing", ![c].used = refreshToken]
    /\ UNCHANGED <<tokens, screen, forms, issued, main, profileDropped>>

UnauthorizedForGood(c) ==
    /\ calls[c].pc = "asked"
    /\ refreshToken = NoToken
    /\ Refused(c)
    /\ UNCHANGED <<tokens, screen, forms, issued, profileDropped>>

\* The new access token is stored whatever the session is by now.
RefreshOk(c) ==
    /\ calls[c].pc = "refreshing"
    /\ authToken' = calls[c].used
    /\ calls' = [calls EXCEPT ![c].pc = "refreshed"]
    /\ UNCHANGED <<refreshToken, owed, torn, screen, forms, issued, main, profileDropped>>

\* Any failure of the refresh, a lost connection too.
RefreshFail(c) ==
    /\ calls[c].pc = "refreshing"
    /\ Refused(c)
    /\ UNCHANGED <<tokens, screen, forms, issued, profileDropped>>

\* The same handler goes on.  (The main thread may have run the removal by
\* now.  Handlers of other requests wait for this one in the code; that they
\* need not here only adds behaviours.)
Complete(c) ==
    /\ calls[c].pc = "refused"
    /\ Invalid(c)
    /\ UNCHANGED <<tokens, screen, forms, issued, profileDropped>>

\* A bug to catch: the guard on the token returns without the completion.
AgainOnlyWithToken(c) ==
    /\ calls[c].pc = "refreshed"
    /\ authToken # NoToken
    /\ calls' = [calls EXCEPT ![c].pc = "asked"]
    /\ UNCHANGED <<tokens, screen, forms, issued, main, profileDropped>>

\* validateToken and performAuthorizedRequest start over.
Again(c) ==
    /\ calls[c].pc = "refreshed"
    /\ IF authToken = NoToken
          THEN Invalid(c)
          ELSE /\ calls' = [calls EXCEPT ![c].pc = "asked"]
               /\ UNCHANGED main
    /\ UNCHANGED <<tokens, screen, forms, issued, profileDropped>>

\* A login or registration is answered with tokens, or ends in an alert.
FormAccepted ==
    /\ forms > 0
    /\ issued < MaxSessions
    /\ forms' = forms - 1
    /\ issued' = issued + 1
    /\ main' = Append(main, [do |-> "save", session |-> issued + 1])
    /\ UNCHANGED <<tokens, screen, calls, profileDropped>>

FormRefused ==
    /\ forms > 0
    /\ forms' = forms - 1
    /\ UNCHANGED <<tokens, screen, calls, issued, main, profileDropped>>

-----------------------------------------------------------------------------
(* The main dispatch queue                                                 *)

NextBlock(do) == Idling /\ main # <<>> /\ Head(main).do = do

RunRemoval ==
    /\ NextBlock("remove")
    /\ main' = Tail(main)
    /\ PutAccessToken(NoToken)
    /\ profileDropped' = (profileDropped \/ Head(main).owner = "profile")
    /\ UNCHANGED <<screen, calls, forms, issued>>

\* A bug to catch: the block checks that somebody is signed in.
RunShowAuthIfSignedIn ==
    /\ NextBlock("showAuth")
    /\ main' = Tail(main)
    /\ IF authToken = NoToken
          THEN UNCHANGED <<root, profileLoaded, profileDropped>>
          ELSE root' = "auth" /\ profileLoaded' = FALSE /\ profileDropped' = FALSE
    /\ UNCHANGED <<tokens, seen, starting, calls, forms, issued>>

RunShowAuth ==
    /\ NextBlock("showAuth")
    /\ main' = Tail(main)
    /\ root' = "auth"
    /\ profileLoaded' = FALSE
    /\ profileDropped' = FALSE
    /\ UNCHANGED <<tokens, seen, starting, calls, forms, issued>>

\* saveToken, then onSuccess: start(), unless it was a registration whose
\* screen the user has left since, before the overlay came: nobody hears it.
RunSave ==
    /\ NextBlock("save")
    /\ main' = Tail(main)
    /\ PutAccessToken(Head(main).session)
    /\ starting' \in BOOLEAN
    /\ UNCHANGED <<seen, root, profileLoaded, calls, forms, issued, profileDropped>>

\* Killed at any point and launched: only UserDefaults and the server remember.
Relaunch ==
    /\ owed' = {}
    /\ torn' = (torn \/ owed # {})
    /\ root' = "none"
    /\ profileLoaded' = FALSE
    /\ starting' = TRUE
    /\ calls' = [c \in Calls |-> Free]
    /\ forms' = 0
    /\ main' = <<>>
    /\ profileDropped' = FALSE
    /\ UNCHANGED <<authToken, refreshToken, seen, issued>>

-----------------------------------------------------------------------------
User == FinishOnboarding \/ Submit \/ OpenProfile \/ EditFavorites \/ SignOut

CallStep(c) ==
    Accepted(c) \/ Unreachable(c) \/ Unauthorized(c) \/ UnauthorizedForGood(c)
        \/ RefreshOk(c) \/ RefreshFail(c) \/ Complete(c) \/ Again(c)

MainStep == Start \/ PutRefreshToken \/ RunRemoval \/ RunShowAuth \/ RunSave

Next ==
    \/ User
    \/ \E c \in Calls : CallStep(c)
    \/ FormAccepted \/ FormRefused
    \/ MainStep
    \/ Relaunch

Spec == Init /\ [][Next]_vars

\* The main thread serves its queue.  A request is answered or times out,
\* and its handler runs; what the answer is, nothing promises.
Fairness == WF_vars(MainStep) /\ \A c \in Calls : WF_vars(CallStep(c))

FairSpec == Spec /\ Fairness

-----------------------------------------------------------------------------
(* Properties *)

\* The stored pair (ApiService.swift:201, 235-236, 253-254), once a handler has
\* written it whole: a refresh that comes late may leave the access token of an
\* older session beside the refresh token of a newer one, or alone, but never a
\* newer one, nor a refresh token alone.  Only a process that dies between the
\* two writes leaves those, until the next pair is written.
PairOrder ==
    owed = {} /\ ~torn =>
        (refreshToken # NoToken => authToken \in 1..refreshToken)

\* A failed check (ApiService.swift:234-237) throws away the session in place
\* only when that session's refresh token failed, or when the check began in
\* an earlier session and outlived it.
DroppedByItsOwnCheck ==
    \A i \in 1..Len(main) :
        main[i].do = "remove" /\ refreshToken # NoToken =>
            main[i].used = refreshToken \/ main[i].began < refreshToken

\* Tabs without a token (MainCoordinator.swift:33-40): either the login
\* screen is about to replace them, its block in the queue or its check about
\* to send it, or it was the profile's check that removed the tokens, which
\* tells nobody (ProfileViewModel.swift:22).
StrandedOnlyByProfile ==
    root = "tabs" /\ authToken = NoToken /\ ~starting =>
        \/ profileDropped
        \/ \E i \in 1..Len(main) : main[i].do = "showAuth"
        \/ \E c \in Calls : calls[c].pc = "refused" /\ calls[c].owner = "start"

\* validateToken and refreshAccessToken call each other without a bound
\* (ApiService.swift:230-232).  That is the only way for a check, or for an
\* authorized request, not to end: it is refused and refreshed for ever.
OnlyRefusalsGoOn ==
    \A c \in Calls :
        \/ []<>(calls[c].pc = "free")
        \/ []<>(calls[c].pc = "asked") /\ []<>(calls[c].pc = "refreshing")

\* A session whose refresh failed in start()'s check ends on the login screen.
RefusedShowsLogin ==
    (\E i \in 1..Len(main) : main[i].do = "remove" /\ main[i].owner = "start")
        ~> (root \in {"auth", "none"})

-----------------------------------------------------------------------------
(* The root of the window, seen from outside                               *)

CheckPending ==
    \/ \E c \in Calls : calls[c].pc # "free" /\ calls[c].owner = "start"
    \/ \E i \in 1..Len(main) : main[i].do = "showAuth"

\* The tabs are still there, and what is stored is, or is about to be, gone.
Leaving ==
    /\ root = "tabs" /\ starting
    /\ IF owed = {} THEN refreshToken = NoToken ELSE NoToken \in owed

Navigation == INSTANCE Roots WITH
    finished <- (seen /\ root # "onboarding"),
    leaving <- Leaving,
    checking <- CheckPending

\* The tabs give way to the login screen (MainCoordinator.swift:24-41) because
\* of a sign-out or of a check of start() that this run of the program began;
\* no check, refresh or late login of any kind disturbs the onboarding, and
\* none survives a launch.
ImplementsRoots == Navigation!RootsSpec
=============================================================================
