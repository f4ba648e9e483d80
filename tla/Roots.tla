------------------------------- MODULE Roots -------------------------------
(***************************************************************************)
(* What MainCoordinator promises of the window's root: onboarding comes    *)
(* before everything else and never again, and the login screen takes the  *)
(* place of the tabs because the user signed out there, or because of a    *)
(* check that start() began in this run of the program, when it showed     *)
(* tabs.                                                                   *)
(***************************************************************************)

VARIABLES
    root,     \* the screens in place; "none" while the program does not run
    finished, \* has the user gone through the onboarding?
    leaving,  \* has the user signed out under tabs that are still there?
    checking  \* is a check of start(), or the block it left, on its way?

rootVars == <<root, finished, leaving, checking>>

RootsInit ==
    /\ root = "none"
    /\ finished \in BOOLEAN
    /\ leaving = FALSE
    /\ checking = FALSE

-----------------------------------------------------------------------------
Launch ==
    /\ root = "none"
    /\ \/ ~finished /\ root' = "onboarding" /\ UNCHANGED checking
       \/ finished /\ root' = "auth" /\ UNCHANGED checking
       \/ finished /\ root' = "tabs" /\ checking' = TRUE
    /\ UNCHANGED <<finished, leaving>>

EndOnboarding ==
    /\ root = "onboarding"
    /\ root' = "auth"
    /\ finished' = TRUE
    /\ UNCHANGED <<leaving, checking>>

\* start() finds a token, after a login or in spite of a sign-out.
ShowTabs ==
    /\ root \in {"auth", "tabs"}
    /\ root' = "tabs"
    /\ leaving' = FALSE
    /\ checking' = TRUE
    /\ UNCHANGED finished

\* The user signs out, which only tabs offer, and start() follows.
SignOut ==
    /\ root = "tabs" /\ ~leaving
    /\ leaving' = TRUE
    /\ UNCHANGED <<root, finished, checking>>

LeaveTabs ==
    /\ leaving
    /\ root' = "auth"
    /\ leaving' = FALSE
    /\ UNCHANGED <<finished, checking>>

\* showAuth, whatever the root is by now.
CheckFails ==
    /\ checking /\ ~leaving
    /\ root \in {"auth", "tabs"}
    /\ root' = "auth"
    /\ checking' \in BOOLEAN
    /\ UNCHANGED <<finished, leaving>>

CheckSucceeds ==
    /\ checking
    /\ checking' = FALSE
    /\ UNCHANGED <<root, finished, leaving>>

\* The end of the onboarding may have been stored and not shown yet.
Kill ==
    /\ root' = "none"
    /\ leaving' = FALSE
    /\ checking' = FALSE
    /\ finished' \in {finished, finished \/ root = "onboarding"}

-----------------------------------------------------------------------------
RootsNext ==
    \/ Launch \/ EndOnboarding \/ ShowTabs
    \/ SignOut \/ LeaveTabs
    \/ CheckFails \/ CheckSucceeds
    \/ Kill

RootsSpec == RootsInit /\ [][RootsNext]_rootVars
=============================================================================
