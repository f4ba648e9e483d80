------------------------------ MODULE Profile ------------------------------
(***************************************************************************)
(* The profile screen on top of the session: fetchUserData reads the       *)
(* access token, has it checked, and then asks for the user's data with    *)
(* the token it read before, whatever the check has found or renewed.      *)
(*                                                                         *)
(* The module is Session with the life of the visible profile screen added *)
(* to its steps; the requests of profile screens that went away with their *)
(* tab bar set labels nobody sees and are left out.                        *)
(***************************************************************************)
EXTENDS Session

CONSTANT NoCheck

ASSUME NoCheckAssumption == NoCheck \notin Calls

VARIABLES
    profile,  \* where the visible screen is in fetchUserData
    token,    \* the access token it has read
    check,    \* the chain of its validateToken
    labels,   \* whose name and address are shown; NoToken: empty labels
    overtaken \* history: has another session's token come in under the tabs,
              \* by a late refresh or by a registration nobody heard of?

screenState == <<profile, token, check, labels>>
profileVars == <<screenState, overtaken>>
allVars == <<vars, profileVars>>

ProfileTypeOK ==
    /\ TypeOK
    /\ profile \in {"closed", "checking", "ready", "asked", "answered", "explained", "done"}
    /\ token \in Token
    /\ check \in Calls \union {NoCheck}
    /\ labels \in Token
    /\ overtaken \in BOOLEAN

ProfileInit ==
    /\ Init
    /\ profile = "closed"
    /\ token = NoToken
    /\ check = NoCheck
    /\ labels = NoToken
    /\ overtaken = FALSE

-----------------------------------------------------------------------------
\* viewDidLoad; without a token fetchUserData returns at once.
Open ==
    /\ OpenProfile
    /\ token' = authToken
    /\ IF authToken = NoToken
          THEN profile' = "done" /\ check' = NoCheck
          ELSE profile' = "checking" /\ \E c \in Calls : calls'[c] # calls[c] /\ check' = c
    /\ UNCHANGED <<labels, overtaken>>

\* c's refresh stores a token that is not of the session in place, or coming.
Overtakes(c) ==
    /\ calls'[c].pc = "refreshed"
    /\ calls[c].used \notin (IF owed = {} THEN {refreshToken} ELSE owed)

Notice(c) == overtaken' = (overtaken \/ Overtakes(c))

GoesOn == UNCHANGED <<profile, check>>

\* A bug to catch: a check that fails does not call its completion.
EndsIfValid(c) ==
    /\ profile' = IF Accepted(c) THEN "ready" ELSE profile
    /\ check' = NoCheck

\* The check calls its completion, which ignores the verdict.
Ends(c) ==
    /\ profile' = "ready"
    /\ check' = NoCheck

\* A step of the screen's own check.
CheckStep(c) ==
    /\ profile = "checking" /\ c = check
    /\ CallStep(c)
    /\ IF calls'[c].pc = "free" THEN Ends(c) ELSE GoesOn
    /\ Notice(c)
    /\ UNCHANGED <<token, labels>>

\* A step of any other chain.
OtherStep(c) ==
    /\ profile = "checking" => c # check
    /\ CallStep(c)
    /\ Notice(c)
    /\ UNCHANGED screenState

\* The completion of validateToken sends the request.
Ask ==
    /\ profile = "ready"
    /\ profile' = "asked"
    /\ UNCHANGED <<vars, token, check, labels, overtaken>>

\* The answer is JSON: the user's data, or an explanation why there are none
\* (a token that has expired meanwhile, a server that is busy).
Answer ==
    /\ profile = "asked"
    /\ profile' \in {"answered", "explained"}
    /\ UNCHANGED <<vars, token, check, labels, overtaken>>

\* No answer, or none that is JSON.
NoAnswer ==
    /\ profile = "asked"
    /\ profile' = "done"
    /\ UNCHANGED <<vars, token, check, labels, overtaken>>

\* The block on the main queue sets the labels to what the answer has.
ShowLabels ==
    /\ profile \in {"answered", "explained"}
    /\ Idling
    /\ profile' = "done"
    /\ labels' = IF profile = "answered" THEN token ELSE NoToken
    /\ UNCHANGED <<vars, token, check, overtaken>>

\* A bug to catch: the profile screen outlives its tab bar.
LeaveOnlyByDeath ==
    /\ Start \/ RunShowAuth \/ Relaunch
    /\ IF root' = "none"
          THEN profile' = "closed" /\ token' = NoToken /\ labels' = NoToken
          ELSE UNCHANGED <<profile, token, labels>>
    /\ UNCHANGED <<check, overtaken>>

\* The tab bar is replaced, or the process dies.
Leave ==
    /\ Start \/ RunShowAuth \/ Relaunch
    /\ profile' = "closed"
    /\ token' = NoToken
    /\ check' = NoCheck
    /\ labels' = NoToken
    /\ UNCHANGED overtaken

\* Everything else leaves the screen alone.  A write of the pair by the main
\* thread makes an end of what had overtaken it before.
Elsewhere ==
    /\ FinishOnboarding \/ Submit \/ EditFavorites \/ SignOut
         \/ FormAccepted \/ FormRefused \/ RunRemoval \/ RunSave \/ PutRefreshToken
    /\ overtaken' = IF UNCHANGED owed \/ PutRefreshToken THEN overtaken
                    ELSE root = "tabs" /\ RunSave /\ ~starting'
    /\ UNCHANGED screenState

-----------------------------------------------------------------------------
ScreenStep == Ask \/ Answer \/ NoAnswer \/ ShowLabels

ProfileNext ==
    \/ Open
    \/ \E c \in Calls : CheckStep(c) \/ OtherStep(c)
    \/ ScreenStep
    \/ Leave
    \/ Elsewhere

ProfileSpec == ProfileInit /\ [][ProfileNext]_allVars

\* As in Session; a request of the screen ends as well.
ProfileFairness ==
    /\ WF_allVars((Leave /\ (Start \/ RunShowAuth)) \/ (Elsewhere /\ (RunRemoval \/ RunSave \/ PutRefreshToken)))
    /\ WF_allVars(ScreenStep)
    /\ \A c \in Calls : WF_allVars(CheckStep(c) \/ OtherStep(c))

ProfileFairSpec == ProfileSpec /\ ProfileFairness

-----------------------------------------------------------------------------
(* Properties *)

\* As long as a token is stored, the profile shows the account whose session
\* is stored, unless a late refresh (ApiService.swift:201) or a registration
\* whose screen is gone (RegistrationViewController.swift:150) has put another
\* session's token in its place, or the process died between the two writes of
\* saveToken (ApiService.swift:253-254).
ShowsTheStoredAccount ==
    labels # NoToken /\ authToken # NoToken /\ ~starting =>
        labels = refreshToken \/ overtaken \/ torn

\* The profile screen comes to its end with its two requests, or is replaced,
\* unless its check is refused and refreshed without end (ProfileViewModel.swift:22,
\* ApiService.swift:230-232).
ProfileSettles ==
    \/ []<>(profile \in {"done", "closed"})
    \/ []<>(check # NoCheck /\ calls[check].pc = "refreshing")
=============================================================================
