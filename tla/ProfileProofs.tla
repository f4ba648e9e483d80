--------------------------- MODULE ProfileProofs ---------------------------
(***************************************************************************)
(* Theorems about Profile, for any number of chains, forms and sessions.   *)
(***************************************************************************)
EXTENDS Profile, SessionProofs

\* The screen adds to the session and takes nothing from it: its behaviours,
\* seen without the screen, are Session's, whose theorems hold of it
\* (ProfileViewModel.swift:22 calls the validateToken of all others).
THEOREM ProfileKeepsTheSession == ProfileSpec => Spec
<1>1. ProfileInit => Init
  BY DEF ProfileInit
<1>2. [ProfileNext]_allVars => [Next]_vars
  <2> SUFFICES ASSUME [ProfileNext]_allVars PROVE [Next]_vars
    OBVIOUS
  <2>1. CASE Open
    BY <2>1 DEF Open, Next, User
  <2>2. ASSUME NEW c \in Calls, CheckStep(c) \/ OtherStep(c) PROVE [Next]_vars
    BY <2>2 DEF CheckStep, OtherStep, Next
  <2>3. CASE ScreenStep
    BY <2>3 DEF ScreenStep, Ask, Answer, NoAnswer, ShowLabels
  <2>4. CASE Leave
    BY <2>4 DEF Leave, Next, MainStep
  <2>5. CASE Elsewhere
    BY <2>5 DEF Elsewhere, Next, User, MainStep
  <2>6. CASE UNCHANGED allVars
    BY <2>6 DEF allVars
  <2> QED
    BY <2>1, <2>2, <2>3, <2>4, <2>5, <2>6 DEF ProfileNext
<1> QED
  BY <1>1, <1>2, PTL DEF ProfileSpec, Spec

\* What the session promises, it promises with the profile screen at work
\* (ProfileViewModel.swift:22), at every point at which the two writes of a pair
\* and the handler of a failed refresh can be interrupted: the order of the
\* stored pair, whose check removes it, which tabs are left without it, and what
\* the root does.
THEOREM SessionTheoremsCarryOver ==
  ProfileSpec => /\ []PairOrder /\ []DroppedByItsOwnCheck /\ []StrandedOnlyByProfile
                 /\ ImplementsRoots
  BY ProfileKeepsTheSession, PairInOrder, DroppedByOwn, StrandedByProfile,
     SessionImplementsRoots, PTL

LEMMA SessionTyped == ProfileSpec => []TypeOK
  BY ProfileKeepsTheSession, TypeCorrect, PTL

\* The values the variables may have (ProfileViewModel, its labels, the
\* token it captured): the type invariant, with that of Session.
THEOREM ProfileTypeCorrect == ProfileSpec => []ProfileTypeOK
<1> DEFINE Screen ==
        /\ profile \in {"closed", "checking", "ready", "asked", "answered", "explained", "done"}
        /\ token \in Token
        /\ check \in Calls \union {NoCheck}
        /\ labels \in Token
        /\ overtaken \in BOOLEAN
<1>0. NoToken \in Token
  BY BoundsAssumption DEF NoToken, Token
<1>1. ProfileInit => Screen
  <2> SUFFICES ASSUME ProfileInit PROVE Screen
    OBVIOUS
  <2>1. overtaken \in BOOLEAN
    BY DEF ProfileInit
  <2> QED
    BY <1>0, <2>1 DEF ProfileInit
<1>2. TypeOK /\ Screen /\ [ProfileNext]_allVars => Screen'
  <2> SUFFICES ASSUME TypeOK, Screen, [ProfileNext]_allVars PROVE Screen'
    OBVIOUS
  <2> USE <1>0
  <2>0. authToken \in Token
    BY DEF TypeOK
  <2>1. CASE Open
    BY <2>0, <2>1 DEF Open
  <2>2. ASSUME NEW c \in Calls, Notice(c)
        PROVE  overtaken' \in BOOLEAN
    BY <2>2 DEF Notice
  <2>3. ASSUME NEW c \in Calls, CheckStep(c) PROVE Screen'
    BY <2>2, <2>3 DEF CheckStep, Ends, GoesOn
  <2>4. ASSUME NEW c \in Calls, OtherStep(c) PROVE Screen'
    BY <2>2, <2>4 DEF OtherStep, screenState
  <2>5. CASE ScreenStep
    BY <2>5 DEF ScreenStep, Ask, Answer, NoAnswer, ShowLabels
  <2>6. CASE Leave
    BY <2>6 DEF Leave
  <2>7. CASE Elsewhere
    <3>1. overtaken' \in BOOLEAN
      BY <2>7 DEF Elsewhere
    <3> QED
      BY <2>7, <3>1 DEF Elsewhere, screenState
  <2>8. CASE UNCHANGED allVars
    BY <2>8 DEF allVars, profileVars, screenState
  <2> QED
    BY <2>1, <2>3, <2>4, <2>5, <2>6, <2>7, <2>8 DEF ProfileNext
<1>3. TypeOK /\ Screen => ProfileTypeOK
  BY DEF ProfileTypeOK
<1> QED
  BY <1>1, <1>2, <1>3, SessionTyped, PTL DEF ProfileSpec

-----------------------------------------------------------------------------
(* The labels come from the token the screen has read, and that token is   *)
(* of the stored session as long as no late refresh of another has         *)
(* overtaken it.                                                           *)

RefreshesSomething ==
    \A c \in Calls : calls[c].pc = "refreshing" => calls[c].used # NoToken

Known ==
    /\ RefreshesSomething
    /\ ~profileLoaded => profile = "closed" /\ labels = NoToken
    /\ owed = {} /\ ~torn /\ authToken = NoToken => refreshToken = NoToken
    /\ owed = {} => authToken \in {NoToken, refreshToken} \/ overtaken \/ torn
    /\ \A t \in owed : authToken \in {NoToken, t} \/ overtaken
    /\ labels \in {NoToken, token}
    /\ token # NoToken => root = "tabs"
    /\ token # NoToken /\ authToken # NoToken /\ ~starting =>
           overtaken \/ (owed = {} /\ (token = refreshToken \/ torn))

LEMMA RefreshesStep ==
  ASSUME TypeOK, RefreshesSomething, [Next]_vars
  PROVE  RefreshesSomething'
<1> USE DEF RefreshesSomething
<1>1. ASSUME NEW c \in Calls, NEW o, Begin(c, o) PROVE RefreshesSomething'
  BY <1>1 DEF Begin, TypeOK
<1>2. ASSUME NEW c \in Calls, calls[c].pc # "free", Invalid(c) \/ Refused(c)
      PROVE  RefreshesSomething'
  <2>1. calls[c] \in Call
    BY <1>2 DEF TypeOK, Free
  <2> QED
    BY <1>2, <2>1 DEF Invalid, Refused, Free, Call, TypeOK
<1>3. CASE User
  BY <1>1, <1>3 DEF User, FinishOnboarding, Submit, OpenProfile, EditFavorites, SignOut, screen
<1>4. ASSUME NEW c \in Calls, CallStep(c) PROVE RefreshesSomething'
  <2>1. CASE Accepted(c)
    BY <2>1 DEF Accepted, Free, TypeOK
  <2>2. CASE Unreachable(c) \/ UnauthorizedForGood(c) \/ RefreshFail(c) \/ Complete(c)
    BY <1>2, <2>2 DEF Unreachable, UnauthorizedForGood, RefreshFail, Complete
  <2>3. CASE Unauthorized(c)
    BY <2>3 DEF Unauthorized, TypeOK, Call, Free
  <2>4. CASE RefreshOk(c)
    BY <2>4 DEF RefreshOk, TypeOK
  <2>5. CASE Again(c)
    <3>1. CASE authToken = NoToken
      BY <1>2, <2>5, <3>1 DEF Again
    <3>2. CASE authToken # NoToken
      BY <2>5, <3>2 DEF Again, TypeOK, Call, Free
    <3> QED
      BY <3>1, <3>2
  <2> QED
    BY <1>4, <2>1, <2>2, <2>3, <2>4, <2>5 DEF CallStep
<1>5. CASE Start
  BY <1>1, <1>5 DEF Start
<1>6. CASE Relaunch
  BY <1>6 DEF Relaunch, Free
<1>7. CASE FormAccepted \/ FormRefused \/ RunRemoval \/ RunShowAuth \/ RunSave \/ PutRefreshToken
  BY <1>7 DEF FormAccepted, FormRefused, RunRemoval, RunShowAuth, RunSave, PutRefreshToken
<1>8. CASE UNCHANGED vars
  BY <1>8 DEF vars
<1> QED
  BY <1>3, <1>4, <1>5, <1>6, <1>7, <1>8 DEF Next, MainStep

\* A step of a chain: the tokens stay, or a refresh comes.
Renewal(c) == calls'[c].pc = "refreshed"

LEMMA ChainWrites ==
  ASSUME TypeOK, NEW c \in Calls, CallStep(c)
  PROVE  /\ UNCHANGED <<refreshToken, owed, torn, starting, root, profileLoaded>>
         /\ \/ ~Renewal(c) /\ authToken' = authToken
            \/ Renewal(c) /\ calls[c].pc = "refreshing" /\ authToken' = calls[c].used
<1> USE DEF tokens, screen, Renewal
<1>1. ASSUME calls[c].pc # "free", Invalid(c) \/ Refused(c) PROVE ~Renewal(c)
  <2>1. calls[c] \in Call
    BY <1>1 DEF TypeOK, Free
  <2> QED
    BY <1>1, <2>1 DEF Invalid, Refused, Free, Call, TypeOK
<1>2. CASE Accepted(c)
  BY <1>2 DEF Accepted, Free, TypeOK
<1>3. CASE Unreachable(c) \/ UnauthorizedForGood(c) \/ RefreshFail(c) \/ Complete(c)
  BY <1>1, <1>3 DEF Unreachable, UnauthorizedForGood, RefreshFail, Complete
<1>4. CASE Unauthorized(c)
  BY <1>4 DEF Unauthorized, TypeOK, Call, Free
<1>5. CASE RefreshOk(c)
  BY <1>5 DEF RefreshOk, TypeOK, Call, Free
<1>6. CASE Again(c)
  <2>1. calls[c] \in Call
    BY <1>6 DEF Again, TypeOK, Free
  <2> QED
    BY <1>1, <1>6, <2>1 DEF Again, Call, TypeOK
<1> QED
  BY <1>2, <1>3, <1>4, <1>5, <1>6 DEF CallStep

LEMMA KnownStep ==
  ASSUME ProfileTypeOK, OwedNewest, Known, [ProfileNext]_allVars, [Next]_vars
  PROVE  Known'
<1> USE DEF Known, ProfileTypeOK
<1>0. RefreshesSomething'
  BY RefreshesStep
<1>1. CASE Open
  BY <1>0, <1>1 DEF Open, OpenProfile, UserActs, Idling, tokens
<1>2. ASSUME NEW c \in Calls, CallStep(c), Notice(c), UNCHANGED <<token, labels>>,
             profile = "closed" => profile' = "closed"
      PROVE  Known'
  <2>1. CASE ~Renewal(c)
    BY <1>0, <1>2, <2>1, ChainWrites DEF Notice, Overtakes, Renewal
  <2>2. CASE Renewal(c)
    <3>1. authToken' = calls[c].used /\ calls[c].used # NoToken
      BY <1>2, <2>2, ChainWrites DEF RefreshesSomething
    <3>2. overtaken \/ authToken' \notin (IF owed = {} THEN {refreshToken} ELSE owed) => overtaken'
      BY <1>2, <2>2, <3>1 DEF Notice, Overtakes, Renewal
    <3>3. UNCHANGED <<refreshToken, owed, torn, starting, root, profileLoaded, token, labels>>
      BY <1>2, ChainWrites
    <3>4. CASE owed = {}
      BY <1>0, <1>2, <3>1, <3>2, <3>3, <3>4
    <3>5. CASE owed # {}
      <4>1. calls[c].pc # "free"
        BY <1>2, <2>2, ChainWrites
      <4>2. calls[c].used \notin owed
        BY <3>1, <4>1, Numbers DEF OwedNewest, Older
      <4>3. overtaken'
        BY <3>1, <3>2, <3>5, <4>2
      <4> QED
        BY <1>0, <1>2, <3>3, <3>5, <4>3
    <3> QED
      BY <3>4, <3>5
  <2> QED
    BY <2>1, <2>2
<1>3. ASSUME NEW c \in Calls, CheckStep(c) PROVE Known'
  BY <1>2, <1>3 DEF CheckStep
<1>4. ASSUME NEW c \in Calls, OtherStep(c) PROVE Known'
  BY <1>2, <1>4 DEF OtherStep, screenState
<1>5. CASE ScreenStep
  BY <1>0, <1>5 DEF ScreenStep, Ask, Answer, NoAnswer, ShowLabels, vars, tokens, screen
<1>6. CASE Leave
  BY <1>0, <1>6 DEF Leave, Start, RunShowAuth, Relaunch, NextBlock, Idling, tokens
<1>7. CASE Elsewhere
  <2>0. UNCHANGED <<profileLoaded, root, screenState>>
    BY <1>7 DEF Elsewhere, FinishOnboarding, Submit, EditFavorites, SignOut, FormAccepted,
           FormRefused, RunRemoval, RunSave, PutRefreshToken, screen
  <2>1. CASE UNCHANGED tokens /\ (UNCHANGED starting \/ starting')
    BY <1>0, <1>7, <2>0, <2>1 DEF Elsewhere, screenState, tokens
  <2>2. CASE SignOut \/ RunRemoval
    <3>1. authToken' = NoToken /\ owed' = {NoToken}
      BY <2>2 DEF SignOut, RunRemoval, PutAccessToken
    <3> QED
      BY <1>0, <2>0, <3>1 DEF screenState
  <2>3. CASE RunSave
    <3>1. owed = {} /\ owed' = {authToken'}
      BY <2>3 DEF RunSave, NextBlock, Idling, PutAccessToken
    <3>2. owed' # {} /\ owed' # owed
      BY <3>1
    <3>3. ~starting' /\ root = "tabs" => overtaken'
      BY <1>7, <2>3, <3>1, <3>2 DEF Elsewhere, PutRefreshToken
    <3> QED
      BY <1>0, <2>0, <3>1, <3>2, <3>3 DEF screenState
  <2>4. CASE PutRefreshToken
    <3>1. owed # {} /\ owed' = {} /\ refreshToken' \in owed /\ UNCHANGED <<authToken, starting>>
      BY <2>4 DEF PutRefreshToken, screen
    <3>2. overtaken' = overtaken
      BY <1>7, <2>4 DEF Elsewhere
    <3>3. authToken = NoToken => refreshToken' = NoToken
      BY <3>1 DEF OwedNewest, NoToken
    <3> QED
      BY <1>0, <2>0, <3>1, <3>2, <3>3 DEF screenState
  <2> QED
    <3>1. ASSUME FinishOnboarding \/ Submit \/ EditFavorites \/ FormAccepted \/ FormRefused
          PROVE  UNCHANGED tokens /\ (UNCHANGED starting \/ starting')
      BY <3>1 DEF FinishOnboarding, Submit, EditFavorites, FormAccepted, FormRefused, screen
    <3> QED
      BY <1>7, <2>1, <2>2, <2>3, <2>4, <3>1 DEF Elsewhere
<1>8. CASE UNCHANGED allVars
  BY <1>0, <1>8 DEF allVars, profileVars, screenState, vars, tokens, screen
<1> QED
  BY <1>1, <1>3, <1>4, <1>5, <1>6, <1>7, <1>8 DEF ProfileNext

\* The profile shows the account of the stored session, unless a late refresh
\* of another one (ApiService.swift:201), or a registration whose screen is gone
\* (RegistrationViewController.swift:150), has overtaken it, or the process died
\* between the two writes of saveToken.
THEOREM ShowsStoredAccount == ProfileSpec => []ShowsTheStoredAccount
<1>1. ProfileInit => Known
  BY DEF ProfileInit, Init, Known, RefreshesSomething, Free
<1>2. Known => ShowsTheStoredAccount
  BY DEF Known, ShowsTheStoredAccount
<1>3. TypeOK /\ SessInv => OwedNewest
  BY DEF SessInv
<1> QED
  BY <1>1, <1>2, <1>3, KnownStep, ProfileKeepsTheSession, SessionInvariant,
     ProfileTypeCorrect, PTL DEF ProfileSpec, Spec
=============================================================================
