--------------------------- MODULE SessionProofs ---------------------------
(***************************************************************************)
(* Theorems about Session, for any number of checks, forms and sessions.   *)
(***************************************************************************)
EXTENDS Session, TLAPS

LEMMA BlocksTyped ==
  ASSUME TypeOK, NEW i \in 1..Len(main)
  PROVE  /\ main[i] \in Block
         /\ main[i].do = "remove" => main[i] \in Removal
         /\ main[i].do = "save" => main[i] \in SaveToken
         /\ main[i].do \in {"remove", "showAuth", "save"}
<1>1. main[i] \in Block
  BY DEF TypeOK
<1> QED
  BY <1>1 DEF Block, Removal, ShowLogin, SaveToken

\* A block more in the queue.
LEMMA LongerQueue ==
  ASSUME TypeOK, NEW b \in Block, main' = Append(main, b)
  PROVE  /\ main' \in Seq(Block)
         /\ Len(main) \in Nat /\ Len(main') = Len(main) + 1 /\ main'[Len(main')] = b
         /\ \A i \in 1..Len(main) : i \in 1..Len(main') /\ main'[i] = main[i]
         /\ \A i \in 1..Len(main') : i \in 1..Len(main) \/ i = Len(main')
BY DEF TypeOK

\* The queue after a completion with false: the login screen if it was
\* start()'s.
LEMMA InvalidQueue ==
  ASSUME TypeOK, NEW c \in Calls, Invalid(c)
  PROVE  /\ main' \in Seq(Block)
         /\ Len(main') \in Nat /\ Len(main) \in Nat /\ Len(main) <= Len(main')
         /\ \A i \in 1..Len(main) : i \in 1..Len(main') /\ main'[i] = main[i]
         /\ \A i \in 1..Len(main') : i \notin 1..Len(main) => main'[i].do = "showAuth"
         /\ calls[c].owner = "start" =>
                Len(main) < Len(main') /\ main'[Len(main')].do = "showAuth"
<1> DEFINE b == [do |-> "showAuth"]
<1>1. b \in Block
  BY DEF Block, ShowLogin
<1>2. b.do = "showAuth"
  OBVIOUS
<1> HIDE DEF b
<1>3. CASE calls[c].owner = "start"
  <2>1. main' = Append(main, b)
    BY <1>3 DEF Invalid, b
  <2> QED
    BY <1>1, <1>2, <2>1, LongerQueue
<1>4. CASE calls[c].owner # "start"
  <2>1. main' = main
    BY <1>4 DEF Invalid
  <2> QED
    BY <1>4, <2>1 DEF TypeOK
<1> QED
  BY <1>3, <1>4

\* The queue after a refresh that failed: the removal, unless the request was
\* the favourites'.
LEMMA RefusedQueue ==
  ASSUME TypeOK, NEW c \in Calls, calls[c].pc # "free", Refused(c)
  PROVE  /\ main' \in Seq(Block)
         /\ Len(main') \in Nat /\ Len(main) \in Nat /\ Len(main) <= Len(main')
         /\ \A i \in 1..Len(main) : i \in 1..Len(main') /\ main'[i] = main[i]
         /\ \A i \in 1..Len(main') : i \notin 1..Len(main) =>
                main'[i] = RemovalOf(c) /\ calls'[c].pc = "refused"
                /\ calls'[c].owner = calls[c].owner
<1>1. calls[c] \in Call
  BY DEF TypeOK, Free
<1>2. CASE calls[c].owner # "favorites"
  <2>1. RemovalOf(c) \in Block
    BY <1>1, <1>2 DEF Call, RemovalOf, Block, Removal
  <2>2. main' = Append(main, RemovalOf(c))
    BY <1>2 DEF Refused
  <2>3. calls'[c].pc = "refused" /\ calls'[c].owner = calls[c].owner
    BY <1>1, <1>2 DEF Refused, TypeOK, Call
  <2> QED
    BY <2>1, <2>2, <2>3, LongerQueue
<1>3. CASE calls[c].owner = "favorites"
  <2>1. main' = main
    BY <1>3 DEF Refused
  <2> QED
    BY <2>1 DEF TypeOK
<1> QED
  BY <1>2, <1>3

LEMMA TailQueue ==
  ASSUME TypeOK, main # <<>>, main' = Tail(main)
  PROVE  /\ main' \in Seq(Block) /\ Len(main) \in Nat \ {0} /\ Len(main') = Len(main) - 1
         /\ \A i \in 1..Len(main') : main'[i] = main[i + 1]
         /\ Head(main) = main[1]
  BY DEF TypeOK

\* The session's variables keep their types: sessions never exceed those
\* issued, and only checks of start() and of the profile queue a removal.
THEOREM TypeCorrect == Spec => []TypeOK
<1>1. Init => TypeOK
  <2> SUFFICES ASSUME Init PROVE TypeOK
    OBVIOUS
  <2>1. main \in Seq(Block)
    <3>1. <<>> \in Seq(Block)
      OBVIOUS
    <3> QED
      BY <3>1, Zenon DEF Init
  <2>2. calls \in [Calls -> {Free} \union Call]
    BY DEF Init
  <2>3. 0 \in Token /\ 0 \in 0..MaxForms /\ {} \in SUBSET Token
    BY BoundsAssumption DEF Token
  <2> QED
    BY <2>1, <2>2, <2>3 DEF Init, TypeOK, Token, NoToken
<1>2. TypeOK /\ [Next]_vars => TypeOK'
  <2> SUFFICES ASSUME TypeOK, [Next]_vars PROVE TypeOK'
    OBVIOUS
  <2> USE BoundsAssumption DEF tokens, screen
  <2>0. /\ calls \in [Calls -> {Free} \union Call] /\ main \in Seq(Block)
        /\ authToken \in Token /\ refreshToken \in Token
        /\ \A c \in Calls : calls[c].pc # "free" => calls[c] \in Call
    BY DEF TypeOK, Free
  <2>1. ASSUME NEW c \in Calls, NEW owner \in {"start", "profile", "favorites"},
               Begin(c, owner)
        PROVE  calls' \in [Calls -> {Free} \union Call]
    BY <2>0, <2>1 DEF Begin, Call, Token, NoToken
  <2>2. CASE Start
    <3>1. calls' \in [Calls -> {Free} \union Call]
      BY <2>0, <2>1, <2>2 DEF Start
    <3>2. root' \in {"none", "onboarding", "auth", "tabs"}
      BY <2>2 DEF Start
    <3> QED
      BY <2>2, <3>1, <3>2 DEF Start, TypeOK
  <2>3. CASE User
    <3>1. calls' \in [Calls -> {Free} \union Call]
      BY <2>0, <2>1, <2>3 DEF User, FinishOnboarding, Submit, OpenProfile,
                              EditFavorites, SignOut
    <3>2. forms' \in 0..MaxForms
      BY <2>3 DEF User, FinishOnboarding, Submit, OpenProfile, EditFavorites,
                  SignOut, TypeOK
    <3>3. CASE SignOut
      <4>1. NoToken \in Token
        BY DEF Token, NoToken
      <4>2. authToken' \in Token /\ refreshToken' \in Token /\ owed' \in SUBSET Token
            /\ torn' = torn
        BY <2>0, <3>3, <4>1 DEF SignOut, PutAccessToken
      <4> QED
        BY <3>1, <3>2, <3>3, <4>2 DEF SignOut, TypeOK
    <3>4. CASE FinishOnboarding \/ Submit \/ OpenProfile \/ EditFavorites
      BY <3>1, <3>2, <3>4 DEF FinishOnboarding, Submit, OpenProfile, EditFavorites, TypeOK
    <3> QED
      BY <2>3, <3>3, <3>4 DEF User
  <2>4. ASSUME NEW c \in Calls, CallStep(c) PROVE TypeOK'
    <3>1. calls[c].pc # "free" /\ calls[c] \in Call
      BY <2>0, <2>4 DEF CallStep, Accepted, Unreachable, Unauthorized,
                        UnauthorizedForGood, RefreshOk, RefreshFail, Complete, Again
    <3>2. ASSUME Invalid(c) \/ Refused(c)
          PROVE  main' \in Seq(Block) /\ calls' \in [Calls -> {Free} \union Call]
      <4>1. main' \in Seq(Block)
        BY <3>1, <3>2, InvalidQueue, RefusedQueue
      <4>2. [calls[c] EXCEPT !.pc = "refused"] \in Call
        BY <3>1 DEF Call
      <4> QED
        BY <2>0, <3>2, <4>1, <4>2 DEF Invalid, Refused
    <3>3. CASE Accepted(c)
      BY <2>0, <3>3 DEF Accepted, TypeOK
    <3>4. CASE Unreachable(c) \/ UnauthorizedForGood(c) \/ RefreshFail(c) \/ Complete(c)
      BY <3>2, <3>4 DEF Unreachable, UnauthorizedForGood, RefreshFail, Complete, TypeOK
    <3>5. CASE Unauthorized(c)
      BY <2>0, <3>1, <3>5 DEF Unauthorized, TypeOK, Call
    <3>6. CASE RefreshOk(c)
      BY <2>0, <3>1, <3>6 DEF RefreshOk, TypeOK, Call
    <3>7. CASE Again(c)
      <4>1. CASE authToken = NoToken
        BY <3>2, <3>7, <4>1 DEF Again, TypeOK
      <4>2. CASE authToken # NoToken
        BY <2>0, <3>1, <3>7, <4>2 DEF Again, TypeOK, Call
      <4> QED
        BY <4>1, <4>2
    <3> QED
      BY <2>4, <3>3, <3>4, <3>5, <3>6, <3>7 DEF CallStep
  <2>5. CASE FormAccepted
    <3>1. [do |-> "save", session |-> issued + 1] \in Block
      BY <2>5 DEF FormAccepted, TypeOK, Block, SaveToken, Token
    <3>2. main' \in Seq(Block)
      BY <2>0, <2>5, <3>1 DEF FormAccepted
    <3> QED
      BY <2>5, <3>2 DEF FormAccepted, TypeOK
  <2>6. CASE FormRefused
    BY <2>6 DEF FormRefused, TypeOK
  <2>7. CASE RunRemoval \/ RunShowAuth \/ RunSave
    <3>1. /\ main # <<>> /\ main' = Tail(main)
      BY <2>7 DEF RunRemoval, RunShowAuth, RunSave, NextBlock
    <3>2. main' \in Seq(Block) /\ Head(main) = main[1] /\ 1 \in 1..Len(main)
      BY <3>1, TailQueue
    <3>3. CASE RunSave
      <4>1. Head(main).session \in Token
        BY <3>2, <3>3, BlocksTyped DEF RunSave, NextBlock, SaveToken
      <4>2. authToken' \in Token /\ refreshToken' = refreshToken /\ owed' \in SUBSET Token
            /\ torn' = torn
        BY <3>3, <4>1 DEF RunSave, PutAccessToken
      <4> QED
        BY <3>2, <3>3, <4>2 DEF RunSave, TypeOK
    <3>4. CASE RunShowAuth
      BY <3>2, <3>4 DEF RunShowAuth, TypeOK
    <3>5. CASE RunRemoval
      <4>1. NoToken \in Token
        BY DEF Token, NoToken
      <4>2. profileDropped' \in BOOLEAN
        BY <3>5 DEF RunRemoval
      <4>3. authToken' \in Token /\ refreshToken' = refreshToken /\ owed' \in SUBSET Token
            /\ torn' = torn
        BY <3>5, <4>1 DEF RunRemoval, PutAccessToken
      <4> QED
        BY <3>2, <3>5, <4>2, <4>3 DEF RunRemoval, TypeOK
    <3> QED
      BY <2>7, <3>3, <3>4, <3>5
  <2>8. CASE Relaunch
    <3>1. <<>> \in Seq(Block)
      OBVIOUS
    <3>2. main' \in Seq(Block)
      BY <2>8, <3>1, Zenon DEF Relaunch
    <3>3. calls' \in [Calls -> {Free} \union Call] /\ 0 \in 0..MaxForms
      BY <2>8 DEF Relaunch
    <3>4. owed' \in SUBSET Token /\ torn' \in BOOLEAN
      BY <2>8 DEF Relaunch, TypeOK
    <3> QED
      BY <2>8, <3>2, <3>3, <3>4 DEF Relaunch, TypeOK
  <2>9. CASE UNCHANGED vars
    BY <2>9 DEF vars, TypeOK
  <2>10. CASE PutRefreshToken
    <3>1. refreshToken' \in Token /\ owed' \in SUBSET Token /\ torn' = FALSE
      BY <2>10 DEF PutRefreshToken, TypeOK
    <3> QED
      BY <2>10, <3>1 DEF PutRefreshToken, TypeOK
  <2> QED
    BY <2>2, <2>3, <2>4, <2>5, <2>6, <2>7, <2>8, <2>9, <2>10 DEF Next, MainStep
<1> QED
  BY <1>1, <1>2, PTL DEF Spec

-----------------------------------------------------------------------------
(* PairOrder, DroppedByItsOwnCheck and StrandedOnlyByProfile               *)

Waiting(i, do) == i \in 1..Len(main) /\ main[i].do = do

\* Nothing but tokens still to be stored bears a session from n on.
Older(n) ==
    /\ refreshToken < n
    /\ \A c \in Calls : calls[c].pc # "free" => calls[c].began < n /\ calls[c].used < n
    /\ \A i \in 1..Len(main) : main[i].do = "remove" => main[i].began < n

\* Sessions are stored in the order in which the server opened them, so that
\* the tokens in place never come back and every chain is of its own past.
SavesNewer ==
    /\ Older(issued + 1)
    /\ \A i \in 1..Len(main) : main[i].do = "save" =>
           main[i].session \in 1..issued /\ Older(main[i].session)

SavesOrdered ==
    \A i, j \in 1..Len(main) :
        i < j /\ main[i].do = "save" /\ main[j].do = "save" =>
            main[i].session < main[j].session

RefreshesOwn ==
    \A c \in Calls : calls[c].pc # "free" =>
        /\ refreshToken # NoToken => calls[c].used <= refreshToken
        /\ calls[c].pc = "refreshing" =>
             /\ calls[c].used # NoToken
             /\ refreshToken # NoToken =>
                  calls[c].used = refreshToken \/ calls[c].began < refreshToken

\* After a removal by start()'s check comes the login screen, from the queue or
\* from the handler that has still to call the completion.
LoginFollows ==
    \A i \in 1..Len(main) : main[i].do = "remove" /\ main[i].owner = "start" =>
        \/ \E j \in 1..Len(main) : i < j /\ main[j].do = "showAuth"
        \/ \E c \in Calls : calls[c].pc = "refused" /\ calls[c].owner = "start"

QueueInv ==
    SavesNewer /\ SavesOrdered /\ RefreshesOwn /\ LoginFollows /\ DroppedByItsOwnCheck

\* A session half written is newer than everything else that is stored or on
\* its way, and has its own access token or an older session's beside it.
OwedNewest ==
    \A t \in owed : t # NoToken =>
        /\ t \in 1..issued /\ Older(t)
        /\ authToken \in 1..t
        /\ \A i \in 1..Len(main) : main[i].do = "save" => t < main[i].session

SessInv == QueueInv /\ OwedNewest /\ PairOrder /\ StrandedOnlyByProfile

LEMMA Numbers ==
  ASSUME TypeOK
  PROVE  /\ refreshToken \in Nat /\ authToken \in Nat /\ issued \in Nat /\ Len(main) \in Nat
         /\ \A c \in Calls : calls[c].pc # "free" =>
                calls[c] \in Call /\ calls[c].began \in Nat /\ calls[c].used \in Nat
         /\ \A i \in 1..Len(main) :
                /\ main[i].do = "remove" => main[i].began \in Nat /\ main[i].used \in Nat
                /\ main[i].do = "save" => main[i].session \in Nat
<1>1. \A c \in Calls : calls[c].pc # "free" => calls[c] \in Call
  BY DEF TypeOK, Free
<1>2. \A n \in Token : n \in Nat
  BY DEF Token
<1>3. refreshToken \in Nat /\ authToken \in Nat /\ issued \in Nat /\ Len(main) \in Nat
  BY <1>2, BoundsAssumption DEF TypeOK
<1>4. \A c \in Calls : calls[c].pc # "free" =>
         calls[c].began \in Nat /\ calls[c].used \in Nat
  BY <1>1, <1>2 DEF Call
<1>5. ASSUME NEW i \in 1..Len(main)
      PROVE  /\ main[i].do = "remove" => main[i].began \in Nat /\ main[i].used \in Nat
             /\ main[i].do = "save" => main[i].session \in Nat
  BY <1>2, BlocksTyped DEF Removal, SaveToken
<1> QED
  BY <1>1, <1>3, <1>4, <1>5

\* How a call changes in a step that does not run a block of the queue: it
\* ends, goes on, begins with what is stored, or refreshes what is stored.
CallGoesOn(c) ==
    \/ calls'[c].pc = "free"
    \/ /\ calls[c].pc # "free"
       /\ calls'[c].began = calls[c].began /\ calls'[c].used = calls[c].used
       /\ calls'[c].pc = "refreshing" => calls[c].pc = "refreshing"
    \/ /\ calls'[c].pc = "asked"
       /\ calls'[c].began = refreshToken /\ calls'[c].used = NoToken
    \/ /\ calls[c].pc # "free" /\ refreshToken # NoToken
       /\ calls'[c].began = calls[c].began /\ calls'[c].used = refreshToken

\* A step that opens no session, stores none, and queues nothing: d blocks
\* leave the queue.
LEMMA QuietStep ==
  ASSUME TypeOK, TypeOK', QueueInv, NEW d \in {0, 1},
         refreshToken' \in {refreshToken, NoToken}, issued' = issued,
         \A c \in Calls : CallGoesOn(c),
         \A c \in Calls : calls[c].pc = "refused" => calls'[c] = calls[c],
         Len(main') = Len(main) - d,
         \A i \in 1..Len(main') : main'[i] = main[i + d]
  PROVE  QueueInv' /\ \A n \in Nat : Older(n) => Older(n)'
<1>1. ASSUME NEW i \in 1..Len(main') PROVE i + d \in 1..Len(main) /\ main'[i] = main[i + d]
  BY Numbers
<1>2. \A n \in Nat : Older(n) => Older(n)'
  <2> SUFFICES ASSUME NEW n \in Nat, Older(n) PROVE Older(n)'
    OBVIOUS
  <2>1. refreshToken' < n
    BY Numbers DEF Older, NoToken
  <2>2. ASSUME NEW c \in Calls, calls'[c].pc # "free"
        PROVE  calls'[c].began < n /\ calls'[c].used < n
    <3>1. CallGoesOn(c)
      OBVIOUS
    <3> QED
      BY <2>2, <3>1, Numbers DEF Older, CallGoesOn, NoToken
  <2>3. ASSUME NEW i \in 1..Len(main'), main'[i].do = "remove"
        PROVE  main'[i].began < n
    BY <1>1, <2>3 DEF Older
  <2> QED
    BY <2>1, <2>2, <2>3 DEF Older
<1>3. SavesNewer'
  <2>1. Older(issued + 1)'
    <3>1. Older(issued + 1) /\ issued + 1 \in Nat
      BY Numbers DEF QueueInv, SavesNewer
    <3> QED
      BY <1>2, <3>1 DEF Older
  <2>2. ASSUME NEW i \in 1..Len(main'), main'[i].do = "save"
        PROVE  main'[i].session \in 1..issued' /\ Older(main[i].session)'
    <3>1. main[i + d].session \in 1..issued /\ Older(main[i + d].session)
      BY <1>1, <2>2 DEF QueueInv, SavesNewer
    <3>2. PICK n \in Nat : n = main[i + d].session
      BY <3>1, Numbers
    <3>3. n = main'[i].session /\ Older(n)'
      BY <1>1, <1>2, <3>1, <3>2
    <3> QED
      BY <3>1, <3>2, <3>3 DEF Older
  <2> QED
    BY <2>1, <2>2 DEF SavesNewer
<1>4. SavesOrdered'
  <2> SUFFICES ASSUME NEW i \in 1..Len(main'), NEW j \in 1..Len(main'), i < j,
                      main'[i].do = "save", main'[j].do = "save"
               PROVE  main'[i].session < main'[j].session
    BY DEF SavesOrdered
  <2>1. i + d < j + d
    OBVIOUS
  <2> QED
    BY <1>1, <2>1 DEF QueueInv, SavesOrdered
<1>5. RefreshesOwn'
  <2> SUFFICES ASSUME NEW c \in Calls, calls'[c].pc # "free"
               PROVE  /\ refreshToken' # NoToken => calls'[c].used <= refreshToken'
                      /\ calls'[c].pc = "refreshing" =>
                           /\ calls'[c].used # NoToken
                           /\ refreshToken' # NoToken =>
                                calls'[c].used = refreshToken' \/ calls'[c].began < refreshToken'
    BY DEF RefreshesOwn
  <2>1. CallGoesOn(c)
    OBVIOUS
  <2> QED
    BY <2>1, Numbers DEF CallGoesOn, QueueInv, RefreshesOwn, NoToken
<1>6. LoginFollows'
  <2> SUFFICES ASSUME NEW i \in 1..Len(main'), main'[i].do = "remove", main'[i].owner = "start"
               PROVE  \/ \E j \in 1..Len(main') : i < j /\ main'[j].do = "showAuth"
                      \/ \E c \in Calls : calls'[c].pc = "refused" /\ calls'[c].owner = "start"
    BY DEF LoginFollows
  <2>1. \/ \E j \in 1..Len(main) : i + d < j /\ main[j].do = "showAuth"
        \/ \E c \in Calls : calls[c].pc = "refused" /\ calls[c].owner = "start"
    BY <1>1 DEF QueueInv, LoginFollows
  <2>2. ASSUME NEW j \in 1..Len(main), i + d < j, main[j].do = "showAuth"
        PROVE  j - d \in 1..Len(main') /\ i < j - d /\ main'[j - d].do = "showAuth"
    <3>1. j - d \in 1..Len(main') /\ i < j - d /\ (j - d) + d = j
      BY <2>2, Numbers
    <3> QED
      BY <2>2, <3>1
  <2> QED
    BY <2>1, <2>2
<1>7. DroppedByItsOwnCheck'
  BY <1>1 DEF QueueInv, DroppedByItsOwnCheck
<1> QED
  BY <1>2, <1>3, <1>4, <1>5, <1>6, <1>7 DEF QueueInv

\* A handler of one chain fails, and may leave the login screen or a removal of
\* its own in the queue.
LEMMA FailedStep ==
  ASSUME TypeOK, TypeOK', QueueInv, NEW c \in Calls, calls[c].pc # "free",
         \A x \in Calls : calls'[x].pc # "free" =>
             /\ calls[x].pc # "free"
             /\ calls'[x].began = calls[x].began /\ calls'[x].used = calls[x].used
             /\ calls'[x].pc = "refreshing" => calls[x].pc = "refreshing",
         Len(main) <= Len(main'),
         \A i \in 1..Len(main) : main'[i] = main[i],
         \A i \in 1..Len(main') : i \notin 1..Len(main) =>
             \/ main'[i].do = "showAuth"
             \/ /\ main'[i] = RemovalOf(c)
                /\ calls[c].pc = "refreshing" \/ refreshToken = NoToken,
         refreshToken' = refreshToken, issued' = issued, LoginFollows'
  PROVE  QueueInv' /\ \A n \in Nat : Older(n) => Older(n)'
<1>2. ASSUME NEW i \in 1..Len(main')
      PROVE  \/ i \in 1..Len(main) /\ main'[i] = main[i]
             \/ /\ calls[c].pc = "refreshing" \/ refreshToken = NoToken
                /\ main'[i].do = "remove"
                /\ main'[i].began = calls[c].began
                /\ main'[i].used = calls[c].used
             \/ main'[i].do = "showAuth"
  BY <1>2 DEF RemovalOf
<1>4. \A n \in Nat : Older(n) => Older(n)'
  BY <1>2 DEF Older
<1>5. ASSUME NEW i \in 1..Len(main'), main'[i].do = "save"
      PROVE  i \in 1..Len(main) /\ main'[i] = main[i]
  BY <1>2, <1>5
<1>6. SavesNewer'
  <2>1. Older(issued + 1)'
    <3>1. Older(issued + 1) /\ issued + 1 \in Nat
      BY Numbers DEF QueueInv, SavesNewer
    <3> QED
      BY <1>4, <3>1 DEF Older
  <2>2. ASSUME NEW i \in 1..Len(main'), main'[i].do = "save"
        PROVE  main'[i].session \in 1..issued' /\ Older(main[i].session)'
    <3>1. main[i].session \in 1..issued /\ Older(main[i].session)
      BY <1>5, <2>2 DEF QueueInv, SavesNewer
    <3>2. PICK n \in Nat : n = main[i].session
      BY <3>1, Numbers
    <3>3. n = main'[i].session /\ Older(n)'
      BY <1>4, <1>5, <2>2, <3>1, <3>2
    <3> QED
      BY <3>1, <3>2, <3>3 DEF Older
  <2> QED
    BY <2>1, <2>2 DEF SavesNewer
<1>7. SavesOrdered'
  BY <1>5 DEF QueueInv, SavesOrdered
<1>8. RefreshesOwn'
  BY DEF QueueInv, RefreshesOwn
<1>10. DroppedByItsOwnCheck'
  <2> SUFFICES ASSUME NEW i \in 1..Len(main'), main'[i].do = "remove", refreshToken # NoToken
               PROVE  main'[i].used = refreshToken \/ main'[i].began < refreshToken
    BY DEF DroppedByItsOwnCheck
  <2>1. CASE i \in 1..Len(main) /\ main'[i] = main[i]
    BY <2>1 DEF QueueInv, DroppedByItsOwnCheck
  <2>2. CASE calls[c].pc = "refreshing" /\ main'[i].began = calls[c].began
             /\ main'[i].used = calls[c].used
    BY <2>2 DEF QueueInv, RefreshesOwn
  <2> QED
    BY <1>2, <2>1, <2>2
<1> QED
  BY <1>4, <1>6, <1>7, <1>8, <1>10 DEF QueueInv

\* The completion is called with false.
LEMMA InvalidStep ==
  ASSUME TypeOK, TypeOK', QueueInv, NEW c \in Calls, calls[c].pc # "free", Invalid(c),
         refreshToken' = refreshToken, issued' = issued
  PROVE  /\ QueueInv' /\ \A n \in Nat : Older(n) => Older(n)'
         /\ StrandedOnlyByProfile /\ UNCHANGED <<authToken, screen, profileDropped>> =>
                StrandedOnlyByProfile'
<1>1. /\ Len(main') \in Nat /\ Len(main) \in Nat /\ Len(main) <= Len(main')
      /\ \A i \in 1..Len(main) : i \in 1..Len(main') /\ main'[i] = main[i]
      /\ \A i \in 1..Len(main') : i \notin 1..Len(main) => main'[i].do = "showAuth"
      /\ calls[c].owner = "start" =>
             Len(main) < Len(main') /\ main'[Len(main')].do = "showAuth"
  BY InvalidQueue
<1>2. /\ calls'[c].pc = "free"
      /\ \A x \in Calls : x # c => calls'[x] = calls[x]
  BY DEF Invalid, TypeOK, Free
<1>3. ASSUME NEW x \in Calls, calls[x].pc = "refused", calls[x].owner = "start"
      PROVE  \/ calls'[x].pc = "refused" /\ calls'[x].owner = "start"
             \/ Len(main) < Len(main') /\ main'[Len(main')].do = "showAuth"
  BY <1>1, <1>2, <1>3
<1>4. LoginFollows'
  <2> SUFFICES ASSUME NEW i \in 1..Len(main'), main'[i].do = "remove", main'[i].owner = "start"
               PROVE  \/ \E j \in 1..Len(main') : i < j /\ main'[j].do = "showAuth"
                      \/ \E x \in Calls : calls'[x].pc = "refused" /\ calls'[x].owner = "start"
    BY DEF LoginFollows
  <2>1. i \in 1..Len(main) /\ main'[i] = main[i]
    BY <1>1
  <2>2. \/ \E j \in 1..Len(main) : i < j /\ main[j].do = "showAuth"
        \/ \E x \in Calls : calls[x].pc = "refused" /\ calls[x].owner = "start"
    BY <2>1 DEF QueueInv, LoginFollows
  <2>3. Len(main) < Len(main') => i < Len(main') /\ Len(main') \in 1..Len(main')
    BY <1>1, <2>1
  <2> QED
    BY <1>1, <1>3, <2>2, <2>3
<1>5. QueueInv' /\ \A n \in Nat : Older(n) => Older(n)'
  BY <1>1, <1>2, <1>4, FailedStep
<1>6. ASSUME StrandedOnlyByProfile, UNCHANGED <<authToken, screen, profileDropped>>
      PROVE  StrandedOnlyByProfile'
  <2>1. Len(main) < Len(main') => Len(main') \in 1..Len(main')
    BY <1>1
  <2> QED
    BY <1>1, <1>3, <1>6, <2>1 DEF StrandedOnlyByProfile, screen
<1> QED
  BY <1>5, <1>6

\* The refresh has failed.
LEMMA RefusedStep ==
  ASSUME TypeOK, TypeOK', QueueInv, NEW c \in Calls, Refused(c),
         calls[c].pc \in {"asked", "refreshing"},
         calls[c].pc = "refreshing" \/ refreshToken = NoToken,
         refreshToken' = refreshToken, issued' = issued
  PROVE  /\ QueueInv' /\ \A n \in Nat : Older(n) => Older(n)'
         /\ StrandedOnlyByProfile /\ UNCHANGED <<authToken, screen, profileDropped>> =>
                StrandedOnlyByProfile'
<1>1. /\ Len(main') \in Nat /\ Len(main) \in Nat /\ Len(main) <= Len(main')
      /\ \A i \in 1..Len(main) : i \in 1..Len(main') /\ main'[i] = main[i]
      /\ \A i \in 1..Len(main') : i \notin 1..Len(main) =>
             main'[i] = RemovalOf(c) /\ calls'[c].pc = "refused"
             /\ calls'[c].owner = calls[c].owner
  BY RefusedQueue
<1>2. /\ \A x \in Calls : x # c => calls'[x] = calls[x]
      /\ calls'[c].pc # "free" => calls'[c].began = calls[c].began /\ calls'[c].used = calls[c].used
      /\ calls'[c].pc \in {"free", "refused"}
  <2>1. calls[c] \in Call
    BY DEF TypeOK, Free
  <2> QED
    BY <2>1 DEF Refused, TypeOK, Free, Call
<1>3. ASSUME NEW x \in Calls, calls[x].pc = "refused", calls[x].owner = "start"
      PROVE  calls'[x].pc = "refused" /\ calls'[x].owner = "start"
  BY <1>2, <1>3
<1>4. LoginFollows'
  <2> SUFFICES ASSUME NEW i \in 1..Len(main'), main'[i].do = "remove", main'[i].owner = "start"
               PROVE  \/ \E j \in 1..Len(main') : i < j /\ main'[j].do = "showAuth"
                      \/ \E x \in Calls : calls'[x].pc = "refused" /\ calls'[x].owner = "start"
    BY DEF LoginFollows
  <2>1. CASE i \in 1..Len(main)
    BY <1>1, <1>3, <2>1 DEF QueueInv, LoginFollows
  <2>2. CASE i \notin 1..Len(main)
    BY <1>1, <2>2 DEF RemovalOf
  <2> QED
    BY <2>1, <2>2
<1>5. QueueInv' /\ \A n \in Nat : Older(n) => Older(n)'
  <2>1. \A x \in Calls : calls'[x].pc # "free" =>
            /\ calls[x].pc # "free"
            /\ calls'[x].began = calls[x].began /\ calls'[x].used = calls[x].used
            /\ calls'[x].pc = "refreshing" => calls[x].pc = "refreshing"
    BY <1>2
  <2> QED
    BY <1>1, <1>4, <2>1, FailedStep
<1>6. ASSUME StrandedOnlyByProfile, UNCHANGED <<authToken, screen, profileDropped>>
      PROVE  StrandedOnlyByProfile'
  BY <1>1, <1>3, <1>6 DEF StrandedOnlyByProfile, screen
<1> QED
  BY <1>5, <1>6

\* The server opens a session, newer than everything the app holds.
LEMMA FormStep ==
  ASSUME TypeOK, TypeOK', QueueInv, FormAccepted
  PROVE  QueueInv' /\ \A n \in Nat : Older(n) => Older(n)'
<1> DEFINE new == [do |-> "save", session |-> issued + 1]
<1>1. /\ refreshToken' = refreshToken /\ calls' = calls /\ issued' = issued + 1
      /\ main \in Seq(Block) /\ main' = Append(main, new)
  BY DEF FormAccepted, tokens, TypeOK
<1>2. /\ Len(main) \in Nat /\ Len(main') = Len(main) + 1 /\ main'[Len(main) + 1] = new
      /\ \A i \in 1..Len(main) : main'[i] = main[i]
  BY <1>1
<1>3. new.do = "save" /\ new.session = issued + 1
  OBVIOUS
<1> HIDE DEF new
<1>4. ASSUME NEW i \in 1..Len(main')
      PROVE  \/ i \in 1..Len(main) /\ main'[i] = main[i]
             \/ i = Len(main) + 1 /\ main'[i].do = "save" /\ main'[i].session = issued + 1
  BY <1>2, <1>3
<1>5. \A n \in Nat : Older(n) => Older(n)'
  BY <1>1, <1>4 DEF Older
<1>6. Older(issued + 1) /\ Older(issued + 1 + 1) /\ issued \in Nat
  BY Numbers DEF QueueInv, SavesNewer, Older
<1>7. SavesNewer'
  <2>1. Older(issued + 1)'
    <3>1. PICK n \in Nat : n = issued + 1 + 1 /\ Older(n)
      BY <1>6
    <3>2. Older(n)' /\ n = issued' + 1
      BY <1>1, <1>5, <3>1
    <3> QED
      BY <3>2 DEF Older
  <2>2. ASSUME NEW i \in 1..Len(main'), main'[i].do = "save"
        PROVE  main'[i].session \in 1..issued' /\ Older(main[i].session)'
    <3>1. PICK n \in Nat : n = main'[i].session /\ n \in 1..issued + 1 /\ Older(n)
      <4>1. CASE i \in 1..Len(main) /\ main'[i] = main[i]
        BY <1>6, <2>2, <4>1 DEF QueueInv, SavesNewer
      <4>2. CASE main'[i].session = issued + 1
        BY <1>6, <4>2
      <4> QED
        BY <1>4, <4>1, <4>2
    <3>2. Older(n)'
      BY <1>5, <3>1
    <3> QED
      BY <1>1, <3>1, <3>2 DEF Older
  <2> QED
    BY <2>1, <2>2 DEF SavesNewer
<1>8. SavesOrdered'
  <2> SUFFICES ASSUME NEW i \in 1..Len(main'), NEW j \in 1..Len(main'), i < j,
                      main'[i].do = "save", main'[j].do = "save"
               PROVE  main'[i].session < main'[j].session
    BY DEF SavesOrdered
  <2>1. i \in 1..Len(main) /\ main'[i] = main[i]
    BY <1>2
  <2>2. CASE j \in 1..Len(main) /\ main'[j] = main[j]
    BY <2>1, <2>2 DEF QueueInv, SavesOrdered
  <2>3. CASE main'[j].session = issued + 1
    BY <1>6, <2>1, <2>3 DEF QueueInv, SavesNewer
  <2> QED
    BY <1>4, <2>2, <2>3
<1>9. RefreshesOwn'
  BY <1>1 DEF QueueInv, RefreshesOwn
<1>10. LoginFollows'
  <2> SUFFICES ASSUME NEW i \in 1..Len(main'), main'[i].do = "remove", main'[i].owner = "start"
               PROVE  \/ \E j \in 1..Len(main') : i < j /\ main'[j].do = "showAuth"
                      \/ \E c \in Calls : calls'[c].pc = "refused" /\ calls'[c].owner = "start"
    BY DEF LoginFollows
  <2>1. i \in 1..Len(main) /\ main'[i] = main[i]
    BY <1>4
  <2>2. \/ \E j \in 1..Len(main) : i < j /\ main[j].do = "showAuth"
        \/ \E c \in Calls : calls[c].pc = "refused" /\ calls[c].owner = "start"
    BY <2>1 DEF QueueInv, LoginFollows
  <2>3. \A j \in 1..Len(main) : j \in 1..Len(main')
    BY <1>2
  <2> QED
    BY <1>1, <1>2, <2>2, <2>3
<1>11. DroppedByItsOwnCheck'
  BY <1>1, <1>4 DEF QueueInv, DroppedByItsOwnCheck
<1> QED
  BY <1>5, <1>7, <1>8, <1>9, <1>10, <1>11 DEF QueueInv

\* saveToken's second half: the session stored is newer than every check and
\* removal.
LEMMA PutStep ==
  ASSUME TypeOK, TypeOK', QueueInv, OwedNewest, PutRefreshToken
  PROVE  QueueInv'
<1>1. PICK t \in owed : refreshToken' = t /\ t \in Nat
  BY Numbers DEF PutRefreshToken, TypeOK, Token
<1>2. calls' = calls /\ issued' = issued /\ main' = main
  BY DEF PutRefreshToken
<1>3. CASE t = NoToken
  <2>1. \A c \in Calls : CallGoesOn(c)
    BY <1>2 DEF CallGoesOn
  <2> QED
    BY <1>1, <1>2, <1>3, <2>1, QuietStep, Numbers
<1>4. CASE t # NoToken
  <2>1. /\ t \in 1..issued /\ Older(t)
        /\ \A i \in 1..Len(main) : main[i].do = "save" => t < main[i].session
    BY <1>4 DEF OwedNewest
  <2>2. \A n \in Nat : t < n /\ Older(n) => Older(n)'
    BY <1>1, <1>2 DEF Older
  <2>3. SavesNewer'
    <3>1. Older(issued + 1)'
      <4>1. Older(issued + 1) /\ issued + 1 \in Nat /\ t < issued + 1
        BY <2>1, Numbers DEF QueueInv, SavesNewer
      <4> QED
        BY <1>2, <2>2, <4>1 DEF Older
    <3>2. ASSUME NEW i \in 1..Len(main), main[i].do = "save"
          PROVE  main[i].session \in 1..issued /\ Older(main[i].session)'
      <4>1. PICK n \in Nat : n = main[i].session
        BY <3>2, Numbers
      <4>2. Older(n)'
        BY <2>1, <2>2, <3>2, <4>1 DEF QueueInv, SavesNewer
      <4> QED
        BY <1>2, <3>2, <4>1, <4>2 DEF QueueInv, SavesNewer, Older
    <3> QED
      BY <1>2, <3>1, <3>2 DEF SavesNewer
  <2>4. RefreshesOwn'
    <3>1. \A c \in Calls : calls[c].pc # "free" =>
             calls[c].began < t /\ calls[c].used <= t
      BY <1>1, <2>1, Numbers DEF Older
    <3> QED
      BY <1>1, <1>2, <3>1 DEF QueueInv, RefreshesOwn
  <2>5. SavesOrdered' /\ LoginFollows'
    BY <1>2 DEF QueueInv, SavesOrdered, LoginFollows
  <2>6. DroppedByItsOwnCheck'
    BY <1>1, <1>2, <2>1 DEF Older, DroppedByItsOwnCheck
  <2> QED
    BY <2>3, <2>4, <2>5, <2>6 DEF QueueInv
<1> QED
  BY <1>3, <1>4

\* While a pair is half written, refreshes and forms may be answered.
LEMMA OwedStep ==
  ASSUME TypeOK, TypeOK', QueueInv, OwedNewest,
         owed' = owed, issued <= issued', \A n \in Nat : Older(n) => Older(n)',
         \/ authToken' = authToken
         \/ authToken' # NoToken
            /\ \E c \in Calls : calls[c].pc # "free" /\ authToken' = calls[c].used,
         \A i \in 1..Len(main') : main'[i].do = "save" =>
             \/ i \in 1..Len(main) /\ main'[i] = main[i]
             \/ issued < main'[i].session
  PROVE  OwedNewest'
<1> SUFFICES ASSUME NEW t \in owed, t # NoToken
             PROVE  /\ t \in 1..issued' /\ Older(t)'
                    /\ authToken' \in 1..t
                    /\ \A i \in 1..Len(main') : main'[i].do = "save" => t < main'[i].session
  BY DEF OwedNewest, Older
<1>1. /\ t \in 1..issued /\ Older(t) /\ authToken \in 1..t
      /\ \A i \in 1..Len(main) : main[i].do = "save" => t < main[i].session
  BY DEF OwedNewest
<1>2. t \in Nat /\ issued \in Nat /\ issued' \in Nat /\ authToken' \in Nat
  BY <1>1, Numbers, BoundsAssumption DEF TypeOK, Token
<1>3. t \in 1..issued' /\ Older(t)'
  BY <1>1, <1>2
<1>4. authToken' \in 1..t
  BY <1>1, <1>2, Numbers DEF Older, NoToken
<1>5. ASSUME NEW i \in 1..Len(main'), main'[i].do = "save"
      PROVE  t < main'[i].session
  <2>1. CASE issued < main'[i].session
    <3>1. main'[i] \in SaveToken
      <4>1. main'[i] \in Block
        BY DEF TypeOK
      <4> QED
        BY <1>5, <4>1 DEF Block, Removal, ShowLogin, SaveToken
    <3>2. main'[i].session \in Nat
      BY <3>1 DEF SaveToken, Token
    <3> QED
      BY <1>1, <1>2, <2>1, <3>2
  <2>2. CASE i \in 1..Len(main) /\ main'[i] = main[i]
    BY <1>1, <1>5, <2>2
  <2> QED
    BY <1>5, <2>1, <2>2
<1> QED
  BY <1>3, <1>4, <1>5

\* Killed and launched: nothing waits and nothing runs.
LEMMA RelaunchStep ==
  ASSUME TypeOK, TypeOK', QueueInv, Relaunch
  PROVE  QueueInv'
<1>1. /\ refreshToken' = refreshToken /\ issued' = issued
      /\ \A c \in Calls : calls'[c].pc = "free"
  BY DEF Relaunch, tokens, Free
<1>2. 1..Len(main') = {}
  <2>1. Len(main') = 0
    BY DEF Relaunch
  <2> QED
    BY <2>1
<1>3. Older(issued + 1)'
  BY <1>1, <1>2 DEF QueueInv, SavesNewer, Older
<1> QED
  BY <1>1, <1>2, <1>3 DEF QueueInv, SavesNewer, SavesOrdered, RefreshesOwn, LoginFollows,
                          DroppedByItsOwnCheck

\* The strengthened invariant, action by action.
THEOREM SessionInvariant == Spec => [](TypeOK /\ SessInv)
<1>1. Init => SessInv
  <2> SUFFICES ASSUME Init PROVE SessInv
    OBVIOUS
  <2>1. 1..Len(main) = {}
    BY DEF Init
  <2>2. \A c \in Calls : calls[c].pc = "free"
    BY DEF Init, Free
  <2>3. Older(issued + 1)
    BY <2>1, <2>2 DEF Init, Older, NoToken
  <2> QED
    BY <2>1, <2>2, <2>3 DEF Init, SessInv, QueueInv, SavesNewer, SavesOrdered, RefreshesOwn,
       LoginFollows, DroppedByItsOwnCheck, OwedNewest, PairOrder, StrandedOnlyByProfile
<1>2. TypeOK /\ TypeOK' /\ SessInv /\ [Next]_vars => SessInv'
  <2> SUFFICES ASSUME TypeOK, TypeOK', SessInv, [Next]_vars PROVE SessInv'
    OBVIOUS
  <2> USE DEF tokens, screen
  <2>0. QueueInv /\ OwedNewest /\ PairOrder /\ StrandedOnlyByProfile
    BY DEF SessInv
  <2>1. ASSUME main' = main, issued' = issued, refreshToken' = refreshToken,
               \A c \in Calls : CallGoesOn(c),
               \A c \in Calls : calls[c].pc = "refused" => calls'[c] = calls[c]
        PROVE  QueueInv' /\ \A n \in Nat : Older(n) => Older(n)'
    BY <2>0, <2>1, QuietStep, Numbers
  <2>2. ASSUME NEW c \in Calls, NEW owner \in {"start", "profile", "favorites"},
               Begin(c, owner)
        PROVE  \A x \in Calls : CallGoesOn(x) /\ (calls[x].pc = "refused" => calls'[x] = calls[x])
    BY <2>2, Numbers DEF Begin, CallGoesOn, TypeOK, Free
  <2>3. calls' = calls =>
          \A x \in Calls : CallGoesOn(x) /\ (calls[x].pc = "refused" => calls'[x] = calls[x])
    BY DEF CallGoesOn
  <2>4. CASE Start
    <3>1. \A x \in Calls : CallGoesOn(x) /\ (calls[x].pc = "refused" => calls'[x] = calls[x])
      BY <2>2, <2>3, <2>4 DEF Start
    <3>2. QueueInv'
      BY <2>1, <2>4, <3>1 DEF Start
    <3>3. OwedNewest' /\ PairOrder' /\ StrandedOnlyByProfile'
      BY <2>0, <2>4 DEF Start, OwedNewest, PairOrder, StrandedOnlyByProfile
    <3> QED
      BY <3>2, <3>3 DEF SessInv
  <2>5. CASE User
    <3>1. \A x \in Calls : CallGoesOn(x) /\ (calls[x].pc = "refused" => calls'[x] = calls[x])
      BY <2>2, <2>3, <2>5 DEF User, FinishOnboarding, Submit, OpenProfile,
                              EditFavorites, SignOut
    <3>2. QueueInv'
      BY <2>1, <2>5, <3>1 DEF User, FinishOnboarding, Submit, OpenProfile,
                              EditFavorites, SignOut, PutAccessToken
    <3>3. CASE SignOut
      <4>1. owed' = {NoToken} /\ starting'
        BY <3>3 DEF SignOut, PutAccessToken
      <4> QED
        BY <3>2, <4>1 DEF SessInv, OwedNewest, PairOrder, StrandedOnlyByProfile
    <3>4. CASE FinishOnboarding \/ Submit \/ OpenProfile \/ EditFavorites
      <4>1. OwedNewest' /\ PairOrder' /\ StrandedOnlyByProfile'
        <5>1. owed' = {} /\ UNCHANGED <<tokens, root, main, profileDropped>>
              /\ (starting' = starting \/ starting')
          BY <3>4 DEF FinishOnboarding, Submit, OpenProfile, EditFavorites, UserActs, Idling
        <5>2. \A c \in Calls : calls[c].pc = "refused" /\ calls[c].owner = "start" =>
                 calls'[c].pc = "refused" /\ calls'[c].owner = "start"
          BY <3>1
        <5>3. starting' = starting => StrandedOnlyByProfile'
          BY <2>0, <5>1, <5>2 DEF StrandedOnlyByProfile
        <5>4. starting' => StrandedOnlyByProfile'
          BY DEF StrandedOnlyByProfile
        <5>5. OwedNewest' /\ PairOrder'
          BY <2>0, <5>1 DEF OwedNewest, PairOrder
        <5> QED
          BY <5>1, <5>3, <5>4, <5>5
      <4> QED
        BY <3>2, <4>1 DEF SessInv
    <3> QED
      BY <2>5, <3>3, <3>4 DEF User
  <2>6. ASSUME NEW c \in Calls, CallStep(c) PROVE SessInv'
    <3>1. calls[c].pc # "free" /\ calls[c] \in Call
      BY <2>6, Numbers DEF CallStep, Accepted, Unreachable, Unauthorized,
                           UnauthorizedForGood, RefreshOk, RefreshFail, Complete, Again
    <3>2. ASSUME QueueInv', \A n \in Nat : Older(n) => Older(n)', StrandedOnlyByProfile',
                 \A i \in 1..Len(main') : main'[i].do = "save" =>
                     i \in 1..Len(main) /\ main'[i] = main[i],
                 UNCHANGED <<tokens, issued>>
          PROVE  SessInv'
      <4>1. OwedNewest'
        BY <2>0, <3>2, OwedStep, Numbers
      <4> QED
        BY <2>0, <3>2, <4>1 DEF SessInv, PairOrder
    <3>3. ASSUME Invalid(c), UNCHANGED <<tokens, screen, issued, profileDropped>>
          PROVE  SessInv'
      <4>1. /\ QueueInv' /\ \A n \in Nat : Older(n) => Older(n)'
            /\ StrandedOnlyByProfile'
        BY <2>0, <3>1, <3>3, InvalidStep
      <4>2. /\ \A i \in 1..Len(main) : main'[i] = main[i]
            /\ \A i \in 1..Len(main') : i \notin 1..Len(main) => main'[i].do = "showAuth"
        BY <3>3, InvalidQueue
      <4> QED
        BY <3>2, <3>3, <4>1, <4>2
    <3>4. ASSUME Refused(c), UNCHANGED <<tokens, screen, issued, profileDropped>>,
                 calls[c].pc = "refreshing" \/ (calls[c].pc = "asked" /\ refreshToken = NoToken)
          PROVE  SessInv'
      <4>1. /\ QueueInv' /\ \A n \in Nat : Older(n) => Older(n)'
            /\ StrandedOnlyByProfile'
        BY <2>0, <3>4, RefusedStep
      <4>2. /\ \A i \in 1..Len(main) : main'[i] = main[i]
            /\ \A i \in 1..Len(main') : i \notin 1..Len(main) => main'[i] = RemovalOf(c)
        BY <3>1, <3>4, RefusedQueue
      <4>3. RemovalOf(c).do = "remove"
        BY DEF RemovalOf
      <4> QED
        BY <3>2, <3>4, <4>1, <4>2, <4>3
    <3>5. ASSUME main' = main, UNCHANGED <<refreshToken, screen, owed, torn, issued, profileDropped>>,
                 \A x \in Calls : CallGoesOn(x),
                 calls[c].pc # "refused", \A x \in Calls : x # c => calls'[x] = calls[x]
          PROVE  /\ QueueInv' /\ \A n \in Nat : Older(n) => Older(n)'
                 /\ authToken' = authToken => SessInv'
      <4>1. \A x \in Calls : calls[x].pc = "refused" => calls'[x] = calls[x]
        BY <3>5
      <4>2. QueueInv' /\ \A n \in Nat : Older(n) => Older(n)'
        BY <2>1, <3>5, <4>1
      <4>3. authToken' = authToken => StrandedOnlyByProfile'
        BY <2>0, <3>5, <4>1 DEF StrandedOnlyByProfile
      <4> QED
        BY <3>2, <3>5, <4>2, <4>3
    <3>6. CASE Accepted(c)
      <4>1. \A x \in Calls : CallGoesOn(x) /\ (x # c => calls'[x] = calls[x])
        BY <3>6 DEF Accepted, CallGoesOn, Free, TypeOK
      <4> QED
        BY <3>5, <3>6, <4>1 DEF Accepted
    <3>7. CASE Unreachable(c) \/ Complete(c)
      BY <3>3, <3>7 DEF Unreachable, Complete
    <3>8. CASE UnauthorizedForGood(c) \/ RefreshFail(c)
      BY <3>4, <3>8 DEF UnauthorizedForGood, RefreshFail
    <3>9. CASE Unauthorized(c)
      <4>1. \A x \in Calls : CallGoesOn(x) /\ (x # c => calls'[x] = calls[x])
        BY <3>1, <3>9 DEF Unauthorized, CallGoesOn, TypeOK, Call
      <4> QED
        BY <3>5, <3>9, <4>1 DEF Unauthorized
    <3>10. CASE RefreshOk(c)
      <4>1. \A x \in Calls : CallGoesOn(x) /\ (x # c => calls'[x] = calls[x])
        BY <3>1, <3>10 DEF RefreshOk, CallGoesOn, TypeOK, Call
      <4>2. QueueInv' /\ \A n \in Nat : Older(n) => Older(n)'
        BY <3>5, <3>10, <4>1 DEF RefreshOk
      <4>3. /\ authToken' = calls[c].used /\ authToken' # NoToken
            /\ refreshToken # NoToken => authToken' <= refreshToken
        BY <2>0, <3>1, <3>10 DEF RefreshOk, QueueInv, RefreshesOwn
      <4>4. authToken' \in Nat /\ refreshToken \in Nat /\ refreshToken' = refreshToken
        BY <3>1, <3>10, <4>3, Numbers DEF RefreshOk
      <4>5. PairOrder'
        BY <4>3, <4>4 DEF PairOrder, NoToken
      <4>6. StrandedOnlyByProfile'
        BY <4>3 DEF StrandedOnlyByProfile
      <4>7. OwedNewest'
        <5>1. owed' = owed /\ issued' = issued /\ main' = main
          BY <3>10 DEF RefreshOk
        <5> QED
          BY <2>0, <3>1, <4>2, <4>3, <5>1, OwedStep, Numbers
      <4> QED
        BY <4>2, <4>5, <4>6, <4>7 DEF SessInv
    <3>11. CASE Again(c)
      <4>1. CASE authToken = NoToken
        BY <3>3, <3>11, <4>1 DEF Again
      <4>2. CASE authToken # NoToken
        <5>1. \A x \in Calls : CallGoesOn(x) /\ (x # c => calls'[x] = calls[x])
          BY <3>1, <3>11, <4>2 DEF Again, CallGoesOn, TypeOK, Call
        <5> QED
          BY <3>5, <3>11, <4>2, <5>1 DEF Again
      <4> QED
        BY <4>1, <4>2
    <3> QED
      BY <2>6, <3>6, <3>7, <3>8, <3>9, <3>10, <3>11 DEF CallStep
  <2>7. CASE FormAccepted
    <3>1. QueueInv' /\ \A n \in Nat : Older(n) => Older(n)'
      BY <2>0, <2>7, FormStep
    <3> DEFINE new == [do |-> "save", session |-> issued + 1]
    <3>2. new \in Block /\ new.session = issued + 1
      BY <2>7 DEF FormAccepted, TypeOK, Block, SaveToken, Token
    <3>3. main' = Append(main, new) /\ calls' = calls /\ UNCHANGED <<tokens, screen, profileDropped>>
          /\ issued' = issued + 1
      BY <2>7 DEF FormAccepted
    <3> HIDE DEF new
    <3>4. /\ \A i \in 1..Len(main) : i \in 1..Len(main') /\ main'[i] = main[i]
          /\ \A i \in 1..Len(main') :
                (i \in 1..Len(main) /\ main'[i] = main[i]) \/ main'[i].session = issued + 1
      BY <3>2, <3>3, LongerQueue
    <3>5. PairOrder' /\ StrandedOnlyByProfile'
      BY <2>0, <3>3, <3>4 DEF PairOrder, StrandedOnlyByProfile
    <3>6. OwedNewest'
      <4>1. issued <= issued' /\ issued < issued + 1
        BY <3>3, Numbers
      <4> QED
        BY <2>0, <3>1, <3>3, <3>4, <4>1, OwedStep
    <3> QED
      BY <3>1, <3>5, <3>6 DEF SessInv
  <2>8. CASE FormRefused
    <3>1. QueueInv' /\ \A n \in Nat : Older(n) => Older(n)'
      BY <2>1, <2>3, <2>8 DEF FormRefused
    <3>2. OwedNewest'
      BY <2>0, <2>8, <3>1, OwedStep, Numbers DEF FormRefused
    <3> QED
      BY <2>0, <2>8, <3>1, <3>2 DEF FormRefused, SessInv, PairOrder, StrandedOnlyByProfile
  <2>9. CASE RunRemoval \/ RunShowAuth \/ RunSave
    <3>1. main # <<>> /\ main' = Tail(main) /\ owed = {}
      BY <2>9 DEF RunRemoval, RunShowAuth, RunSave, NextBlock, Idling
    <3>2. /\ Len(main) \in Nat \ {0} /\ Len(main') = Len(main) - 1
          /\ \A i \in 1..Len(main') : i + 1 \in 1..Len(main) /\ main'[i] = main[i + 1]
          /\ Head(main) = main[1] /\ 1 \in 1..Len(main)
      BY <3>1, TailQueue
    <3>3. calls' = calls /\ issued' = issued /\ refreshToken' = refreshToken
      BY <2>9 DEF RunRemoval, RunShowAuth, RunSave, PutAccessToken
    <3>4. QueueInv' /\ \A n \in Nat : Older(n) => Older(n)'
      BY <2>0, <2>3, <3>2, <3>3, QuietStep
    <3>5. CASE RunShowAuth
      BY <2>0, <3>1, <3>4, <3>5
         DEF RunShowAuth, SessInv, OwedNewest, PairOrder, StrandedOnlyByProfile
    <3>6. CASE RunRemoval
      <4>1. /\ main[1].owner \in {"start", "profile"} /\ main[1].do = "remove"
            /\ owed' = {NoToken}
        BY <3>2, <3>6, BlocksTyped DEF RunRemoval, NextBlock, Removal, PutAccessToken
      <4>2. OwedNewest' /\ PairOrder'
        BY <4>1 DEF OwedNewest, PairOrder
      <4>3. CASE main[1].owner = "profile"
        <5>1. profileDropped'
          BY <3>2, <3>6, <4>3 DEF RunRemoval
        <5> QED
          BY <3>4, <4>2, <5>1 DEF SessInv, StrandedOnlyByProfile
      <4>4. CASE main[1].owner = "start"
        <5>1. \/ \E j \in 1..Len(main) : 1 < j /\ main[j].do = "showAuth"
              \/ \E c \in Calls : calls[c].pc = "refused" /\ calls[c].owner = "start"
          BY <2>0, <3>2, <4>1, <4>4 DEF QueueInv, LoginFollows
        <5>2. ASSUME NEW j \in 1..Len(main), 1 < j, main[j].do = "showAuth"
              PROVE  j - 1 \in 1..Len(main') /\ main'[j - 1].do = "showAuth"
          <6>1. j - 1 \in 1..Len(main') /\ (j - 1) + 1 = j
            BY <3>2, <5>2
          <6> QED
            BY <3>2, <5>2, <6>1
        <5> QED
          BY <3>3, <3>4, <4>2, <5>1, <5>2 DEF SessInv, StrandedOnlyByProfile
      <4> QED
        BY <4>1, <4>3, <4>4
    <3>7. CASE RunSave
      <4>1. PICK n \in Nat : n = main[1].session /\ main[1].do = "save"
                              /\ authToken' = n /\ owed' = {n}
        BY <3>2, <3>7, Numbers DEF RunSave, NextBlock, PutAccessToken
      <4>2. n \in 1..issued /\ Older(n) /\ n \in Nat /\ n # NoToken
        BY <2>0, <3>2, <4>1, Numbers DEF QueueInv, SavesNewer, NoToken
      <4>3. \A i \in 1..Len(main') : main'[i].do = "save" => n < main'[i].session
        <5>1. \A i \in 1..Len(main') : 1 < i + 1
          OBVIOUS
        <5> QED
          BY <2>0, <3>2, <4>1, <5>1 DEF QueueInv, SavesOrdered
      <4>4. PairOrder' /\ StrandedOnlyByProfile'
        BY <4>1, <4>2 DEF PairOrder, StrandedOnlyByProfile
      <4>5. OwedNewest'
        <5>1. Older(n)' /\ n \in 1..issued' /\ authToken' \in 1..n
          BY <3>3, <3>4, <4>1, <4>2 DEF Older
        <5> QED
          BY <4>1, <4>3, <5>1 DEF OwedNewest, Older
      <4> QED
        BY <3>4, <4>4, <4>5 DEF SessInv
    <3> QED
      BY <2>9, <3>5, <3>6, <3>7
  <2>10. CASE PutRefreshToken
    <3>1. QueueInv'
      BY <2>0, <2>10, PutStep
    <3>2. PICK t \in owed : refreshToken' = t /\ authToken' = authToken
      BY <2>10 DEF PutRefreshToken
    <3>3. PairOrder'
      BY <2>0, <3>2 DEF OwedNewest, PairOrder
    <3>4. OwedNewest' /\ StrandedOnlyByProfile'
      BY <2>0, <2>10 DEF PutRefreshToken, OwedNewest, StrandedOnlyByProfile
    <3> QED
      BY <3>1, <3>3, <3>4 DEF SessInv
  <2>11. CASE Relaunch
    <3>1. QueueInv'
      BY <2>0, <2>11, RelaunchStep
    <3> QED
      BY <2>0, <2>11, <3>1
         DEF Relaunch, SessInv, OwedNewest, PairOrder, StrandedOnlyByProfile
  <2>12. CASE UNCHANGED vars
    <3>1. QueueInv'
      BY <2>1, <2>3, <2>12 DEF vars
    <3>2. OwedNewest'
      BY <2>0, <2>12 DEF vars, OwedNewest, Older
    <3> QED
      BY <2>0, <2>12, <3>1, <3>2 DEF vars, SessInv, PairOrder, StrandedOnlyByProfile
  <2> QED
    BY <2>4, <2>5, <2>6, <2>7, <2>8, <2>9, <2>10, <2>11, <2>12 DEF Next, MainStep
<1> QED
  BY <1>1, <1>2, TypeCorrect, PTL DEF Spec

\* ApiService.swift:201, 235-236, 253-254: however the writes of the two keys
\* and the late refreshes interleave, a pair that was written whole is in order;
\* only a process that dies between the two writes leaves another.
THEOREM PairInOrder == Spec => []PairOrder
<1>1. SessInv => PairOrder
  BY DEF SessInv
<1> QED
  BY <1>1, SessionInvariant, PTL

\* ApiService.swift:234-237: a removal that waits while a session is in place
\* is of a check whose refresh that session refused, or of an earlier session.
THEOREM DroppedByOwn == Spec => []DroppedByItsOwnCheck
<1>1. SessInv => DroppedByItsOwnCheck
  BY DEF SessInv, QueueInv
<1> QED
  BY <1>1, SessionInvariant, PTL

\* MainCoordinator.swift:33-40: tabs without a token are about to be replaced
\* by the login screen, whose block or whose handler is on its way, unless it
\* was the profile's check that dropped it.
THEOREM StrandedByProfile == Spec => []StrandedOnlyByProfile
<1>1. SessInv => StrandedOnlyByProfile
  BY DEF SessInv
<1> QED
  BY <1>1, SessionInvariant, PTL

-----------------------------------------------------------------------------
(* The root of the window                                                  *)

\* Nothing is stored or on its way.
Idle == forms = 0 /\ main = <<>> /\ \A c \in Calls : calls[c] = Free
Unused == authToken = NoToken /\ refreshToken = NoToken /\ owed = {} /\ Idle

\* A program that was never used holds nothing that could change its root; one
\* that has just been launched is about to look at what is stored; and only a
\* login makes start() run under the login screen, and a login or a sign-out
\* under the tabs.
RootInv ==
    /\ ~seen => root \in {"none", "onboarding"} /\ Unused
    /\ root = "onboarding" => Unused /\ (seen <=> starting)
    /\ root = "none" => starting /\ owed = {} /\ Idle
    /\ starting /\ root = "auth" => authToken # NoToken
    /\ starting /\ root = "tabs" => Leaving \/ authToken # NoToken
    /\ \A t, u \in owed : t = u

\* In one step of the user, of start() or of a check.
LEMMA RootInvKept ==
  ASSUME TypeOK, TypeOK', SessInv, RootInv, [Next]_vars
  PROVE  RootInv'
<1> USE DEF tokens, screen
<1>1. CASE Start
  BY <1>1 DEF Start, RootInv, Unused, Idle
<1>2. CASE FinishOnboarding
  BY <1>2 DEF FinishOnboarding, RootInv, Unused, Idle, UserActs, Idling
<1>3. CASE Submit \/ OpenProfile \/ EditFavorites
  <2>1. seen /\ ~starting /\ root \in {"auth", "tabs"}
    BY <1>3 DEF Submit, OpenProfile, EditFavorites, RootInv, UserActs, Idling, TypeOK
  <2>2. seen' = seen /\ root' = root /\ starting' = starting /\ owed' = owed
    BY <1>3 DEF Submit, OpenProfile, EditFavorites
  <2> QED
    BY <2>1, <2>2 DEF RootInv
<1>4. CASE SignOut
  <2>1. /\ root = "tabs" /\ seen' = seen /\ root' = root /\ starting' /\ owed' = {NoToken}
    BY <1>4 DEF SignOut, PutAccessToken
  <2>2. Leaving'
    BY <2>1 DEF Leaving
  <2> QED
    BY <2>1, <2>2 DEF RootInv
<1>5. ASSUME NEW c \in Calls, CallStep(c) PROVE RootInv'
  <2>1. calls[c].pc # "free"
    BY <1>5 DEF CallStep, Accepted, Unreachable, Unauthorized,
                UnauthorizedForGood, RefreshOk, RefreshFail, Complete, Again
  <2>2. calls[c] # Free
    BY <2>1 DEF Free
  <2>3. seen /\ root \in {"auth", "tabs"}
    BY <2>2 DEF RootInv, Unused, Idle, TypeOK
  <2>4. /\ UNCHANGED <<screen, refreshToken, owed>>
        /\ authToken' = authToken \/ authToken' # NoToken
    <3>1. CASE RefreshOk(c)
      BY <2>1, <3>1 DEF RefreshOk, SessInv, QueueInv, RefreshesOwn
    <3>2. CASE ~RefreshOk(c)
      BY <1>5, <3>2 DEF CallStep, Accepted, Unreachable, Unauthorized,
                UnauthorizedForGood, RefreshFail, Complete, Again
    <3> QED
      BY <3>1, <3>2
  <2> QED
    BY <2>3, <2>4 DEF RootInv, Leaving
<1>6. CASE FormAccepted \/ FormRefused
  <2>1. seen /\ root \in {"auth", "tabs"} /\ UNCHANGED <<tokens, screen>>
    BY <1>6 DEF FormAccepted, FormRefused, RootInv, Unused, Idle, TypeOK
  <2> QED
    BY <2>1 DEF RootInv, Leaving
<1>7. CASE RunRemoval \/ RunShowAuth
  <2>1. seen /\ ~starting /\ root \in {"auth", "tabs"} /\ owed = {}
    BY <1>7 DEF RunRemoval, RunShowAuth, NextBlock, Idling, RootInv, Unused, Idle, TypeOK
  <2>2. /\ seen' = seen /\ starting' = starting /\ (root' = root \/ root' = "auth")
        /\ owed' \in {{}, {NoToken}}
    BY <1>7, <2>1 DEF RunRemoval, RunShowAuth, PutAccessToken
  <2> QED
    BY <2>1, <2>2 DEF RootInv
<1>8. CASE RunSave
  <2>1. main # <<>> /\ main[1] = Head(main) /\ main[1].do = "save"
    BY <1>8 DEF RunSave, NextBlock
  <2>2. seen /\ root \in {"auth", "tabs"}
    BY <2>1 DEF RootInv, Unused, Idle, TypeOK
  <2>3. 1 \in 1..Len(main)
    BY <2>1 DEF TypeOK
  <2>4. authToken' # NoToken /\ owed' = {authToken'}
    BY <1>8, <2>1, <2>3 DEF RunSave, PutAccessToken, SessInv, QueueInv, SavesNewer, NoToken
  <2> QED
    BY <1>8, <2>2, <2>4 DEF RunSave, RootInv
<1>9. CASE Relaunch
  BY <1>9 DEF Relaunch, RootInv, Unused, Idle
<1>10. CASE PutRefreshToken
  <2>1. owed # {} /\ owed' = {} /\ refreshToken' \in owed
        /\ UNCHANGED <<authToken, screen, calls, main, forms>>
    BY <1>10 DEF PutRefreshToken
  <2>2. seen /\ root \in {"auth", "tabs"}
    BY <2>1 DEF RootInv, Unused, TypeOK
  <2>3. Leaving => Leaving'
    BY <2>1 DEF RootInv, Leaving
  <2> QED
    BY <2>1, <2>2, <2>3 DEF RootInv
<1>11. CASE UNCHANGED vars
  BY <1>11 DEF vars, RootInv, Unused, Idle, Leaving
<1> QED
  BY <1>1, <1>2, <1>3, <1>4, <1>5, <1>6, <1>7, <1>8, <1>9, <1>10, <1>11 DEF Next, User, MainStep

LEMMA RootInvariant == Spec => []RootInv
<1>1. Init => RootInv
  BY DEF Init, RootInv, Unused, Idle
<1> QED
  BY <1>1, RootInvKept, SessionInvariant, PTL DEF Spec

\* While the onboarding is shown (MainCoordinator.swift:28-29), whatever was
\* killed and launched before, no token is stored and no form, check or block
\* of the main queue is left that could store one or replace the screen.
OnboardingUndisturbed == root = "onboarding" => Unused

THEOREM OnboardingAlwaysUndisturbed == Spec => []OnboardingUndisturbed
<1>1. RootInv => OnboardingUndisturbed
  BY DEF RootInv, OnboardingUndisturbed
<1> QED
  BY <1>1, RootInvariant, PTL

\* Does a failed check of start() wait in the queue?  Is one on its way?
Login(q) == \E i \in 1..Len(q) : q[i].do = "showAuth"
Checked == \E c \in Calls : calls[c].pc # "free" /\ calls[c].owner = "start"

LEMMA LoginKept ==
  ASSUME NEW q \in Seq(Block)
  PROVE  /\ \A r \in Seq(Block) : q \o r \in Seq(Block) /\ (Login(q \o r) <=> Login(q) \/ Login(r))
         /\ q # <<>> /\ q[1].do # "showAuth" => (Login(Tail(q)) <=> Login(q))
         /\ q # <<>> /\ q[1].do = "showAuth" => Login(q)
<1>1. ASSUME NEW r \in Seq(Block)
      PROVE  q \o r \in Seq(Block) /\ (Login(q \o r) <=> Login(q) \/ Login(r))
  <2> DEFINE lq == Len(q)
             lr == Len(r)
  <2>1. /\ lq \in Nat /\ lr \in Nat /\ q \o r \in Seq(Block) /\ Len(q \o r) = lq + lr
        /\ \A i \in 1..lq : (q \o r)[i] = q[i]
        /\ \A i \in 1..lr : (q \o r)[lq + i] = r[i]
    OBVIOUS
  <2>2. ASSUME NEW i \in 1..Len(q \o r)
        PROVE  \/ i \in 1..lq /\ (q \o r)[i] = q[i]
               \/ i - lq \in 1..lr /\ (q \o r)[i] = r[i - lq]
    <3>1. i \in 1..lq \/ (i - lq \in 1..lr /\ lq + (i - lq) = i)
      <4> HIDE DEF lq, lr
      <4> QED
        BY <2>1
    <3> QED
      BY <2>1, <3>1
  <2>3. \A i \in 1..lq : i \in 1..Len(q \o r)
    <3> HIDE DEF lq, lr
    <3> QED
      BY <2>1
  <2>4. \A i \in 1..lr : lq + i \in 1..Len(q \o r)
    <3> HIDE DEF lq, lr
    <3> QED
      BY <2>1
  <2> QED
    BY <2>1, <2>2, <2>3, <2>4 DEF Login
<1>2. ASSUME q # <<>>
      PROVE  /\ q[1].do # "showAuth" => (Login(Tail(q)) <=> Login(q))
             /\ q[1].do = "showAuth" => Login(q)
  <2>1. /\ Len(q) \in Nat \ {0} /\ Len(Tail(q)) = Len(q) - 1
        /\ \A i \in 1..(Len(q) - 1) : Tail(q)[i] = q[i + 1]
    BY <1>2
  <2>2. ASSUME NEW i \in 1..Len(q), i # 1
        PROVE  i - 1 \in 1..Len(Tail(q)) /\ Tail(q)[i - 1] = q[i]
    <3>1. i - 1 \in 1..(Len(q) - 1) /\ (i - 1) + 1 = i
      BY <2>1, <2>2
    <3> QED
      BY <2>1, <3>1
  <2>3. ASSUME NEW i \in 1..Len(Tail(q))
        PROVE  i + 1 \in 1..Len(q) /\ Tail(q)[i] = q[i + 1]
    BY <2>1
  <2>4. 1 \in 1..Len(q)
    BY <2>1
  <2> QED
    BY <2>2, <2>3, <2>4 DEF Login
<1> QED
  BY <1>1, <1>2

\* A completion with false leaves the login screen in the queue if it was
\* start()'s, and only then.
LEMMA InvalidLogin ==
  ASSUME TypeOK, NEW c \in Calls, calls[c].pc # "free", Invalid(c)
  PROVE  CheckPending' <=> CheckPending
<1> DEFINE b == [do |-> "showAuth"]
<1>1. b \in Block
  BY DEF Block, ShowLogin
<1>2. main \in Seq(Block) /\ <<b>> \in Seq(Block) /\ Login(<<b>>)
  BY <1>1 DEF TypeOK, Login
<1> HIDE DEF b
<1>3. Login(main') <=> Login(main) \/ calls[c].owner = "start"
  <2>1. CASE calls[c].owner = "start"
    <3>1. main' = main \o <<b>>
      BY <1>2, <2>1 DEF Invalid, b
    <3> QED
      BY <1>2, <2>1, <3>1, LoginKept
  <2>2. CASE calls[c].owner # "start"
    BY <2>2 DEF Invalid
  <2> QED
    BY <2>1, <2>2
<1>4. /\ calls'[c].pc = "free" /\ \A d \in Calls : d # c => calls'[d] = calls[d]
  BY DEF Invalid, Free, TypeOK
<1>5. CheckPending <=> Checked \/ Login(main)
  BY DEF CheckPending, Checked, Login
<1>6. CheckPending' <=> Checked' \/ Login(main')
  BY DEF CheckPending, Checked, Login
<1>7. calls[c].owner # "start" => (Checked' <=> Checked)
  BY <1>4 DEF Checked
<1>8. calls[c].owner = "start" => Checked
  BY DEF Checked
<1> QED
  BY <1>3, <1>5, <1>6, <1>7, <1>8

\* A refresh that failed leaves the check on its way.
LEMMA RefusedLogin ==
  ASSUME TypeOK, NEW c \in Calls, calls[c].pc # "free", Refused(c)
  PROVE  CheckPending' <=> CheckPending
<1>1. main \in Seq(Block) /\ calls[c] \in Call
  BY DEF TypeOK, Free
<1>2. CheckPending <=> Checked \/ Login(main)
  BY DEF CheckPending, Checked, Login
<1>3. CheckPending' <=> Checked' \/ Login(main')
  BY DEF CheckPending, Checked, Login
<1>4. \A d \in Calls : d # c => calls'[d] = calls[d]
  BY DEF Refused, TypeOK
<1>5. CASE calls[c].owner = "favorites"
  <2>1. main' = main /\ calls'[c].pc = "free"
    BY <1>5 DEF Refused, TypeOK, Free
  <2> QED
    BY <1>2, <1>3, <1>4, <1>5, <2>1 DEF Checked
<1>6. CASE calls[c].owner # "favorites"
  <2> DEFINE r == RemovalOf(c)
  <2>1. r \in Block /\ r.do = "remove"
    BY <1>1, <1>6 DEF Call, RemovalOf, Block, Removal
  <2>2. calls'[c].pc = "refused" /\ calls'[c].owner = calls[c].owner /\ main' = Append(main, r)
    BY <1>1, <1>6 DEF Refused, TypeOK, Call
  <2> HIDE DEF r
  <2>3. <<r>> \in Seq(Block) /\ ~Login(<<r>>) /\ main' = main \o <<r>>
    BY <1>1, <2>1, <2>2 DEF Login
  <2>4. Login(main') <=> Login(main)
    BY <1>1, <2>3, LoginKept
  <2>5. Checked' <=> Checked
    BY <1>4, <2>2 DEF Checked
  <2> QED
    BY <1>2, <1>3, <2>4, <2>5
<1> QED
  BY <1>5, <1>6

LEMMA RootStep ==
  ASSUME TypeOK, TypeOK', SessInv, RootInv, RootInv', [Next]_vars
  PROVE  [Navigation!RootsNext]_(Navigation!rootVars)
<1> USE DEF tokens, screen
<1> DEFINE Kept == UNCHANGED <<root, seen /\ root # "onboarding", Leaving, CheckPending>>
<1>0. /\ main \in Seq(Block) /\ CheckPending \in BOOLEAN
      /\ CheckPending <=> Checked \/ Login(main)
      /\ CheckPending' <=> Checked' \/ Login(main')
  BY DEF TypeOK, CheckPending, Checked, Login
<1>1. SUFFICES Kept \/ Navigation!RootsNext
  BY DEF Navigation!rootVars
<1>a. ASSUME NEW c \in Calls, NEW owner \in {"profile", "favorites"}, Begin(c, owner)
      PROVE  Checked' <=> Checked
  BY <1>a DEF Begin, Checked, Free, TypeOK
<1>b. calls' = calls /\ main' = main => CheckPending' = CheckPending
  BY DEF CheckPending
<1>c. UNCHANGED <<root, starting, owed, refreshToken>> => Leaving' = Leaving
  BY DEF Leaving
<1>d. ~starting /\ ~starting' => ~Leaving /\ Leaving' = Leaving
  BY DEF Leaving
<1>2. CASE Start
  <2>1. CASE root' = "onboarding"
    <3>1. ~seen /\ calls' = calls /\ main' = main /\ seen' = seen
      BY <1>2, <2>1 DEF Start
    <3>2. root \in {"none", "onboarding"} /\ ~Leaving /\ ~Leaving'
      BY <2>1, <3>1 DEF RootInv, Leaving
    <3>3. Kept \/ Navigation!Launch
      BY <1>b, <2>1, <3>1, <3>2 DEF Navigation!Launch, Leaving
    <3> QED
      BY <3>3 DEF Navigation!RootsNext
  <2>2. CASE root' = "auth"
    <3>1. seen /\ authToken = NoToken /\ calls' = calls /\ main' = main /\ seen' = seen /\ starting
      BY <1>2, <2>2 DEF Start
    <3>2. root # "auth" /\ (root = "tabs" <=> Leaving) /\ ~Leaving'
      BY <2>2, <3>1 DEF RootInv, Leaving
    <3>3. Navigation!Launch \/ Navigation!EndOnboarding \/ Navigation!LeaveTabs
      BY <1>b, <2>2, <3>1, <3>2
         DEF Navigation!Launch, Navigation!EndOnboarding, Navigation!LeaveTabs, TypeOK, Leaving
    <3> QED
      BY <3>3 DEF Navigation!RootsNext
  <2>3. CASE root' = "tabs"
    <3>1. /\ seen /\ authToken # NoToken /\ main' = main /\ seen' = seen
          /\ \E c \in Calls : Begin(c, "start")
      BY <1>2, <2>3 DEF Start
    <3>2. Checked'
      BY <3>1 DEF Begin, Checked, TypeOK
    <3>3. root # "onboarding"
      BY <3>1 DEF RootInv, Unused
    <3>4. ~Leaving' /\ (root = "none" => ~Leaving)
      BY <1>2 DEF Start, Leaving
    <3>5. Navigation!Launch \/ Navigation!ShowTabs
      BY <1>0, <2>3, <3>1, <3>2, <3>3, <3>4
         DEF Navigation!Launch, Navigation!ShowTabs, TypeOK, Leaving
    <3> QED
      BY <3>5 DEF Navigation!RootsNext
  <2> QED
    BY <1>2, <2>1, <2>2, <2>3 DEF Start
<1>3. CASE FinishOnboarding \/ Submit
  <2>1. calls' = calls /\ main' = main /\ root' = root /\ (root # "onboarding" => seen' = seen)
    BY <1>3 DEF FinishOnboarding, Submit
  <2>2. root # "tabs"
    BY <1>3 DEF FinishOnboarding, Submit
  <2>3. Leaving' = Leaving
    BY <2>1, <2>2 DEF Leaving
  <2> QED
    BY <1>b, <2>1, <2>3
<1>12. CASE SignOut
  <2>1. /\ root = "tabs" /\ ~starting /\ starting' /\ owed' = {NoToken}
        /\ calls' = calls /\ main' = main /\ root' = root /\ seen' = seen
    BY <1>12 DEF SignOut, UserActs, Idling, PutAccessToken
  <2>2. ~Leaving /\ Leaving'
    BY <2>1 DEF Leaving
  <2>3. Navigation!SignOut
    BY <1>b, <2>1, <2>2 DEF Navigation!SignOut
  <2> QED
    BY <2>3 DEF Navigation!RootsNext
<1>4. CASE OpenProfile \/ EditFavorites
  <2>1. main' = main /\ root' = root /\ seen' = seen /\ Leaving' = Leaving
    BY <1>4, <1>c DEF OpenProfile, EditFavorites
  <2>2. \/ calls' = calls
        \/ \E c \in Calls, owner \in {"profile", "favorites"} : Begin(c, owner)
    BY <1>4 DEF OpenProfile, EditFavorites
  <2>3. Checked' <=> Checked
    BY <1>a, <2>2 DEF Checked
  <2>4. CheckPending' <=> CheckPending
    BY <1>0, <2>1, <2>3
  <2> QED
    BY <2>1, <2>4 DEF CheckPending
<1>5. ASSUME NEW c \in Calls, CallStep(c) PROVE Kept \/ Navigation!RootsNext
  <2>1. calls[c].pc # "free" /\ calls[c] \in Call
    BY <1>5, Numbers DEF CallStep, Accepted, Unreachable, Unauthorized,
                         UnauthorizedForGood, RefreshOk, RefreshFail, Complete, Again
  <2>2. root' = root /\ seen' = seen /\ Leaving' = Leaving
    <3>1. UNCHANGED <<screen, owed, refreshToken>>
      BY <1>5 DEF CallStep, Accepted, Unreachable, Unauthorized,
                         UnauthorizedForGood, RefreshOk, RefreshFail, Complete, Again
    <3> QED
      BY <1>c, <3>1
  <2>3. ASSUME Invalid(c) \/ Refused(c) PROVE Kept
    <3>1. CheckPending' <=> CheckPending
      BY <2>1, <2>3, InvalidLogin, RefusedLogin
    <3> QED
      BY <2>2, <3>1 DEF CheckPending
  <2>4. CASE Accepted(c)
    <3>1. main' = main /\ (Checked' => Checked)
      BY <2>4 DEF Accepted, Checked, Free, TypeOK
    <3>2. CASE CheckPending' <=> CheckPending
      BY <2>2, <3>2 DEF CheckPending
    <3>3. CASE CheckPending /\ ~CheckPending'
      BY <2>2, <3>3 DEF Navigation!RootsNext, Navigation!CheckSucceeds, CheckPending
    <3> QED
      BY <1>0, <3>1, <3>2, <3>3
  <2>5. ASSUME main' = main, calls'[c].pc # "free", calls'[c].owner = calls[c].owner,
               \A d \in Calls : d # c => calls'[d] = calls[d]
        PROVE  Kept
    <3>1. Checked' <=> Checked
      BY <2>1, <2>5 DEF Checked
    <3>2. CheckPending' <=> CheckPending
      BY <1>0, <2>5, <3>1
    <3> QED
      BY <2>2, <3>2 DEF CheckPending
  <2>6. CASE Unauthorized(c) \/ RefreshOk(c)
    BY <2>1, <2>5, <2>6 DEF Unauthorized, RefreshOk, TypeOK, Call
  <2>7. CASE Again(c)
    BY <2>1, <2>3, <2>5, <2>7 DEF Again, TypeOK, Call
  <2> QED
    BY <1>5, <2>3, <2>4, <2>6, <2>7
       DEF CallStep, Unreachable, UnauthorizedForGood, RefreshFail, Complete
<1>6. CASE FormAccepted
  <2> DEFINE s == <<[do |-> "save", session |-> issued + 1]>>
  <2>1. main' = main \o s /\ calls' = calls /\ root' = root /\ seen' = seen
        /\ Leaving' = Leaving
    BY <1>0, <1>6, <1>c DEF FormAccepted
  <2>2. s \in Seq(Block)
    <3>1. issued + 1 \in Token
      BY <1>6, BoundsAssumption DEF FormAccepted, Token, TypeOK
    <3> QED
      BY <3>1 DEF Block, SaveToken
  <2>3. ~Login(s)
    BY DEF Login
  <2> HIDE DEF s
  <2>4. Login(main') <=> Login(main)
    BY <1>0, <2>1, <2>2, <2>3, LoginKept
  <2>5. CheckPending' <=> CheckPending
    BY <1>0, <2>1, <2>4 DEF Checked
  <2> QED
    BY <2>1, <2>5 DEF CheckPending
<1>7. CASE FormRefused
  BY <1>b, <1>c, <1>7 DEF FormRefused
<1>8. CASE RunRemoval \/ RunSave
  <2>1. /\ main # <<>> /\ main' = Tail(main) /\ main[1].do # "showAuth"
        /\ calls' = calls /\ root' = root /\ seen' = seen
    BY <1>0, <1>8 DEF RunRemoval, RunSave, NextBlock
  <2>4. Leaving' = Leaving
    <3>1. CASE RunRemoval
      BY <1>d, <3>1 DEF RunRemoval, NextBlock, Idling
    <3>2. CASE RunSave
      <4>1. main[1] = Head(main) /\ main[1].do = "save" /\ 1 \in 1..Len(main)
        BY <1>0, <2>1, <3>2 DEF RunSave, NextBlock
      <4>2. owed' = {main[1].session} /\ main[1].session # NoToken /\ ~starting
        BY <3>2, <4>1 DEF RunSave, NextBlock, Idling, PutAccessToken, SessInv, QueueInv,
                          SavesNewer, NoToken
      <4>3. ~Leaving /\ ~Leaving'
        BY <4>2 DEF Leaving
      <4> QED
        BY <4>3 DEF Leaving
    <3> QED
      BY <1>8, <3>1, <3>2
  <2>2. Login(main') <=> Login(main)
    BY <1>0, <2>1, LoginKept
  <2>3. CheckPending' <=> CheckPending
    BY <1>0, <2>1, <2>2 DEF Checked
  <2> QED
    BY <2>1, <2>3, <2>4 DEF CheckPending
<1>9. CASE RunShowAuth
  <2>1. main # <<>> /\ main[1].do = "showAuth" /\ root' = "auth" /\ seen' = seen
    BY <1>0, <1>9 DEF RunShowAuth, NextBlock
  <2>2. CheckPending /\ seen /\ root \in {"auth", "tabs"}
    BY <1>0, <2>1, LoginKept DEF RootInv, Unused, Idle, TypeOK
  <2>3. ~Leaving /\ Leaving' = Leaving
    BY <1>9, <1>d DEF RunShowAuth, NextBlock, Idling
  <2>4. Navigation!CheckFails
    BY <2>1, <2>2, <2>3 DEF Navigation!CheckFails, CheckPending
  <2> QED
    BY <2>4 DEF Navigation!RootsNext
<1>13. CASE PutRefreshToken
  <2>1. /\ owed # {} /\ owed' = {} /\ refreshToken' \in owed
        /\ UNCHANGED <<screen, calls, main>>
    BY <1>13 DEF PutRefreshToken
  <2>2. Leaving' = Leaving
    BY <2>1 DEF RootInv, Leaving
  <2> QED
    BY <1>b, <2>1, <2>2
<1>10. CASE Relaunch
  <2>1. ~CheckPending' /\ ~Leaving'
    BY <1>10 DEF Relaunch, CheckPending, Leaving, Free
  <2>2. Navigation!Kill
    BY <1>10, <2>1 DEF Relaunch, Navigation!Kill, CheckPending, Leaving
  <2> QED
    BY <2>2 DEF Navigation!RootsNext
<1>11. CASE UNCHANGED vars
  BY <1>b, <1>c, <1>11 DEF vars
<1> QED
  BY <1>2, <1>3, <1>4, <1>5, <1>6, <1>7, <1>8, <1>9, <1>10, <1>11,
     <1>12, <1>13 DEF Next, User, MainStep

\* The tabs give way to the login screen because the user signed out under them
\* or because of a check of start() that this run of the program began
\* (MainCoordinator.swift:24-41); nothing disturbs the onboarding.
THEOREM SessionImplementsRoots == Spec => ImplementsRoots
<1>1. Init => Navigation!RootsInit
  <2> SUFFICES ASSUME Init PROVE Navigation!RootsInit
    OBVIOUS
  <2>1. ~CheckPending /\ ~Leaving
    BY DEF Init, CheckPending, Leaving, Free
  <2> QED
    BY <2>1 DEF Init, Navigation!RootsInit, CheckPending, Leaving
<1>2. TypeOK /\ TypeOK' /\ SessInv /\ RootInv /\ RootInv' /\ [Next]_vars =>
          [Navigation!RootsNext]_(Navigation!rootVars)
  BY RootStep
<1> QED
  BY <1>1, <1>2, SessionInvariant, RootInvariant, PTL
     DEF Spec, ImplementsRoots, Navigation!RootsSpec
=============================================================================
