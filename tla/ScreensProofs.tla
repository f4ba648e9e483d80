--------------------------- MODULE ScreensProofs ---------------------------
(***************************************************************************)
(* Theorems about Screens, for any number of forms on their way and of     *)
(* checks.                                                                 *)
(***************************************************************************)
EXTENDS Screens, TLAPS

\* Renaming the senders of a queue changes nothing else.
LEMMA Renamed ==
  ASSUME NEW q \in Seq(Block), NEW S \in SUBSET Sender, NEW t \in Sender
  PROVE  /\ QueueAs(q, S, t) \in Seq(Block)
         /\ Len(QueueAs(q, S, t)) = Len(q)
         /\ \A i \in 1..Len(q) : QueueAs(q, S, t)[i].do = q[i].do
         /\ \A i \in 1..Len(q) : q[i].do # "showAuth" =>
                QueueAs(q, S, t)[i].of = IF q[i].of \in S THEN t ELSE q[i].of
         /\ \A i \in 1..Len(q) : q[i].do \in {"loading", "spinner"} =>
                QueueAs(q, S, t)[i].on = q[i].on
<1> DEFINE b(i) == IF q[i].do # "showAuth" /\ q[i].of \in S THEN [q[i] EXCEPT !.of = t] ELSE q[i]
<1>1. ASSUME NEW i \in 1..Len(q)
      PROVE  /\ b(i) \in Block /\ b(i).do = q[i].do
             /\ q[i].do # "showAuth" => b(i).of = IF q[i].of \in S THEN t ELSE q[i].of
             /\ q[i].do \in {"loading", "spinner"} => b(i).on = q[i].on
  <2>1. q[i] \in Block
    OBVIOUS
  <2>2. CASE q[i] \in ShowAuth
    BY <2>1, <2>2 DEF ShowAuth, Block
  <2>3. CASE q[i] \in Loading
    BY <2>1, <2>3 DEF Loading, Block
  <2>4. CASE q[i] \in Spinning
    BY <2>1, <2>4 DEF Spinning, Block
  <2>5. CASE q[i] \in Answered
    BY <2>1, <2>5 DEF Answered, Block
  <2> QED
    BY <2>1, <2>2, <2>3, <2>4, <2>5 DEF Block
<1>2. QueueAs(q, S, t) = [i \in 1..Len(q) |-> b(i)]
  BY DEF QueueAs
<1> HIDE DEF b
<1>3. Len(q) \in Nat
  OBVIOUS
<1>4. QueueAs(q, S, t) \in Seq(Block) /\ Len(QueueAs(q, S, t)) = Len(q)
  BY <1>1, <1>2, <1>3
<1> QED
  BY <1>1, <1>2, <1>4

\* What stands where after a step of the main queue.
LEMMA Served ==
  ASSUME NEW q \in Seq(Block), q # <<>>, NEW b \in Block
  PROVE  /\ Head(q) = q[1] /\ q[1] \in Block /\ Len(q) \in Nat \ {0}
         /\ Tail(q) \in Seq(Block) /\ Len(Tail(q)) = Len(q) - 1
         /\ \A i \in 1..(Len(q) - 1) : Tail(q)[i] = q[i + 1]
         /\ Append(Tail(q), b) \in Seq(Block) /\ Len(Append(Tail(q), b)) = Len(q)
         /\ \A i \in 1..(Len(q) - 1) : Append(Tail(q), b)[i] = q[i + 1]
         /\ Append(Tail(q), b)[Len(q)] = b
<1>1. Tail(q) \in Seq(Block) /\ Len(Tail(q)) = Len(q) - 1 /\ Len(q) \in Nat \ {0}
  OBVIOUS
<1>2. \A i \in 1..(Len(q) - 1) : Tail(q)[i] = q[i + 1]
  OBVIOUS
<1> QED
  BY <1>1, <1>2

LEMMA Extended ==
  ASSUME NEW q \in Seq(Block), NEW b \in Block
  PROVE  /\ Append(q, b) \in Seq(Block) /\ Len(Append(q, b)) = Len(q) + 1 /\ Len(q) \in Nat
         /\ \A i \in 1..Len(q) : Append(q, b)[i] = q[i]
         /\ Append(q, b)[Len(q) + 1] = b
OBVIOUS

\* The blocks that the code queues, and what a block at the head carries.
LEMMA Blocks ==
  /\ \A s \in Sender, v \in BOOLEAN :
        /\ [do |-> "loading", of |-> s, on |-> v] \in Block
        /\ [do |-> "spinner", of |-> s, on |-> v] \in Block
        /\ [do |-> "answer", of |-> s, ok |-> v] \in Block
  /\ [do |-> "showAuth"] \in Block
  /\ \A b \in Block :
        /\ b.do \in {"loading", "spinner", "answer", "showAuth"}
        /\ b.do # "showAuth" => b.of \in Sender
        /\ b.do \in {"loading", "spinner"} => b.on \in BOOLEAN
BY DEF Block, Loading, Spinning, Answered, ShowAuth

LEMMA PendingMoved ==
  ASSUME NEW p \in [Sender -> Nat], NEW s \in Sender, NEW t \in Sender
  PROVE  PendingAs(p, s, t) \in [Sender -> Nat]
BY DEF PendingAs

LEMMA ReplaceTyped ==
  ASSUME TypeOK, NEW newRoot \in {"auth", "tabs"}, NEW q \in Seq(Block), Replace(newRoot, q)
  PROVE  /\ root' \in {"auth", "tabs"} /\ top' \in Form /\ popping' \in BOOLEAN
         /\ overlay' \in [Form -> BOOLEAN] /\ spinner' \in [Form -> BOOLEAN]
         /\ alert' \in BOOLEAN /\ pending' \in [Sender -> Nat] /\ main' \in Seq(Block)
         /\ checks' \in 0..MaxChecks /\ children' \subseteq Tab /\ detail' \subseteq DetailTab
<1> USE DEF TypeOK
<1>1. main' \in Seq(Block)
  BY Renamed DEF Replace, Sender, Form
<1>2. pending' \in [Sender -> Nat]
  <2>1. PendingAs(pending, "login", "former") \in [Sender -> Nat]
    BY PendingMoved DEF Sender, Form
  <2> QED
    BY <2>1, PendingMoved DEF Replace, Sender, Form
<1>3. checks' \in 0..MaxChecks
  BY BoundsAssumption DEF Replace
<1>4. alert' \in BOOLEAN /\ popping' \in BOOLEAN
  BY DEF Replace
<1> QED
  BY <1>1, <1>2, <1>3, <1>4 DEF Replace, Form

-----------------------------------------------------------------------------
\* The values the variables may have (the forms' requests, the blocks their
\* screens queue, the coordinators' children).
THEOREM TypeCorrect == Spec => []TypeOK
<1>1. Init => TypeOK
  <2> SUFFICES ASSUME Init PROVE TypeOK
    OBVIOUS
  <2>1. root \in {"onboarding", "auth", "tabs"} /\ main \in Seq(Block)
    BY DEF Init
  <2>2. checks \in 0..MaxChecks
    BY BoundsAssumption DEF Init
  <2>3. children \subseteq Tab
    BY DEF Init
  <2> QED
    BY <2>1, <2>2, <2>3 DEF Init, TypeOK, Form
<1>2. TypeOK /\ [Next]_vars => TypeOK'
  <2> SUFFICES ASSUME TypeOK, [Next]_vars PROVE TypeOK'
    OBVIOUS
  <2> USE DEF TypeOK, forms, tabs, history
  <2>0. \A s \in Form : Waits(s) \in BOOLEAN
    BY DEF Waits
  <2>1. ASSUME NEW s \in Form, Submit(s) PROVE TypeOK'
    <3>1. s \in Sender
      BY DEF Sender
    <3>2. main' \in Seq(Block)
      BY <2>1, <3>1, Blocks, Extended DEF Submit
    <3>3. pending' \in [Sender -> Nat]
      BY <2>1, <3>1 DEF Submit
    <3>4. slipped' \in BOOLEAN
      BY <2>1 DEF Submit, Slips
    <3> QED
      BY <2>1, <3>2, <3>3, <3>4 DEF Submit
  <2>2. ASSUME NEW s \in Form, SubmitIncomplete(s) PROVE TypeOK'
    <3>1. slipped' \in BOOLEAN
      BY <2>2 DEF SubmitIncomplete, Slips
    <3> QED
      BY <2>2, <3>1 DEF SubmitIncomplete
  <2>3. CASE DismissAlert
    BY <2>3 DEF DismissAlert
  <2>4. CASE GoToRegister
    <3>1. slipped' \in BOOLEAN
      BY <2>4 DEF GoToRegister, Slips
    <3> QED
      BY <2>4, <3>1 DEF GoToRegister, Form
  <2>5. CASE GoToLogin
    <3>1. slipped' \in BOOLEAN
      BY <2>5 DEF GoToLogin, Slips
    <3>2. main' \in Seq(Block)
      BY <2>5, Renamed DEF GoToLogin, Sender, Form
    <3>3. pending' \in [Sender -> Nat]
      BY <2>5, PendingMoved DEF GoToLogin, Sender, Form
    <3> QED
      BY <2>5, <3>1, <3>2, <3>3 DEF GoToLogin, Form
  <2>6. CASE FinishOnboarding \/ SignOut
    <3>1. PICK newRoot \in {"auth", "tabs"} : Replace(newRoot, main)
      BY <2>6 DEF FinishOnboarding, SignOut
    <3>2. UNCHANGED history
      BY <2>6 DEF FinishOnboarding, SignOut
    <3> QED
      BY <3>1, <3>2, ReplaceTyped
  <2>7. ASSUME NEW tab \in DetailTab, ShowDetail(tab) \/ Back(tab) PROVE TypeOK'
    <3>1. detail' \subseteq DetailTab /\ children' \subseteq Tab
      BY <2>7 DEF ShowDetail, Back, DidShow
    <3> QED
      BY <2>7, <3>1 DEF ShowDetail, Back
  <2>8. ASSUME NEW s \in Sender, NEW ok \in BOOLEAN, Answer(s, ok) PROVE TypeOK'
    <3>1. main' \in Seq(Block)
      BY <2>8, Blocks, Extended DEF Answer
    <3>2. pending' \in [Sender -> Nat]
      BY <2>8 DEF Answer
    <3> QED
      BY <2>8, <3>1, <3>2 DEF Answer
  <2>9. ASSUME NEW isValid \in BOOLEAN, CheckEnds(isValid) PROVE TypeOK'
    <3>1. main' \in Seq(Block)
      BY <2>9, Blocks, Extended DEF CheckEnds
    <3>2. checks' \in 0..MaxChecks
      BY <2>9, BoundsAssumption DEF CheckEnds
    <3> QED
      BY <2>9, <3>1, <3>2 DEF CheckEnds
  <2>10. CASE PopEnds
    BY <2>10 DEF PopEnds
  <2>11. CASE Release
    <3>1. main' \in Seq(Block)
      BY <2>11, Renamed DEF Release, Sender, Form
    <3>2. pending' \in [Sender -> Nat]
      BY <2>11, PendingMoved DEF Release, Sender, Form
    <3> QED
      BY <2>11, <3>1, <3>2 DEF Release
  <2>12. CASE MainStep
    <3>1. main # <<>> /\ Head(main) = main[1] /\ main[1] \in Block
      BY <2>12, Served, Blocks
         DEF MainStep, RunLoading, RunSpinner, RunError, RunSave, RunSaveUnheard,
             RunShowAuth, NextBlock
    <3>2. \A b \in Block : Append(Tail(main), b) \in Seq(Block)
      BY <3>1, Served
    <3>3. main[1].do # "showAuth" => main[1].of \in Sender
      BY <3>1, Blocks
    <3>4. main[1].do # "showAuth" => Unloaded(main[1].of) \in Seq(Block)
      BY <3>2, <3>3, Blocks DEF Unloaded
    <3>5. CASE RunLoading
      <4>1. main[1].do = "loading" /\ main[1].on \in BOOLEAN
        BY <3>1, <3>5, Blocks DEF RunLoading, NextBlock
      <4>2. main' \in Seq(Block)
        <5> DEFINE b == [do |-> "spinner", of |-> main[1].of, on |-> main[1].on]
        <5>1. b \in Block
          BY <3>3, <4>1, Blocks
        <5>2. main' = Tail(main) \/ main' = Append(Tail(main), b)
          BY <3>1, <3>5 DEF RunLoading
        <5> HIDE DEF b
        <5> QED
          BY <3>1, <3>2, <5>1, <5>2, Served
      <4>3. overlay' \in [Form -> BOOLEAN]
        BY <3>1, <3>5, <4>1 DEF RunLoading
      <4> QED
        BY <3>5, <4>2, <4>3 DEF RunLoading
    <3>6. CASE RunSpinner
      <4>1. main[1].do = "spinner" /\ main[1].on \in BOOLEAN
        BY <3>1, <3>6, Blocks DEF RunSpinner, NextBlock
      <4>2. spinner' \in [Form -> BOOLEAN]
        BY <3>1, <3>6, <4>1 DEF RunSpinner
      <4>3. main' \in Seq(Block)
        BY <3>1, <3>6, Served DEF RunSpinner
      <4> QED
        BY <3>6, <4>2, <4>3 DEF RunSpinner
    <3>7. CASE RunError
      <4>1. alert' \in BOOLEAN /\ untold' \in BOOLEAN
        BY <3>7 DEF RunError
      <4>2. main' \in Seq(Block)
        BY <3>1, <3>4, <3>7 DEF RunError, NextBlock
      <4> QED
        BY <3>7, <4>1, <4>2 DEF RunError
    <3>8. CASE RunSave
      <4>1. Unloaded(main[1].of) \in Seq(Block) /\ Replace("tabs", Unloaded(main[1].of))
        BY <3>1, <3>4, <3>8 DEF RunSave, NextBlock
      <4> QED
        BY <3>8, <4>1, ReplaceTyped DEF RunSave
    <3>9. CASE RunSaveUnheard
      BY <3>1, <3>4, <3>9 DEF RunSaveUnheard, NextBlock
    <3>10. CASE RunShowAuth
      <4>1. Tail(main) \in Seq(Block)
        BY <3>1, Served
      <4>2. replaced' \in BOOLEAN
        BY <3>10 DEF RunShowAuth
      <4> QED
        BY <3>10, <4>1, <4>2, ReplaceTyped DEF RunShowAuth
    <3> QED
      BY <2>12, <3>5, <3>6, <3>7, <3>8, <3>9, <3>10 DEF MainStep
  <2>13. CASE UNCHANGED vars
    BY <2>13 DEF vars
  <2> QED
    BY <2>1, <2>2, <2>3, <2>4, <2>5, <2>6, <2>7, <2>8, <2>9, <2>10, <2>11, <2>12, <2>13
       DEF Next, User, Answers
<1> QED
  BY <1>1, <1>2, PTL DEF Spec

-----------------------------------------------------------------------------
\* No way through the details takes a coordinator from the tabs
\* (TabBarCoordinator.swift:64-78): what leaves a stack is not Coordinated.
THEOREM TabsAlwaysKeepTheirCoordinators == Spec => []TabsKeepTheirCoordinators
<1>1. Init => TabsKeepTheirCoordinators
  BY DEF Init, TabsKeepTheirCoordinators
<1>2. ASSUME TabsKeepTheirCoordinators, [Next]_vars PROVE TabsKeepTheirCoordinators'
  <2> USE <1>2 DEF TabsKeepTheirCoordinators
  <2>1. ASSUME NEW newRoot, NEW q, Replace(newRoot, q) PROVE TabsKeepTheirCoordinators'
    BY <2>1 DEF Replace
  <2>2. ASSUME NEW tab \in DetailTab, ShowDetail(tab) \/ Back(tab)
        PROVE  TabsKeepTheirCoordinators'
    <3>1. "detail" \notin {"search", "favorites", "profile"}
      OBVIOUS
    <3> QED
      BY <2>2, <3>1 DEF ShowDetail, Back, DidShow
  <2>3. CASE FinishOnboarding \/ SignOut \/ RunSave \/ RunShowAuth
    BY <2>1, <2>3 DEF FinishOnboarding, SignOut, RunSave, RunShowAuth
  <2>4. CASE UNCHANGED <<root, children>>
    BY <2>4
  <2> QED
    BY <1>2, <2>2, <2>3, <2>4
       DEF Next, User, Answers, MainStep, Submit, SubmitIncomplete, DismissAlert,
           GoToRegister, GoToLogin, Answer, CheckEnds, PopEnds, Release, RunLoading,
           RunSpinner, RunError, RunSaveUnheard, vars, tabs
<1> QED
  BY <1>1, <1>2, PTL DEF Spec

-----------------------------------------------------------------------------
(* Kinds of blocks, and where they stand in the queue.                     *)

On(s) == {b \in Block : b.do = "loading" /\ b.of = s /\ b.on}
Off(s) == {b \in Block : b.do = "loading" /\ b.of = s /\ ~b.on}
SpinOn(s) == {b \in Block : b.do = "spinner" /\ b.of = s /\ b.on}
SpinOff(s) == {b \in Block : b.do = "spinner" /\ b.of = s /\ ~b.on}
Reply(s) == {b \in Block : b.do = "answer" /\ b.of = s}
Of(s) == {b \in Block : b.do # "showAuth" /\ b.of = s}

In(q, B) == \E i \in 1..Len(q) : q[i] \in B
Once(q, B) == \A i, j \in 1..Len(q) : q[i] \in B /\ q[j] \in B => i = j

\* A block of A that comes before all of B; one of B after each of A.
Before(q, A, B) ==
    \E i \in 1..Len(q) : q[i] \in A /\ \A j \in 1..Len(q) : q[j] \in B => i < j
After(q, A, B) ==
    \A i \in 1..Len(q) : q[i] \in A => \E j \in 1..Len(q) : i < j /\ q[j] \in B

LEMMA QueuedLast ==
  ASSUME NEW q \in Seq(Block), NEW b \in Block, NEW A, NEW B
  PROVE  /\ In(Append(q, b), A) <=> In(q, A) \/ b \in A
         /\ Once(q, A) /\ (b \in A => ~In(q, A)) => Once(Append(q, b), A)
         /\ Before(q, A, B) => Before(Append(q, b), A, B)
         /\ b \in A /\ b \notin B /\ ~In(q, B) => Before(Append(q, b), A, B)
         /\ b \notin A /\ (After(q, A, B) \/ b \in B) => After(Append(q, b), A, B)
<1> DEFINE r == Append(q, b)
<1>1. /\ Len(r) = Len(q) + 1 /\ Len(q) \in Nat
      /\ \A i \in 1..Len(q) : r[i] = q[i]
      /\ r[Len(q) + 1] = b
  BY Extended
<1> HIDE DEF r
<1>2. In(r, A) <=> In(q, A) \/ b \in A
  BY <1>1 DEF In
<1>3. Once(q, A) /\ (b \in A => ~In(q, A)) => Once(r, A)
  BY <1>1 DEF In, Once
<1>4. Before(q, A, B) => Before(r, A, B)
  BY <1>1 DEF Before
<1>5. b \in A /\ b \notin B /\ ~In(q, B) => Before(r, A, B)
  BY <1>1 DEF In, Before
<1>6. b \notin A /\ (After(q, A, B) \/ b \in B) => After(r, A, B)
  BY <1>1 DEF After
<1> QED
  BY <1>2, <1>3, <1>4, <1>5, <1>6 DEF r

LEMMA TakenFirst ==
  ASSUME NEW q \in Seq(Block), q # <<>>, NEW A, NEW B
  PROVE  /\ In(q, A) <=> q[1] \in A \/ In(Tail(q), A)
         /\ Once(q, A) => Once(Tail(q), A) /\ (q[1] \in A => ~In(Tail(q), A))
         /\ Before(q, A, B) /\ q[1] \notin A => Before(Tail(q), A, B)
         /\ Before(q, A, B) => q[1] \notin B
         /\ After(q, A, B) => After(Tail(q), A, B) /\ (q[1] \in A => In(Tail(q), B))
<1> DEFINE r == Tail(q)
<1>1. /\ Len(q) \in Nat \ {0} /\ Len(r) = Len(q) - 1
      /\ \A i \in 1..Len(r) : r[i] = q[i + 1] /\ i + 1 \in 1..Len(q)
      /\ \A i \in 1..Len(q) : i # 1 => i - 1 \in 1..Len(r) /\ r[i - 1] = q[i]
  <2>1. Len(q) \in Nat \ {0} /\ Len(r) = Len(q) - 1
    OBVIOUS
  <2>2. \A i \in 1..Len(r) : r[i] = q[i + 1] /\ i + 1 \in 1..Len(q)
    BY <2>1
  <2> QED
    BY <2>1, <2>2
<1> HIDE DEF r
<1>2. In(q, A) <=> q[1] \in A \/ In(r, A)
  BY <1>1 DEF In
<1>3. Once(q, A) => Once(r, A) /\ (q[1] \in A => ~In(r, A))
  BY <1>1 DEF In, Once
<1>4. Before(q, A, B) /\ q[1] \notin A => Before(r, A, B)
  <2> SUFFICES ASSUME Before(q, A, B), q[1] \notin A PROVE Before(r, A, B)
    OBVIOUS
  <2>1. PICK i \in 1..Len(q) : q[i] \in A /\ \A j \in 1..Len(q) : q[j] \in B => i < j
    BY DEF Before
  <2>2. i # 1 /\ i - 1 \in 1..Len(r) /\ r[i - 1] \in A
    BY <1>1, <2>1
  <2>3. ASSUME NEW j \in 1..Len(r), r[j] \in B PROVE i - 1 < j
    BY <1>1, <2>1, <2>3
  <2> QED
    BY <2>2, <2>3 DEF Before
<1>5. Before(q, A, B) => q[1] \notin B
  BY <1>1 DEF Before
<1>6. After(q, A, B) => After(r, A, B) /\ (q[1] \in A => In(r, B))
  <2> SUFFICES ASSUME After(q, A, B) PROVE After(r, A, B) /\ (q[1] \in A => In(r, B))
    OBVIOUS
  <2>1. ASSUME NEW i \in 1..Len(r), r[i] \in A
        PROVE  \E j \in 1..Len(r) : i < j /\ r[j] \in B
    <3>1. PICK j \in 1..Len(q) : i + 1 < j /\ q[j] \in B
      BY <1>1, <2>1 DEF After
    <3>2. j - 1 \in 1..Len(r) /\ r[j - 1] \in B /\ i < j - 1
      BY <1>1, <3>1
    <3> QED
      BY <3>2
  <2>2. q[1] \in A => In(r, B)
    BY <1>1 DEF After, In
  <2> QED
    BY <2>1, <2>2 DEF After
<1> QED
  BY <1>2, <1>3, <1>4, <1>5, <1>6 DEF r

\* Who is not renamed finds its blocks where they were; who is has none left.
LEMMA OthersRenamed ==
  ASSUME NEW q \in Seq(Block), NEW S \in SUBSET Sender, NEW t \in Sender,
         NEW s \in Sender \ {t}, NEW A \in SUBSET Of(s), NEW B \in SUBSET Of(s)
  PROVE  /\ s \in S => ~In(QueueAs(q, S, t), A)
         /\ s \notin S =>
                /\ In(QueueAs(q, S, t), A) <=> In(q, A)
                /\ Once(QueueAs(q, S, t), A) <=> Once(q, A)
                /\ Before(QueueAs(q, S, t), A, B) <=> Before(q, A, B)
                /\ After(QueueAs(q, S, t), A, B) <=> After(q, A, B)
<1> DEFINE r == QueueAs(q, S, t)
<1>1. /\ Len(r) = Len(q) /\ Len(q) \in Nat
      /\ \A i \in 1..Len(q) : q[i] \in Block /\ r[i] \in Block /\ r[i].do = q[i].do
      /\ \A i \in 1..Len(q) : q[i].do # "showAuth" =>
             r[i].of = IF q[i].of \in S THEN t ELSE q[i].of
  <2>1. r \in Seq(Block)
    BY Renamed
  <2>2. Len(r) = Len(q) /\ \A i \in 1..Len(q) : r[i].do = q[i].do
    BY Renamed
  <2>3. \A i \in 1..Len(q) : q[i].do # "showAuth" =>
            r[i].of = IF q[i].of \in S THEN t ELSE q[i].of
    BY Renamed
  <2> HIDE DEF r
  <2>4. Len(q) \in Nat /\ \A i \in 1..Len(q) : q[i] \in Block /\ r[i] \in Block
    BY <2>1, <2>2
  <2> QED
    BY <2>2, <2>3, <2>4
<1>2. \A i \in 1..Len(q) : ~(q[i].do # "showAuth" /\ q[i].of \in S) => r[i] = q[i]
  BY DEF QueueAs
<1> HIDE DEF r
<1>3. ASSUME s \in S PROVE ~In(r, A)
  BY <1>1, <1>3 DEF In, Of
<1>4. ASSUME s \notin S, NEW C \in SUBSET Of(s)
      PROVE  \A i \in 1..Len(q) : r[i] \in C <=> q[i] \in C
  <2> SUFFICES ASSUME NEW i \in 1..Len(q) PROVE r[i] \in C <=> q[i] \in C
    OBVIOUS
  <2>1. CASE q[i].do # "showAuth" /\ q[i].of \in S
    <3>1. q[i] \notin Of(s) /\ r[i] \notin Of(s)
      BY <1>1, <1>4, <2>1 DEF Of
    <3> QED
      BY <3>1
  <2>2. CASE ~(q[i].do # "showAuth" /\ q[i].of \in S)
    BY <1>2, <2>2
  <2> QED
    BY <2>1, <2>2
<1>5. ASSUME s \notin S
      PROVE  /\ In(r, A) <=> In(q, A)
             /\ Once(r, A) <=> Once(q, A)
             /\ Before(r, A, B) <=> Before(q, A, B)
             /\ After(r, A, B) <=> After(q, A, B)
  <2>1. Len(r) = Len(q)
    BY <1>1
  <2>2. \A i \in 1..Len(q) : (r[i] \in A <=> q[i] \in A) /\ (r[i] \in B <=> q[i] \in B)
    BY <1>4, <1>5
  <2> QED
    BY <2>1, <2>2 DEF In, Once, Before, After
<1> QED
  BY <1>3, <1>5 DEF r

\* No answer for those renamed, nor for whom they become: none for either.
LEMMA NoReplyRenamed ==
  ASSUME NEW q \in Seq(Block), NEW S \in SUBSET Sender, NEW t \in Sender,
         ~In(q, Reply(t)), \A s \in S : ~In(q, Reply(s))
  PROVE  ~In(QueueAs(q, S, t), Reply(t))
<1> DEFINE r == QueueAs(q, S, t)
<1> SUFFICES ASSUME NEW i \in 1..Len(r), r[i] \in Reply(t) PROVE FALSE
  BY DEF In
<1>1. Len(r) = Len(q) /\ q[i].do = r[i].do
  BY Renamed
<1>2. q[i] \in Block
  BY <1>1
<1>3. q[i].do = "answer" /\ (q[i].of \in S \/ q[i].of = t)
  <2>1. r[i].do = "answer" /\ r[i].of = t
    BY DEF Reply
  <2> QED
    BY <1>1, <2>1, Renamed
<1> QED
  BY <1>1, <1>2, <1>3 DEF In, Reply

\* Blocks of others, of no kind of s.
LEMMA Kinds ==
  ASSUME NEW s \in Sender
  PROVE  /\ On(s) \subseteq Of(s) /\ Off(s) \subseteq Of(s) /\ Reply(s) \subseteq Of(s)
         /\ SpinOn(s) \subseteq Of(s) /\ SpinOff(s) \subseteq Of(s)
         /\ Of(s) \subseteq Block
         /\ \A b \in Of(s) : b \in On(s) \union Off(s) \union Reply(s)
                                 \union SpinOn(s) \union SpinOff(s)
BY Blocks DEF On, Off, Reply, SpinOn, SpinOff, Of

LEMMA Waiting ==
  ASSUME TypeOK, NEW s \in Sender
  PROVE  Waits(s) <=> pending[s] > 0 \/ In(main, Reply(s))
BY DEF TypeOK, Waits, In, Reply

-----------------------------------------------------------------------------
(* A form that is covered, or about to be, is going to be freed.           *)

Lifts(s) == Off(s) \union Reply(s)

FreedIn(q, s, covered, spins) ==
    /\ After(q, On(s), Lifts(s))
    /\ covered => In(q, Lifts(s))
    /\ In(q, Lifts(s)) \/ After(q, SpinOn(s), SpinOff(s))
    /\ spins => In(q, Lifts(s)) \/ In(q, SpinOff(s))

Freed == \A s \in Form : pending[s] > 0 \/ FreedIn(main, s, overlay[s], spinner[s])

LEMMA Inert ==
  ASSUME NEW q \in Seq(Block), NEW s \in Form, NEW v \in BOOLEAN, NEW w \in BOOLEAN,
         FreedIn(q, s, v, w)
  PROVE  /\ \A b \in Block \ Of(s) : FreedIn(Append(q, b), s, v, w)
         /\ q # <<>> /\ q[1] \notin Of(s) => FreedIn(Tail(q), s, v, w)
<1>0. s \in Sender
  BY DEF Sender
<1>1. ASSUME NEW b \in Block \ Of(s) PROVE FreedIn(Append(q, b), s, v, w)
  <2>1. b \notin On(s) /\ b \notin SpinOn(s)
    BY <1>0, Kinds
  <2>2. After(Append(q, b), On(s), Lifts(s))
    BY <2>1, QueuedLast DEF FreedIn
  <2>3. After(q, SpinOn(s), SpinOff(s)) => After(Append(q, b), SpinOn(s), SpinOff(s))
    BY <2>1, QueuedLast
  <2>4. /\ In(q, Lifts(s)) => In(Append(q, b), Lifts(s))
        /\ In(q, SpinOff(s)) => In(Append(q, b), SpinOff(s))
    BY QueuedLast
  <2> QED
    BY <2>2, <2>3, <2>4 DEF FreedIn
<1>2. ASSUME q # <<>>, q[1] \notin Of(s) PROVE FreedIn(Tail(q), s, v, w)
  <2>1. q[1] \notin Lifts(s) /\ q[1] \notin SpinOff(s)
    BY <1>0, <1>2, Kinds DEF Lifts
  <2>2. After(Tail(q), On(s), Lifts(s))
    BY <1>2, TakenFirst DEF FreedIn
  <2>3. After(q, SpinOn(s), SpinOff(s)) => After(Tail(q), SpinOn(s), SpinOff(s))
    BY <1>2, TakenFirst
  <2>4. /\ In(q, Lifts(s)) => In(Tail(q), Lifts(s))
        /\ In(q, SpinOff(s)) => In(Tail(q), SpinOff(s))
    BY <1>2, <2>1, TakenFirst
  <2> QED
    BY <2>2, <2>3, <2>4 DEF FreedIn
<1> QED
  BY <1>1, <1>2

\* What frees s is queued last, or s has nothing in the queue.
LEMMA Freeing ==
  ASSUME NEW q \in Seq(Block), NEW s \in Form, NEW v \in BOOLEAN, NEW w \in BOOLEAN
  PROVE  /\ \A b \in Lifts(s) : FreedIn(Append(q, b), s, v, w)
         /\ ~In(q, On(s)) /\ ~In(q, SpinOn(s)) => FreedIn(q, s, FALSE, FALSE)
<1>0. s \in Sender
  BY DEF Sender
<1>1. ASSUME NEW b \in Lifts(s) PROVE FreedIn(Append(q, b), s, v, w)
  <2>1. b \in Block /\ b \notin On(s)
    BY <1>0, <1>1, Blocks DEF Lifts, On, Off, Reply
  <2>2. After(Append(q, b), On(s), Lifts(s)) /\ In(Append(q, b), Lifts(s))
    BY <1>1, <2>1, QueuedLast
  <2> QED
    BY <2>2 DEF FreedIn
<1>2. ASSUME ~In(q, On(s)), ~In(q, SpinOn(s)) PROVE FreedIn(q, s, FALSE, FALSE)
  BY <1>2 DEF FreedIn, After, In
<1> QED
  BY <1>1, <1>2

LEMMA FreedKept ==
  ASSUME TypeOK, TypeOK', Freed, [Next]_vars PROVE Freed'
<1> USE DEF forms, tabs, history
<1> SUFFICES ASSUME NEW s \in Form
             PROVE  pending'[s] > 0 \/ FreedIn(main', s, overlay'[s], spinner'[s])
  BY DEF Freed
<1>1. /\ s \in Sender /\ pending[s] \in Nat /\ main \in Seq(Block) /\ main' \in Seq(Block)
      /\ overlay[s] \in BOOLEAN /\ spinner[s] \in BOOLEAN
      /\ pending[s] > 0 \/ FreedIn(main, s, overlay[s], spinner[s])
  BY DEF TypeOK, Freed, Sender
<1>2. \A t \in Sender, v \in BOOLEAN : t # s =>
          /\ [do |-> "loading", of |-> t, on |-> v] \in Block \ Of(s)
          /\ [do |-> "spinner", of |-> t, on |-> v] \in Block \ Of(s)
          /\ [do |-> "answer", of |-> t, ok |-> v] \in Block \ Of(s)
  BY Blocks DEF Of
<1>3. [do |-> "showAuth"] \in Block \ Of(s)
  BY Blocks DEF Of
<1>4. ASSUME main # <<>>
      PROVE  /\ Head(main) = main[1] /\ main[1] \in Block /\ Tail(main) \in Seq(Block)
             /\ main[1].do # "showAuth" => main[1].of \in Sender
             /\ main[1].do \in {"loading", "spinner"} => main[1].on \in BOOLEAN
  <2>1. Head(main) = main[1] /\ main[1] \in Block /\ Tail(main) \in Seq(Block)
    BY <1>1, <1>4, Blocks, Served
  <2> QED
    BY <2>1, Blocks
<1>5. CASE UNCHANGED <<main, pending, overlay, spinner>>
  BY <1>1, <1>5
<1>6. ASSUME NEW t \in Form, Submit(t)
      PROVE  pending'[s] > 0 \/ FreedIn(main', s, overlay'[s], spinner'[s])
  <2>1. CASE t = s
    BY <1>1, <1>6, <2>1 DEF Submit, TypeOK
  <2>2. CASE t # s
    <3>1. pending'[s] = pending[s] /\ overlay'[s] = overlay[s] /\ spinner'[s] = spinner[s]
      BY <1>1, <1>6, <2>2 DEF Submit, TypeOK
    <3>2. PICK b \in Block \ Of(s) : main' = Append(main, b)
      <4>1. t \in Sender
        BY DEF Sender
      <4> QED
        BY <1>2, <1>6, <2>2, <4>1 DEF Submit
    <3> QED
      BY <1>1, <3>1, <3>2, Inert
  <2> QED
    BY <2>1, <2>2
<1>7. CASE GoToRegister
  <2>1. overlay'[s] \in {FALSE, overlay[s]} /\ spinner'[s] \in {FALSE, spinner[s]}
    BY <1>1, <1>7 DEF GoToRegister, TypeOK
  <2>2. main' = main /\ pending' = pending
    BY <1>7 DEF GoToRegister
  <2> QED
    BY <1>1, <2>1, <2>2 DEF FreedIn
<1>8. CASE GoToLogin
  <2>1. main' = QueueAs(main, {"registration"}, "leaving")
    BY <1>8 DEF GoToLogin
  <2>2. "leaving" \in Sender /\ s # "leaving" /\ {"registration"} \in SUBSET Sender
    BY DEF Sender, Form
  <2>3. CASE s = "registration"
    <3>1. ~In(main', On(s)) /\ ~In(main', SpinOn(s))
      BY <1>1, <2>1, <2>2, <2>3, OthersRenamed, Kinds
    <3>2. overlay'[s] = FALSE /\ spinner'[s] = FALSE
      BY <1>8, <2>3 DEF GoToLogin, TypeOK
    <3> QED
      BY <1>1, <3>1, <3>2, Freeing
  <2>4. CASE s = "login"
    <3>1. /\ Lifts(s) \in SUBSET Of(s) /\ s \notin {"registration"}
          /\ On(s) \in SUBSET Of(s) /\ SpinOn(s) \in SUBSET Of(s) /\ SpinOff(s) \in SUBSET Of(s)
      BY <1>1, <2>4, Kinds DEF Lifts
    <3>2. /\ In(main', Lifts(s)) <=> In(main, Lifts(s))
          /\ In(main', SpinOff(s)) <=> In(main, SpinOff(s))
          /\ After(main', On(s), Lifts(s)) <=> After(main, On(s), Lifts(s))
          /\ After(main', SpinOn(s), SpinOff(s)) <=> After(main, SpinOn(s), SpinOff(s))
      BY <1>1, <2>1, <2>2, <3>1, OthersRenamed
    <3>3. overlay'[s] = overlay[s] /\ spinner'[s] = spinner[s]
      BY <1>8, <2>4 DEF GoToLogin, TypeOK
    <3>4. pending'[s] = pending[s]
      BY <1>8, <2>4 DEF GoToLogin, TypeOK, PendingAs, Sender, Form
    <3> QED
      BY <1>1, <3>2, <3>3, <3>4 DEF FreedIn
  <2> QED
    BY <2>3, <2>4 DEF Form
<1>9. ASSUME NEW newRoot, NEW q \in Seq(Block), Replace(newRoot, q)
      PROVE  pending'[s] > 0 \/ FreedIn(main', s, overlay'[s], spinner'[s])
  <2>1. main' = QueueAs(q, Form, "former")
    BY <1>9 DEF Replace
  <2>2. "former" \in Sender /\ s # "former" /\ Form \in SUBSET Sender
    BY DEF Sender, Form
  <2>3. ~In(main', On(s)) /\ ~In(main', SpinOn(s))
    BY <1>1, <2>1, <2>2, OthersRenamed, Kinds
  <2>4. overlay'[s] = FALSE /\ spinner'[s] = FALSE
    BY <1>9 DEF Replace
  <2> QED
    BY <1>1, <2>3, <2>4, Freeing
<1>10. ASSUME NEW t \in Sender, NEW ok \in BOOLEAN, Answer(t, ok)
       PROVE  pending'[s] > 0 \/ FreedIn(main', s, overlay'[s], spinner'[s])
  <2> DEFINE b == [do |-> "answer", of |-> t, ok |-> ok]
  <2>1. main' = Append(main, b) /\ overlay' = overlay /\ spinner' = spinner
    BY <1>10 DEF Answer
  <2>2. CASE t = s
    <3>1. b \in Lifts(s)
      BY <1>1, <2>2, Blocks DEF Lifts, Reply
    <3> QED
      BY <1>1, <2>1, <3>1, Freeing
  <2>3. CASE t # s
    <3>1. b \in Block \ Of(s)
      BY <1>2, <2>3
    <3>2. pending'[s] = pending[s]
      BY <1>1, <1>10, <2>3 DEF Answer, TypeOK
    <3> QED
      BY <1>1, <2>1, <3>1, <3>2, Inert
  <2> QED
    BY <2>2, <2>3
<1>11. ASSUME NEW isValid \in BOOLEAN, CheckEnds(isValid)
       PROVE  pending'[s] > 0 \/ FreedIn(main', s, overlay'[s], spinner'[s])
  <2>1. main' = main \/ main' = Append(main, [do |-> "showAuth"])
    BY <1>11 DEF CheckEnds
  <2>2. UNCHANGED <<pending, overlay, spinner>>
    BY <1>11 DEF CheckEnds
  <2> QED
    BY <1>1, <1>3, <2>1, <2>2, Inert
<1>12. CASE Release
  <2>1. main' = QueueAs(main, {"leaving"}, "gone") /\ overlay' = overlay /\ spinner' = spinner
    BY <1>12 DEF Release
  <2>2. /\ "gone" \in Sender /\ s # "gone" /\ s \notin {"leaving"}
        /\ {"leaving"} \in SUBSET Sender
    BY DEF Sender, Form
  <2>3. Lifts(s) \in SUBSET Of(s)
    BY <1>1, Kinds DEF Lifts
  <2>4. /\ In(main', Lifts(s)) <=> In(main, Lifts(s))
        /\ In(main', SpinOff(s)) <=> In(main, SpinOff(s))
        /\ After(main', On(s), Lifts(s)) <=> After(main, On(s), Lifts(s))
        /\ After(main', SpinOn(s), SpinOff(s)) <=> After(main, SpinOn(s), SpinOff(s))
    BY <1>1, <2>1, <2>2, <2>3, OthersRenamed, Kinds
  <2>5. pending'[s] = pending[s]
    BY <1>1, <1>12, <2>2 DEF Release, TypeOK, PendingAs
  <2> QED
    BY <1>1, <2>1, <2>4, <2>5 DEF FreedIn
<1>13. CASE RunLoading
  <2>1. main # <<>> /\ main[1].do = "loading"
    BY <1>4, <1>13 DEF RunLoading, NextBlock
  <2> DEFINE t == main[1].of
             b == [do |-> "spinner", of |-> t, on |-> main[1].on]
  <2>2. t \in Sender /\ main[1].on \in BOOLEAN /\ b \in Block /\ main[1] \in Block
    BY <1>4, <2>1, Blocks
  <2>3. UNCHANGED <<pending, spinner>>
    BY <1>13 DEF RunLoading
  <2>4. CASE t # s
    <3>1. main[1] \notin Of(s) /\ b \in Block \ Of(s)
      BY <1>2, <2>2, <2>4 DEF Of
    <3>2. main' = Tail(main) \/ main' = Append(Tail(main), b)
      BY <1>4, <1>13, <2>1 DEF RunLoading
    <3>3. overlay'[s] = overlay[s]
      BY <1>1, <1>4, <1>13, <2>1, <2>4 DEF RunLoading, TypeOK
    <3> HIDE DEF b
    <3>4. FreedIn(main, s, overlay[s], spinner[s]) => FreedIn(Tail(main), s, overlay[s], spinner[s])
      BY <1>1, <2>1, <3>1, Inert
    <3>5. FreedIn(Tail(main), s, overlay[s], spinner[s]) =>
              FreedIn(Append(Tail(main), b), s, overlay[s], spinner[s])
      BY <1>1, <1>4, <2>1, <3>1, Inert
    <3> QED
      BY <1>1, <2>3, <3>2, <3>3, <3>4, <3>5
  <2>5. CASE t = s
    <3>1. main' = Append(Tail(main), b) /\ overlay'[s] = main[1].on
      <4>1. s # "gone"
        BY DEF Form
      <4> QED
        BY <1>1, <1>4, <1>13, <2>1, <2>5, <4>1 DEF RunLoading, TypeOK
    <3>2. SUFFICES ASSUME FreedIn(main, s, overlay[s], spinner[s])
                   PROVE  FreedIn(main', s, overlay'[s], spinner'[s])
      BY <1>1, <2>3
    <3>3. Tail(main) \in Seq(Block) /\ b \notin On(s)
      BY <1>4, <2>1 DEF On
    <3>4. CASE main[1].on
      <4>1. main[1] \in On(s) /\ b \in SpinOn(s)
        BY <2>1, <2>2, <2>5, <3>4 DEF On, SpinOn
      <4> HIDE DEF b
      <4>2. After(Tail(main), On(s), Lifts(s)) /\ In(Tail(main), Lifts(s))
        BY <1>1, <2>1, <3>2, <4>1, TakenFirst DEF FreedIn
      <4>3. After(main', On(s), Lifts(s)) /\ In(main', Lifts(s))
        BY <2>2, <3>1, <3>3, <4>2, QueuedLast
      <4> QED
        BY <4>3 DEF FreedIn
    <3>5. CASE ~main[1].on
      <4>1. b \in SpinOff(s) /\ b \notin SpinOn(s) /\ overlay'[s] = FALSE
        BY <2>2, <2>5, <3>1, <3>5 DEF SpinOff, SpinOn
      <4> HIDE DEF b
      <4>2. After(Tail(main), On(s), Lifts(s))
        BY <1>1, <2>1, <3>2, TakenFirst DEF FreedIn
      <4>3. After(main', On(s), Lifts(s)) /\ After(main', SpinOn(s), SpinOff(s))
        BY <2>2, <3>1, <3>3, <4>1, <4>2, QueuedLast
      <4>4. In(main', SpinOff(s))
        BY <2>2, <3>1, <3>3, <4>1, QueuedLast
      <4> QED
        BY <4>1, <4>3, <4>4 DEF FreedIn
    <3> QED
      BY <3>4, <3>5
  <2> QED
    BY <2>4, <2>5
<1>14. CASE RunSpinner
  <2>1. main # <<>> /\ main[1].do = "spinner"
    BY <1>4, <1>14 DEF RunSpinner, NextBlock
  <2> DEFINE t == main[1].of
  <2>2. t \in Sender /\ main[1].on \in BOOLEAN /\ main[1] \in Block
    BY <1>4, <2>1
  <2>3. main' = Tail(main) /\ UNCHANGED <<pending, overlay>>
    BY <1>14 DEF RunSpinner
  <2>4. CASE t # s
    <3>1. main[1] \notin Of(s)
      BY <2>4 DEF Of
    <3>2. spinner'[s] = spinner[s]
      BY <1>1, <1>4, <1>14, <2>1, <2>4 DEF RunSpinner, TypeOK
    <3> QED
      BY <1>1, <2>1, <2>3, <3>1, <3>2, Inert
  <2>5. CASE t = s
    <3>1. spinner'[s] = main[1].on
      BY <1>1, <1>4, <1>14, <2>1, <2>5 DEF RunSpinner, TypeOK
    <3>2. SUFFICES ASSUME FreedIn(main, s, overlay[s], spinner[s])
                   PROVE  FreedIn(main', s, overlay'[s], spinner'[s])
      BY <1>1, <2>3
    <3>3. main[1] \notin Lifts(s) /\ (main[1].on <=> main[1] \in SpinOn(s))
      BY <2>1, <2>2, <2>5 DEF Lifts, Off, Reply, SpinOn
    <3>4. After(Tail(main), On(s), Lifts(s)) /\ (In(main, Lifts(s)) => In(Tail(main), Lifts(s)))
      BY <1>1, <2>1, <3>2, <3>3, TakenFirst DEF FreedIn
    <3>5. After(main, SpinOn(s), SpinOff(s)) =>
              /\ After(Tail(main), SpinOn(s), SpinOff(s))
              /\ main[1].on => In(Tail(main), SpinOff(s))
      BY <1>1, <2>1, <3>3, TakenFirst
    <3> QED
      BY <2>3, <3>1, <3>2, <3>4, <3>5 DEF FreedIn
  <2> QED
    BY <2>4, <2>5
<1>15. CASE RunError \/ RunSaveUnheard
  <2>1. main # <<>> /\ main[1].do = "answer"
    BY <1>4, <1>15 DEF RunError, RunSaveUnheard, NextBlock
  <2> DEFINE t == main[1].of
             b == [do |-> "loading", of |-> t, on |-> FALSE]
  <2>2. t \in Sender /\ b \in Block /\ main[1] \in Block /\ Tail(main) \in Seq(Block)
    BY <1>4, <2>1, Blocks
  <2>3. main' = Append(Tail(main), b) /\ UNCHANGED <<pending, overlay, spinner>>
    BY <1>4, <1>15, <2>1 DEF RunError, RunSaveUnheard, Unloaded, NextBlock
  <2>4. CASE t # s
    <3>1. main[1] \notin Of(s) /\ b \in Block \ Of(s)
      BY <1>2, <2>2, <2>4 DEF Of
    <3> HIDE DEF b
    <3>2. FreedIn(main, s, overlay[s], spinner[s]) => FreedIn(Tail(main), s, overlay[s], spinner[s])
      BY <1>1, <2>1, <3>1, Inert
    <3>3. FreedIn(Tail(main), s, overlay[s], spinner[s]) =>
              FreedIn(Append(Tail(main), b), s, overlay[s], spinner[s])
      BY <1>1, <2>2, <3>1, Inert
    <3> QED
      BY <1>1, <2>3, <3>2, <3>3
  <2>5. CASE t = s
    <3>1. b \in Lifts(s)
      BY <2>2, <2>5 DEF Lifts, Off
    <3> HIDE DEF b
    <3> QED
      BY <1>1, <2>2, <2>3, <3>1, Freeing
  <2> QED
    BY <2>4, <2>5
<1>16. CASE RunSave \/ RunShowAuth
  <2>1. main # <<>> /\ main[1] \in Block /\ Tail(main) \in Seq(Block)
    BY <1>4, <1>16 DEF RunSave, RunShowAuth, NextBlock
  <2>2. CASE RunShowAuth
    BY <1>9, <2>1, <2>2 DEF RunShowAuth
  <2>3. CASE RunSave
    <3>1. main[1].do = "answer" /\ main[1].of \in Sender
      BY <1>4, <2>1, <2>3 DEF RunSave, NextBlock
    <3>2. Unloaded(main[1].of) \in Seq(Block)
      BY <2>1, <3>1, Blocks, Extended DEF Unloaded
    <3> QED
      BY <1>4, <1>9, <2>1, <2>3, <3>2 DEF RunSave
  <2> QED
    BY <1>16, <2>2, <2>3
<1>17. CASE FinishOnboarding \/ SignOut
  BY <1>1, <1>9, <1>17 DEF FinishOnboarding, SignOut
<1> QED
  BY <1>5, <1>6, <1>7, <1>8, <1>10, <1>11, <1>12, <1>13, <1>14, <1>15, <1>16, <1>17
     DEF Next, User, Answers, MainStep, SubmitIncomplete, DismissAlert, ShowDetail, Back,
         PopEnds, vars

\* Nobody is locked out of a form (LoginViewController.swift:113-128), however
\* many requests and answers overlap.
THEOREM FormsAlwaysFreed == Spec => []FormsAreFreed
<1>1. Init => Freed
  BY DEF Init, Freed, FreedIn, After, In, Form
<1>2. TypeOK /\ TypeOK' /\ Freed /\ [Next]_vars => Freed'
  BY FreedKept
<1>3. TypeOK /\ Freed => FormsAreFreed
  <2> SUFFICES ASSUME TypeOK, Freed, main = <<>>, NEW s \in Form, ~Waits(s)
               PROVE  ~overlay[s] /\ ~spinner[s]
    BY DEF FormsAreFreed
  <2>1. ~(pending[s] > 0)
    BY DEF Waits
  <2>2. ~In(main, Lifts(s)) /\ ~In(main, SpinOff(s))
    BY DEF In
  <2> QED
    BY <2>1, <2>2 DEF Freed, FreedIn
<1> QED
  BY <1>1, <1>2, <1>3, TypeCorrect, PTL DEF Spec

-----------------------------------------------------------------------------
(* As long as no tap has slipped through, a form has at most one request   *)
(* on its way, and the overlay is on it or queued before the answer.       *)

Answering(s) == pending[s] > 0 \/ In(main, Reply(s))

NobodyLeft ==
    /\ ~Answering("leaving") /\ ~Answering("gone")
    /\ Answering("former") \/ untold => replaced

OnScreen == \A s \in Form : Answering(s) => root = "auth" /\ top = s /\ ~alert

\* q, p, v: the queue, the requests not answered, whether s is covered.
InOrder(q, s, p, v) ==
    LET waits == p > 0 \/ In(q, Reply(s)) IN
    /\ p <= 1 /\ Once(q, Reply(s)) /\ (p = 1 => ~In(q, Reply(s)))
    /\ waits /\ ~v => Before(q, On(s), Reply(s))
    /\ In(q, On(s)) => waits /\ ~v
    /\ In(q, Off(s)) => ~waits /\ v
    /\ Once(q, On(s)) /\ Once(q, Off(s))

NewScreen == top = "login" => ~In(main, On("registration")) /\ ~In(main, Off("registration"))

Order ==
    /\ NobodyLeft /\ OnScreen /\ NewScreen
    /\ \A s \in Form : InOrder(main, s, pending[s], overlay[s])

\* Steps that do not concern s in the queue.
LEMMA OutOfOrder ==
  ASSUME NEW q \in Seq(Block), NEW s \in Form, NEW n \in Nat, NEW v \in BOOLEAN,
         InOrder(q, s, n, v)
  PROVE  /\ \A b \in Block \ Of(s) : InOrder(Append(q, b), s, n, v)
         /\ q # <<>> /\ q[1] \notin Of(s) => InOrder(Tail(q), s, n, v)
<1>0. /\ s \in Sender
      /\ On(s) \subseteq Of(s) /\ Off(s) \subseteq Of(s) /\ Reply(s) \subseteq Of(s)
  BY Kinds DEF Sender
<1>1. ASSUME NEW b \in Block \ Of(s) PROVE InOrder(Append(q, b), s, n, v)
  <2>1. b \notin On(s) /\ b \notin Off(s) /\ b \notin Reply(s)
    BY <1>0
  <2>2. /\ In(Append(q, b), On(s)) <=> In(q, On(s))
        /\ In(Append(q, b), Off(s)) <=> In(q, Off(s))
        /\ In(Append(q, b), Reply(s)) <=> In(q, Reply(s))
    BY <2>1, QueuedLast
  <2>3. /\ Once(q, On(s)) => Once(Append(q, b), On(s))
        /\ Once(q, Off(s)) => Once(Append(q, b), Off(s))
        /\ Once(q, Reply(s)) => Once(Append(q, b), Reply(s))
    BY <2>1, QueuedLast
  <2>4. Before(q, On(s), Reply(s)) => Before(Append(q, b), On(s), Reply(s))
    BY QueuedLast
  <2> QED
    BY <2>2, <2>3, <2>4 DEF InOrder
<1>2. ASSUME q # <<>>, q[1] \notin Of(s) PROVE InOrder(Tail(q), s, n, v)
  <2>1. q[1] \notin On(s) /\ q[1] \notin Off(s) /\ q[1] \notin Reply(s)
    BY <1>0, <1>2
  <2>2. /\ In(Tail(q), On(s)) <=> In(q, On(s))
        /\ In(Tail(q), Off(s)) <=> In(q, Off(s))
        /\ In(Tail(q), Reply(s)) <=> In(q, Reply(s))
    BY <1>2, <2>1, TakenFirst
  <2>3. /\ Once(q, On(s)) => Once(Tail(q), On(s))
        /\ Once(q, Off(s)) => Once(Tail(q), Off(s))
        /\ Once(q, Reply(s)) => Once(Tail(q), Reply(s))
    BY <1>2, TakenFirst
  <2>4. Before(q, On(s), Reply(s)) => Before(Tail(q), On(s), Reply(s))
    BY <1>2, <2>1, TakenFirst
  <2> QED
    BY <2>2, <2>3, <2>4 DEF InOrder
<1> QED
  BY <1>1, <1>2

\* Nothing in the queue concerns s any more.
LEMMA Nothing ==
  ASSUME NEW q, NEW s \in Form, NEW n, n = 0, NEW v, ~v,
         ~In(q, On(s)), ~In(q, Off(s)), ~In(q, Reply(s))
  PROVE  InOrder(q, s, n, v)
BY DEF InOrder, In, Once

\* A root is replaced, with q in the queue: no form has anything left.
LEMMA OrderReplaced ==
  ASSUME TypeOK, TypeOK', NEW newRoot, NEW q \in Seq(Block), Replace(newRoot, q),
         pending["leaving"] = 0, ~In(q, Reply("leaving")),
         pending["gone"] = 0, ~In(q, Reply("gone"))
  PROVE  /\ ~Answering("leaving")' /\ ~Answering("gone")'
         /\ OnScreen' /\ NewScreen'
         /\ \A s \in Form : InOrder(main', s, pending'[s], overlay'[s])
         /\ /\ pending["former"] = 0 /\ ~In(q, Reply("former"))
            /\ \A s \in Form : pending[s] = 0 /\ ~In(q, Reply(s))
            => ~Answering("former")'
<1>1. main' = QueueAs(q, Form, "former")
  BY DEF Replace
<1>2. /\ "former" \in Sender /\ Form \in SUBSET Sender
      /\ \A s \in Form : s \in Sender \ {"former"}
      /\ "leaving" \in Sender \ {"former"} /\ "leaving" \notin Form
      /\ "gone" \in Sender \ {"former"} /\ "gone" \notin Form
  BY DEF Sender, Form
<1>3. /\ \A s \in Form : pending'[s] = 0
      /\ pending'["leaving"] = 0 /\ pending'["gone"] = 0
      /\ pending'["former"] =
             pending["former"] + pending["login"] + pending["registration"]
  <2>1. pending' = PendingAs(PendingAs(pending, "login", "former"), "registration", "former")
    BY DEF Replace
  <2>2. pending \in [Sender -> Nat]
    BY DEF TypeOK
  <2> QED
    BY <2>1, <2>2 DEF PendingAs, Sender, Form
<1>4. ASSUME NEW s \in Form
      PROVE  /\ ~In(main', On(s)) /\ ~In(main', Off(s)) /\ ~In(main', Reply(s))
             /\ overlay'[s] = FALSE
  <2>1. overlay'[s] = FALSE
    BY DEF Replace
  <2>2. On(s) \in SUBSET Of(s) /\ Off(s) \in SUBSET Of(s) /\ Reply(s) \in SUBSET Of(s)
    BY <1>2, Kinds
  <2> QED
    BY <1>1, <1>2, <2>1, <2>2, OthersRenamed
<1>5. ~In(main', Reply("leaving")) /\ ~In(main', Reply("gone"))
  <2>1. Reply("leaving") \in SUBSET Of("leaving") /\ Reply("gone") \in SUBSET Of("gone")
    BY <1>2, Kinds
  <2> QED
    BY <1>1, <1>2, <2>1, OthersRenamed
<1>6. ASSUME pending["former"] = 0, ~In(q, Reply("former")),
             \A s \in Form : pending[s] = 0 /\ ~In(q, Reply(s))
      PROVE  ~Answering("former")'
  <2>1. ~In(main', Reply("former"))
    BY <1>1, <1>2, <1>6, NoReplyRenamed
  <2>2. pending'["former"] = 0
    BY <1>3, <1>6 DEF Form
  <2> QED
    BY <2>1, <2>2 DEF Answering
<1>7. \A s \in Form : InOrder(main', s, pending'[s], overlay'[s])
  <2> SUFFICES ASSUME NEW s \in Form PROVE InOrder(main', s, pending'[s], overlay'[s])
    OBVIOUS
  <2> QED
    BY <1>3, <1>4, Nothing
<1>8. OnScreen'
  <2>1. ASSUME NEW s \in Form PROVE ~(pending'[s] > 0) /\ ~In(main', Reply(s))
    <3>1. pending'[s] = 0
      BY <1>3
    <3>2. ~In(main', Reply(s))
      BY <1>4
    <3> QED
      BY <3>1, <3>2
  <2> QED
    BY <2>1 DEF OnScreen, Answering
<1>9. NewScreen'
  <2>1. "registration" \in Form
    BY DEF Form
  <2>2. ~In(main', On("registration")) /\ ~In(main', Off("registration"))
    BY <1>4, <2>1
  <2> QED
    BY <2>2 DEF NewScreen
<1>10. ~Answering("leaving")' /\ ~Answering("gone")'
  BY <1>3, <1>5 DEF Answering
<1> QED
  BY <1>6, <1>7, <1>8, <1>9, <1>10

\* Only an answer changes who is to be answered.
LEMMA RepliesStay ==
  ASSUME NEW q \in Seq(Block)
  PROVE  /\ \A b \in Block, x \in Sender : b.do # "answer" =>
                (In(Append(q, b), Reply(x)) <=> In(q, Reply(x)))
         /\ \A x \in Sender : q # <<>> /\ q[1].do # "answer" =>
                (In(Tail(q), Reply(x)) <=> In(q, Reply(x)))
<1>1. \A b \in Block, x \in Sender : b.do # "answer" => b \notin Reply(x)
  BY DEF Reply
<1>2. \A x \in Sender : q # <<>> /\ q[1].do # "answer" => q[1] \notin Reply(x)
  BY DEF Reply
<1> QED
  BY <1>1, <1>2, QueuedLast, TakenFirst

LEMMA NotOfOthers ==
  ASSUME NEW t \in Sender, NEW s \in Sender, t # s
  PROVE  /\ \A v \in BOOLEAN :
                /\ [do |-> "loading", of |-> t, on |-> v] \in Block \ Of(s)
                /\ [do |-> "spinner", of |-> t, on |-> v] \in Block \ Of(s)
                /\ [do |-> "answer", of |-> t, ok |-> v] \in Block \ Of(s)
         /\ \A b \in Of(t) : b \notin Of(s)
BY Blocks DEF Of

\* A form is sent.
LEMMA OrderSubmit ==
  ASSUME TypeOK, TypeOK', Order, ~slipped', NEW t \in Form, Submit(t)
  PROVE  Order'
<1> DEFINE b == [do |-> "loading", of |-> t, on |-> TRUE]
<1>1. /\ root' = root /\ root = "auth" /\ top' = top /\ top = t
      /\ alert' = alert /\ ~alert /\ ~overlay[t] /\ overlay' = overlay
      /\ UNCHANGED <<replaced, untold>>
  BY DEF Submit, TakesTaps, UserActs
<1>2. /\ t \in Sender /\ b \in Block /\ b.do # "answer"
      /\ b \in On(t) /\ b \notin Off(t) /\ b \notin Reply(t)
      /\ main \in Seq(Block) /\ main' = Append(main, b)
      /\ \A s \in Form : s \in Sender /\ pending[s] \in Nat /\ overlay[s] \in BOOLEAN
  BY Blocks DEF Submit, Sender, On, Off, Reply, TypeOK
<1>3. ~Waits(t)
  BY <1>1 DEF Submit, Slips
<1>4. pending[t] = 0 /\ ~In(main, Reply(t))
  BY <1>2, <1>3, Waiting
<1>5. pending'[t] = 1 /\ \A x \in Sender : x # t => pending'[x] = pending[x]
  BY <1>2, <1>4 DEF Submit, TypeOK
<1> HIDE DEF b
<1>6. \A x \in Sender : In(main', Reply(x)) <=> In(main, Reply(x))
  BY <1>2, RepliesStay
<1>7. NobodyLeft'
  <2>1. \A x \in {"leaving", "gone", "former"} : Answering(x)' <=> Answering(x)
    BY <1>5, <1>6 DEF Answering, Sender, Form
  <2> QED
    BY <1>1, <2>1 DEF Order, NobodyLeft
<1>8. OnScreen'
  <2>1. \A s \in Form : s # t => ~Answering(s)
    BY <1>1 DEF Order, OnScreen
  <2>2. \A s \in Form : s # t => ~Answering(s)'
    BY <1>2, <1>5, <1>6, <2>1 DEF Answering
  <2> QED
    BY <1>1, <2>2 DEF OnScreen
<1>9. NewScreen'
  <2>1. CASE t = "registration"
    BY <1>1, <2>1 DEF NewScreen
  <2>2. CASE t = "login"
    <3>1. b \notin On("registration") /\ b \notin Off("registration")
      BY <1>2, <2>2 DEF On, Off
    <3>2. /\ In(main', On("registration")) <=> In(main, On("registration"))
          /\ In(main', Off("registration")) <=> In(main, Off("registration"))
      BY <1>2, <3>1, QueuedLast
    <3> QED
      BY <1>1, <2>2, <3>2 DEF Order, NewScreen
  <2> QED
    BY <2>1, <2>2 DEF Form
<1>10. ASSUME NEW s \in Form PROVE InOrder(main', s, pending'[s], overlay'[s])
  <2>1. CASE s # t
    <3>1. b \in Block \ Of(s)
      BY <1>2, <2>1, NotOfOthers DEF b
    <3>2. pending'[s] = pending[s] /\ overlay'[s] = overlay[s]
      BY <1>1, <1>2, <1>5, <2>1
    <3> QED
      BY <1>2, <3>1, <3>2, OutOfOrder DEF Order
  <2>2. CASE s = t
    <3>1. ~In(main, On(t)) /\ ~In(main, Off(t)) /\ Once(main, Reply(t))
      BY <1>1, <1>4 DEF Order, InOrder
    <3>2. /\ ~In(main', Reply(t)) /\ ~In(main', Off(t))
          /\ Before(main', On(t), Reply(t))
      BY <1>2, <1>4, <1>6, <3>1, QueuedLast
    <3>3. Once(main', On(t)) /\ Once(main', Reply(t)) /\ Once(main', Off(t))
      <4>1. Once(main, On(t)) /\ Once(main, Off(t))
        BY DEF Order, InOrder
      <4> QED
        BY <1>2, <3>1, <4>1, QueuedLast
    <3>4. ~overlay'[t]
      BY <1>1
    <3> QED
      BY <1>5, <2>2, <3>2, <3>3, <3>4 DEF InOrder
  <2> QED
    BY <2>1, <2>2
<1> QED
  BY <1>7, <1>8, <1>9, <1>10 DEF Order

\* A form that takes taps is not on its way; nor is the other one.
LEMMA OrderTapped ==
  ASSUME TypeOK, Order, ~slipped', NEW t \in Form, TakesTaps(t), Slips(t)
  PROVE  \A s \in Form : ~Answering(s)
<1>1. ~Waits(t) /\ top = t
  BY DEF TakesTaps, Slips
<1>2. ~Answering(t)
  BY <1>1, Waiting DEF Answering, Sender
<1> QED
  BY <1>1, <1>2 DEF Order, OnScreen

LEMMA OrderLogin ==
  ASSUME TypeOK, TypeOK', Order, ~slipped', GoToLogin
  PROVE  Order'
<1>1. /\ root' = root /\ root = "auth" /\ top = "registration" /\ top' = "login"
      /\ alert' = alert /\ UNCHANGED <<replaced, untold>>
      /\ main' = QueueAs(main, {"registration"}, "leaving")
      /\ ~overlay'["registration"] /\ overlay'["login"] = overlay["login"]
  BY DEF GoToLogin, TakesTaps, TypeOK, Form
<1>2. \A s \in Form : ~Answering(s)
  <2>1. "registration" \in Form
    BY DEF Form
  <2> QED
    BY <2>1, OrderTapped DEF GoToLogin
<1>3. /\ main \in Seq(Block) /\ {"registration"} \in SUBSET Sender /\ "leaving" \in Sender
      /\ \A x \in {"login", "gone", "former"} :
             x \in Sender \ {"leaving"} /\ x \notin {"registration"}
      /\ "registration" \in Sender \ {"leaving"} /\ "registration" \in {"registration"}
  BY DEF TypeOK, Sender, Form
<1>4. /\ \A s \in Form : pending[s] = 0 /\ ~In(main, Reply(s))
      /\ pending["leaving"] = 0 /\ ~In(main, Reply("leaving"))
  <2>1. \A s \in Sender : ~Answering(s) => pending[s] = 0 /\ ~In(main, Reply(s))
    BY DEF Answering, TypeOK
  <2> QED
    BY <1>2, <2>1 DEF Order, NobodyLeft, Sender
<1>5. /\ \A x \in {"login", "gone", "former"} : pending'[x] = pending[x]
      /\ pending'["registration"] = 0 /\ pending'["leaving"] = 0
  <2>1. pending' = PendingAs(pending, "registration", "leaving") /\ pending["registration"] = 0
    BY <1>4 DEF GoToLogin, Form
  <2> QED
    BY <1>4, <2>1 DEF PendingAs, TypeOK, Sender, Form
<1>6. ASSUME NEW x \in {"login", "gone", "former"}
      PROVE  In(main', Reply(x)) <=> In(main, Reply(x))
  <2>1. Reply(x) \in SUBSET Of(x)
    BY <1>3, Kinds
  <2> QED
    BY <1>1, <1>3, <2>1, OthersRenamed
<1>7. ~In(main', Reply("leaving"))
  <2>1. ~In(main, Reply("leaving")) /\ \A x \in {"registration"} : ~In(main, Reply(x))
    BY <1>4 DEF Form
  <2> QED
    BY <1>1, <1>3, <2>1, NoReplyRenamed
<1>8. /\ ~In(main', On("registration")) /\ ~In(main', Off("registration"))
      /\ ~In(main', Reply("registration"))
  <2>1. /\ On("registration") \in SUBSET Of("registration")
        /\ Off("registration") \in SUBSET Of("registration")
        /\ Reply("registration") \in SUBSET Of("registration")
    BY <1>3, Kinds
  <2> QED
    BY <1>1, <1>3, <2>1, OthersRenamed
<1>9. NobodyLeft'
  <2>1. ~Answering("leaving")'
    BY <1>5, <1>7 DEF Answering
  <2>2. \A x \in {"gone", "former"} : Answering(x)' <=> Answering(x)
    BY <1>5, <1>6 DEF Answering
  <2> QED
    BY <1>1, <2>1, <2>2 DEF Order, NobodyLeft
<1>10. InOrder(main', "registration", pending'["registration"], overlay'["registration"])
  BY <1>1, <1>5, <1>8, Nothing DEF Form
<1>11. InOrder(main', "login", pending'["login"], overlay'["login"])
  <2>1. "login" \in Form /\ "login" \in Sender
    BY DEF Sender, Form
  <2>2. On("login") \in SUBSET Of("login") /\ Off("login") \in SUBSET Of("login")
        /\ Reply("login") \in SUBSET Of("login")
    BY <2>1, Kinds
  <2>3. /\ In(main', On("login")) <=> In(main, On("login"))
        /\ In(main', Off("login")) <=> In(main, Off("login"))
        /\ Once(main', On("login")) <=> Once(main, On("login"))
        /\ Once(main', Off("login")) <=> Once(main, Off("login"))
        /\ Once(main', Reply("login")) <=> Once(main, Reply("login"))
        /\ Before(main', On("login"), Reply("login")) <=> Before(main, On("login"), Reply("login"))
    BY <1>1, <1>3, <2>2, OthersRenamed
  <2>4. InOrder(main, "login", pending["login"], overlay["login"])
    BY <2>1 DEF Order
  <2>5. pending'["login"] = pending["login"] /\ (In(main', Reply("login")) <=> In(main, Reply("login")))
    BY <1>5, <1>6
  <2>6. overlay'["login"] = overlay["login"]
    BY <1>1
  <2> QED
    BY <2>3, <2>4, <2>5, <2>6 DEF InOrder
<1>12. OnScreen'
  <2>1. ~Answering("login")' /\ ~Answering("registration")'
    BY <1>4, <1>5, <1>6, <1>8 DEF Answering, Form
  <2> QED
    BY <2>1 DEF OnScreen, Form
<1> QED
  BY <1>8, <1>9, <1>10, <1>11, <1>12 DEF Order, NewScreen, Form

LEMMA OrderRelease ==
  ASSUME TypeOK, TypeOK', Order, Release
  PROVE  Order'
<1>0. /\ main' = QueueAs(main, {"leaving"}, "gone") /\ main \in Seq(Block)
      /\ {"leaving"} \in SUBSET Sender /\ "gone" \in Sender
  BY DEF Release, TypeOK, Sender
<1>1. UNCHANGED <<root, top, overlay, alert, replaced, untold>>
  BY DEF Release, history
<1>2. /\ main \in Seq(Block) /\ {"leaving"} \in SUBSET Sender /\ "gone" \in Sender
      /\ \A x \in Form \union {"former"} : x \in Sender \ {"gone"} /\ x \notin {"leaving"}
      /\ "leaving" \in Sender \ {"gone"} /\ "leaving" \in {"leaving"}
  BY DEF TypeOK, Sender, Form
<1>3. /\ pending["leaving"] = 0 /\ ~In(main, Reply("leaving"))
      /\ pending["gone"] = 0 /\ ~In(main, Reply("gone"))
  <2>1. \A s \in Sender : ~Answering(s) => pending[s] = 0 /\ ~In(main, Reply(s))
    BY DEF Answering, TypeOK
  <2> QED
    BY <2>1 DEF Order, NobodyLeft, Sender
<1>4. /\ \A x \in Form \union {"former"} : pending'[x] = pending[x]
      /\ pending'["leaving"] = 0 /\ pending'["gone"] = 0
  BY <1>3 DEF Release, PendingAs, TypeOK, Sender, Form
<1>5. ASSUME NEW x \in Form \union {"former"}
      PROVE  In(main', Reply(x)) <=> In(main, Reply(x))
  <2>1. x \in Sender \ {"gone"} /\ x \notin {"leaving"}
    BY <1>2
  <2>2. Reply(x) \in SUBSET Of(x)
    BY <2>1, Kinds
  <2> QED
    BY <1>0, <2>1, <2>2, OthersRenamed
<1>6. ~In(main', Reply("gone")) /\ ~In(main', Reply("leaving"))
  <2>1. ~In(main', Reply("gone"))
    <3>1. \A x \in {"leaving"} : ~In(main, Reply(x))
      BY <1>3
    <3> QED
      BY <1>0, <1>3, <3>1, NoReplyRenamed
  <2>2. Reply("leaving") \in SUBSET Of("leaving")
    BY <1>2, Kinds
  <2> QED
    BY <1>0, <1>2, <2>1, <2>2, OthersRenamed
<1>7. NobodyLeft'
  <2>1. ~Answering("leaving")' /\ ~Answering("gone")'
    BY <1>4, <1>6 DEF Answering
  <2>2. Answering("former")' <=> Answering("former")
    BY <1>4, <1>5 DEF Answering
  <2> QED
    BY <1>1, <2>1, <2>2 DEF Order, NobodyLeft
<1>8. ASSUME NEW s \in Form
      PROVE  /\ InOrder(main', s, pending'[s], overlay'[s])
             /\ In(main', On(s)) <=> In(main, On(s))
             /\ In(main', Off(s)) <=> In(main, Off(s))
  <2>0. s \in Sender \ {"gone"} /\ s \notin {"leaving"}
    BY <1>2
  <2>1. On(s) \in SUBSET Of(s) /\ Off(s) \in SUBSET Of(s) /\ Reply(s) \in SUBSET Of(s)
    BY <2>0, Kinds
  <2>2. /\ In(main', On(s)) <=> In(main, On(s))
        /\ In(main', Off(s)) <=> In(main, Off(s))
        /\ Once(main', On(s)) <=> Once(main, On(s))
        /\ Once(main', Off(s)) <=> Once(main, Off(s))
        /\ Once(main', Reply(s)) <=> Once(main, Reply(s))
        /\ Before(main', On(s), Reply(s)) <=> Before(main, On(s), Reply(s))
    BY <1>0, <2>0, <2>1, OthersRenamed
  <2>3. InOrder(main, s, pending[s], overlay[s])
    BY DEF Order
  <2>4. pending'[s] = pending[s] /\ (In(main', Reply(s)) <=> In(main, Reply(s)))
    BY <1>4, <1>5
  <2>5. overlay'[s] = overlay[s]
    BY <1>1
  <2>6. InOrder(main', s, pending'[s], overlay'[s])
    BY <2>2, <2>3, <2>4, <2>5 DEF InOrder
  <2> QED
    BY <2>2, <2>6
<1>9. OnScreen'
  <2>1. \A s \in Form : Answering(s)' <=> Answering(s)
    BY <1>4, <1>5 DEF Answering
  <2> QED
    BY <1>1, <2>1 DEF Order, OnScreen
<1>10. NewScreen'
  <2>1. "registration" \in Form
    BY DEF Form
  <2> QED
    BY <1>1, <1>8, <2>1 DEF Order, NewScreen
<1> QED
  BY <1>7, <1>8, <1>9, <1>10 DEF Order

LEMMA OrderAnswer ==
  ASSUME TypeOK, TypeOK', Order, NEW t \in Sender, NEW ok \in BOOLEAN, Answer(t, ok)
  PROVE  Order'
<1> DEFINE b == [do |-> "answer", of |-> t, ok |-> ok]
<1>1. main' = Append(main, b) /\ main \in Seq(Block) /\ pending[t] > 0
  BY DEF Answer, TypeOK
<1>2. UNCHANGED <<root, top, alert, overlay, replaced, untold>>
  BY DEF Answer, history
<1>3. /\ b \in Block /\ b \in Reply(t)
      /\ \A x \in Sender : b \notin On(x) /\ b \notin Off(x) /\ (x # t => b \notin Reply(x))
  BY Blocks DEF On, Off, Reply
<1>4. /\ pending'[t] = pending[t] - 1 /\ pending[t] \in Nat
      /\ \A x \in Sender : x # t => pending'[x] = pending[x]
  BY DEF Answer, TypeOK
<1> HIDE DEF b
<1>5. /\ In(main', Reply(t))
      /\ \A x \in Sender : x # t => (In(main', Reply(x)) <=> In(main, Reply(x)))
  BY <1>1, <1>3, QueuedLast
<1>6. \A x \in Sender : Answering(x)' <=> Answering(x)
  <2>1. Answering(t)' /\ Answering(t)
    BY <1>1, <1>5 DEF Answering
  <2>2. \A x \in Sender : x # t => (Answering(x)' <=> Answering(x))
    BY <1>4, <1>5 DEF Answering
  <2> QED
    BY <2>1, <2>2
<1>7. NobodyLeft'
  BY <1>2, <1>6 DEF Order, NobodyLeft, Sender
<1>8. OnScreen'
  BY <1>2, <1>6 DEF Order, OnScreen, Sender
<1>9. \A x \in Sender : /\ In(main', On(x)) <=> In(main, On(x))
                        /\ In(main', Off(x)) <=> In(main, Off(x))
  BY <1>1, <1>3, QueuedLast
<1>10. NewScreen'
  <2>1. "registration" \in Sender
    BY DEF Sender, Form
  <2> QED
    BY <1>2, <1>9, <2>1 DEF Order, NewScreen
<1>11. ASSUME NEW s \in Form PROVE InOrder(main', s, pending'[s], overlay'[s])
  <2>1. s \in Sender /\ pending[s] \in Nat /\ overlay[s] \in BOOLEAN
    BY DEF TypeOK, Sender
  <2>2. InOrder(main, s, pending[s], overlay[s]) /\ overlay'[s] = overlay[s]
    BY <1>2 DEF Order
  <2>3. CASE s # t
    <3>1. b \in Block \ Of(s)
      BY <2>1, <2>3, NotOfOthers DEF b
    <3>2. pending'[s] = pending[s]
      BY <1>4, <2>1, <2>3
    <3> QED
      BY <1>1, <2>1, <2>2, <3>1, <3>2, OutOfOrder
  <2>4. CASE s = t
    <3>1. pending[s] = 1 /\ pending'[s] = 0
      BY <1>1, <1>4, <2>2, <2>4 DEF InOrder
    <3>2. Once(main, Reply(s)) /\ ~In(main, Reply(s)) /\ Once(main, On(s)) /\ Once(main, Off(s))
      BY <2>2, <3>1 DEF InOrder
    <3>3. Once(main', Reply(s)) /\ Once(main', On(s)) /\ Once(main', Off(s))
      BY <1>1, <1>3, <2>1, <3>2, QueuedLast
    <3>4. Before(main, On(s), Reply(s)) => Before(main', On(s), Reply(s))
      BY <1>1, <1>3, QueuedLast
    <3>5. /\ ~overlay[s] => Before(main, On(s), Reply(s))
          /\ In(main, On(s)) => ~overlay[s]
          /\ ~In(main, Off(s))
      BY <1>1, <2>2, <2>4 DEF InOrder
    <3>6. In(main', Reply(s)) /\ (In(main', On(s)) <=> In(main, On(s))) /\ ~In(main', Off(s))
      BY <1>5, <1>9, <2>1, <2>4, <3>5
    <3> QED
      BY <2>2, <3>1, <3>3, <3>4, <3>5, <3>6 DEF InOrder
  <2> QED
    BY <2>3, <2>4
<1> QED
  BY <1>7, <1>8, <1>10, <1>11 DEF Order

\* A step that leaves the queue's loadings and answers alone.
LEMMA OrderIdle ==
  ASSUME TypeOK, TypeOK', Order, UNCHANGED <<root, top, pending, overlay, replaced, untold>>,
         main' = main \/ (main # <<>> /\ main[1] \in Block /\ main[1].do = "spinner" /\ main' = Tail(main))
             \/ main' = Append(main, [do |-> "showAuth"]),
         alert' => alert
  PROVE  Order'
<1>1. /\ main \in Seq(Block) /\ [do |-> "showAuth"] \in Block
      /\ \A x \in Sender : [do |-> "showAuth"] \notin Of(x)
      /\ \A s \in Form : s \in Sender /\ pending[s] \in Nat /\ overlay[s] \in BOOLEAN
  BY Blocks DEF TypeOK, Sender, Of
<1>2. ASSUME NEW x \in Sender
      PROVE  /\ In(main', On(x)) => In(main, On(x))
             /\ In(main', Off(x)) => In(main, Off(x))
             /\ In(main', Reply(x)) <=> In(main, Reply(x))
  <2>1. CASE main' = main
    BY <2>1
  <2>2. CASE main # <<>> /\ main[1] \in Block /\ main[1].do = "spinner" /\ main' = Tail(main)
    <3>1. main[1] \notin Reply(x)
      BY <2>2 DEF Reply
    <3> QED
      BY <1>1, <2>2, <3>1, TakenFirst
  <2>3. CASE main' = Append(main, [do |-> "showAuth"])
    <3>1. /\ [do |-> "showAuth"] \notin On(x) /\ [do |-> "showAuth"] \notin Off(x)
          /\ [do |-> "showAuth"] \notin Reply(x)
      BY <1>1, Kinds
    <3> QED
      BY <1>1, <2>3, <3>1, QueuedLast
  <2> QED
    BY <2>1, <2>2, <2>3
<1>3. \A x \in Sender : Answering(x)' <=> Answering(x)
  BY <1>2 DEF Answering
<1>4. NobodyLeft' /\ OnScreen'
  BY <1>3 DEF Order, NobodyLeft, OnScreen, Sender
<1>5. NewScreen'
  <2>1. "registration" \in Sender
    BY DEF Sender, Form
  <2> QED
    BY <1>2, <2>1 DEF Order, NewScreen
<1>6. ASSUME NEW s \in Form PROVE InOrder(main', s, pending'[s], overlay'[s])
  <2>1. InOrder(main, s, pending[s], overlay[s]) /\ overlay'[s] = overlay[s]
        /\ pending'[s] = pending[s]
    BY DEF Order
  <2>2. CASE main' = main
    BY <2>1, <2>2
  <2>3. CASE main # <<>> /\ main[1] \in Block /\ main[1].do = "spinner" /\ main' = Tail(main)
    <3>1. main[1] \notin On(s) /\ main[1] \notin Off(s) /\ main[1] \notin Reply(s)
      BY <2>3 DEF On, Off, Reply
    <3>2. /\ In(main', On(s)) <=> In(main, On(s))
          /\ In(main', Off(s)) <=> In(main, Off(s))
          /\ In(main', Reply(s)) <=> In(main, Reply(s))
          /\ Before(main, On(s), Reply(s)) => Before(main', On(s), Reply(s))
      BY <1>1, <2>3, <3>1, TakenFirst
    <3>3. /\ Once(main, On(s)) => Once(main', On(s))
          /\ Once(main, Off(s)) => Once(main', Off(s))
          /\ Once(main, Reply(s)) => Once(main', Reply(s))
      BY <1>1, <2>3, TakenFirst
    <3> QED
      BY <2>1, <3>2, <3>3 DEF InOrder
  <2>4. CASE main' = Append(main, [do |-> "showAuth"])
    BY <1>1, <2>1, <2>4, OutOfOrder
  <2> QED
    BY <2>2, <2>3, <2>4
<1> QED
  BY <1>4, <1>5, <1>6 DEF Order

LEMMA OrderLoading ==
  ASSUME TypeOK, TypeOK', Order, RunLoading
  PROVE  Order'
<1>1. /\ main \in Seq(Block) /\ main # <<>> /\ Head(main) = main[1] /\ main[1] \in Block
      /\ main[1].do = "loading" /\ Tail(main) \in Seq(Block)
  <2>1. main \in Seq(Block) /\ main # <<>>
    BY DEF RunLoading, NextBlock, TypeOK
  <2> QED
    BY <2>1, Blocks, Served DEF RunLoading, NextBlock
<1> DEFINE t == main[1].of
           b == [do |-> "spinner", of |-> t, on |-> main[1].on]
<1>2. t \in Sender /\ main[1].on \in BOOLEAN /\ b \in Block /\ b.do = "spinner" /\ b.of = t
  BY <1>1, Blocks
<1>3. UNCHANGED <<root, top, pending, alert, replaced, untold>>
  BY DEF RunLoading, history
<1>4. main' = Tail(main) \/ main' = Append(Tail(main), b)
  BY <1>1 DEF RunLoading
<1>5. /\ \A s \in Form : s # t => overlay'[s] = overlay[s]
      /\ t \in Form => overlay'[t] = main[1].on
  BY <1>1 DEF RunLoading, TypeOK
<1> HIDE DEF b
<1>6. ASSUME NEW x \in Sender
      PROVE  /\ In(main', On(x)) <=> In(Tail(main), On(x))
             /\ In(main', Off(x)) <=> In(Tail(main), Off(x))
             /\ In(main', Reply(x)) <=> In(main, Reply(x))
  <2>1. b \notin On(x) /\ b \notin Off(x) /\ b \notin Reply(x)
    BY <1>2 DEF On, Off, Reply
  <2>2. In(Tail(main), Reply(x)) <=> In(main, Reply(x))
    BY <1>1, RepliesStay
  <2>3. \A B \in {On(x), Off(x), Reply(x)} :
            In(Append(Tail(main), b), B) <=> In(Tail(main), B)
    BY <1>1, <1>2, <2>1, QueuedLast
  <2>4. CASE main' = Tail(main)
    BY <2>2, <2>4
  <2>5. CASE main' = Append(Tail(main), b)
    BY <2>2, <2>3, <2>5
  <2> QED
    BY <1>4, <2>4, <2>5
<1>7. \A x \in Sender : Answering(x)' <=> Answering(x)
  BY <1>3, <1>6 DEF Answering
<1>8. NobodyLeft' /\ OnScreen'
  BY <1>3, <1>7 DEF Order, NobodyLeft, OnScreen, Sender
<1>9. NewScreen'
  <2>1. "registration" \in Sender
    BY DEF Sender, Form
  <2>2. /\ In(Tail(main), On("registration")) => In(main, On("registration"))
        /\ In(Tail(main), Off("registration")) => In(main, Off("registration"))
    BY <1>1, TakenFirst
  <2> QED
    BY <1>3, <1>6, <2>1, <2>2 DEF Order, NewScreen
<1>10. ASSUME NEW s \in Form PROVE InOrder(main', s, pending'[s], overlay'[s])
  <2>1. s \in Sender /\ pending[s] \in Nat /\ overlay[s] \in BOOLEAN
    BY DEF TypeOK, Sender
  <2>2. InOrder(main, s, pending[s], overlay[s]) /\ pending'[s] = pending[s]
    BY <1>3 DEF Order
  <2>3. CASE s # t
    <3>1. b \in Block \ Of(s) /\ main[1] \notin Of(s)
      BY <1>1, <1>2, <2>3 DEF Of
    <3>2. InOrder(Tail(main), s, pending[s], overlay[s])
      BY <1>1, <2>1, <2>2, <3>1, OutOfOrder
    <3>3. InOrder(Append(Tail(main), b), s, pending[s], overlay[s])
      BY <1>1, <2>1, <3>1, <3>2, OutOfOrder
    <3> QED
      BY <1>4, <1>5, <2>2, <2>3, <3>2, <3>3
  <2>4. CASE s = t
    <3>1. Once(main, On(s)) /\ Once(main, Off(s)) /\ Once(main, Reply(s))
      BY <2>2 DEF InOrder
    <3>2. b \notin On(s) /\ b \notin Off(s) /\ b \notin Reply(s)
      BY <1>2 DEF On, Off, Reply
    <3>3. /\ Once(Tail(main), On(s)) /\ Once(Tail(main), Off(s)) /\ Once(Tail(main), Reply(s))
          /\ main[1] \in On(s) => ~In(Tail(main), On(s))
          /\ main[1] \in Off(s) => ~In(Tail(main), Off(s))
      BY <1>1, <3>1, TakenFirst
    <3>4. Once(main', On(s)) /\ Once(main', Off(s)) /\ Once(main', Reply(s))
      <4>1. \A B \in {On(s), Off(s), Reply(s)} :
                Once(Tail(main), B) => Once(Append(Tail(main), b), B)
        BY <1>1, <1>2, <3>2, QueuedLast
      <4> QED
        BY <1>4, <3>3, <4>1
    <3>5. CASE main[1].on
      <4>1. main[1] \in On(s) /\ In(main, On(s))
        BY <1>1, <2>4, <3>5, TakenFirst DEF On
      <4>2. ~In(main, Off(s)) /\ overlay'[s]
        BY <1>5, <2>2, <2>4, <3>5, <4>1 DEF InOrder
      <4>3. ~In(Tail(main), On(s)) /\ ~In(Tail(main), Off(s))
        BY <1>1, <3>3, <4>1, <4>2, TakenFirst
      <4> QED
        BY <1>6, <2>1, <2>2, <3>4, <4>2, <4>3 DEF InOrder
    <3>6. CASE ~main[1].on
      <4>1. main[1] \in Off(s) /\ In(main, Off(s))
        BY <1>1, <2>4, <3>6, TakenFirst DEF Off
      <4>2. ~(pending[s] > 0 \/ In(main, Reply(s))) /\ ~In(main, On(s)) /\ ~overlay'[s]
        BY <1>5, <2>2, <2>4, <3>6, <4>1 DEF InOrder
      <4>3. ~In(Tail(main), On(s)) /\ ~In(Tail(main), Off(s))
        BY <1>1, <3>3, <4>1, <4>2, TakenFirst
      <4> QED
        BY <1>6, <2>1, <2>2, <3>4, <4>2, <4>3 DEF InOrder
    <3> QED
      BY <3>5, <3>6
  <2> QED
    BY <2>3, <2>4
<1> QED
  BY <1>8, <1>9, <1>10 DEF Order

\* An answer at the head of the queue is the last of its form, which is
\* covered; nobody else is to be answered, and nothing else is queued for it.
LEMMA OrderHead ==
  ASSUME TypeOK, Order, NextBlock("answer")
  PROVE  LET t == main[1].of IN
         /\ main \in Seq(Block) /\ main # <<>> /\ Head(main) = main[1] /\ main[1] \in Block
         /\ Tail(main) \in Seq(Block) /\ t \in Form \union {"former"}
         /\ t = "former" => replaced
         /\ t \in Form =>
                /\ root = "auth" /\ top = t /\ ~alert
                /\ pending[t] = 0 /\ ~In(Tail(main), Reply(t)) /\ overlay[t]
                /\ ~In(main, On(t)) /\ ~In(main, Off(t))
         /\ \A s \in Form : s # t => (pending[s] = 0 /\ ~In(main, Reply(s))) \/ t = "former"
<1> DEFINE t == main[1].of
<1>1. /\ main \in Seq(Block) /\ main # <<>> /\ Head(main) = main[1] /\ main[1] \in Block
      /\ Tail(main) \in Seq(Block) /\ main[1].do = "answer"
  <2>1. main \in Seq(Block) /\ main # <<>>
    BY DEF NextBlock, TypeOK
  <2> QED
    BY <2>1, Blocks, Served DEF NextBlock
<1>2. t \in Sender /\ main[1] \in Reply(t)
  BY <1>1, Blocks DEF Reply
<1>3. In(main, Reply(t))
  BY <1>1, <1>2, TakenFirst
<1>4. Answering(t)
  BY <1>3 DEF Answering
<1>5. t \in Form \union {"former"} /\ (t = "former" => replaced)
  BY <1>2, <1>4 DEF Order, NobodyLeft, Sender
<1>6. ASSUME t \in Form
      PROVE  /\ root = "auth" /\ top = t /\ ~alert
             /\ pending[t] = 0 /\ ~In(Tail(main), Reply(t)) /\ overlay[t]
             /\ ~In(main, On(t)) /\ ~In(main, Off(t))
             /\ \A s \in Form : s # t => pending[s] = 0 /\ ~In(main, Reply(s))
  <2>1. InOrder(main, t, pending[t], overlay[t]) /\ pending[t] \in Nat
    BY <1>2, <1>6 DEF Order, TypeOK
  <2>2. root = "auth" /\ top = t /\ ~alert
    BY <1>4, <1>6 DEF Order, OnScreen
  <2>3. ~Before(main, On(t), Reply(t))
    BY <1>1, <1>2, TakenFirst
  <2>4. pending[t] = 0 /\ overlay[t] /\ ~In(main, On(t)) /\ ~In(main, Off(t))
    BY <1>3, <2>1, <2>3 DEF InOrder
  <2>5. ~In(Tail(main), Reply(t))
    BY <1>1, <1>2, <2>1, TakenFirst DEF InOrder
  <2>6. ASSUME NEW s \in Form, s # t PROVE pending[s] = 0 /\ ~In(main, Reply(s))
    <3>1. ~Answering(s)
      BY <2>2, <2>6 DEF Order, OnScreen
    <3>2. pending[s] \in Nat
      BY DEF TypeOK, Sender
    <3> QED
      BY <3>1, <3>2 DEF Answering
  <2> QED
    BY <2>2, <2>4, <2>5, <2>6
<1> QED
  BY <1>1, <1>5, <1>6

LEMMA OrderError ==
  ASSUME TypeOK, TypeOK', Order, RunError
  PROVE  Order'
<1>0. PICK t \in Form \union {"former"} : t = main[1].of
  BY OrderHead DEF RunError, NextBlock
<1> DEFINE b == [do |-> "loading", of |-> t, on |-> FALSE]
<1>1. /\ main \in Seq(Block) /\ main # <<>> /\ Head(main) = main[1] /\ main[1] \in Block
      /\ Tail(main) \in Seq(Block)
      /\ t = "former" => replaced
      /\ t \in Form =>
             /\ root = "auth" /\ top = t /\ ~alert
             /\ pending[t] = 0 /\ ~In(Tail(main), Reply(t)) /\ overlay[t]
             /\ ~In(main, On(t)) /\ ~In(main, Off(t))
      /\ main[1].do = "answer" /\ main[1].of = t
  BY <1>0, OrderHead DEF RunError, NextBlock
<1>2. /\ UNCHANGED <<root, top, overlay, pending, replaced>>
      /\ main' = Append(Tail(main), b)
      /\ t \in Form => untold' = untold
      /\ t \notin Form => alert' = alert
  BY <1>1 DEF RunError, Unloaded, forms, Form, TypeOK
<1>3. /\ t \in Sender /\ b \in Block /\ b.do # "answer" /\ b \notin On(t) /\ b \in Off(t)
      /\ \A x \in Sender : b \notin Reply(x) /\ (x # t => main[1] \notin Of(x) /\ b \notin Of(x))
  BY <1>1, Blocks DEF Sender, Of, On, Off, Reply
<1> HIDE DEF b
<1>4. ASSUME NEW x \in Sender, x # t PROVE In(main', Reply(x)) <=> In(main, Reply(x))
  <2>1. main[1] \notin Reply(x)
    BY <1>3, <1>4, Kinds
  <2>2. In(Tail(main), Reply(x)) <=> In(main, Reply(x))
    BY <1>1, <2>1, TakenFirst
  <2> QED
    BY <1>1, <1>2, <1>3, <2>2, RepliesStay
<1>5. ASSUME t \in Form PROVE ~Answering(t)'
  <2>1. ~In(main', Reply(t))
    BY <1>1, <1>2, <1>3, <1>5, RepliesStay
  <2>2. ~(pending'[t] > 0)
    BY <1>1, <1>2, <1>5
  <2> QED
    BY <2>1, <2>2 DEF Answering
<1>6. \A x \in Sender : x # t => (Answering(x)' <=> Answering(x))
  BY <1>2, <1>4 DEF Answering
<1>7. NobodyLeft'
  <2>1. ~Answering("leaving")' /\ ~Answering("gone")'
    BY <1>1, <1>6 DEF Order, NobodyLeft, Sender, Form
  <2>2. CASE t = "former"
    BY <1>1, <1>2, <2>1, <2>2 DEF NobodyLeft
  <2>3. CASE t \in Form
    <3>1. Answering("former")' <=> Answering("former")
      BY <1>6, <2>3 DEF Sender, Form
    <3> QED
      BY <1>2, <2>1, <2>3, <3>1 DEF Order, NobodyLeft
  <2> QED
    BY <1>1, <2>2, <2>3
<1>8. OnScreen'
  <2>1. CASE t = "former"
    <3>1. "former" \notin Form /\ \A s \in Form : s \in Sender /\ s # t
      BY <2>1 DEF Sender, Form
    <3> QED
      BY <1>2, <1>6, <2>1, <3>1 DEF Order, OnScreen
  <2>2. CASE t \in Form
    <3>1. \A s \in Form : s # t => ~Answering(s)
      BY <1>1, <2>2 DEF Order, OnScreen
    <3>2. \A s \in Form : s # t => ~Answering(s)'
      BY <1>6, <3>1 DEF Sender
    <3>3. \A s \in Form : ~Answering(s)'
      BY <1>5, <2>2, <3>2
    <3> QED
      BY <3>3 DEF OnScreen
  <2> QED
    BY <1>1, <2>1, <2>2
<1>9. ASSUME NEW s \in Form
      PROVE  /\ InOrder(main', s, pending'[s], overlay'[s])
             /\ s # t => (In(main', On(s)) <=> In(main, On(s)))
                         /\ (In(main', Off(s)) <=> In(main, Off(s)))
  <2>1. s \in Sender /\ pending[s] \in Nat /\ overlay[s] \in BOOLEAN
    BY DEF TypeOK, Sender
  <2>2. /\ InOrder(main, s, pending[s], overlay[s])
        /\ pending'[s] = pending[s] /\ overlay'[s] = overlay[s]
    BY <1>2 DEF Order
  <2>3. CASE s # t
    <3>1. b \in Block \ Of(s) /\ main[1] \notin Of(s)
      BY <1>3, <2>1, <2>3
    <3>2. InOrder(Tail(main), s, pending[s], overlay[s])
      BY <1>1, <2>1, <2>2, <3>1, OutOfOrder
    <3>3. InOrder(main', s, pending[s], overlay[s])
      BY <1>1, <1>2, <2>1, <3>1, <3>2, OutOfOrder
    <3>4. \A B \in {On(s), Off(s)} : main[1] \notin B /\ b \notin B
      BY <2>1, <3>1, Kinds
    <3>5. \A B \in {On(s), Off(s)} : In(main', B) <=> In(main, B)
      <4>1. \A B \in {On(s), Off(s)} : In(Tail(main), B) <=> In(main, B)
        BY <1>1, <3>4, TakenFirst
      <4>2. \A B \in {On(s), Off(s)} : In(main', B) <=> In(Tail(main), B)
        BY <1>1, <1>2, <1>3, <3>4, QueuedLast
      <4> QED
        BY <4>1, <4>2
    <3> QED
      BY <2>2, <3>3, <3>5
  <2>4. CASE s = t
    <3>1. /\ ~In(Tail(main), On(t)) /\ ~In(Tail(main), Off(t)) /\ ~In(Tail(main), Reply(t))
          /\ Once(Tail(main), On(t)) /\ Once(Tail(main), Off(t)) /\ Once(Tail(main), Reply(t))
      <4>1. ~In(Tail(main), On(t)) /\ ~In(Tail(main), Off(t)) /\ ~In(Tail(main), Reply(t))
        BY <1>1, <2>4, TakenFirst
      <4> QED
        BY <4>1 DEF In, Once
    <3>2. ~In(main', On(t)) /\ ~In(main', Reply(t))
      <4>1. \A B \in {On(t), Reply(t)} : b \notin B /\ ~In(Tail(main), B)
        BY <1>3, <3>1
      <4>2. \A B \in {On(t), Reply(t)} : ~In(main', B)
        BY <1>1, <1>2, <1>3, <4>1, QueuedLast
      <4> QED
        BY <4>2
    <3>3. Once(main', On(t)) /\ Once(main', Off(t)) /\ Once(main', Reply(t))
      <4>1. \A B \in {On(t), Off(t), Reply(t)} : Once(Tail(main), B) /\ ~In(Tail(main), B)
        BY <3>1
      <4>2. \A B \in {On(t), Off(t), Reply(t)} : Once(main', B)
        BY <1>1, <1>2, <1>3, <4>1, QueuedLast
      <4> QED
        BY <4>2
    <3>4. pending'[t] = 0 /\ overlay'[t]
      BY <1>1, <1>2, <2>4
    <3>5. InOrder(main', t, pending'[t], overlay'[t])
      BY <3>2, <3>3, <3>4 DEF InOrder
    <3> QED
      BY <2>4, <3>5
  <2> QED
    BY <2>3, <2>4
<1>10. NewScreen'
  <2>1. "registration" \in Form /\ "registration" # "login"
    BY DEF Form
  <2>2. top' = "login" => t # "registration"
    BY <1>1, <1>2, <2>1
  <2> QED
    BY <1>2, <1>9, <2>1, <2>2 DEF Order, NewScreen
<1> QED
  BY <1>7, <1>8, <1>9, <1>10 DEF Order

\* A root is replaced while no form is on its way, or by a check.
LEMMA OrderRooted ==
  ASSUME TypeOK, TypeOK', Order, NEW newRoot, NEW q \in Seq(Block), Replace(newRoot, q),
         \A x \in Sender : In(q, Reply(x)) => In(main, Reply(x)),
         untold' = untold, replaced => replaced',
         replaced' \/ \A s \in Form : pending[s] = 0 /\ ~In(q, Reply(s))
  PROVE  Order'
<1>1. \A x \in Sender : ~Answering(x) => pending[x] = 0 /\ ~In(q, Reply(x))
  BY DEF Answering, TypeOK
<1>2. /\ pending["leaving"] = 0 /\ ~In(q, Reply("leaving"))
      /\ pending["gone"] = 0 /\ ~In(q, Reply("gone"))
  BY <1>1 DEF Order, NobodyLeft, Sender
<1>3. /\ ~Answering("leaving")' /\ ~Answering("gone")'
      /\ OnScreen' /\ NewScreen'
      /\ \A s \in Form : InOrder(main', s, pending'[s], overlay'[s])
  BY <1>2, OrderReplaced
<1>4. Answering("former")' => replaced'
  <2>1. CASE Answering("former")
    BY <2>1 DEF Order, NobodyLeft
  <2>2. CASE ~Answering("former")
    <3>1. pending["former"] = 0 /\ ~In(q, Reply("former"))
      BY <1>1, <2>2 DEF Sender
    <3> QED
      BY <1>2, <3>1, OrderReplaced
  <2> QED
    BY <2>1, <2>2
<1>5. NobodyLeft'
  BY <1>3, <1>4 DEF Order, NobodyLeft
<1> QED
  BY <1>3, <1>5 DEF Order

LEMMA OrderSaved ==
  ASSUME TypeOK, TypeOK', Order, RunSave
  PROVE  Order'
<1>1. PICK t \in Form \union {"former"} : t = main[1].of
  BY OrderHead DEF RunSave
<1> DEFINE b == [do |-> "loading", of |-> t, on |-> FALSE]
           q == Append(Tail(main), b)
<1>2. /\ main \in Seq(Block) /\ main # <<>> /\ Head(main) = main[1]
      /\ Tail(main) \in Seq(Block)
      /\ t = "former" => replaced
      /\ t \in Form => pending[t] = 0 /\ ~In(Tail(main), Reply(t))
      /\ t \in Form => \A s \in Form : s # t => pending[s] = 0 /\ ~In(main, Reply(s))
  <2>1. "former" \notin Form
    BY DEF Form
  <2> QED
    BY <1>1, <2>1, OrderHead DEF RunSave
<1>3. b \in Block /\ b.do # "answer"
  BY Blocks DEF Sender
<1>4. Replace("tabs", q) /\ untold' = untold /\ replaced' = replaced
  BY <1>1, <1>2 DEF RunSave, Unloaded, history
<1> HIDE DEF b
<1>5. q \in Seq(Block) /\ \A x \in Sender : In(q, Reply(x)) <=> In(Tail(main), Reply(x))
  BY <1>2, <1>3, Extended, RepliesStay
<1> HIDE DEF q
<1>6. \A x \in Sender : In(q, Reply(x)) => In(main, Reply(x))
  BY <1>2, <1>5, TakenFirst
<1>7. replaced' \/ \A s \in Form : pending[s] = 0 /\ ~In(q, Reply(s))
  BY <1>2, <1>4, <1>5, <1>6 DEF Sender
<1> QED
  BY <1>4, <1>5, <1>6, <1>7, OrderRooted

LEMMA OrderShowAuth ==
  ASSUME TypeOK, TypeOK', Order, RunShowAuth
  PROVE  Order'
<1>1. main \in Seq(Block) /\ main # <<>> /\ Tail(main) \in Seq(Block)
  BY DEF RunShowAuth, NextBlock, TypeOK
<1>2. /\ Replace("auth", Tail(main)) /\ untold' = untold
      /\ replaced' = (replaced \/ \E s \in Form : Waits(s))
  BY DEF RunShowAuth
<1>3. \A x \in Sender : In(Tail(main), Reply(x)) => In(main, Reply(x))
  BY <1>1, TakenFirst
<1>4. replaced' \/ \A s \in Form : pending[s] = 0 /\ ~In(Tail(main), Reply(s))
  <2>1. CASE \E s \in Form : Waits(s)
    BY <1>2, <2>1
  <2>2. CASE \A s \in Form : ~Waits(s)
    <3>1. ASSUME NEW s \in Form PROVE pending[s] = 0 /\ ~In(main, Reply(s))
      <4>1. s \in Sender /\ pending[s] \in Nat
        BY DEF Sender, TypeOK
      <4> QED
        BY <2>2, <4>1, Waiting
    <3> QED
      BY <1>3, <3>1 DEF Sender
  <2> QED
    BY <2>1, <2>2
<1> QED
  BY <1>1, <1>2, <1>3, <1>4, OrderRooted

LEMMA OrderLeftRoot ==
  ASSUME TypeOK, TypeOK', Order, FinishOnboarding \/ SignOut
  PROVE  Order'
<1>1. root # "auth" /\ main \in Seq(Block) /\ untold' = untold /\ replaced' = replaced
  BY DEF FinishOnboarding, SignOut, TypeOK, history
<1>2. \A s \in Form : pending[s] = 0 /\ ~In(main, Reply(s))
  <2>1. \A s \in Form : ~Answering(s) /\ pending[s] \in Nat
    BY <1>1 DEF Order, OnScreen, TypeOK, Sender
  <2> QED
    BY <2>1 DEF Answering
<1>3. PICK newRoot \in {"auth", "tabs"} : Replace(newRoot, main)
  BY DEF FinishOnboarding, SignOut
<1> QED
  BY <1>1, <1>2, <1>3, OrderRooted

LEMMA OrderRegister ==
  ASSUME TypeOK, TypeOK', Order, ~slipped', GoToRegister
  PROVE  Order'
<1>1. /\ top = "login" /\ top' = "registration"
      /\ main' = main /\ pending' = pending /\ UNCHANGED <<replaced, untold>>
      /\ ~overlay'["registration"] /\ overlay'["login"] = overlay["login"]
  BY DEF GoToRegister, TakesTaps, TypeOK, Form
<1>2. \A s \in Form : ~Answering(s)
  <2>1. "login" \in Form
    BY DEF Form
  <2> QED
    BY <2>1, OrderTapped DEF GoToRegister
<1>3. \A x \in Sender : Answering(x)' <=> Answering(x)
  BY <1>1 DEF Answering
<1>4. NobodyLeft' /\ OnScreen' /\ NewScreen'
  BY <1>1, <1>2, <1>3 DEF Order, NobodyLeft, OnScreen, NewScreen, Sender
<1>5. InOrder(main', "registration", pending'["registration"], overlay'["registration"])
  <2>1. "registration" \in Form /\ "registration" \in Sender
    BY DEF Form, Sender
  <2>2. pending'["registration"] = 0 /\ ~In(main', Reply("registration"))
    BY <1>1, <1>2, <2>1 DEF Answering, TypeOK
  <2>3. ~In(main', On("registration")) /\ ~In(main', Off("registration"))
    BY <1>1 DEF Order, NewScreen
  <2> QED
    BY <1>1, <2>1, <2>2, <2>3, Nothing
<1>6. InOrder(main', "login", pending'["login"], overlay'["login"])
  BY <1>1 DEF Order, Form
<1> QED
  BY <1>4, <1>5, <1>6 DEF Order, Form

LEMMA OrderIncomplete ==
  ASSUME TypeOK, Order, ~slipped', NEW t \in Form, SubmitIncomplete(t)
  PROVE  Order'
<1>1. UNCHANGED <<root, top, main, pending, overlay, replaced, untold>>
  BY DEF SubmitIncomplete, forms
<1>2. \A s \in Form : ~Answering(s)
  BY OrderTapped DEF SubmitIncomplete
<1>3. \A x \in Sender : Answering(x)' <=> Answering(x)
  BY <1>1 DEF Answering
<1>4. NobodyLeft' /\ OnScreen' /\ NewScreen'
  BY <1>1, <1>2, <1>3 DEF Order, NobodyLeft, OnScreen, NewScreen, Sender
<1>5. \A s \in Form : InOrder(main', s, pending'[s], overlay'[s])
  BY <1>1 DEF Order
<1> QED
  BY <1>4, <1>5 DEF Order

LEMMA OrderKept ==
  ASSUME TypeOK, TypeOK', Order, ~slipped', [Next]_vars
  PROVE  Order'
<1>1. ASSUME NEW t \in Form, Submit(t) PROVE Order'
  BY <1>1, OrderSubmit
<1>2. ASSUME NEW t \in Form, SubmitIncomplete(t) PROVE Order'
  BY <1>2, OrderIncomplete
<1>3. CASE GoToRegister
  BY <1>3, OrderRegister
<1>4. CASE GoToLogin
  BY <1>4, OrderLogin
<1>5. CASE FinishOnboarding \/ SignOut
  BY <1>5, OrderLeftRoot
<1>6. ASSUME NEW t \in Sender, NEW ok \in BOOLEAN, Answer(t, ok) PROVE Order'
  BY <1>6, OrderAnswer
<1>7. CASE Release
  BY <1>7, OrderRelease
<1>8. CASE RunLoading
  BY <1>8, OrderLoading
<1>9. CASE RunError
  BY <1>9, OrderError
<1>10. CASE RunSave
  BY <1>10, OrderSaved
<1>11. CASE RunShowAuth
  BY <1>11, OrderShowAuth
<1>12. CASE RunSaveUnheard
  <2>1. NextBlock("answer") /\ main[1].of = "gone"
    BY <1>12 DEF RunSaveUnheard, NextBlock
  <2>2. "gone" \notin Form \union {"former"}
    BY DEF Form
  <2> QED
    BY <2>1, <2>2, OrderHead
<1>13. ASSUME /\ UNCHANGED <<root, top, pending, overlay, replaced, untold>>
              /\ \/ main' = main
                 \/ NextBlock("spinner") /\ main' = Tail(main)
                 \/ main' = Append(main, [do |-> "showAuth"])
              /\ alert' => alert
       PROVE  Order'
  <2>1. CASE main' = main \/ main' = Append(main, [do |-> "showAuth"])
    BY <1>13, <2>1, OrderIdle
  <2>2. CASE NextBlock("spinner") /\ main' = Tail(main)
    <3>1. main # <<>> /\ main[1] \in Block /\ main[1].do = "spinner"
      BY <2>2, Served DEF NextBlock, TypeOK, ShowAuth, Block
    <3> QED
      BY <1>13, <2>2, <3>1, OrderIdle
  <2> QED
    BY <1>13, <2>1, <2>2
<1>14. CASE RunSpinner
  BY <1>13, <1>14 DEF RunSpinner, history
<1>15. ASSUME NEW isValid \in BOOLEAN, CheckEnds(isValid) PROVE Order'
  BY <1>13, <1>15 DEF CheckEnds, forms, history
<1>16. ASSUME NEW tab \in DetailTab, ShowDetail(tab) \/ Back(tab) PROVE Order'
  BY <1>13, <1>16 DEF ShowDetail, Back, forms, history
<1>17. CASE DismissAlert \/ PopEnds
  BY <1>13, <1>17 DEF DismissAlert, PopEnds, forms, history
<1>18. CASE UNCHANGED vars
  BY <1>13, <1>18 DEF vars, forms, history
<1> QED
  BY <1>1, <1>2, <1>3, <1>4, <1>5, <1>6, <1>7, <1>8, <1>9, <1>10, <1>11, <1>12, <1>14,
     <1>15, <1>16, <1>17, <1>18 DEF Next, User, Answers, MainStep

LEMMA SlippedStays ==
  ASSUME TypeOK, slipped, [Next]_vars
  PROVE  slipped'
BY DEF Next, User, Answers, MainStep, Submit, SubmitIncomplete, DismissAlert, GoToRegister,
       GoToLogin, FinishOnboarding, SignOut, ShowDetail, Back, Answer, CheckEnds, PopEnds,
       Release, RunLoading, RunSpinner, RunError, RunSave, RunSaveUnheard, RunShowAuth,
       Slips, history, vars

InTurn == ~slipped => Order

LEMMA InTurnAlways == Spec => []InTurn
<1>1. Init => InTurn
  BY DEF Init, InTurn, Order, NobodyLeft, OnScreen, NewScreen, InOrder, Answering, In, Once,
         Before, Sender, Form
<1>2. TypeOK /\ TypeOK' /\ InTurn /\ [Next]_vars => InTurn'
  BY OrderKept, SlippedStays DEF InTurn
<1> QED
  BY <1>1, <1>2, TypeCorrect, PTL DEF Spec

\* The overlay does its work (LoginViewController.swift:122-126): unless a tap
\* got through, a form on its way is covered once the main queue is empty.
THEOREM OverlayAlwaysCovers == Spec => []OverlayCovers
<1>1. TypeOK /\ InTurn => OverlayCovers
  <2> SUFFICES ASSUME TypeOK, Order, main = <<>>, NEW s \in Form, Waits(s)
               PROVE  overlay[s]
    BY DEF InTurn, OverlayCovers
  <2>1. pending[s] > 0 \/ In(main, Reply(s))
    BY Waiting DEF Sender
  <2>2. ~Before(main, On(s), Reply(s))
    BY DEF Before
  <2> QED
    BY <2>1, <2>2 DEF Order, InOrder
<1> QED
  BY <1>1, InTurnAlways, TypeCorrect, PTL

\* A request of a screen that is gone, and an answer that reaches nobody
\* (LoginViewController.swift:133, RegistrationViewController.swift:149-154),
\* come of a tap that got through or of a check that replaced the form.
THEOREM NoRequestStrays == Spec => []NoStrayRequest
<1>1. TypeOK /\ InTurn => NoStrayRequest
  <2> SUFFICES ASSUME TypeOK, Order, (\E s \in Sender \ Form : Waits(s)) \/ untold
               PROVE  replaced
    BY DEF InTurn, NoStrayRequest
  <2>1. \A s \in Sender : Waits(s) => Answering(s)
    BY Waiting DEF Answering
  <2> QED
    BY <2>1 DEF Order, NobodyLeft, Sender
<1> QED
  BY <1>1, InTurnAlways, TypeCorrect, PTL
=============================================================================
