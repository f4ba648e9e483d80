--------------------------- MODULE HomeFeedProofs ---------------------------
(***************************************************************************)
(* Theorems about HomeFeed, for any number of requests.                    *)
(***************************************************************************)
EXTENDS HomeFeed, FiniteSets, FiniteSetTheorems, SequenceTheorems,
        WellFoundedInduction, TLAPS

-----------------------------------------------------------------------------
(* parseIngredient: what split has found after each letter of a text.      *)

\* Induction over the naturals, as a statement about a set.
LEMMA SetInduction ==
  ASSUME NEW S, 0 \in S, \A n \in Nat : n \in S => n + 1 \in S
  PROVE  Nat \subseteq S
<1> DEFINE Outside == Nat \ S
           Less == OpToRel(<, Nat)
<1>1. SUFFICES ASSUME Outside # {} PROVE FALSE
  OBVIOUS
<1>2. PICK x \in Outside : \A y \in Outside : ~ (<<y, x>> \in Less)
  <2>1. Outside \subseteq Nat
    OBVIOUS
  <2>2. IsWellFoundedOn(Less, Nat)
    BY NatLessThanWellFounded
  <2> HIDE DEF Outside, Less
  <2> QED
    BY <1>1, <2>1, <2>2, WFMin
<1>3. x \in Nat /\ x # 0
  OBVIOUS
<1>4. x - 1 \in Nat /\ x - 1 < x /\ x = (x - 1) + 1
  BY <1>3
<1>5. <<x - 1, x>> \in Less
  BY <1>3, <1>4 DEF OpToRel
<1>6. x - 1 \in S
  BY <1>2, <1>4, <1>5
<1> QED
  BY <1>2, <1>4, <1>6

\* The recursion of Split has a solution, so its equations hold.
LEMMA SplitSteps ==
  ASSUME NEW text, Len(text) \in Nat
  PROVE  /\ Split(text)[0] = NoParts
         /\ \A n \in 1..Len(text) : Split(text)[n] = Take(Split(text)[n - 1], text[n])
<1> DEFINE At(g, n) == IF n = 0 THEN NoParts ELSE Take(g[n - 1], text[n])
           Scanned == {n \in Nat : \E g : g = [m \in 0..n |-> At(g, m)]}
<1>1. 0 \in Scanned
  <2> DEFINE g == [m \in 0..0 |-> NoParts]
  <2>1. g = [m \in 0..0 |-> At(g, m)]
    OBVIOUS
  <2> QED
    BY <2>1
<1>2. ASSUME NEW n \in Nat, n \in Scanned
      PROVE  n + 1 \in Scanned
  <2>1. PICK g : g = [m \in 0..n |-> At(g, m)]
    BY <1>2
  <2> DEFINE h == [m \in 0..n + 1 |-> IF m = n + 1 THEN Take(g[n], text[n + 1]) ELSE g[m]]
  <2>2. ASSUME NEW m \in 0..n + 1 PROVE h[m] = At(h, m)
    <3>1. CASE m = n + 1
      <4>1. m # 0 /\ m - 1 = n /\ h[m - 1] = g[n]
        BY <3>1
      <4>2. h[m] = Take(g[n], text[n + 1])
        BY <3>1
      <4> QED
        BY <3>1, <4>1, <4>2
    <3>2. CASE m # n + 1
      <4>1. m \in 0..n
        BY <3>2
      <4>2. h[m] = g[m]
        BY <4>1
      <4>3. g[m] = At(g, m)
        BY <2>1, <4>1
      <4>4. m # 0 => h[m - 1] = g[m - 1]
        BY <4>1
      <4> QED
        BY <4>2, <4>3, <4>4
    <3> QED
      BY <3>1, <3>2
  <2>3. h = [m \in 0..n + 1 |-> At(h, m)]
    BY <2>2
  <2>4. n + 1 \in Nat
    OBVIOUS
  <2> HIDE DEF h, At
  <2> QED
    BY <2>3, <2>4
<1>3. Len(text) \in Scanned
  <2> HIDE DEF Scanned
  <2> QED
    BY <1>1, <1>2, SetInduction
<1>4. Split(text) = [n \in 0..Len(text) |-> At(Split(text), n)]
  BY <1>3 DEF Split
<1> QED
  BY <1>4

\* The parts that end at or before letter n are all there, the first and the
\* last of them where they should be.
Done(text, parts, n) ==
    IF parts = <<>> THEN \A k \in 1..n : text[k] = "("
    ELSE \E i, j, k, l \in 1..n :
             /\ Stretch(text, i, j) /\ \A m \in 1..(i - 1) : text[m] = "("
             /\ Stretch(text, k, l) /\ \A m \in (l + 1)..n : text[m] = "("
             /\ parts[1] = SubSeq(text, i, j)
             /\ parts[Len(parts)] = SubSeq(text, k, l)

\* The current part is what follows the last parenthesis before letter n.
OngoingSince(text, s, n, c) ==
    /\ \A k \in (c + 1)..n : text[k] # "("
    /\ c > 0 => text[c] = "("
    /\ s.part = SubSeq(text, c + 1, n)
    /\ Done(text, s.parts, c)

Scans == [parts : Seq(Seq(Letter)), part : Seq(Letter)]

LEMMA FinishTypes ==
  ASSUME NEW s \in Scans
  PROVE  Finish(s) \in Scans
<1>1. s.part # <<>> => Append(s.parts, s.part) \in Seq(Seq(Letter))
  BY AppendProperties DEF Scans
<1>2. <<>> \in Seq(Letter)
  OBVIOUS
<1> QED
  BY <1>1, <1>2 DEF Scans, Finish

LEMMA FinishFinds ==
  ASSUME NEW text \in Seq(Letter), NEW s \in Scans,
         NEW n \in 0..Len(text), NEW c \in 0..n, OngoingSince(text, s, n, c),
         n < Len(text) => text[n + 1] = "("
  PROVE  Done(text, Finish(s).parts, n)
<1>0. Len(text) \in Nat /\ \A k \in 1..Len(text) : text[k] \in Letter
  OBVIOUS
<1>1. CASE c = n
  <2>1. s.part = <<>>
    BY <1>0, <1>1, SubSeqEmpty DEF OngoingSince
  <2> QED
    BY <1>1, <2>1 DEF OngoingSince, Finish
<1>2. CASE c # n
  <2>1. c + 1 \in 1..n /\ n \in 1..n /\ c + 1 \in Int /\ n \in Int
    BY <1>2, <1>0
  <2>2. s.part = SubSeq(text, c + 1, n) /\ s.part # <<>>
    <3>1. Len(SubSeq(text, c + 1, n)) = n - (c + 1) + 1
      BY <1>0, <2>1, SubSeqProperties
    <3> QED
      BY <3>1, <2>1 DEF OngoingSince
  <2>3. Finish(s).parts = Append(s.parts, s.part)
    BY <2>2 DEF Finish
  <2>4. /\ Finish(s).parts # <<>>
        /\ Finish(s).parts[Len(Finish(s).parts)] = s.part
        /\ s.parts = <<>> => Finish(s).parts[1] = s.part
        /\ s.parts # <<>> => Finish(s).parts[1] = s.parts[1]
    <3>1. s.parts \in Seq(Seq(Letter)) /\ s.part \in Seq(Letter)
      BY DEF Scans
    <3> QED
      BY <2>3, <3>1, AppendProperties
  <2>5. Stretch(text, c + 1, n)
    BY <1>0, <2>1 DEF OngoingSince, Stretch, Bare
  <2>6. \A m \in (n + 1)..n : text[m] = "("
    OBVIOUS
  <2>7. CASE s.parts = <<>>
    <3>1. \A m \in 1..((c + 1) - 1) : text[m] = "("
      BY <2>7 DEF OngoingSince, Done
    <3> QED
      BY <2>1, <2>2, <2>4, <2>5, <2>6, <2>7, <3>1 DEF Done
  <2>8. CASE s.parts # <<>>
    <3>1. PICK i, j \in 1..c :
              /\ Stretch(text, i, j) /\ \A m \in 1..(i - 1) : text[m] = "("
              /\ s.parts[1] = SubSeq(text, i, j)
      BY <2>8 DEF OngoingSince, Done
    <3>2. i \in 1..n /\ j \in 1..n
      BY <2>1
    <3> QED
      BY <2>1, <2>2, <2>4, <2>5, <2>6, <2>8, <3>1, <3>2 DEF Done
  <2> QED
    BY <2>7, <2>8
<1> QED
  BY <1>1, <1>2

LEMMA TakeFinds ==
  ASSUME NEW text \in Seq(Letter), NEW s \in Scans,
         NEW n \in 0..Len(text) - 1, NEW c \in 0..n, OngoingSince(text, s, n, c)
  PROVE  /\ Take(s, text[n + 1]) \in Scans
         /\ \E d \in 0..n + 1 : OngoingSince(text, Take(s, text[n + 1]), n + 1, d)
<1> DEFINE t == Take(s, text[n + 1])
<1>0. Len(text) \in Nat /\ n + 1 \in 1..Len(text) /\ \A k \in 1..Len(text) : text[k] \in Letter
  OBVIOUS
<1>1. CASE text[n + 1] = "("
  <2>1. t = Finish(s) /\ t \in Scans
    BY <1>1, FinishTypes DEF Take
  <2>2. Done(text, t.parts, n)
    BY <1>0, <1>1, <2>1, FinishFinds
  <2>3. Done(text, t.parts, n + 1)
    <3>1. CASE t.parts = <<>>
      BY <1>1, <2>2, <3>1 DEF Done
    <3>2. CASE t.parts # <<>>
      <4>1. PICK i, j, k, l \in 1..n :
             /\ Stretch(text, i, j) /\ \A m \in 1..(i - 1) : text[m] = "("
             /\ Stretch(text, k, l) /\ \A m \in (l + 1)..n : text[m] = "("
             /\ t.parts[1] = SubSeq(text, i, j)
             /\ t.parts[Len(t.parts)] = SubSeq(text, k, l)
        BY <2>2, <3>2 DEF Done
      <4>2. \A m \in (l + 1)..(n + 1) : text[m] = "("
        BY <1>1, <4>1
      <4>3. i \in 1..(n + 1) /\ j \in 1..(n + 1) /\ k \in 1..(n + 1) /\ l \in 1..(n + 1)
        OBVIOUS
      <4> HIDE DEF t
      <4> QED
        BY <3>2, <4>1, <4>2, <4>3 DEF Done
    <3> QED
      BY <3>1, <3>2
  <2>4. t.part = SubSeq(text, (n + 1) + 1, n + 1)
    BY <2>1, SubSeqEmpty DEF Finish
  <2>5. OngoingSince(text, t, n + 1, n + 1)
    BY <1>1, <2>3, <2>4 DEF OngoingSince
  <2> QED
    BY <2>1, <2>5
<1>2. CASE text[n + 1] # "("
  <2>1. t = [parts |-> s.parts, part |-> Append(s.part, text[n + 1])]
    BY <1>2 DEF Take
  <2>2. t \in Scans
    BY <1>0, <2>1, AppendProperties DEF Scans
  <2>3. s.part = SubSeq(text, c + 1, n) /\ c + 1 \in 1..Len(text) /\ n + 1 \in (c + 1)..Len(text)
    BY <1>0 DEF OngoingSince
  <2>4. t.part = SubSeq(text, c + 1, n + 1)
    <3>1. SubSeq(text, c + 1, n + 1) = SubSeq(text, c + 1, (n + 1) - 1) \o <<text[n + 1]>>
      BY <2>3, SubSeqRecursiveSecond
    <3>2. Append(s.part, text[n + 1]) = s.part \o <<text[n + 1]>>
      BY <1>0, AppendIsConcat DEF Scans
    <3> QED
      BY <2>1, <2>3, <3>1, <3>2
  <2>5. OngoingSince(text, t, n + 1, c)
    BY <1>2, <2>1, <2>4 DEF OngoingSince
  <2>6. c \in 0..n + 1
    OBVIOUS
  <2> QED
    BY <2>2, <2>5, <2>6
<1> QED
  BY <1>1, <1>2

\* split keeps track of the stretches of every text.
LEMMA SplitFinds ==
  ASSUME NEW text \in Seq(Letter)
  PROVE  Done(text, Parts(text), Len(text))
<1> DEFINE Tracked(n) == /\ Split(text)[n] \in Scans
                         /\ \E c \in 0..n : OngoingSince(text, Split(text)[n], n, c)
           S == {n \in Nat : n <= Len(text) => Tracked(n)}
<1>0. Len(text) \in Nat
  OBVIOUS
<1>1. 0 \in S
  <2>1. Split(text)[0] = NoParts
    BY <1>0, SplitSteps
  <2>2. NoParts \in Scans
    BY DEF NoParts, Scans
  <2>3. SubSeq(text, 0 + 1, 0) = <<>>
    BY SubSeqEmpty
  <2>4. OngoingSince(text, NoParts, 0, 0)
    BY <2>3 DEF OngoingSince, NoParts, Done
  <2> QED
    BY <2>1, <2>2, <2>4
<1>2. ASSUME NEW n \in Nat, n \in S
      PROVE  n + 1 \in S
  <2>1. SUFFICES ASSUME n + 1 <= Len(text) PROVE Tracked(n + 1)
    OBVIOUS
  <2>2. n \in 0..Len(text) - 1 /\ n + 1 \in 1..Len(text) /\ (n + 1) - 1 = n
    BY <1>0, <2>1
  <2>3. Split(text)[n + 1] = Take(Split(text)[n], text[n + 1])
    <3>1. Split(text)[n + 1] = Take(Split(text)[(n + 1) - 1], text[n + 1])
      BY <1>0, <2>2, SplitSteps
    <3> QED
      BY <2>2, <3>1
  <2>4. PICK c \in 0..n : OngoingSince(text, Split(text)[n], n, c)
    BY <1>2, <2>2
  <2>5. Split(text)[n] \in Scans
    BY <1>2, <2>2
  <2> QED
    BY <2>2, <2>3, <2>4, <2>5, TakeFinds
<1>3. Tracked(Len(text))
  <2> HIDE DEF Tracked
  <2>1. Nat \subseteq S
    <3> HIDE DEF S
    <3> QED
      BY <1>1, <1>2, SetInduction
  <2> QED
    BY <1>0, <2>1
<1>4. PICK c \in 0..Len(text) : OngoingSince(text, Split(text)[Len(text)], Len(text), c)
  BY <1>3
<1> QED
  BY <1>0, <1>3, <1>4, FinishFinds DEF Parts

LEMMA DropLastOfStretch ==
  ASSUME NEW text \in Seq(Letter), NEW k \in 1..Len(text), NEW l \in k..Len(text)
  PROVE  DropLast(SubSeq(text, k, l)) = SubSeq(text, k, l - 1)
<1> DEFINE part == SubSeq(text, k, l)
<1>0. Len(text) \in Nat /\ \A m \in 1..Len(text) : text[m] \in Letter
  OBVIOUS
<1>1. Len(part) = l - k + 1 /\ part \in Seq(Letter)
  BY <1>0, SubSeqProperties
<1>2. CASE k = l
  <2>1. SubSeq(text, k, l - 1) = <<>>
    BY <1>2, SubSeqEmpty
  <2>2. SubSeq(part, 1, 0) = <<>>
    BY SubSeqEmpty
  <2> QED
    BY <1>1, <1>2, <2>1, <2>2 DEF DropLast
<1>3. CASE k # l
  <2>1. 1 \in 1..l - k + 1 /\ l - k \in 1..l - k + 1
    BY <1>0, <1>3
  <2>2. SubSeq(part, 1, l - k) = SubSeq(text, k + 1 - 1, k + (l - k) - 1)
    BY <1>0, <2>1, SubSeqOfSubSeq
  <2>3. k + 1 - 1 = k /\ k + (l - k) - 1 = l - 1 /\ Len(part) - 1 = l - k
    BY <1>1
  <2> QED
    BY <2>2, <2>3 DEF DropLast
<1> QED
  BY <1>2, <1>3

\* parseIngredient (ApiService.swift:257-262), on a text of any length: a name
\* and an amount taken from where the text has them, or the crash, which only a
\* text of nothing but parentheses brings about.
THEOREM EveryTextParsed ==
  ASSUME NEW text \in Seq(Letter)
  PROVE  IF OnlyParentheses(text)
           THEN ParseIngredient(text) = Crash
           ELSE /\ ParseIngredient(text) # Crash
                /\ TakenFrom(text, ParseIngredient(text))
                /\ ParseIngredient(text) \in Ingredient
<1>0. Len(text) \in Nat /\ \A m \in 1..Len(text) : text[m] \in Letter
  OBVIOUS
<1>1. Done(text, Parts(text), Len(text))
  BY SplitFinds
<1>2. CASE Parts(text) = <<>>
  BY <1>1, <1>2 DEF OnlyParentheses, ParseIngredient, Done
<1>3. CASE Parts(text) # <<>>
  <2>1. PICK i, j, k, l \in 1..Len(text) :
             /\ Stretch(text, i, j) /\ \A m \in 1..(i - 1) : text[m] = "("
             /\ Stretch(text, k, l) /\ \A m \in (l + 1)..Len(text) : text[m] = "("
             /\ Parts(text)[1] = SubSeq(text, i, j)
             /\ Parts(text)[Len(Parts(text))] = SubSeq(text, k, l)
    BY <1>1, <1>3 DEF Done
  <2>2. ~OnlyParentheses(text)
    <3>1. i \in i..j /\ text[i] # "("
      BY <2>1 DEF Stretch, Bare
    <3> QED
      BY <3>1 DEF OnlyParentheses
  <2>3. l \in k..Len(text) /\ i <= j
    BY <1>0, <2>1 DEF Stretch, Bare
  <2>4. DropLast(SubSeq(text, k, l)) = SubSeq(text, k, l - 1)
    BY <2>3, DropLastOfStretch
  <2>5. ParseIngredient(text) = [name |-> SubSeq(text, i, j),
                                 amount |-> SubSeq(text, k, l - 1)]
    <3>1. Head(Parts(text)) = Parts(text)[1]
      OBVIOUS
    <3> QED
      BY <1>3, <2>1, <2>4, <3>1 DEF ParseIngredient
  <2>6. ParseIngredient(text) # Crash
    <3>1. DOMAIN ParseIngredient(text) = {"name", "amount"}
      BY <2>5
    <3>2. DOMAIN Crash = {"unwrapped"}
      BY DEF Crash
    <3> QED
      BY <3>1, <3>2
  <2>7. ParseIngredient(text) \in Ingredient
    <3>1. SubSeq(text, i, j) \in Seq(Letter)
      BY <1>0
    <3>2. SubSeq(text, k, l - 1) \in Seq(Letter)
      BY <1>0, <2>3
    <3> QED
      BY <2>5, <3>1, <3>2 DEF Ingredient, Text
  <2> QED
    BY <2>1, <2>2, <2>5, <2>6, <2>7 DEF TakenFrom
<1> QED
  BY <1>2, <1>3

-----------------------------------------------------------------------------
(* The group and the rows.                                                  *)

Busy == IF running = NoCall THEN 0 ELSE 1

\* Every request issued is waited for by the group until its handler leaves,
\* and the notify block is not released before that.
GroupCounts ==
    /\ inFlight \subseteq 1..issued
    /\ running \in 0..issued /\ running \notin inFlight
    /\ group = Cardinality(inFlight) + Busy
    /\ notify # "unregistered" => issued = NumCalls
    /\ notify \in {"queued", "run"} => inFlight = {} /\ running = NoCall

\* The rows are the requests answered so far, without repetition.
RowsAreAnswers ==
    /\ Len(tableViewCellModels) + Cardinality(inFlight) = issued
    /\ \A k \in Calls : k <= issued /\ k \notin inFlight =>
           \E s \in 1..Len(tableViewCellModels) : tableViewCellModels[s] = k
    /\ \A s \in 1..Len(tableViewCellModels) :
           tableViewCellModels[s] <= issued /\ tableViewCellModels[s] \notin inFlight
    /\ \A s, u \in 1..Len(tableViewCellModels) :
           tableViewCellModels[s] = tableViewCellModels[u] => s = u

Spinning == 0 < issued /\ notify # "run" => isLoading

Shown ==
    table # <<>> =>
        /\ notify = "run"
        /\ table = [s \in 1..NumCalls |-> TableCellModel(s)]

\* Of a request that was answered, the row has what the parser made of every
\* text; of one that stopped the program, the parser made nothing.
Parsed ==
    /\ \A k \in Calls : k <= issued /\ k \notin inFlight =>
           /\ ingredients[k] = [i \in DOMAIN answer[k] |-> ParseIngredient(answer[k][i])]
           /\ \A i \in DOMAIN answer[k] : ParseIngredient(answer[k][i]) # Crash
    /\ crashed =>
           \E k \in inFlight : \E i \in DOMAIN answer[k] :
               ParseIngredient(answer[k][i]) = Crash

Inv == TypeOK /\ GroupCounts /\ RowsAreAnswers /\ Spinning /\ Shown /\ Parsed

LEMMA InFlightFinite ==
  ASSUME Inv
  PROVE  IsFiniteSet(inFlight) /\ Cardinality(inFlight) \in Nat
<1>1. issued \in Nat
  BY NumCallsAssumption DEF Inv, TypeOK
<1>2. IsFiniteSet(1..issued)
  BY <1>1, FS_Interval
<1>3. IsFiniteSet(inFlight)
  BY <1>2, FS_Subset DEF Inv, GroupCounts
<1> QED
  BY <1>3, FS_CardinalityType

LEMMA InitInv == Init => Inv
<1> SUFFICES ASSUME Init PROVE Inv
  OBVIOUS
<1>1. Cardinality(inFlight) = 0
  BY FS_EmptySet DEF Init
<1>2. TypeOK
  <2>1. <<>> \in Seq(Calls) /\ <<>> \in Seq(Calls \union {NoCall})
    OBVIOUS
  <2>2. tableViewCellModels \in Seq(Calls) /\ table \in Seq(Calls \union {NoCall})
    BY <2>1, Zenon DEF Init
  <2>3. issued \in 0..NumCalls /\ group \in Nat /\ running \in Calls \union {NoCall}
    BY NumCallsAssumption DEF Init
  <2>4. inFlight \subseteq Calls /\ notify \in NotifyStates
    BY DEF Init, NotifyStates
  <2>5. /\ answer \in [Calls -> Answer]
        /\ ingredients \in [Calls -> IngredientList]
    <3>1. <<>> \in IngredientList
      BY DEF IngredientList
    <3> QED
      BY <3>1, AnswersAssumption, Zenon DEF Init
  <2> QED
    BY <2>2, <2>3, <2>4, <2>5 DEF Init, TypeOK
<1>3. GroupCounts /\ RowsAreAnswers /\ Parsed
  BY <1>1, NumCallsAssumption DEF Init, GroupCounts, RowsAreAnswers, Parsed, Busy,
          NoCall, Calls
<1> QED
  BY <1>2, <1>3 DEF Init, Inv, Spinning, Shown

LEMMA RequestInv ==
  ASSUME Inv, NEW k \in Calls, Request(k)
  PROVE  Inv'
<1> USE NumCallsAssumption DEF Calls, NoCall
<1>1. k \notin inFlight /\ issued' = issued + 1 /\ issued' = k /\ issued \in Nat
  BY DEF Inv, TypeOK, GroupCounts, Request
<1>2. Cardinality(inFlight') = Cardinality(inFlight) + 1
  BY <1>1, InFlightFinite, FS_AddElement DEF Request
<1>3. TypeOK'
  BY <1>1 DEF Inv, TypeOK, Request
<1>4. GroupCounts'
  BY <1>1, <1>2, InFlightFinite DEF Inv, GroupCounts, TypeOK, Request, Busy
<1>5. RowsAreAnswers'
  BY <1>1, <1>2, InFlightFinite DEF Inv, TypeOK, RowsAreAnswers, Request
<1>6. Spinning' /\ Shown'
  BY <1>1 DEF Inv, GroupCounts, Spinning, Shown, Request, TableCellModel
<1>7. Parsed'
  BY <1>1 DEF Inv, Parsed, Request
<1> QED
  BY <1>3, <1>4, <1>5, <1>6, <1>7 DEF Inv

LEMMA AppendRowInv ==
  ASSUME Inv, NEW k \in Calls, AppendRow(k)
  PROVE  Inv'
<1> USE NumCallsAssumption DEF Calls, NoCall
<1>1. /\ k \in inFlight /\ k <= issued /\ issued \in Nat /\ running = NoCall /\ running' = k
      /\ inFlight' = inFlight \ {k} /\ tableViewCellModels' = Append(tableViewCellModels, k)
      /\ tableViewCellModels \in Seq(Calls)
      /\ UNCHANGED <<answer, issued, group, notify, categories, isLoading, table, crashed>>
  BY DEF Inv, TypeOK, GroupCounts, AppendRow
<1>2. Cardinality(inFlight') = Cardinality(inFlight) - 1
  BY <1>1, InFlightFinite, FS_RemoveElement
<1> DEFINE made == [i \in DOMAIN answer[k] |-> ParseIngredient(answer[k][i])]
<1>7. /\ ingredients' = [ingredients EXCEPT ![k] = made]
      /\ \A i \in DOMAIN answer[k] : ParseIngredient(answer[k][i]) # Crash
  BY DEF AppendRow
<1>8. made \in IngredientList
  <2>1. answer[k] \in Seq(Text)
    BY DEF Inv, TypeOK, Answer
  <2>2. ASSUME NEW i \in DOMAIN answer[k] PROVE ParseIngredient(answer[k][i]) \in Ingredient
    <3>1. answer[k][i] \in Seq(Letter)
      BY <2>1 DEF Text
    <3> QED
      BY <1>7, <3>1, EveryTextParsed
  <2>3. DOMAIN answer[k] = 1..Len(answer[k]) /\ Len(answer[k]) \in Nat
    BY <2>1
  <2>4. made \in [1..Len(answer[k]) -> Ingredient]
    BY <2>2, <2>3
  <2> QED
    BY <2>3, <2>4 DEF IngredientList
<1>3. TypeOK'
  <2>1. ingredients' \in [Calls -> IngredientList]
    BY <1>7, <1>8, Zenon DEF Inv, TypeOK
  <2> QED
    BY <1>1, <2>1 DEF Inv, TypeOK
<1>4. GroupCounts'
  BY <1>1, <1>2, InFlightFinite DEF Inv, GroupCounts, TypeOK, Busy
<1>5. RowsAreAnswers'
  <2> DEFINE rows == tableViewCellModels
  <2>1. /\ Len(rows') = Len(rows) + 1 /\ rows'[Len(rows) + 1] = k
        /\ Len(rows) \in Nat
        /\ \A s \in 1..Len(rows) : rows'[s] = rows[s]
    BY <1>1
  <2>2. Len(rows') + Cardinality(inFlight') = issued'
    BY <1>1, <1>2, <2>1, InFlightFinite DEF Inv, RowsAreAnswers
  <2>3. ASSUME NEW j \in Calls, j <= issued', j \notin inFlight'
        PROVE  \E s \in 1..Len(rows') : rows'[s] = j
    BY <1>1, <2>1, <2>3 DEF Inv, RowsAreAnswers
  <2>4. ASSUME NEW s \in 1..Len(rows')
        PROVE  rows'[s] <= issued' /\ rows'[s] \notin inFlight'
    BY <1>1, <2>1 DEF Inv, RowsAreAnswers
  <2>5. ASSUME NEW s \in 1..Len(rows'), NEW u \in 1..Len(rows'), rows'[s] = rows'[u]
        PROVE  s = u
    BY <1>1, <2>1, <2>5 DEF Inv, RowsAreAnswers
  <2> QED
    BY <2>2, <2>3, <2>4, <2>5 DEF RowsAreAnswers
<1>6. Spinning' /\ Shown'
  BY <1>1 DEF Inv, GroupCounts, Spinning, Shown
<1>9. Parsed'
  <2>1. ASSUME NEW j \in Calls, j <= issued, j \notin inFlight'
        PROVE  /\ ingredients'[j] = [i \in DOMAIN answer[j] |-> ParseIngredient(answer[j][i])]
               /\ \A i \in DOMAIN answer[j] : ParseIngredient(answer[j][i]) # Crash
    <3>1. CASE j = k
      <4>1. ingredients'[k] = made
        BY <1>7 DEF Inv, TypeOK
      <4> QED
        BY <1>7, <3>1, <4>1
    <3>2. CASE j # k
      <4>1. ingredients'[j] = ingredients[j] /\ j \notin inFlight
        BY <1>1, <1>7, <2>1, <3>2 DEF Inv, TypeOK
      <4> QED
        BY <2>1, <4>1 DEF Inv, Parsed
    <3> QED
      BY <3>1, <3>2
  <2>2. ~crashed'
    BY DEF AppendRow
  <2> QED
    BY <1>1, <2>1, <2>2 DEF Parsed
<1> QED
  BY <1>3, <1>4, <1>5, <1>6, <1>9 DEF Inv

LEMMA CrashInv ==
  ASSUME Inv, NEW k \in Calls, CrashOnText(k)
  PROVE  Inv'
<1>1. Parsed'
  BY DEF CrashOnText, Inv, Parsed
<1>2. TypeOK' /\ GroupCounts' /\ RowsAreAnswers' /\ Spinning' /\ Shown'
  BY DEF CrashOnText, Inv, TypeOK, GroupCounts, RowsAreAnswers, Spinning, Shown, Busy,
         TableCellModel
<1> QED
  BY <1>1, <1>2 DEF Inv

LEMMA LeaveInv ==
  ASSUME Inv, Leave
  PROVE  Inv'
<1> USE NumCallsAssumption DEF Calls, NoCall
<1>1. /\ running # NoCall /\ running' = NoCall /\ group' = group - 1
      /\ group = Cardinality(inFlight) + 1
      /\ notify' = IF notify = "registered" /\ group = 1 THEN "queued" ELSE notify
      /\ UNCHANGED <<answer, issued, inFlight, tableViewCellModels, ingredients, categories,
                     isLoading, table, crashed>>
  BY DEF Inv, GroupCounts, Leave, Busy
<1>2. group = 1 => inFlight = {}
  BY <1>1, InFlightFinite, FS_EmptySet
<1>3. TypeOK'
  BY <1>1, InFlightFinite DEF Inv, TypeOK, NotifyStates
<1>4. GroupCounts'
  <2>1. group' = Cardinality(inFlight') + Busy'
    BY <1>1, InFlightFinite DEF Busy
  <2>2. issued' \in Nat /\ running' \in 0..issued' /\ running' \notin inFlight'
    BY <1>1 DEF Inv, TypeOK, GroupCounts
  <2>3. notify' \in {"queued", "run"} => inFlight' = {}
    BY <1>1, <1>2 DEF Inv, GroupCounts
  <2>4. inFlight' \subseteq 1..issued' /\ (notify' # "unregistered" => issued' = NumCalls)
    BY <1>1 DEF Inv, GroupCounts
  <2> QED
    BY <1>1, <2>1, <2>2, <2>3, <2>4 DEF GroupCounts
<1>5. RowsAreAnswers' /\ Spinning' /\ Shown' /\ Parsed'
  BY <1>1 DEF Inv, GroupCounts, RowsAreAnswers, Spinning, Shown, Parsed, TableCellModel
<1> QED
  BY <1>3, <1>4, <1>5 DEF Inv

LEMMA MainQueueInv ==
  ASSUME Inv, RegisterNotify \/ Notify \/ Reload
  PROVE  Inv'
<1> USE NumCallsAssumption DEF Calls, NoCall
<1>1. CASE RegisterNotify
  <2>1. group = 0 => inFlight = {} /\ running = NoCall
    BY InFlightFinite, FS_EmptySet DEF Inv, GroupCounts, Busy
  <2>2. TypeOK' /\ GroupCounts'
    BY <1>1, <2>1 DEF RegisterNotify, Inv, TypeOK, NotifyStates, GroupCounts, Busy
  <2>3. RowsAreAnswers' /\ Spinning' /\ Shown' /\ Parsed'
    BY <1>1, <2>1 DEF RegisterNotify, Inv, RowsAreAnswers, Spinning, Shown, Parsed
  <2> QED
    BY <2>2, <2>3 DEF Inv
<1>2. CASE Notify
  <2>1. TypeOK' /\ GroupCounts'
    BY <1>2 DEF Notify, Inv, TypeOK, NotifyStates, GroupCounts, Busy
  <2>2. RowsAreAnswers' /\ Spinning' /\ Shown' /\ Parsed'
    BY <1>2 DEF Notify, Inv, RowsAreAnswers, Spinning, Shown, Parsed, TableCellModel
  <2> QED
    BY <2>1, <2>2 DEF Inv
<1>3. CASE Reload
  <2>1. table' = [s \in 1..NumCalls |-> TableCellModel(s)]
    BY <1>3 DEF Reload
  <2>2. \A s \in 1..NumCalls : TableCellModel(s) \in Calls \union {NoCall}
    BY DEF Inv, TypeOK, TableCellModel
  <2>3. table' \in Seq(Calls \union {NoCall})
    BY <2>1, <2>2
  <2> QED
    BY <1>3, <2>1, <2>3 DEF Reload, Inv, TypeOK, GroupCounts, Busy, RowsAreAnswers,
                            Spinning, Shown, Parsed, TableCellModel
<1> QED
  BY <1>1, <1>2, <1>3

\* The inductive invariant: the group counts the handlers that have not left,
\* and the rows are the answers (HomeViewModel.swift:28-71).
THEOREM Invariance == Spec => []Inv
<1>1. Inv /\ [Next]_vars => Inv'
  <2> SUFFICES ASSUME Inv, [Next]_vars PROVE Inv'
    OBVIOUS
  <2>1. CASE UNCHANGED vars
    BY <2>1 DEF vars, Inv, TypeOK, GroupCounts, Busy, RowsAreAnswers, Spinning,
                Shown, Parsed, TableCellModel
  <2> QED
    BY <2>1, RequestInv, AppendRowInv, CrashInv, LeaveInv, MainQueueInv DEF Next
<1> QED
  BY <1>1, InitInv, PTL DEF Spec

\* TypeOK holds of every state of the home screen's loading.
THEOREM TypeCorrect == Spec => []TypeOK
<1>1. Inv => TypeOK
  BY DEF Inv
<1> QED
  BY <1>1, Invariance, PTL

\* The reloaded table (HomeViewModel.swift:66-70, 19-22) shows every answer
\* in one section and one only, however many requests there are and in
\* whatever order they are answered.
THEOREM AnswersShownOnce == Spec => []EveryAnswerShownOnce
<1>1. Inv => EveryAnswerShownOnce
  <2> SUFFICES ASSUME Inv, table # <<>>, NEW k \in Calls
               PROVE  \E s \in 1..NumCalls :
                          table[s] = k /\ \A u \in 1..NumCalls : table[u] = k => u = s
    BY DEF EveryAnswerShownOnce
  <2> USE NumCallsAssumption DEF Calls, NoCall
  <2>1. /\ issued = NumCalls /\ inFlight = {}
        /\ table = [s \in 1..NumCalls |-> TableCellModel(s)]
    BY DEF Inv, Shown, GroupCounts
  <2>2. Len(tableViewCellModels) = NumCalls
    BY <2>1, FS_EmptySet DEF Inv, RowsAreAnswers, TypeOK
  <2>3. \A s \in 1..NumCalls : table[s] = tableViewCellModels[s]
    BY <2>1, <2>2 DEF TableCellModel
  <2>4. PICK s \in 1..NumCalls : tableViewCellModels[s] = k
    BY <2>1, <2>2 DEF Inv, RowsAreAnswers
  <2> QED
    BY <2>2, <2>3, <2>4 DEF Inv, RowsAreAnswers
<1> QED
  BY <1>1, Invariance, PTL

\* The spinner stops (isLoading?(false), HomeViewModel.swift:68) only after the
\* last answer has been appended, whatever the order of answers and requests.
SpinnerOutlastsRequests ==
    (inFlight # {} \/ running # NoCall) => isLoading

\* The spinner is on as long as a request or a handler is outstanding.
THEOREM SpinnerCorrect == Spec => []SpinnerOutlastsRequests
<1>1. Inv => SpinnerOutlastsRequests
  <2> SUFFICES ASSUME Inv, inFlight # {} \/ running # NoCall PROVE isLoading
    BY DEF SpinnerOutlastsRequests
  <2>1. 0 < issued
    <3>1. issued \in Nat
      BY NumCallsAssumption DEF Inv, TypeOK
    <3>2. CASE inFlight # {}
      <4>1. PICK k \in inFlight : k \in 1..issued
        BY <3>2 DEF Inv, GroupCounts
      <4> QED
        BY <3>1, <4>1
    <3>3. CASE running # NoCall
      BY <3>1, <3>3 DEF Inv, GroupCounts, NoCall
    <3> QED
      BY <3>2, <3>3
  <2>2. notify # "run"
    BY DEF Inv, GroupCounts
  <2> QED
    BY <2>1, <2>2 DEF Inv, Spinning
<1> QED
  BY <1>1, Invariance, PTL

\* callFuncToGetData keeps the promise of a barrier: a reply is the leave of
\* its handler, the announcement is the notify block.
THEOREM FeedImplementsBarrier == Spec => Barrier!FanInSafety
<1> USE NumCallsAssumption DEF Calls, NoCall
<1>1. Init => Barrier!FanInInit
  BY DEF Init, Barrier!FanInInit, Replied
<1>2. Inv /\ [Next]_vars => [Barrier!FanInNext]_(Barrier!fanInVars)
  <2> SUFFICES ASSUME Inv, [Next]_vars
               PROVE  [Barrier!FanInNext]_(Barrier!fanInVars)
    OBVIOUS
  <2> USE DEF Barrier!FanInNext, Barrier!fanInVars, Replied
  <2>1. ASSUME NEW k \in Calls, Request(k) PROVE UNCHANGED Barrier!fanInVars
    <3>1. issued \in Nat /\ inFlight \subseteq 1..issued /\ running \in 0..issued
      BY DEF Inv, GroupCounts, TypeOK
    <3>2. k = issued + 1 /\ issued' = k /\ inFlight' = inFlight \union {k}
          /\ UNCHANGED <<running, notify, crashed>>
      BY <2>1 DEF Request
    <3>3. Replied' = Replied
      BY <3>1, <3>2
    <3> QED
      BY <3>2, <3>3
  <2>2. ASSUME NEW k \in Calls, AppendRow(k) PROVE UNCHANGED Barrier!fanInVars
    BY <2>2 DEF AppendRow, Inv, GroupCounts, TypeOK
  <2>6. ASSUME NEW k \in Calls, CrashOnText(k) PROVE Barrier!Stop
    <3>1. k \notin Replied /\ k \in Calls /\ Replied' = Replied
      BY <2>6 DEF CrashOnText
    <3> QED
      BY <2>6, <3>1 DEF CrashOnText, Barrier!Stop
  <2>3. CASE Leave
    <3>1. running \in Calls /\ running <= issued /\ running \notin inFlight
          /\ Replied' = Replied \union {running} /\ running \notin Replied
      BY <2>3 DEF Leave, Inv, GroupCounts, TypeOK
    <3>2. (notify = "run")' = (notify = "run") /\ ~crashed /\ crashed' = crashed
      BY <2>3 DEF Leave
    <3> QED
      BY <3>1, <3>2 DEF Barrier!Reply
  <2>4. CASE Notify
    <3>1. Replied = Calls /\ Replied' = Replied
      BY <2>4 DEF Notify, Inv, GroupCounts
    <3> QED
      BY <2>4, <3>1 DEF Notify, Barrier!Announce
  <2>5. CASE RegisterNotify \/ Reload \/ UNCHANGED vars
    BY <2>5 DEF RegisterNotify, Reload, vars
  <2> QED
    BY <2>1, <2>2, <2>3, <2>4, <2>5, <2>6 DEF Next
<1> QED
  BY <1>1, <1>2, Invariance, PTL DEF Spec, Barrier!FanInSafety

-----------------------------------------------------------------------------
(* Why the table is eventually filled: a step is always due, and only so   *)
(* many can be taken.                                                      *)

\* How far the notify block is from having run.
BlocksLeft ==
    CASE notify = "unregistered" -> 3
      [] notify = "registered" -> 2
      [] notify = "queued" -> 1
      [] OTHER -> 0

ReloadsLeft == IF table = <<>> THEN 1 ELSE 0

CrashesLeft == IF crashed THEN 0 ELSE 1

\* A bound on the steps to come: a request is issued, answered and left.
StepsLeft ==
    3 * (NumCalls - issued) + 2 * Cardinality(inFlight) + Busy
        + BlocksLeft + ReloadsLeft + CrashesLeft

UsesOneUp == StepsLeft \in Nat /\ StepsLeft' \in Nat /\ StepsLeft' < StepsLeft

\* Every step of the loading uses up something (HomeViewModel.swift:28-71):
\* nothing is asked, answered, left, announced or reloaded again.
LoadingRunsOut == [][UsesOneUp]_vars

\* A block registered with the group has handlers to wait for.
AwaitsHandlers == notify = "registered" => group > 0

\* As long as the program runs and the table is empty, the main thread, the delegate queue or the
\* main queue has its next step to take (HomeViewModel.swift:28-71); the
\* conjuncts are the guards of the actions of Next.
AlwaysDue ==
    table = <<>> /\ ~crashed =>
        \/ issued + 1 \in Calls
        \/ issued = NumCalls /\ notify = "unregistered"
        \/ inFlight # {} /\ running = NoCall
        \/ running # NoCall
        \/ notify = "queued"
        \/ notify = "run"

LEMMA AwaitsHandlersAlways == Spec => []AwaitsHandlers
<1>1. Init => AwaitsHandlers
  BY DEF Init, AwaitsHandlers
<1>2. Inv /\ AwaitsHandlers /\ [Next]_vars => AwaitsHandlers'
  <2> SUFFICES ASSUME Inv, AwaitsHandlers, [Next]_vars PROVE AwaitsHandlers'
    OBVIOUS
  <2>1. group \in Nat
    BY DEF Inv, TypeOK
  <2>2. CASE Leave
    <3>1. group # 0
      BY <2>2, InFlightFinite DEF Inv, GroupCounts, Busy, Leave
    <3> QED
      BY <2>1, <2>2, <3>1 DEF Leave, AwaitsHandlers
  <2>3. CASE RegisterNotify
    BY <2>1, <2>3 DEF RegisterNotify, AwaitsHandlers
  <2>4. ASSUME NEW k \in Calls, Request(k) \/ AppendRow(k) PROVE AwaitsHandlers'
    BY <2>1, <2>4 DEF Request, AppendRow, AwaitsHandlers
  <2>6. ASSUME NEW k \in Calls, CrashOnText(k) PROVE AwaitsHandlers'
    BY <2>6 DEF CrashOnText, AwaitsHandlers
  <2>5. CASE Notify \/ Reload \/ UNCHANGED vars
    BY <2>5 DEF Notify, Reload, vars, AwaitsHandlers
  <2> QED
    BY <2>2, <2>3, <2>4, <2>5, <2>6 DEF Next
<1> QED
  BY <1>1, <1>2, Invariance, PTL DEF Spec

\* No order of requests, answers and blocks leaves the screen with nothing to
\* wait for (HomeViewModel.swift:28-71).
THEOREM SomethingAlwaysDue == Spec => []AlwaysDue
<1>1. Inv /\ AwaitsHandlers => AlwaysDue
  <2> SUFFICES ASSUME Inv, AwaitsHandlers PROVE AlwaysDue
    OBVIOUS
  <2>1. issued \in 0..NumCalls /\ notify \in NotifyStates
    BY DEF Inv, TypeOK
  <2>2. CASE issued # NumCalls
    BY <2>1, <2>2, NumCallsAssumption DEF AlwaysDue, Calls
  <2>3. CASE notify = "registered"
    <3>1. Cardinality(inFlight) + Busy > 0
      BY <2>3 DEF AwaitsHandlers, Inv, GroupCounts
    <3>2. running = NoCall => inFlight # {}
      BY <3>1, FS_EmptySet DEF Busy
    <3> QED
      BY <3>2 DEF AlwaysDue
  <2> QED
    BY <2>1, <2>2, <2>3 DEF AlwaysDue, NotifyStates
<1> QED
  BY <1>1, Invariance, AwaitsHandlersAlways, PTL

\* The terms of StepsLeft are numbers.
Counted ==
    /\ Cardinality(inFlight) \in Nat /\ issued \in 0..NumCalls /\ NumCalls \in Nat \ {0}
    /\ Busy \in 0..1 /\ BlocksLeft \in 0..3 /\ ReloadsLeft \in 0..1
    /\ CrashesLeft \in 0..1

LEMMA StepsCounted == Inv => Counted /\ StepsLeft \in Nat
<1> SUFFICES ASSUME Inv PROVE Counted /\ StepsLeft \in Nat
  OBVIOUS
<1>1. /\ BlocksLeft \in 0..3 /\ Busy \in 0..1
      /\ ReloadsLeft \in 0..1 /\ CrashesLeft \in 0..1
  BY DEF BlocksLeft, Busy, ReloadsLeft, CrashesLeft
<1>2. issued \in 0..NumCalls /\ NumCalls \in Nat \ {0}
  BY NumCallsAssumption DEF Inv, TypeOK
<1> QED
  BY <1>1, <1>2, InFlightFinite DEF StepsLeft, Counted

\* The loading takes at most as many steps as StepsLeft says, for any number of
\* requests: with SomethingAlwaysDue, this is what FeedEventuallyShown rests on.
THEOREM LoadingAlwaysRunsOut == Spec => LoadingRunsOut
<1>1. (Inv => Counted /\ StepsLeft \in Nat) /\ (Inv => Counted /\ StepsLeft \in Nat)'
  BY StepsCounted, PTL
<1>2. ASSUME Inv, Inv', Next PROVE UsesOneUp
  <2>1. Counted /\ Counted' /\ StepsLeft \in Nat /\ StepsLeft' \in Nat
    BY <1>1, <1>2
  <2> USE DEF Counted
  <2> SUFFICES StepsLeft' < StepsLeft
    BY <2>1 DEF UsesOneUp
  <2>2. ASSUME NEW k \in Calls, Request(k) PROVE StepsLeft' < StepsLeft
    <3>1. k \notin inFlight /\ IsFiniteSet(inFlight)
      BY <1>2, <2>2, InFlightFinite DEF Request, Inv, GroupCounts, TypeOK
    <3>2. Cardinality(inFlight') = Cardinality(inFlight) + 1
      BY <2>2, <3>1, FS_AddElement DEF Request
    <3>3. issued' = issued + 1 /\ UNCHANGED <<Busy, BlocksLeft, ReloadsLeft, CrashesLeft>>
      BY <2>2 DEF Request, Busy, BlocksLeft, ReloadsLeft, CrashesLeft
    <3> QED
      BY <2>1, <3>2, <3>3 DEF StepsLeft
  <2>3. ASSUME NEW k \in Calls, AppendRow(k) PROVE StepsLeft' < StepsLeft
    <3>1. k \in inFlight /\ IsFiniteSet(inFlight)
      BY <1>2, <2>3, InFlightFinite DEF AppendRow
    <3>2. Cardinality(inFlight') = Cardinality(inFlight) - 1
      BY <2>3, <3>1, FS_RemoveElement DEF AppendRow
    <3>3. Busy = 0 /\ UNCHANGED <<issued, BlocksLeft, ReloadsLeft, CrashesLeft>>
      BY <2>3 DEF AppendRow, Busy, BlocksLeft, ReloadsLeft, CrashesLeft
    <3> QED
      BY <2>1, <3>2, <3>3 DEF StepsLeft
  <2>4. CASE Leave
    <3>1. Busy = 1 /\ Busy' = 0
      BY <2>4 DEF Leave, Busy
    <3>2. BlocksLeft' <= BlocksLeft
      BY <2>4 DEF Leave, BlocksLeft
    <3>3. UNCHANGED <<issued, Cardinality(inFlight), ReloadsLeft, CrashesLeft>>
      BY <2>4 DEF Leave, ReloadsLeft, CrashesLeft
    <3> QED
      BY <2>1, <3>1, <3>2, <3>3 DEF StepsLeft
  <2>5. CASE RegisterNotify \/ Notify
    <3>1. UNCHANGED <<issued, Cardinality(inFlight), Busy, ReloadsLeft, CrashesLeft>>
      BY <2>5 DEF RegisterNotify, Notify, Busy, ReloadsLeft, CrashesLeft
    <3>2. BlocksLeft' < BlocksLeft
      BY <2>5 DEF RegisterNotify, Notify, BlocksLeft
    <3> QED
      BY <2>1, <3>1, <3>2 DEF StepsLeft
  <2>6. CASE Reload
    <3>1. table = <<>> /\ table' # <<>>
      <4>1. table' \in Seq(Calls \union {NoCall}) /\ Len(table') = NumCalls
        BY <1>2, <2>1, <2>6 DEF Reload, Inv, TypeOK
      <4> QED
        BY <2>1, <2>6, <4>1 DEF Reload
    <3>2. ReloadsLeft = 1 /\ ReloadsLeft' = 0
      BY <3>1 DEF ReloadsLeft
    <3>3. UNCHANGED <<issued, Cardinality(inFlight), Busy, BlocksLeft, CrashesLeft>>
      BY <2>6 DEF Reload, Busy, BlocksLeft, CrashesLeft
    <3> QED
      BY <2>1, <3>2, <3>3 DEF StepsLeft
  <2>7. ASSUME NEW k \in Calls, CrashOnText(k) PROVE StepsLeft' < StepsLeft
    <3>1. UNCHANGED <<issued, Cardinality(inFlight), Busy, BlocksLeft, ReloadsLeft>>
      BY <2>7 DEF CrashOnText, Busy, BlocksLeft, ReloadsLeft
    <3>2. CrashesLeft = 1 /\ CrashesLeft' = 0
      BY <2>7 DEF CrashOnText, CrashesLeft
    <3> QED
      BY <2>1, <3>1, <3>2 DEF StepsLeft
  <2> QED
    BY <1>2, <2>2, <2>3, <2>4, <2>5, <2>6, <2>7 DEF Next
<1>3. Inv /\ Inv' /\ [Next]_vars => [UsesOneUp]_vars
  BY <1>2
<1> QED
  BY <1>3, Invariance, PTL DEF Spec, LoadingRunsOut

-----------------------------------------------------------------------------
(* What the parser makes of the answers.                                    *)

\* Whatever the answers of however many requests, an appended row
\* (HomeViewModel.swift:34-61) shows the ingredients their texts have, and only
\* a text of nothing but parentheses, in an answer without a row, stops the
\* program (ApiService.swift:91, 261).
THEOREM IngredientsParsedHolds == Spec => []IngredientsParsed
<1>1. Inv => IngredientsParsed
  <2> SUFFICES ASSUME Inv PROVE IngredientsParsed
    OBVIOUS
  <2>0. ASSUME NEW k \in Calls, NEW i \in DOMAIN answer[k]
        PROVE  answer[k][i] \in Seq(Letter)
    <3>1. answer[k] \in Seq(Text)
      BY DEF Inv, TypeOK, Answer
    <3> QED
      BY <3>1 DEF Text
  <2>1. ASSUME NEW s \in 1..Len(tableViewCellModels), NEW k, k = tableViewCellModels[s]
        PROVE  /\ DOMAIN ingredients[k] = DOMAIN answer[k]
               /\ \A i \in DOMAIN answer[k] : TakenFrom(answer[k][i], ingredients[k][i])
    <3>1. k \in Calls /\ k <= issued /\ k \notin inFlight
      BY <2>1 DEF Inv, TypeOK, RowsAreAnswers
    <3>2. /\ ingredients[k] = [i \in DOMAIN answer[k] |-> ParseIngredient(answer[k][i])]
          /\ \A i \in DOMAIN answer[k] : ParseIngredient(answer[k][i]) # Crash
      BY <3>1 DEF Inv, Parsed
    <3>3. ASSUME NEW i \in DOMAIN answer[k] PROVE TakenFrom(answer[k][i], ingredients[k][i])
      <4>1. TakenFrom(answer[k][i], ParseIngredient(answer[k][i]))
        BY <2>0, <3>1, <3>2, EveryTextParsed
      <4>2. ingredients[k][i] = ParseIngredient(answer[k][i])
        BY <3>2
      <4> QED
        BY <4>1, <4>2
    <3> QED
      BY <3>2, <3>3
  <2>2. ASSUME crashed PROVE \E k \in inFlight : ~Readable(k)
    <3>1. PICK k \in inFlight : \E i \in DOMAIN answer[k] : ParseIngredient(answer[k][i]) = Crash
      BY <2>2 DEF Inv, Parsed
    <3>2. k \in Calls
      BY DEF Inv, TypeOK
    <3>3. PICK i \in DOMAIN answer[k] : ParseIngredient(answer[k][i]) = Crash
      BY <3>1
    <3>4. OnlyParentheses(answer[k][i])
      BY <2>0, <3>2, <3>3, EveryTextParsed
    <3> QED
      BY <3>4 DEF Readable
  <2> QED
    BY <2>1, <2>2 DEF IngredientsParsed
<1> QED
  BY <1>1, Invariance, PTL
=============================================================================
