---------------------------- MODULE HeartsProofs ----------------------------
(***************************************************************************)
(* Theorems about Hearts, for any recipes, titles, rows and cells.         *)
(***************************************************************************)
EXTENDS Hearts, TLAPS

\* No heart of a row without a cell is wrong without an excuse: what it
\* missed cannot be made up for by a refresh that is still to come.
UnheldExcused == \A v \in ViewModel : Wrong(v) /\ ~Held(v) => v \in excused

\* Cells show rows when all have arrived.
CellsLoaded == \A c \in Cells : cell[c] = NoRow \/ loaded = ViewModel

\* What a thread has read it is still looking at.
ReadsItsTodo == \A t \in Thread : got[t] # NoRead => got[t].vm \in todo[t]

\* What the main thread has read is still so.
ReadsRight ==
    got["main"] # NoRead => got["main"].value = IsFavorite(got["main"].vm[2])

\* At toggleFavorite's last statement only the tapped heart is left.
LastRight ==
    tap.last =>
        /\ observers["main"] = {} /\ todo["main"] \subseteq {tap.vm}
        /\ todo["main"] = {} => isFavorite[tap.vm] = IsFavorite(tap.vm[2])

\* The tapped recipe is out of the list if its heart was on, else in it.
ListAsTapped == tap.was <=> favorites[tap.vm[2]] = 0

\* A toggle that the sync does not disturb.
Undisturbed ==
    tap # NoTap /\ tap.alone =>
        /\ SyncOver
        /\ ListAsTapped
        /\ ReadsRight
        /\ LastRight

-----------------------------------------------------------------------------
LEMMA ViewModelParts == \A v \in ViewModel : v[1] \in Rows /\ v[2] \in Recipe
BY DEF ViewModel

\* What is wrong after a step that writes vars is so by those variables only.
LEMMA WrongStays ==
  ASSUME UNCHANGED <<favorites, loaded, isFavorite>>
  PROVE  \A v \in ViewModel : Wrong(v)' <=> Wrong(v)
BY DEF Wrong, IsFavorite

\* The hearts' variables keep their types; the list never holds more copies of
\* a recipe than the bound on taps allows.
THEOREM TypeCorrect == Spec => []TypeOK
<1>1. Init => TypeOK
  BY CopiesAssumption DEF Init, TypeOK
<1>2. TypeOK /\ [Next]_vars => TypeOK'
  <2> SUFFICES ASSUME TypeOK, [Next]_vars PROVE TypeOK'
    OBVIOUS
  <2> USE DEF threads
  <2>0. /\ favorites \in [Recipe -> 0..MaxCopies]
        /\ isFavorite \in [ViewModel -> BOOLEAN]
        /\ observers \in [Thread -> SUBSET Cells]
        /\ todo \in [Thread -> SUBSET ViewModel]
        /\ got \in [Thread -> Reading \union {NoRead}]
        /\ Made \subseteq Cells
    BY DEF TypeOK, Made
  <2>1. \A S \in SUBSET ViewModel : Excuse(S) => excused' \subseteq ViewModel
    BY DEF Excuse, TypeOK
  <2>2. Unheld \in SUBSET ViewModel
    BY DEF Unheld
  <2>3. ASSUME NEW r \in Recipe, NEW remove \in BOOLEAN,
               remove \/ favorites[r] < MaxCopies, Edit(r, remove)
        PROVE  /\ favorites' \in [Recipe -> 0..MaxCopies]
               /\ observers' \in [Thread -> SUBSET Cells]
    <3>1. \A x \in 0..MaxCopies : (x < MaxCopies => x + 1 \in 0..MaxCopies) /\ 0 \in 0..MaxCopies
      BY CopiesAssumption
    <3> QED
      BY <2>0, <2>3, <3>1 DEF Edit, Post
  <2>4. ASSUME NEW v \in ViewModel, Load(v) PROVE TypeOK'
    <3>1. IsFavorite(v[2]) \in BOOLEAN
      BY DEF IsFavorite
    <3>2. isFavorite' \in [ViewModel -> BOOLEAN]
      BY <2>0, <2>4, <3>1 DEF Load
    <3> QED
      BY <2>4, <3>2 DEF Load, TypeOK
  <2>5. ASSUME NEW c \in Cells, NEW w \in Rows, Configure(c, w) PROVE TypeOK'
    <3>1. excused' \subseteq ViewModel
      BY <2>1, <2>5 DEF Configure
    <3>2. cell' \in [Cells -> Rows \union {NoRow}]
      BY <2>5 DEF Configure, TypeOK
    <3> QED
      BY <2>5, <3>1, <3>2 DEF Configure, TypeOK
  <2>6. ASSUME NEW v \in ViewModel, ToggleFavorite(v) PROVE TypeOK'
    <3>1. excused' \subseteq ViewModel
      BY <2>1, <2>2, <2>6 DEF ToggleFavorite
    <3>2. isFavorite[v] \in BOOLEAN /\ v[2] \in Recipe
      BY <2>0, ViewModelParts
    <3>3. /\ favorites' \in [Recipe -> 0..MaxCopies]
          /\ observers' \in [Thread -> SUBSET Cells]
      BY <2>3, <2>6, <3>2 DEF ToggleFavorite
    <3>4. tap' \in Tap
      <4>1. SyncOver \in BOOLEAN
        BY DEF SyncOver, Done
      <4> QED
        BY <2>6, <3>2, <4>1 DEF ToggleFavorite, Tap
    <3> QED
      BY <2>6, <3>1, <3>3, <3>4 DEF ToggleFavorite, TypeOK
  <2>7. ASSUME NEW r \in Recipe, NEW remove \in BOOLEAN, ToggleElsewhere(r, remove)
        PROVE  TypeOK'
    <3>1. excused' \subseteq ViewModel
      BY <2>1, <2>2, <2>7 DEF ToggleElsewhere
    <3>2. /\ favorites' \in [Recipe -> 0..MaxCopies]
          /\ observers' \in [Thread -> SUBSET Cells]
      BY <2>3, <2>7 DEF ToggleElsewhere
    <3> QED
      BY <2>7, <3>1, <3>2 DEF ToggleElsewhere, TypeOK
  <2>8. CASE LastLook
    <3>1. tap \in Tap
      BY <2>8 DEF LastLook, TypeOK
    <3>2. tap' \in Tap /\ tap.vm \in ViewModel
      BY <2>8, <3>1 DEF LastLook, Tap
    <3>3. todo' \in [Thread -> SUBSET ViewModel]
      BY <2>0, <2>8, <3>2 DEF LastLook
    <3> QED
      BY <2>8, <3>2, <3>3 DEF LastLook, TypeOK
  <2>9. CASE ToggleReturns
    BY <2>9 DEF ToggleReturns, TypeOK
  <2>10. ASSUME NEW t \in Thread, NEW c \in Cells, Visit(t, c) PROVE TypeOK'
    <3>1. /\ observers' \in [Thread -> SUBSET Cells]
          /\ todo' \in [Thread -> SUBSET ViewModel]
      BY <2>0, <2>10 DEF Visit
    <3> QED
      BY <2>10, <3>1 DEF Visit, TypeOK
  <2>11. ASSUME NEW t \in Thread, NEW v \in ViewModel, Read(t, v) PROVE TypeOK'
    <3>1. [vm |-> v, value |-> IsFavorite(v[2])] \in Reading
      BY DEF IsFavorite, Reading
    <3>2. got' \in [Thread -> Reading \union {NoRead}]
      BY <2>0, <2>11, <3>1 DEF Read
    <3> QED
      BY <2>11, <3>2 DEF Read, TypeOK
  <2>12. ASSUME NEW t \in Thread, Write(t) PROVE TypeOK'
    <3>1. got[t] \in Reading
      BY <2>0, <2>12 DEF Write
    <3>2. got[t].vm \in ViewModel /\ got[t].value \in BOOLEAN
      BY <3>1 DEF Reading
    <3>3. excused' \subseteq ViewModel
      BY <2>1, <2>12, <3>2 DEF Write
    <3>4. isFavorite' \in [ViewModel -> BOOLEAN]
      BY <2>0, <2>12, <3>2 DEF Write
    <3>5. /\ todo' \in [Thread -> SUBSET ViewModel]
          /\ got' \in [Thread -> Reading \union {NoRead}]
      BY <2>0, <2>12 DEF Write
    <3> QED
      BY <2>12, <3>3, <3>4, <3>5 DEF Write, TypeOK
  <2>13. CASE SyncSave
    <3>1. excused' \subseteq ViewModel
      BY <2>1, <2>2, <2>13 DEF SyncSave
    <3>2. favorites' \in [Recipe -> 0..MaxCopies]
      BY <2>13, CopiesAssumption DEF SyncSave
    <3> QED
      BY <2>13, <3>1, <3>2 DEF SyncSave, TypeOK
  <2>14. CASE SyncPost
    <3>1. observers' \in [Thread -> SUBSET Cells]
      BY <2>0, <2>14 DEF SyncPost, Post
    <3> QED
      BY <2>14, <3>1 DEF SyncPost, TypeOK
  <2>15. CASE UNCHANGED vars
    BY <2>15 DEF vars, TypeOK
  <2> QED
    BY <2>4, <2>5, <2>6, <2>7, <2>8, <2>9, <2>10, <2>11, <2>12, <2>13, <2>14, <2>15
       DEF Next, ThreadStep
<1> QED
  BY <1>1, <1>2, PTL DEF Spec

-----------------------------------------------------------------------------
(* HeartsAgree, TapFlips and SecondCopyByStaleHeart                        *)

HoldInv == HeartsAgree /\ UnheldExcused /\ CellsLoaded /\ ReadsItsTodo

LEMMA ExcuseRule ==
  ASSUME NEW S, Excuse(S)
  PROVE  \A v \in ViewModel : Wrong(v)' /\ (v \in excused \/ v \in S) => v \in excused'
BY DEF Excuse

\* A change of the list: the hearts that cells hold are due, by the
\* notification or the sync's to come; the others are excused.
LEMMA ListChanges ==
  ASSUME TypeOK, HoldInv, UNCHANGED <<loaded, isFavorite, cell, todo, got>>,
         sync' = "saved" \/ \E t \in Thread : observers'[t] = Made,
         Excuse(Unheld)
  PROVE  HoldInv'
<1>1. \A v \in ViewModel : Held(v)' <=> Held(v)
  BY DEF Held
<1>2. \A v \in ViewModel : Held(v) => Due(v)'
  <2> SUFFICES ASSUME NEW v \in ViewModel, Held(v) PROVE Due(v)'
    OBVIOUS
  <2>1. PICK c \in Cells : cell[c] = v[1]
    BY DEF Held
  <2>2. c \in Made
    BY <2>1, ViewModelParts, RowsAssumption DEF Made
  <2> QED
    BY <2>1, <2>2 DEF Due
<1>3. \A v \in ViewModel : Wrong(v)' /\ ~Held(v) => v \in excused'
  BY ExcuseRule DEF Unheld
<1>4. HeartsAgree' /\ UnheldExcused'
  BY <1>1, <1>2, <1>3 DEF HeartsAgree, UnheldExcused
<1> QED
  BY <1>4 DEF HoldInv, CellsLoaded, ReadsItsTodo

LEMMA LoadHolds ==
  ASSUME TypeOK, HoldInv, NEW u \in ViewModel, Load(u)
  PROVE  HoldInv'
<1> USE DEF Load, threads
<1>1. \A r : IsFavorite(r)' = IsFavorite(r)
  BY DEF IsFavorite
<1>2. ASSUME NEW v \in ViewModel, Wrong(v)' PROVE Wrong(v)
  <2>1. v \in loaded' /\ isFavorite'[v] # IsFavorite(v[2])
    BY <1>1, <1>2, Zenon DEF Wrong
  <2>2. isFavorite'[v] = IF v = u THEN IsFavorite(v[2]) ELSE isFavorite[v]
    BY DEF TypeOK
  <2>3. v # u /\ isFavorite'[v] = isFavorite[v]
    BY <2>1, <2>2, Zenon
  <2>4. v \in loaded
    BY <2>1, <2>3
  <2> QED
    BY <2>1, <2>3, <2>4, Zenon DEF Wrong
<1>3. \A v \in ViewModel : (Held(v)' <=> Held(v)) /\ (Due(v)' <=> Due(v))
  BY DEF Held, Due
<1>4. HeartsAgree' /\ UnheldExcused'
  BY <1>2, <1>3 DEF HoldInv, HeartsAgree, UnheldExcused
<1>5. CellsLoaded' /\ ReadsItsTodo'
  BY DEF HoldInv, CellsLoaded, ReadsItsTodo
<1> QED
  BY <1>4, <1>5 DEF HoldInv

LEMMA ConfigureHolds ==
  ASSUME TypeOK, HoldInv, NEW c \in Cells, NEW w \in Rows, Configure(c, w)
  PROVE  HoldInv'
<1> USE DEF Configure, threads
<1> DEFINE left == {v \in ViewModel : v[1] = cell[c]}
<1>1. Excuse(left)
  OBVIOUS
<1>2. \A v \in ViewModel : Wrong(v)' => Wrong(v)
  BY WrongStays
<1>3. \A x \in Cells : x # c => cell'[x] = cell[x]
  BY DEF TypeOK
<1>4. loaded' = ViewModel
  OBVIOUS
<1>5. ASSUME NEW v \in ViewModel, Wrong(v)', v \notin excused'
      PROVE  Due(v)' /\ Held(v)'
  <2>1. v \notin excused /\ v[1] # cell[c]
    BY <1>1, <1>5, ExcuseRule
  <2>2. Wrong(v) /\ Held(v) /\ Due(v)
    BY <1>2, <1>5, <2>1 DEF HoldInv, HeartsAgree, UnheldExcused
  <2>3. Held(v)'
    BY <1>3, <2>1, <2>2 DEF Held
  <2>4. Due(v)'
    <3>1. CASE sync = "saved" \/ \E t \in Thread : v \in todo[t]
      BY <3>1 DEF Due
    <3>2. CASE \E t \in Thread : \E x \in observers[t] : cell[x] = v[1]
      <4>1. PICK t \in Thread : \E x \in observers[t] : cell[x] = v[1]
        BY <3>2
      <4>2. PICK x \in observers[t] : cell[x] = v[1]
        BY <4>1
      <4>3. x \in Cells /\ x # c
        BY <2>1, <4>2 DEF TypeOK
      <4> QED
        BY <1>3, <4>2, <4>3 DEF Due
    <3> QED
      BY <2>2, <3>1, <3>2 DEF Due
  <2> QED
    BY <2>3, <2>4
<1>6. HeartsAgree' /\ UnheldExcused'
  BY <1>5 DEF HeartsAgree, UnheldExcused
<1>7. CellsLoaded'
  BY <1>4 DEF CellsLoaded
<1>8. ReadsItsTodo'
  BY DEF HoldInv, ReadsItsTodo
<1> QED
  BY <1>6, <1>7, <1>8 DEF HoldInv

\* A step that leaves list, flags, cells and excuses alone and takes no
\* refresh away.
LEMMA NothingLost ==
  ASSUME TypeOK, HoldInv, UNCHANGED <<favorites, loaded, isFavorite, cell, excused>>,
         \A v \in ViewModel : Wrong(v) /\ Held(v) /\ Due(v) => Due(v)',
         ReadsItsTodo'
  PROVE  HoldInv'
<1>1. \A v \in ViewModel : (Wrong(v)' <=> Wrong(v)) /\ (Held(v)' <=> Held(v))
  BY WrongStays DEF Held
<1>2. HeartsAgree' /\ UnheldExcused'
  BY <1>1 DEF HoldInv, HeartsAgree, UnheldExcused
<1> QED
  BY <1>2 DEF HoldInv, CellsLoaded

LEMMA WriteHolds ==
  ASSUME TypeOK, HoldInv, NEW t \in Thread, Write(t)
  PROVE  HoldInv'
<1> USE DEF Write
<1>1. got[t] \in Reading
  BY DEF TypeOK
<1>2. PICK u \in ViewModel : u = got[t].vm
  BY <1>1 DEF Reading
<1>3. Excuse({u})
  BY <1>2
<1>4. \A v \in ViewModel : v # u => isFavorite'[v] = isFavorite[v]
  BY <1>2 DEF TypeOK
<1>5. \A r : IsFavorite(r)' <=> IsFavorite(r)
  BY DEF IsFavorite
<1>6. \A v \in ViewModel : v # u /\ Wrong(v)' => Wrong(v)
  BY <1>4, <1>5 DEF Wrong
<1>7. \A v \in ViewModel : v # u /\ Due(v) => Due(v)'
  BY <1>2 DEF Due, TypeOK
<1>8. \A v \in ViewModel : Held(v)' <=> Held(v)
  BY DEF Held
<1>9. ASSUME NEW v \in ViewModel, Wrong(v)', v \notin excused'
      PROVE  Due(v)' /\ Held(v)'
  <2>1. v # u /\ v \notin excused
    BY <1>3, <1>9, ExcuseRule
  <2> QED
    BY <1>6, <1>7, <1>8, <1>9, <2>1 DEF HoldInv, HeartsAgree, UnheldExcused
<1>10. HeartsAgree' /\ UnheldExcused'
  BY <1>9 DEF HeartsAgree, UnheldExcused
<1>11. ReadsItsTodo'
  <2> SUFFICES ASSUME NEW x \in Thread, got'[x] # NoRead PROVE got'[x].vm \in todo'[x]
    BY DEF ReadsItsTodo
  <2>1. x # t /\ got'[x] = got[x] /\ todo'[x] = todo[x]
    BY DEF TypeOK
  <2> QED
    BY <2>1 DEF HoldInv, ReadsItsTodo
<1> QED
  BY <1>10, <1>11 DEF HoldInv, CellsLoaded

\* The hearts' invariant, action by action.
LEMMA HoldStep ==
  ASSUME TypeOK, TypeOK', HoldInv, [Next]_vars
  PROVE  HoldInv'
<1> USE DEF threads
<1>1. ASSUME NEW v \in ViewModel, Load(v) PROVE HoldInv'
  BY <1>1, LoadHolds
<1>2. ASSUME NEW c \in Cells, NEW w \in Rows, Configure(c, w) PROVE HoldInv'
  BY <1>2, ConfigureHolds
<1>3. ASSUME NEW r \in Recipe, NEW remove, Edit(r, remove)
      PROVE  \E t \in Thread : observers'[t] = Made
  BY <1>3 DEF Edit, Post, Thread, TypeOK
<1>4. ASSUME NEW v \in ViewModel, ToggleFavorite(v) PROVE HoldInv'
  <2>1. v[2] \in Recipe
    BY ViewModelParts
  <2>2. \E t \in Thread : observers'[t] = Made
    BY <1>3, <1>4, <2>1 DEF ToggleFavorite
  <2> QED
    BY <1>4, <2>2, ListChanges DEF ToggleFavorite
<1>5. ASSUME NEW r \in Recipe, NEW remove \in BOOLEAN, ToggleElsewhere(r, remove)
      PROVE  HoldInv'
  <2>1. \E t \in Thread : observers'[t] = Made
    BY <1>3, <1>5 DEF ToggleElsewhere
  <2> QED
    BY <1>5, <2>1, ListChanges DEF ToggleElsewhere
<1>6. CASE LastLook
  <2>1. todo["main"] = {} /\ todo' = [todo EXCEPT !["main"] = {tap.vm}]
    BY <1>6 DEF LastLook, Done
  <2>2. \A v \in ViewModel : Due(v) => Due(v)'
    BY <1>6, <2>1 DEF LastLook, Due, TypeOK
  <2>3. ReadsItsTodo'
    BY <1>6, <2>1 DEF LastLook, HoldInv, ReadsItsTodo, TypeOK
  <2> QED
    BY <1>6, <2>2, <2>3, NothingLost DEF LastLook
<1>7. CASE ToggleReturns
  <2>1. \A v \in ViewModel : Due(v) => Due(v)'
    BY <1>7 DEF ToggleReturns, Due
  <2>2. ReadsItsTodo'
    BY <1>7 DEF ToggleReturns, HoldInv, ReadsItsTodo
  <2> QED
    BY <1>7, <2>1, <2>2, NothingLost DEF ToggleReturns
<1>8. ASSUME NEW t \in Thread, NEW c \in Cells, Visit(t, c) PROVE HoldInv'
  <2>1. /\ todo[t] = {} /\ todo'[t] = {v \in ViewModel : v[1] = cell[c]}
        /\ observers'[t] = observers[t] \ {c}
        /\ \A x \in Thread : x # t => todo'[x] = todo[x] /\ observers'[x] = observers[x]
    BY <1>8 DEF Visit, TypeOK
  <2>2. ASSUME NEW v \in ViewModel, Due(v) PROVE Due(v)'
    <3>1. CASE sync = "saved"
      BY <1>8, <3>1 DEF Visit, Due
    <3>2. CASE \E x \in Thread : v \in todo[x]
      BY <2>1, <3>2 DEF Due
    <3>3. CASE \E x \in Thread : \E y \in observers[x] : cell[y] = v[1]
      <4>1. PICK x \in Thread : \E y \in observers[x] : cell[y] = v[1]
        BY <3>3
      <4>2. PICK y \in observers[x] : cell[y] = v[1]
        BY <4>1
      <4>3. CASE x = t /\ y = c
        BY <2>1, <4>2, <4>3 DEF Due
      <4>4. CASE ~(x = t /\ y = c)
        <5>1. y \in observers'[x] /\ cell'[y] = v[1]
          BY <1>8, <2>1, <4>2, <4>4 DEF Visit
        <5> QED
          BY <5>1 DEF Due
      <4> QED
        BY <4>3, <4>4
    <3> QED
      BY <2>2, <3>1, <3>2, <3>3 DEF Due
  <2>3. ReadsItsTodo'
    BY <1>8, <2>1 DEF Visit, HoldInv, ReadsItsTodo
  <2> QED
    BY <1>8, <2>2, <2>3, NothingLost DEF Visit
<1>9. ASSUME NEW t \in Thread, NEW v \in ViewModel, Read(t, v) PROVE HoldInv'
  <2>1. \A x \in ViewModel : Due(x) => Due(x)'
    BY <1>9 DEF Read, Due
  <2>2. ReadsItsTodo'
    <3> SUFFICES ASSUME NEW x \in Thread, got'[x] # NoRead PROVE got'[x].vm \in todo'[x]
      BY DEF ReadsItsTodo
    <3>1. CASE x = t
      <4>1. got'[x] = [vm |-> v, value |-> IsFavorite(v[2])] /\ v \in todo'[x]
        BY <1>9, <3>1 DEF Read, TypeOK
      <4> QED
        BY <4>1
    <3>2. CASE x # t
      BY <1>9, <3>2 DEF Read, TypeOK, HoldInv, ReadsItsTodo
    <3> QED
      BY <3>1, <3>2
  <2> QED
    BY <1>9, <2>1, <2>2, NothingLost DEF Read
<1>10. ASSUME NEW t \in Thread, Write(t) PROVE HoldInv'
  BY <1>10, WriteHolds
<1>11. CASE SyncSave
  BY <1>11, ListChanges DEF SyncSave
<1>12. CASE SyncPost
  <2>1. observers'["sync"] = Made /\ observers'["main"] = observers["main"]
    BY <1>12 DEF SyncPost, Post, TypeOK, Thread
  <2>2. ASSUME NEW v \in ViewModel, Held(v) PROVE Due(v)'
    <3>1. PICK c \in Cells : cell[c] = v[1]
      BY <2>2 DEF Held
    <3>2. c \in observers'["sync"] /\ cell'[c] = v[1]
      BY <1>12, <2>1, <3>1, ViewModelParts, RowsAssumption DEF Made, SyncPost
    <3> QED
      BY <3>2 DEF Due, Thread
  <2>3. ReadsItsTodo'
    BY <1>12 DEF SyncPost, HoldInv, ReadsItsTodo
  <2> QED
    BY <1>12, <2>2, <2>3, NothingLost DEF SyncPost
<1>13. CASE UNCHANGED vars
  <2>1. \A v \in ViewModel : Due(v) => Due(v)'
    BY <1>13 DEF vars, Due
  <2>2. ReadsItsTodo'
    BY <1>13 DEF vars, HoldInv, ReadsItsTodo
  <2> QED
    BY <1>13, <2>1, <2>2, NothingLost DEF vars
<1> QED
  BY <1>1, <1>2, <1>4, <1>5, <1>6, <1>7, <1>8, <1>9, <1>10, <1>11, <1>12, <1>13
     DEF Next, ThreadStep

LEMMA InitHolds ==
  ASSUME Init
  PROVE  HoldInv /\ Undisturbed
<1>1. loaded = {} /\ got = [t \in Thread |-> NoRead] /\ cell = [c \in Cells |-> NoRow]
  BY DEF Init
<1>2. tap = NoTap
  BY DEF Init
<1> QED
  BY <1>1, <1>2 DEF HoldInv, HeartsAgree, UnheldExcused, CellsLoaded, ReadsItsTodo,
                    Wrong, Undisturbed

LEMMA HeartsInvariant == Spec => [](TypeOK /\ HoldInv)
<1>1. Init => HoldInv
  BY InitHolds
<1>2. TypeOK /\ TypeOK' /\ HoldInv /\ [Next]_vars => HoldInv'
  BY HoldStep
<1> QED
  BY <1>1, <1>2, TypeCorrect, PTL DEF Spec

\* RecipeTableViewCell.swift:54-69: whatever the two threads do, a heart that
\* contradicts the list is about to be refreshed or has one of the excuses.
THEOREM HeartsAgreeAlways == Spec => []HeartsAgree
<1>1. HoldInv => HeartsAgree
  BY DEF HoldInv
<1> QED
  BY <1>1, HeartsInvariant, PTL

\* FavoritesManager.swift:55: on the home screen a second copy comes only from
\* a wrong heart.
THEOREM SecondCopy == Spec => SecondCopyByStaleHeart
<1> DEFINE Stale(v) ==
             /\ tap = NoTap /\ tap' # NoTap /\ tap'.vm = v
             /\ favorites'[v[2]] > 1 /\ favorites'[v[2]] > favorites[v[2]]
             => ~SyncOver \/ v \in excused
<1>1. ASSUME TypeOK, HoldInv, [Next]_vars, NEW v \in ViewModel PROVE Stale(v)
  <2> DEFINE r == v[2]
  <2> SUFFICES ASSUME tap = NoTap, tap' # NoTap, tap'.vm = v,
                      favorites'[r] > 1, favorites'[r] > favorites[r], SyncOver
               PROVE  v \in excused
    OBVIOUS
  <2> USE DEF threads
  <2>1. v[1] \in Rows /\ r \in Recipe
    BY ViewModelParts
  <2>2. favorites \in [Recipe -> 0..MaxCopies] /\ favorites[r] \in Nat
    BY <1>1, <2>1, CopiesAssumption DEF TypeOK
  <2>3. PICK u \in ViewModel : ToggleFavorite(u)
    BY <1>1 DEF Next, ThreadStep, Load, Configure, ToggleElsewhere, LastLook,
       ToggleReturns, Visit, Read, Write, SyncSave, SyncPost, vars
  <2>4. tap'.vm = u
    BY <2>3 DEF ToggleFavorite
  <2>5. ToggleFavorite(v)
    BY <2>3, <2>4
  <2>6. favorites' = [favorites EXCEPT ![r] = IF isFavorite[v] THEN 0 ELSE @ + 1]
    BY <2>5 DEF ToggleFavorite, Edit
  <2>7. favorites'[r] = IF isFavorite[v] THEN 0 ELSE favorites[r] + 1
    BY <2>1, <2>2, <2>6
  <2>8. ~isFavorite[v] /\ favorites[r] > 0
    BY <2>2, <2>7
  <2>9. IsFavorite(r)
    BY <2>1, <2>8 DEF IsFavorite
  <2>10. v \in loaded
    <3>1. PICK c \in Cells : cell[c] = v[1]
      BY <2>5 DEF ToggleFavorite, Held
    <3>2. cell[c] = NoRow \/ loaded = ViewModel
      BY <1>1 DEF HoldInv, CellsLoaded
    <3> QED
      BY <2>1, <3>1, <3>2, RowsAssumption
  <2>11. Wrong(v)
    BY <2>8, <2>9, <2>10, Zenon DEF Wrong
  <2>12. ~Due(v)
    BY <2>5 DEF ToggleFavorite, MainIdle, SyncOver, Done, Due, Thread
  <2> QED
    BY <1>1, <2>11, <2>12 DEF HoldInv, HeartsAgree
<1>2. TypeOK /\ HoldInv /\ [Next]_vars => [\A v \in ViewModel : Stale(v)]_vars
  BY <1>1
<1> QED
  BY <1>2, HeartsInvariant, PTL DEF Spec, SecondCopyByStaleHeart

-----------------------------------------------------------------------------
LEMMA ReadsKept ==
  ASSUME favorites' = favorites, got'["main"] = got["main"], ReadsRight
  PROVE  ReadsRight'
<1>1. \A r : IsFavorite(r)' = IsFavorite(r)
  BY DEF IsFavorite
<1>2. CASE got["main"] = NoRead
  BY <1>2 DEF ReadsRight
<1>3. CASE got["main"] # NoRead
  <2>1. got["main"].value = IsFavorite(got["main"].vm[2])
    BY <1>3 DEF ReadsRight
  <2>2. got["main"].value = IsFavorite(got["main"].vm[2])'
    BY <1>1, <2>1, Zenon
  <2> QED
    BY <2>2, Zenon DEF ReadsRight
<1> QED
  BY <1>2, <1>3

LEMMA LastKept ==
  ASSUME UNCHANGED <<favorites, tap>>, todo'["main"] = todo["main"],
         observers'["main"] = observers["main"], LastRight,
         \/ isFavorite'[tap.vm] = isFavorite[tap.vm]
         \/ isFavorite'[tap.vm] = IsFavorite(tap.vm[2])
  PROVE  LastRight'
<1>1. IsFavorite(tap.vm[2])' = IsFavorite(tap.vm[2])
  BY DEF IsFavorite
<1>2. tap.last /\ todo["main"] = {} => isFavorite'[tap.vm] = IsFavorite(tap.vm[2])
  BY Zenon DEF LastRight
<1>3. tap.last /\ todo["main"] = {} => isFavorite'[tap.vm] = IsFavorite(tap.vm[2])'
  BY <1>1, <1>2, Zenon
<1> QED
  BY <1>3, Zenon DEF LastRight

LEMMA UndisturbedStep ==
  ASSUME TypeOK, HoldInv, Undisturbed, [Next]_vars
  PROVE  Undisturbed'
<1> USE DEF threads
<1> DEFINE Goal == SyncOver /\ ListAsTapped /\ ReadsRight /\ LastRight
<1> SUFFICES ASSUME tap' # NoTap, tap'.alone PROVE Goal'
  BY DEF Undisturbed
<1>0. "main" \in Thread /\ "sync" \in Thread
  BY DEF Thread
\* A tap in the sync's absence.
<1>2. ASSUME NEW v \in ViewModel, ToggleFavorite(v) PROVE Goal'
  <2>1. /\ tap' = [vm |-> v, was |-> isFavorite[v], alone |-> SyncOver, last |-> FALSE]
        /\ sync' = sync /\ got' = got /\ todo' = todo /\ Done("main")
        /\ favorites' = [favorites EXCEPT ![v[2]] = IF isFavorite[v] THEN 0 ELSE @ + 1]
        /\ observers' = [observers EXCEPT !["main"] = Made]
    BY <1>2 DEF ToggleFavorite, Edit, Post, MainIdle
  <2>2. tap'.vm = v /\ tap'.was = isFavorite[v] /\ SyncOver /\ ~tap'.last
    BY <2>1
  <2>3. SyncOver'
    BY <1>0, <2>1, <2>2 DEF SyncOver, Done, TypeOK
  <2>4. got["main"] = NoRead
    BY <1>0, <2>1 DEF Done, HoldInv, ReadsItsTodo
  <2>5. favorites[v[2]] \in Nat /\ isFavorite[v] \in BOOLEAN
        /\ favorites'[v[2]] = IF isFavorite[v] THEN 0 ELSE favorites[v[2]] + 1
    BY <2>1, ViewModelParts, CopiesAssumption DEF TypeOK
  <2>6. isFavorite[v] <=> favorites'[v[2]] = 0
    BY <2>5
  <2>7. ListAsTapped'
    BY <2>2, <2>6, Zenon DEF ListAsTapped
  <2>8. ReadsRight'
    BY <2>1, <2>4 DEF ReadsRight
  <2>9. LastRight'
    BY <2>2 DEF LastRight
  <2> QED
    BY <2>3, <2>7, <2>8, <2>9
<1>3. ASSUME tap # NoTap, tap.alone
      PROVE  /\ SyncOver /\ ListAsTapped /\ ReadsRight /\ LastRight
             /\ sync = "posted" /\ got["sync"] = NoRead
             /\ observers["sync"] = {} /\ todo["sync"] = {}
             /\ tap.vm \in ViewModel /\ tap.vm[2] \in Recipe
  <2>1. tap.vm \in ViewModel
    BY <1>3 DEF TypeOK, Tap
  <2>2. SyncOver /\ ListAsTapped /\ ReadsRight /\ LastRight
    BY <1>3 DEF Undisturbed
  <2>3. /\ sync = "posted" /\ got["sync"] = NoRead
        /\ observers["sync"] = {} /\ todo["sync"] = {}
    BY <1>0, <2>2 DEF SyncOver, Done, HoldInv, ReadsItsTodo
  <2> QED
    BY <2>1, <2>2, <2>3, ViewModelParts
\* What a step that is neither a tap nor the sync's keeps.
<1>4. ASSUME UNCHANGED <<favorites, tap, sync>>,
             observers'["sync"] = observers["sync"], todo'["sync"] = todo["sync"]
      PROVE  SyncOver' /\ ListAsTapped'
  BY <1>3, <1>4 DEF SyncOver, Done, ListAsTapped
<1>5. ASSUME NEW v \in ViewModel, Load(v) PROVE Goal'
  <2>1. UNCHANGED <<favorites, tap, sync, observers, todo, got>>
    BY <1>5 DEF Load
  <2>2. tap.vm \in ViewModel /\ ReadsRight /\ LastRight
    BY <1>3, <2>1
  <2>3. \/ isFavorite'[tap.vm] = isFavorite[tap.vm]
        \/ isFavorite'[tap.vm] = IsFavorite(tap.vm[2])
    BY <1>5, <2>2 DEF Load, TypeOK
  <2>4. SyncOver' /\ ListAsTapped'
    BY <1>4, <2>1
  <2>5. ReadsRight' /\ LastRight'
    BY <2>1, <2>2, <2>3, ReadsKept, LastKept
  <2> QED
    BY <2>4, <2>5
<1>6. ASSUME NEW c \in Cells, NEW w \in Rows, Configure(c, w) PROVE FALSE
  BY <1>6 DEF Configure, MainIdle
<1>7. ASSUME NEW r \in Recipe, NEW remove \in BOOLEAN, ToggleElsewhere(r, remove)
      PROVE  FALSE
  BY <1>7 DEF ToggleElsewhere, MainIdle
<1>8. CASE LastLook
  <2>1. /\ tap # NoTap /\ tap' = [tap EXCEPT !.last = TRUE] /\ tap \in Tap
        /\ todo' = [todo EXCEPT !["main"] = {tap.vm}]
        /\ observers["main"] = {} /\ UNCHANGED <<favorites, isFavorite, sync, observers, got>>
    BY <1>8 DEF LastLook, TypeOK, Done
  <2>2. tap'.vm = tap.vm /\ tap'.was = tap.was /\ tap.alone
    BY <2>1 DEF Tap
  <2>3. todo'["main"] = {tap.vm} /\ todo'["sync"] = todo["sync"]
    BY <1>0, <2>1 DEF TypeOK
  <2>4. SyncOver' /\ ListAsTapped'
    BY <1>3, <2>1, <2>2, <2>3 DEF SyncOver, Done, ListAsTapped
  <2>5. ReadsRight'
    BY <1>3, <2>1, <2>2, ReadsKept
  <2>6. LastRight'
    BY <2>1, <2>2, <2>3 DEF LastRight
  <2> QED
    BY <2>4, <2>5, <2>6
<1>9. CASE ToggleReturns
  BY <1>9 DEF ToggleReturns
<1>10. ASSUME NEW t \in Thread, NEW c \in Cells, Visit(t, c) PROVE Goal'
  <2>1. /\ UNCHANGED <<favorites, isFavorite, sync, got, tap>> /\ c \in observers[t]
    BY <1>10 DEF Visit
  <2>2. t = "main"
    BY <1>3, <2>1 DEF Thread
  <2>3. ~tap.last
    BY <1>3, <2>1, <2>2 DEF LastRight
  <2>4. observers'["sync"] = observers["sync"] /\ todo'["sync"] = todo["sync"]
    BY <1>0, <1>10, <2>2 DEF Visit, TypeOK
  <2>5. SyncOver' /\ ListAsTapped'
    BY <1>4, <2>1, <2>4
  <2>6. ReadsRight'
    BY <1>3, <2>1, ReadsKept
  <2>7. LastRight'
    BY <2>1, <2>3 DEF LastRight
  <2> QED
    BY <2>5, <2>6, <2>7
<1>11. ASSUME NEW t \in Thread, NEW v \in ViewModel, Read(t, v) PROVE Goal'
  <2>1. /\ UNCHANGED <<favorites, isFavorite, sync, observers, todo, tap>> /\ v \in todo[t]
    BY <1>11 DEF Read
  <2>2. t = "main"
    BY <1>3, <2>1 DEF Thread
  <2>3. got'["main"] = [vm |-> v, value |-> IsFavorite(v[2])]
    BY <1>0, <1>11, <2>2 DEF Read, TypeOK
  <2>4. got'["main"].vm = v /\ got'["main"].value = IsFavorite(v[2])
    BY <2>3
  <2>5. IsFavorite(v[2])' = IsFavorite(v[2])
    BY <2>1 DEF IsFavorite
  <2>6. ReadsRight'
    BY <2>4, <2>5, Zenon DEF ReadsRight
  <2>7. SyncOver' /\ ListAsTapped'
    BY <1>4, <2>1
  <2>8. LastRight'
    BY <1>3, <2>1, LastKept
  <2> QED
    BY <2>6, <2>7, <2>8
<1>12. ASSUME NEW t \in Thread, Write(t) PROVE Goal'
  <2>1. /\ UNCHANGED <<favorites, sync, observers, tap>> /\ got[t] # NoRead
        /\ isFavorite' = [isFavorite EXCEPT ![got[t].vm] = got[t].value]
    BY <1>12 DEF Write
  <2>2. t = "main"
    BY <1>3, <2>1 DEF Thread
  <2>3. got["main"].vm \in todo["main"] /\ got["main"].value = IsFavorite(got["main"].vm[2])
    BY <1>0, <1>3, <2>1, <2>2 DEF HoldInv, ReadsItsTodo, ReadsRight
  <2>4. got'["main"] = NoRead /\ todo'["main"] = todo["main"] \ {got["main"].vm}
        /\ todo'["sync"] = todo["sync"]
    BY <1>0, <1>12, <2>2 DEF Write, TypeOK
  <2>5. SyncOver' /\ ListAsTapped'
    BY <1>4, <2>1, <2>4
  <2>6. ReadsRight'
    BY <2>4 DEF ReadsRight
  <2>7. ASSUME tap.last
        PROVE  /\ observers'["main"] = {} /\ todo'["main"] = {}
               /\ isFavorite'[tap.vm] = IsFavorite(tap.vm[2])
    <3>1. got["main"].vm = tap.vm /\ todo["main"] = {tap.vm} /\ observers["main"] = {}
      BY <1>3, <2>1, <2>3, <2>7 DEF LastRight
    <3>2. isFavorite'[tap.vm] = got["main"].value
      BY <1>3, <2>1, <2>2, <3>1 DEF TypeOK
    <3>3. isFavorite'[tap.vm] = IsFavorite(tap.vm[2])
      BY <2>3, <3>1, <3>2, Zenon
    <3> QED
      BY <2>1, <2>4, <3>1, <3>3
  <2>8. IsFavorite(tap.vm[2])' = IsFavorite(tap.vm[2])
    BY <2>1 DEF IsFavorite
  <2>9. LastRight'
    <3>1. CASE ~tap.last
      BY <2>1, <3>1 DEF LastRight
    <3>2. CASE tap.last
      <4>1. isFavorite'[tap.vm] = IsFavorite(tap.vm[2])'
        BY <2>7, <2>8, <3>2, Zenon
      <4>2. observers'["main"] = {} /\ todo'["main"] \subseteq {tap.vm}
        BY <2>7, <3>2
      <4> QED
        BY <2>1, <4>1, <4>2, Zenon DEF LastRight
    <3> QED
      BY <3>1, <3>2
  <2> QED
    BY <2>5, <2>6, <2>9
<1>13. CASE SyncSave \/ SyncPost
  BY <1>3, <1>13 DEF SyncSave, SyncPost
<1>14. CASE UNCHANGED vars
  <2>1. UNCHANGED <<favorites, isFavorite, sync, observers, todo, got, tap>>
    BY <1>14 DEF vars
  <2>2. SyncOver' /\ ListAsTapped'
    BY <1>4, <2>1
  <2>3. ReadsRight' /\ LastRight'
    BY <1>3, <2>1, ReadsKept, LastKept
  <2> QED
    BY <2>2, <2>3
<1> QED
  BY <1>2, <1>5, <1>6, <1>7, <1>8, <1>9, <1>10, <1>11, <1>12, <1>13, <1>14
     DEF Next, ThreadStep

\* CollectionCellViewModel.swift:20-28: with the sync over, a tap changes the
\* heart it is on, however wrong the heart was, unless another recipe of its
\* title is in the list.
THEOREM TapFlipsAlways == Spec => []TapFlips
<1>1. Init => Undisturbed
  BY InitHolds
<1>2. TypeOK /\ HoldInv /\ Undisturbed /\ [Next]_vars => Undisturbed'
  BY UndisturbedStep
<1>3. TypeOK /\ Undisturbed => TapFlips
  <2> SUFFICES ASSUME TypeOK, Undisturbed, tap # NoTap, tap.last, tap.alone, Done("main"),
                      isFavorite[tap.vm] = tap.was
               PROVE  \E q \in Recipe : q # tap.vm[2] /\ Title[q] = Title[tap.vm[2]]
                                        /\ favorites[q] > 0
    BY DEF TapFlips
  <2>1. tap.vm \in ViewModel /\ tap.vm[2] \in Recipe
    BY ViewModelParts DEF TypeOK, Tap
  <2>2. isFavorite[tap.vm] = IsFavorite(tap.vm[2])
    BY DEF Undisturbed, LastRight, Done
  <2>3. tap.was <=> favorites[tap.vm[2]] = 0
    BY DEF Undisturbed, ListAsTapped
  <2>4. favorites[tap.vm[2]] \in Nat
    BY <2>1, CopiesAssumption DEF TypeOK
  <2>5. CASE tap.was
    <3>1. IsFavorite(tap.vm[2])
      BY <2>2, <2>5
    <3>2. PICK q \in Recipe : favorites[q] > 0 /\ Title[q] = Title[tap.vm[2]]
      BY <3>1 DEF IsFavorite
    <3>3. favorites[tap.vm[2]] = 0
      BY <2>3, <2>5
    <3> QED
      BY <3>2, <3>3
  <2>6. CASE ~tap.was
    <3>1. favorites[tap.vm[2]] > 0
      BY <2>3, <2>4, <2>6
    <3>2. IsFavorite(tap.vm[2])
      BY <2>1, <3>1 DEF IsFavorite
    <3> QED
      BY <2>2, <2>6, <3>2
  <2> QED
    BY <2>5, <2>6
<1> QED
  BY <1>1, <1>2, <1>3, HeartsInvariant, PTL DEF Spec
=============================================================================
