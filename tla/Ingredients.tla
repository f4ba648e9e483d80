---------------------------- MODULE Ingredients ----------------------------
(***************************************************************************)
(* APIService.parseIngredient, which every recipe of an answer goes        *)
(* through on the delegate queue: it splits a text such as "Milk (1 cup)"  *)
(* at the opening parentheses, leaving empty parts out, and takes the      *)
(* first part for the name and the last, without its last letter, for the  *)
(* amount.                                                                 *)
(*                                                                         *)
(* A text is a sequence of letters; only "(" is told apart by the code.    *)
(***************************************************************************)
EXTENDS Naturals, Sequences

CONSTANT Letter  \* the letters of a text, "(" among them

ASSUME LetterAssumption == "(" \in Letter

Text == Seq(Letter)

Ingredient == [name : Text, amount : Text]

\* What parseIngredient does with a text it cannot take apart: name! is nil.
Crash == [unwrapped |-> "nil"]

-----------------------------------------------------------------------------
(* split(separator: "("), which omits empty subsequences: what it has      *)
(* after a letter are the parts it has finished and the one it is in.      *)

NoParts == [parts |-> <<>>, part |-> <<>>]

\* A bug to catch: empty parts are kept.
FinishAlways(s) == [parts |-> Append(s.parts, s.part), part |-> <<>>]

Finish(s) ==
    [parts |-> IF s.part = <<>> THEN s.parts ELSE Append(s.parts, s.part),
     part |-> <<>>]

Take(s, c) ==
    IF c = "(" THEN Finish(s)
    ELSE [parts |-> s.parts, part |-> Append(s.part, c)]

\* Split(text)[n]: after n letters of the text.
Split(text) ==
    LET split[n \in 0..Len(text)] ==
            IF n = 0 THEN NoParts ELSE Take(split[n - 1], text[n])
    IN  split

Parts(text) == Finish(Split(text)[Len(text)]).parts

DropLast(part) == SubSeq(part, 1, Len(part) - 1)

\* parts.first, parts.last?.dropLast(), both force-unwrapped.
ParseIngredient(text) ==
    LET parts == Parts(text)
    IN  IF parts = <<>> THEN Crash
        ELSE [name |-> Head(parts), amount |-> DropLast(parts[Len(parts)])]

-----------------------------------------------------------------------------
(* The reference: where the name and the amount stand in the text          *)

Bare(text, i, j) == i <= j /\ \A k \in i..j : text[k] # "("

\* The stretch from i to j has no parenthesis and cannot be longer.
Stretch(text, i, j) ==
    /\ Bare(text, i, j)
    /\ i > 1 => text[i - 1] = "("
    /\ j < Len(text) => text[j + 1] = "("

\* The name is the first stretch of the text, the amount the last one but for
\* its last letter, whatever that letter is (ApiService.swift:258-260): both
\* come from the same stretch when there is no second.
TakenFrom(text, ingredient) ==
    \E i, j, k, l \in 1..Len(text) :
        /\ Stretch(text, i, j) /\ \A m \in 1..(i - 1) : text[m] = "("
        /\ Stretch(text, k, l) /\ \A m \in (l + 1)..Len(text) : text[m] = "("
        /\ ingredient = [name |-> SubSeq(text, i, j),
                         amount |-> SubSeq(text, k, l - 1)]

\* Only such a text makes line 261 unwrap nil.
OnlyParentheses(text) == \A k \in 1..Len(text) : text[k] = "("
=============================================================================
