----------------------------- MODULE MCHomeFeed -----------------------------
(* HomeFeed with the four requests and headers of HomeViewModel.swift, and *)
(* the parser its answers go through on texts of a few letters.            *)
EXTENDS HomeFeed

MCEndpoint == <<"popular", "random", "random", "random">>

MCCategory == <<"random", "popular", "random", "random">>

MCLetter == {"(", ")", "a"}

\* Bound: the letters of a text.
MaxLetters == 4

MCText == UNION {[1..n -> MCLetter] : n \in 0..MaxLetters}

MilkText == <<"a", "(", ")", "a", ")">>

\* One text of any letters; or two texts in one answer, of which the last may
\* be one that cannot be taken apart, beside an answer with a text of its own.
MCAnswers ==
    {<<<<t>>, <<>>, <<>>, <<>>>> : t \in MCText}
    \union {<<<<MilkText, t>>, <<u>>, <<>>, <<>>>> :
               t \in {<<"a">>, <<"(">>}, u \in {MilkText, <<"(", "(">>}}
=============================================================================
