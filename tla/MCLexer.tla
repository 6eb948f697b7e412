------------------------------- MODULE MCLexer -------------------------------
(***************************************************************************)
(* The scanner on every text over a mixed alphabet up to length MaxMixed,  *)
(* on longer texts, up to MaxFocused, over the few bytes that one part of  *)
(* the scanner tells apart, and on five of the pieces that make comments   *)
(* and literals in a row.                                                  *)
(***************************************************************************)
EXTENDS Lexer

CONSTANTS MaxMixed, MaxFocused

Mixed == {"'", "\"", ";", "$", "-", "/", "*", " ", "\n", "C2", "A0", ":", "=", "(", "1", ".",
          "e", "a", "@", "\\"}

Focused == {
    {"$", "a", "1", "(", ":"},       \* dollar quotes, parameters, drift
    {"/", "*", "-", "\n", "'"},      \* comments between and around literals
    {"1", "e", ".", "_", "-"},       \* numbers
    {"'", "\\", "e", "x", "\""},     \* strings and quoted identifiers
    {"+", "-", "@", "/", ":", "="}}  \* operators

Texts(alphabet, len) == UNION {[1..k -> alphabet] : k \in 0..len}

Pieces == {<<"/", "*", "*", "/">>, <<"'", "'">>, <<"/", "*">>, <<"*", "/">>, <<"\n">>, <<"-", "-">>,
           <<"$", "a", "$">>, <<"$">>}

StringPieces == {<<>>, <<"e", "'">>, <<"x", "'">>, <<"'">>, <<"\\">>}

Rows == {p[1] \o p[2] \o p[3] \o p[4] \o p[5] : 
            p \in [1..5 -> Pieces] \cup [1..5 -> StringPieces]}

MCSources ==
    Texts(Mixed, MaxMixed) \cup UNION {Texts(a, MaxFocused) : a \in Focused} \cup Rows

\* A stand-in for the keyword table.
MCIsKeyword(word) == word \in {<<"a">>, <<"e", "a">>}
=============================================================================
