----------------------------- MODULE MCParseLoop -----------------------------
(***************************************************************************)
(* parseString on every text of up to MaxPieces pieces: words, semicolons, *)
(* blanks, and the dollar-bracket pair whose second token the scanner      *)
(* records one byte early (Lexer, SpanDriftOnlyAfterDollar).               *)
(***************************************************************************)
EXTENDS ParseLoop, SequencesExt

CONSTANT MaxPieces

Piece == {"word", "semi", "blank", "drift"}

Token(kind, end, from, to) == [kind |-> kind, end |-> end, from |-> from, to |-> to]

AddPiece(x, piece) ==
    LET at == x.len IN
    CASE piece = "blank" -> [x EXCEPT !.len = at + 1]
      [] piece = "word"  -> [len |-> at + 1, toks |-> Append(x.toks, Token("Other", at + 1, at, at + 1))]
      [] piece = "semi"  -> [len |-> at + 1, toks |-> Append(x.toks, Token("Terminator", at + 1, at, at + 1))]
      [] piece = "drift" -> [len |-> at + 2,
                             toks |-> x.toks \o <<Token("Other", at + 1, at, at + 1),
                                                  Token("Other", at + 1, at + 1, at + 2)>>]

WithSentinel(x) == [x EXCEPT !.toks = Append(@, Token("EndOfInput", x.len, x.len, x.len))]

MCTexts ==
    {WithSentinel(FoldLeft(AddPiece, [len |-> 0, toks |-> <<>>], p)) :
        p \in UNION {[1..k -> Piece] : k \in 0..MaxPieces}}
=============================================================================
