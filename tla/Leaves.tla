------------------------------- MODULE Leaves -------------------------------
(***************************************************************************)
(* The leaf matchers of internal/matcher (matcher.go, special.go): which   *)
(* tokens a keyword, identifier, number, string, operator or end-of-input  *)
(* matcher accepts, and how many of them.                                  *)
(*                                                                         *)
(* A token is a record                                                     *)
(*   kind     token.Kind, as set by the lexer                              *)
(*   text     the spelling, up to letter case (ciEquals)                   *)
(*   shape    what the leaf matchers read off the spelling's characters    *)
(*   cats     token.Categories(text), {} for a word that is no keyword     *)
(*   chars    for a number, its characters as classes                      *)
(*   newline, blockComment, unterminated   the lexer's flags               *)
(***************************************************************************)
EXTENDS Integers, Sequences, SequencesExt

Shapes == {
    "empty",       \* the end-of-input sentinel's ""
    "word",        \* starts like an identifier: keywords and plain names
    "quoted",      \* "..." or `...`
    "single",      \* '...'
    "prefixed",    \* x'..', e'..', n'..', b'..'
    "dollar",      \* $tag$...$tag$, closed by its own tag
    "openDollar",  \* $tag$... without the closing tag
    "number",      \* starts with a digit, or with a dot and is longer
    "dot",         \* a lone .
    "operator",    \* operator characters, no precedence level of its own
    "specialOp",   \* an operator of hasSpecialPrecedence
    "punct"}       \* ( ) , ; and the rest

Categories == {"unreserved", "columnName", "funcName", "typeName", "bareLabel", "reserved"}

Refuse(p)      == [kind |-> "fail", end |-> p]
Accept(p, end) == [kind |-> "ok", end |-> end]
Panic(p)       == [kind |-> "abort", end |-> p]

AcceptIf(cond, p) == IF cond THEN Accept(p, p + 1) ELSE Refuse(p)

-----------------------------------------------------------------------------
(* keywordMatcher compares the raw spelling, so "select" in quotes is not  *)
(* the keyword; endOfInputMatcher looks at the kind.                       *)
KeywordLeaf(leaf, tok, p)    == AcceptIf(tok.text = leaf.keyword, p)
EndOfInputLeaf(leaf, tok, p) == AcceptIf(tok.kind = "EndOfInput", p)

-----------------------------------------------------------------------------
(* identifierMatcher *)
IsAllowedKeyword(leaf, tok) ==
    \/ tok.cats = {}
    \/ leaf.class = "bareLabel" /\ "bareLabel" \in tok.cats
    \/ leaf.class # "bareLabel" /\ "unreserved" \in tok.cats
    \/ leaf.class = "typeName" /\ "typeName" \in tok.cats
    \/ leaf.class = "typeFunc" /\ tok.cats \cap {"funcName", "typeName"} # {}
    \/ leaf.class = "columnName" /\ "columnName" \in tok.cats

IsIdentifier(leaf, tok) ==
    \/ tok.shape = "single" /\ leaf.supportsStringLiteral
    \/ tok.shape \in {"quoted", "word"}

IdentifierLeaf(leaf, tok, p) ==
    AcceptIf((leaf.reserved \/ IsAllowedKeyword(leaf, tok)) /\ IsIdentifier(leaf, tok), p)

-----------------------------------------------------------------------------
(* numberLiteralMatcher: the loop over the characters after the first.     *)
(* Character classes: "d" a digit, "." a dot, "e" e or E, "s" a sign, "_"  *)
(* an underscore, "x" anything else.                                       *)
NumberChar(scan, c) ==
    IF scan.verdict # "ok" THEN scan
    ELSE IF c = "." /\ (scan.hasDot \/ scan.scientific) THEN [scan EXCEPT !.verdict = "fail"]
    ELSE IF c = "e" /\ scan.scientific THEN [scan EXCEPT !.verdict = "abort"]
    ELSE IF (c = "s" /\ ~scan.scientific) \/ c = "x" THEN [scan EXCEPT !.verdict = "fail"]
    ELSE [scan EXCEPT !.hasDot = @ \/ c = ".", !.scientific = @ \/ c = "e"]

NumberScan(chars) ==
    FoldLeft(NumberChar,
             [verdict |-> "ok", hasDot |-> Head(chars) = ".", scientific |-> FALSE],
             Tail(chars)).verdict

NumberLeaf(leaf, tok, p) ==
    IF tok.shape # "number" THEN Refuse(p)
    ELSE CASE NumberScan(tok.chars) = "ok"   -> Accept(p, p + 1)
           [] NumberScan(tok.chars) = "fail" -> Refuse(p)
           [] OTHER                          -> Panic(p)

-----------------------------------------------------------------------------
(* stringLiteralMatcher: a single-quoted literal, prefixed or not, absorbs *)
(* the plain literals that follow it on later lines.                       *)
IsStringContinuation(tok) ==
    /\ tok.newline /\ ~tok.blockComment
    /\ tok.kind = "String" /\ tok.shape = "single"

IsSingleQuotedLiteral(tok) == tok.shape \in {"single", "prefixed"}
IsDollarQuoted(tok)        == tok.shape = "dollar" /\ ~tok.unterminated

\* The first position from p on whose token does not continue the literal.
ContinuationEnd(t, p) ==
    CHOOSE e \in p..Len(t) :
        /\ \A k \in p..(e-1) : IsStringContinuation(t[k + 1])
        /\ e = Len(t) \/ ~IsStringContinuation(t[e + 1])

StringLeaf(leaf, t, p) ==
    LET tok == t[p + 1] IN
    IF IsSingleQuotedLiteral(tok) THEN Accept(p, ContinuationEnd(t, p + 1))
    ELSE AcceptIf(IsDollarQuoted(tok), p)

-----------------------------------------------------------------------------
(* operatorMatcher: its loop over the characters is vacuous for the empty  *)
(* spelling, so the end-of-input sentinel passes for an operator.          *)
OperatorLeaf(leaf, tok, p) ==
    AcceptIf(tok.shape \in {"operator", "empty"}
             \/ (leaf.allOperators /\ tok.shape = "specialOp"), p)

-----------------------------------------------------------------------------
(* matchInternal of a leaf; state.current() is nil past the last token.    *)
MatchLeaf(leaf, t, p) ==
    IF p >= Len(t) THEN Refuse(p)
    ELSE LET tok == t[p + 1] IN
         CASE leaf.leaf = "keyword"    -> KeywordLeaf(leaf, tok, p)
           [] leaf.leaf = "endOfInput" -> EndOfInputLeaf(leaf, tok, p)
           [] leaf.leaf = "identifier" -> IdentifierLeaf(leaf, tok, p)
           [] leaf.leaf = "number"     -> NumberLeaf(leaf, tok, p)
           [] leaf.leaf = "string"     -> StringLeaf(leaf, t, p)
           [] leaf.leaf = "operator"   -> OperatorLeaf(leaf, tok, p)
=============================================================================
