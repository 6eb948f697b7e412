-------------------------------- MODULE Lexer --------------------------------
(***************************************************************************)
(* lexer.Tokenize: the hand-written scanner that turns SQL text into       *)
(* tokens.  One step is one iteration of run()'s loop (or, past the last   *)
(* byte, what run() does after it, with Tokenize's end-of-input token).    *)
(*                                                                         *)
(* A byte is a string: the character for ASCII ("VT", "FF" and "BQ" for    *)
(* those without a notation), its hexadecimal code above 7F.  Offsets      *)
(* are the code's 0-based ones: byte k is sql[k + 1].                      *)
(***************************************************************************)
EXTENDS Integers, Sequences, FiniteSets

CONSTANTS
    Sources,      \* the texts considered, sequences of bytes
    IsKeyword(_)  \* token.IsKeyword

ASSUME SourcesAssumption == Sources \subseteq Seq(STRING)

VARIABLES
    sql,             \* the text
    i,               \* the loop index
    state,           \* tokenizeState; "done" and "error" once run() returned
    lastPos,         \* where the token being scanned starts
    escapeString,    \* inside e'...'
    delimiter,       \* quotedIdentifierDelimiter
    marker,          \* dollarQuoteMarker
    depth,           \* multiLineCommentDepth
    blockCommentPos, \* lastBlockCommentPos, -1 while hasBlockComment is false
    tokens,
    err

vars == <<sql, i, state, lastPos, escapeString, delimiter, marker, depth,
          blockCommentPos, tokens, err>>

ScanStates == {"Standard", "SingleLineComment", "MultiLineComment", "QuotedIdentifier",
               "StringLiteral", "Keyword", "Numeric", "Operator", "DollarQuotedString"}

-----------------------------------------------------------------------------
(* Character classes. *)
Newline            == {"\n", "\r"}
Space              == {" ", "\t", "\n", "VT", "FF", "\r"}
Digit              == {"0", "1", "2", "3", "4", "5", "6", "7", "8", "9"}
InitialNumber      == Digit \cup {"."}
Scientific         == {"e", "E"}
SpecialStringPrefix == {"N", "n", "X", "x", "E", "e", "B", "b"}
QuotedIdentifierDelimiter == {"\"", "BQ"}
SingleByteOperator == {"(", ")", "{", "}", "[", "]", ",", ":", "?", "$", "#"}
OperatorCont       == {"+", "-", "*", "/", "%", "^", "<", ">", "=", "~", "!", "@", "&", "|"}
OperatorAny        == SingleByteOperator \cup OperatorCont \cup {"\"", "'", ".", ";", "\\", "BQ"}
ControlFlow        == {"'", ";", "\"", "."}
KeywordChar(ch)    == ch \notin SingleByteOperator \cup OperatorAny \cup Space \cup ControlFlow
\* A dollar tag takes letters, digits, the underscore and any byte above 7F:
\* all but punctuation, white space and control characters.
ValidDollarTagChar(ch) == ch \notin OperatorAny \cup Space

UnicodeSpaces ==
    {<<"C2", b>> : b \in {"85", "A0"}}
    \cup {<<"E2", "80", b>> : b \in {"80", "81", "82", "83", "84", "85", "86", "87", "88", "89",
                                     "8A", "A8", "A9", "AF"}}
    \cup {<<"E1", "9A", "80">>, <<"E2", "81", "9F">>, <<"E3", "80", "80">>}

n       == Len(sql)
At(k)   == sql[k + 1]
c       == At(i)
Text(a, b) == SubSeq(sql, a + 1, b)
\* Bytes k and k+1 of t exist and are a and b.
PairAt(t, k, a, b) == k + 1 < Len(t) /\ t[k + 1] = a /\ t[k + 2] = b
Pair(k, a, b) == PairAt(sql, k, a, b)
NextIn(S)     == i + 1 < n /\ At(i + 1) \in S

SpaceLen(t, k) ==
    LET here == {u \in UnicodeSpaces : k + Len(u) <= Len(t) /\ SubSeq(t, k + 1, k + Len(u)) = u}
    IN  IF here = {} THEN 0 ELSE Len(CHOOSE u \in here : TRUE)
UnicodeSpaceLen(k) == SpaceLen(sql, k)

CompoundColon(k) == Pair(k, ":", ":") \/ Pair(k, ":", "=")
CommentAt(t, k)  == PairAt(t, k, "-", "-") \/ PairAt(t, k, "/", "*")
CommentStart(k)  == CommentAt(sql, k)

-----------------------------------------------------------------------------
(* Tokens.  start and end are the Span; from and to delimit the bytes that *)
(* Text holds, which need not be the same ones.                            *)
Kinds == {"Keyword", "Identifier", "Operator", "Terminator", "Number", "String", "EndOfInput"}

Tokens == [kind : Kinds, start : Nat, end : Nat, from : Nat, to : Nat,
           unterminated : BOOLEAN, newline : BOOLEAN, blockComment : BOOLEAN]

Tok(kind, from, to, offset) ==
    [kind |-> kind, start |-> offset, end |-> offset + (to - from), from |-> from, to |-> to,
     unterminated |-> FALSE, newline |-> FALSE, blockComment |-> FALSE]

(* push: Text is bytes from..to, the Span starts at offset. *)
Push(toks, kind, from, to, offset) == Append(toks, Tok(kind, from, to, offset))

(* pushRange of a kind other than Comment. *)
PushRange(toks, start, end, kind, unterminated) ==
    LET prev  == toks[Len(toks)]
        first == toks = <<>>
    IN  IF start >= end THEN toks
        ELSE Append(toks,
            [kind |-> kind, start |-> start, end |-> end, from |-> start, to |-> end,
             unterminated |-> unterminated,
             newline |-> ~first /\ \E p \in prev.end..(start - 1) : At(p) \in Newline,
             blockComment |-> ~first /\ blockCommentPos >= prev.end /\ blockCommentPos < start])

(* pushRange of a finished comment only remembers a block comment. *)
RememberComment(start, end) ==
    blockCommentPos' = IF end >= start + 2 /\ Pair(start, "/", "*") THEN start ELSE blockCommentPos

SpecialIn(t, a, b) ==
    \E p \in a..(b - 1) : t[p + 1] \in {"~", "!", "@", "#", "%", "^", "&", "|", "BQ", "?"}
HasSpecial(a, b) == SpecialIn(sql, a, b)

(* Where an operator scanned from a to b ends after trimming. *)
TrimmedEnd(a, b) ==
    IF HasSpecial(a, b) THEN b
    ELSE CHOOSE e \in (a + 1)..b :
            /\ \A p \in e..(b - 1) : At(p) \in {"+", "-"}
            /\ e = a + 1 \/ At(e - 1) \notin {"+", "-"}

(* pushOperator: the trimmed characters are tokens of their own. *)
PushOperator(toks, start, end) ==
    LET trimmed == TrimmedEnd(start, end)
        single(k) == Tok("Operator", trimmed + k - 1, trimmed + k, trimmed + k - 1)
    IN  PushRange(toks, start, trimmed, "Operator", FALSE)
            \o [k \in 1..(end - trimmed) |-> single(k)]

WordKind(a, b) == IF IsKeyword(Text(a, b)) THEN "Keyword" ELSE "Identifier"

-----------------------------------------------------------------------------
(* Frame conditions of the loop's cases. *)
In(s) == state = s /\ i < n

\* The loop goes on at k in state s, with the next token starting at p.
Goto(s, k, p) == state' = s /\ i' = k /\ lastPos' = p

Fixed   == UNCHANGED <<sql, err>>
Modes   == UNCHANGED <<escapeString, delimiter, marker, depth>>
Quiet   == UNCHANGED <<tokens, blockCommentPos>> /\ Fixed
Pushed(toks) == tokens' = toks /\ UNCHANGED blockCommentPos /\ Fixed
Stay    == Goto(state, i + 1, lastPos) /\ Modes /\ Quiet

-----------------------------------------------------------------------------
(* stateStandard *)
StringStart ==
    /\ In("Standard") /\ c = "'"
    /\ Goto("StringLiteral", i + 1, i)
    /\ escapeString' = FALSE
    /\ UNCHANGED <<delimiter, marker, depth>> /\ Quiet

PrefixStringStart ==
    /\ In("Standard") /\ c \in SpecialStringPrefix /\ NextIn({"'"})
    /\ Goto("StringLiteral", i + 2, i)
    /\ escapeString' = (escapeString \/ c \in Scientific)
    /\ UNCHANGED <<delimiter, marker, depth>> /\ Quiet

QuotedStart ==
    /\ In("Standard") /\ c \in QuotedIdentifierDelimiter
    /\ Goto("QuotedIdentifier", i + 1, i)
    /\ delimiter' = c
    /\ UNCHANGED <<escapeString, marker, depth>> /\ Quiet

Terminator ==
    /\ In("Standard") /\ c = ";"
    /\ Pushed(Push(tokens, "Terminator", i, i + 1, i))
    /\ Goto("Standard", i + 1, i + 1) /\ Modes

(* "we need more than a single dollar" *)
DollarAtEnd ==
    /\ In("Standard") /\ c = "$" /\ i + 1 >= n
    /\ Stay

DollarParameter ==
    /\ In("Standard") /\ c = "$" /\ NextIn(Digit)
    /\ Pushed(Push(tokens, "Operator", i, i + 1, i))
    /\ Goto("Standard", i + 1, lastPos) /\ Modes

\* The offsets a tag that starts after the dollar at i may be closed at.
NextDollar ==
    {d \in (i + 1)..(n - 1) :
        At(d) = "$" /\ \A p \in (i + 1)..(d - 1) : ValidDollarTagChar(At(p))}

DollarLabel ==
    /\ In("Standard") /\ c = "$" /\ i + 1 < n /\ ~NextIn(Digit)
    /\ NextDollar = {}
    /\ Pushed(Push(tokens, "Operator", i, i + 1, i))
    /\ Goto("Standard", i + 1, i) /\ Modes

DollarQuoteStart ==
    /\ In("Standard") /\ c = "$" /\ i + 1 < n /\ ~NextIn(Digit)
    /\ \E d \in NextDollar :
          /\ marker' = Text(i + 1, d)
          /\ Goto("DollarQuotedString", d + 1, i)
    /\ UNCHANGED <<escapeString, delimiter, depth>> /\ Quiet

\* Neither comment start moves lastPos.
LineCommentStart ==
    /\ In("Standard") /\ Pair(i, "-", "-")
    /\ Goto("SingleLineComment", i + 2, lastPos) /\ Modes /\ Quiet

BlockCommentStart ==
    /\ In("Standard") /\ Pair(i, "/", "*")
    /\ Goto("MultiLineComment", i + 2, lastPos)
    /\ depth' = 1
    /\ UNCHANGED <<escapeString, delimiter, marker>> /\ Quiet

SkipSpace ==
    /\ In("Standard") /\ c \in Space
    /\ Goto("Standard", i + 1, i + 1) /\ Modes /\ Quiet

SkipUnicodeSpace ==
    /\ In("Standard") /\ UnicodeSpaceLen(i) > 0
    /\ Goto("Standard", i + UnicodeSpaceLen(i), i + UnicodeSpaceLen(i)) /\ Modes /\ Quiet

\* "::" or ":=" before an operator character is left to the operator state.
CompoundColonOperator ==
    /\ In("Standard") /\ CompoundColon(i) /\ i + 2 < n /\ At(i + 2) \in OperatorCont
    /\ Goto("Operator", i + 1, i) /\ Modes /\ Quiet

\* Pushed with lastPos as its offset, and so are the single bytes.
CompoundColonToken ==
    /\ In("Standard") /\ CompoundColon(i) /\ ~(i + 2 < n /\ At(i + 2) \in OperatorCont)
    /\ Pushed(Push(tokens, "Operator", i, i + 2, lastPos))
    /\ Goto("Standard", i + 2, i + 2) /\ Modes

SingleByte ==
    /\ In("Standard") /\ c \in SingleByteOperator \ {"$"} /\ ~CompoundColon(i)
    /\ Pushed(Push(tokens, "Operator", i, i + 1, lastPos))
    /\ Goto("Standard", i + 1, i + 1) /\ Modes

NumberStart ==
    /\ In("Standard") /\ c \in InitialNumber
    /\ Goto("Numeric", i + 1, i) /\ Modes /\ Quiet

OperatorStart ==
    /\ In("Standard") /\ ~CommentStart(i)
    /\ c \in OperatorAny \ (SingleByteOperator \cup QuotedIdentifierDelimiter \cup ControlFlow)
    /\ Goto("Operator", i + 1, i) /\ Modes /\ Quiet

KeywordStart ==
    /\ In("Standard") /\ UnicodeSpaceLen(i) = 0
    /\ c \notin Space \cup InitialNumber \cup OperatorAny
    /\ ~(c \in SpecialStringPrefix /\ NextIn({"'"}))
    /\ Goto("Keyword", i + 1, i) /\ Modes /\ Quiet

-----------------------------------------------------------------------------
(* stateNumeric, stateOperator, stateKeyword.  A token's end is seen one   *)
(* byte late: that byte is scanned again in the standard state.            *)
NumberGoesOn ==
    \/ c \in InitialNumber
    \/ c = "_" /\ At(i - 1) \in Digit /\ NextIn(Digit)
    \/ c \in Scientific /\ At(i - 1) \notin Scientific
          /\ (At(lastPos) \in Digit \/ At(i - 1) \in Digit)
    \/ c \in {"+", "-"} /\ At(i - 1) \in Scientific

\* Mutant: the backtracking goes one byte too far.
NumberBacktrackTooFar ==
    CHOOSE e \in lastPos..i :
        At(e) \in InitialNumber /\ \A p \in (e + 1)..(i - 1) : At(p) \notin InitialNumber

\* The last offset up to i that a plain numeric character precedes.
NumberBacktrack ==
    CHOOSE e \in (lastPos + 1)..i :
        At(e - 1) \in InitialNumber /\ \A p \in e..(i - 1) : At(p) \notin InitialNumber

NumberMore == In("Numeric") /\ NumberGoesOn /\ Stay

\* Mutant: the bytes given back by the backtracking are not scanned again.
NumberEndLoses ==
    /\ In("Numeric") /\ ~NumberGoesOn
    /\ Pushed(PushRange(tokens, lastPos, NumberBacktrack, "Number", FALSE))
    /\ Goto("Standard", i, i) /\ Modes

NumberEnd ==
    /\ In("Numeric") /\ ~NumberGoesOn
    /\ Pushed(PushRange(tokens, lastPos, NumberBacktrack, "Number", FALSE))
    /\ Goto("Standard", NumberBacktrack, NumberBacktrack) /\ Modes

OperatorGoesOn == c \in OperatorCont /\ ~CommentStart(i)

OperatorMore == In("Operator") /\ OperatorGoesOn /\ Stay

OperatorEnd ==
    /\ In("Operator") /\ ~OperatorGoesOn
    /\ Pushed(PushOperator(tokens, lastPos, i))
    /\ Goto("Standard", i, i) /\ Modes

KeywordGoesOn == (c = "$" \/ KeywordChar(c)) /\ UnicodeSpaceLen(i) = 0

KeywordMore == In("Keyword") /\ KeywordGoesOn /\ Stay

KeywordEnd ==
    /\ In("Keyword") /\ ~KeywordGoesOn
    /\ Pushed(PushRange(tokens, lastPos, i, WordKind(lastPos, i), FALSE))
    /\ Goto("Standard", i, i) /\ Modes

-----------------------------------------------------------------------------

(* stateStringLiteral, stateQuotedIdentifier *)
Escape == escapeString /\ c = "\\" /\ i + 1 < n

StringSkip ==
    /\ In("StringLiteral") /\ (Escape \/ Pair(i, "'", "'"))
    /\ Goto(state, i + 2, lastPos) /\ Modes /\ Quiet

StringMore == In("StringLiteral") /\ ~Escape /\ c # "'" /\ Stay

\* Mutant: the escape mode is not reset when the literal ends.
StringEndKeepsEscape ==
    /\ In("StringLiteral") /\ c = "'" /\ ~NextIn({"'"})
    /\ Pushed(PushRange(tokens, lastPos, i + 1, "String", FALSE))
    /\ Goto("Standard", i + 1, i + 1) /\ Modes

StringEnd ==
    /\ In("StringLiteral") /\ c = "'" /\ ~NextIn({"'"})
    /\ Pushed(PushRange(tokens, lastPos, i + 1, "String", FALSE))
    /\ Goto("Standard", i + 1, i + 1)
    /\ escapeString' = FALSE
    /\ UNCHANGED <<delimiter, marker, depth>>

QuotedSkip ==
    /\ In("QuotedIdentifier") /\ c = delimiter /\ NextIn({delimiter})
    /\ Goto(state, i + 2, lastPos) /\ Modes /\ Quiet

QuotedMore == In("QuotedIdentifier") /\ c # delimiter /\ Stay

Raise(type) ==
    /\ err' = [type |-> type, at |-> lastPos]
    /\ state' = "error"
    /\ UNCHANGED <<sql, i, lastPos, tokens, blockCommentPos>> /\ Modes

QuotedClose == In("QuotedIdentifier") /\ c = delimiter /\ ~NextIn({delimiter})

QuotedEmpty == QuotedClose /\ i = lastPos + 1 /\ Raise("EmptyIdentifier")

QuotedEnd ==
    /\ QuotedClose /\ i # lastPos + 1
    /\ Pushed(PushRange(tokens, lastPos, i + 1, "Identifier", FALSE))
    /\ Goto("Standard", i + 1, i + 1) /\ Modes

-----------------------------------------------------------------------------
(* Comments *)
LineCommentMore == In("SingleLineComment") /\ c \notin Newline /\ Stay

LineCommentEnd ==
    /\ In("SingleLineComment") /\ c \in Newline
    /\ RememberComment(lastPos, i + 1)
    /\ Goto("Standard", i + 1, i + 1) /\ Modes
    /\ UNCHANGED tokens /\ Fixed

BlockCommentNested ==
    /\ In("MultiLineComment") /\ Pair(i, "/", "*")
    /\ depth' = depth + 1
    /\ Goto(state, i + 2, lastPos)
    /\ UNCHANGED <<escapeString, delimiter, marker>> /\ Quiet

BlockCommentClose ==
    /\ In("MultiLineComment") /\ Pair(i, "*", "/")
    /\ depth' = depth - 1
    /\ IF depth = 1
       THEN RememberComment(lastPos, i + 2) /\ Goto("Standard", i + 2, i + 2)
       ELSE Goto(state, i + 2, lastPos) /\ UNCHANGED blockCommentPos
    /\ UNCHANGED <<escapeString, delimiter, marker, tokens>> /\ Fixed

BlockCommentMore ==
    /\ In("MultiLineComment") /\ ~Pair(i, "/", "*") /\ ~Pair(i, "*", "/")
    /\ Stay

-----------------------------------------------------------------------------
(* stateDollarQuotedString: only $marker$ ends it. *)
ClosingDollar ==
    LET d == i + 1 + Len(marker) IN
    c = "$" /\ d < n /\ At(d) = "$" /\ Text(i + 1, d) = marker

DollarMore == In("DollarQuotedString") /\ ~ClosingDollar /\ Stay

DollarEnd ==
    /\ In("DollarQuotedString") /\ ClosingDollar
    /\ LET end == i + 2 + Len(marker) IN
          /\ Pushed(PushRange(tokens, lastPos, end, "String", FALSE))
          /\ Goto("Standard", end, end)
    /\ marker' = <<>>
    /\ UNCHANGED <<escapeString, delimiter, depth>>

-----------------------------------------------------------------------------
(* End of input; Tokenize appends the sentinel when run() has no error. *)
AtEnd(s) == state = s /\ i >= n

Finish(toks) ==
    /\ tokens' = Append(toks, Tok("EndOfInput", n, n, n))
    /\ state' = "done"
    /\ UNCHANGED <<sql, i, lastPos, blockCommentPos, err>> /\ Modes

EndInLineComment  == AtEnd("SingleLineComment") /\ Finish(tokens)
EndInBlockComment == AtEnd("MultiLineComment") /\ Raise("UnterminatedComment")
EndInOperator     == AtEnd("Operator") /\ Finish(PushOperator(tokens, lastPos, n))
EndInDollar       == AtEnd("DollarQuotedString")
                        /\ Finish(PushRange(tokens, lastPos, n, "String", TRUE))
EndInString       == AtEnd("StringLiteral") /\ Raise("UnterminatedString")
EndInQuoted       == AtEnd("QuotedIdentifier") /\ Raise("UnterminatedIdentifier")

\* The last word is appended directly, without flags.
EndInKeyword  == AtEnd("Keyword") /\ Finish(Push(tokens, WordKind(lastPos, n), lastPos, n, lastPos))
EndInNumber   == AtEnd("Numeric") /\ Finish(Push(tokens, "Number", lastPos, n, lastPos))
EndInStandard == AtEnd("Standard")
                    /\ Finish(IF lastPos >= n THEN tokens
                              ELSE Push(tokens, "Identifier", lastPos, n, lastPos))

-----------------------------------------------------------------------------
Init ==
    /\ sql \in Sources
    /\ i = 0 /\ lastPos = 0 /\ depth = 0 /\ blockCommentPos = -1
    /\ state = "Standard"
    /\ escapeString = FALSE
    /\ delimiter = "\""
    /\ marker = <<>>
    /\ tokens = <<>>
    /\ err = [type |-> "none", at |-> 0]

Standard ==
    \/ StringStart \/ PrefixStringStart \/ QuotedStart \/ Terminator
    \/ DollarAtEnd \/ DollarParameter \/ DollarLabel \/ DollarQuoteStart
    \/ LineCommentStart \/ BlockCommentStart \/ SkipSpace \/ SkipUnicodeSpace
    \/ CompoundColonOperator \/ CompoundColonToken \/ SingleByte
    \/ NumberStart \/ OperatorStart \/ KeywordStart

Within ==
    \/ NumberMore \/ NumberEnd \/ OperatorMore \/ OperatorEnd \/ KeywordMore \/ KeywordEnd
    \/ StringSkip \/ StringMore \/ StringEnd
    \/ QuotedSkip \/ QuotedMore \/ QuotedEmpty \/ QuotedEnd
    \/ LineCommentMore \/ LineCommentEnd
    \/ BlockCommentNested \/ BlockCommentClose \/ BlockCommentMore
    \/ DollarMore \/ DollarEnd

End ==
    \/ EndInLineComment \/ EndInBlockComment \/ EndInOperator \/ EndInDollar
    \/ EndInString \/ EndInQuoted \/ EndInKeyword \/ EndInNumber \/ EndInStandard

Returned == state \in {"done", "error"}

Next == Standard \/ Within \/ End \/ (Returned /\ UNCHANGED vars)

Spec == Init /\ [][Next]_vars

\* run() is a loop without calls that can block.
FairSpec == Spec /\ WF_vars(Standard \/ Within \/ End)

-----------------------------------------------------------------------------
(* Correctness, against definitions of white space, comments and literals  *)
(* that do not scan: they say which stretches of the text are one, not how *)
(* to find its end.                                                        *)
Offsets == 0..n

\* The type invariant: every offset stays inside the text, also after the
\* two-byte skips and the number state's backtracking.
TypeOK ==
    /\ sql \in Seq(STRING)
    /\ i \in Offsets /\ lastPos \in 0..i
    /\ state \in ScanStates \cup {"done", "error"}
    /\ escapeString \in BOOLEAN
    /\ delimiter \in QuotedIdentifierDelimiter
    /\ marker \in Seq(STRING)
    /\ marker = <<>> \/ state = "DollarQuotedString" \/ Returned
    /\ depth \in Offsets
    /\ blockCommentPos \in -1..(n - 1)
    /\ tokens \in Seq(Tokens)
    /\ err \in [type : {"none", "EmptyIdentifier", "UnterminatedComment", "UnterminatedString",
                         "UnterminatedIdentifier"},
                 at : Offsets]

-----------------------------------------------------------------------------
(* White space and comments of a text t. *)

IsLineComment(t, p, e) ==
    /\ PairAt(t, p, "-", "-")
    /\ \A q \in p..(e - 2) : t[q + 1] \notin Newline
    /\ e = Len(t) \/ t[e] \in Newline

\* Per offset and number of open block comments: where they are all closed,
\* Len(t) + 1 if they never are.
BlockEnds(t) ==
    LET close[q \in 0..Len(t)] ==
            [d \in Nat |->
                IF d = 0 THEN q
                ELSE IF PairAt(t, q, "/", "*") THEN close[q + 2][d + 1]
                ELSE IF PairAt(t, q, "*", "/") THEN close[q + 2][d - 1]
                ELSE IF q < Len(t) THEN close[q + 1][d] ELSE Len(t) + 1]
    IN  close

BlockEnd(t, p, d) == BlockEnds(t)[p][d]

IsBlockComment(t, p, e) == PairAt(t, p, "/", "*") /\ BlockEnd(t, p + 2, 1) = e

IsSpace(t, p, e) == (e = p + 1 /\ t[p + 1] \in Space) \/ SpaceLen(t, p) = e - p

Skipped(t, p, e) == IsSpace(t, p, e) \/ IsLineComment(t, p, e) \/ IsBlockComment(t, p, e)

\* Per offset e, the offsets from a to e that white space and comments lead
\* to from a.
TriviaEnds(t, a) ==
    LET ends[e \in 0..Len(t)] ==
            IF e <= a THEN {a}
            ELSE LET before == ends[e - 1] IN
                 before \cup {x \in {e} : \E p \in before : Skipped(t, p, e)}
    IN  ends

\* Bytes a to b are white space and comments only.
Trivia(t, a, b) == b \in TriviaEnds(t, a)[b]

BlockCommentIn(t, a, b) ==
    \E p \in a..b : \E e \in (p + 1)..b :
        Trivia(t, a, p) /\ IsBlockComment(t, p, e) /\ Trivia(t, e, b)

NewlineIn(t, a, b) == \E p \in a..(b - 1) : t[p + 1] \in Newline

-----------------------------------------------------------------------------
(* Literals, by the parity of their quotes. *)

\* How many backslashes stand directly before p, inside the literal at a.
Backslashes(t, a, p) ==
    Cardinality({q \in a..(p - 1) : \A r \in q..(p - 1) : t[r + 1] = "\\"})

QuoteIsEscaped(t, a, p) ==
    t[a + 1] \in Scientific /\ Backslashes(t, a, p) % 2 = 1

Quotes(t, a, b, q) == {p \in a..(b - 1) : t[p + 1] = q /\ ~QuoteIsEscaped(t, a, p)}

\* Bytes a to b hold a whole literal quoted by q: its quotes pair up, they
\* do not pair up any earlier without another one following, and no quote
\* follows.
Closed(t, a, b, q) ==
    /\ Cardinality(Quotes(t, a, b, q)) \in {2 * k : k \in 1..Len(t)}
    /\ b = Len(t) \/ t[b + 1] # q
    /\ \A e \in (a + 1)..(b - 1) :
          t[e] = q /\ Cardinality(Quotes(t, a, e, q)) > 0
             /\ Cardinality(Quotes(t, a, e, q)) % 2 = 0 => t[e + 1] = q

-----------------------------------------------------------------------------
(* Safety.  The first group is also stated of a text and its tokens.        *)

Real == IF state = "done" THEN SubSeq(tokens, 1, Len(tokens) - 1) ELSE tokens

EndOf(toks, k) == IF k = 0 THEN 0 ELSE toks[k].to

InOrder(t, toks) ==
    \A k \in 1..Len(toks) :
        /\ EndOf(toks, k - 1) <= toks[k].from /\ toks[k].from < toks[k].to /\ toks[k].to <= Len(t)
        /\ Trivia(t, EndOf(toks, k - 1), toks[k].from)

\* The construct an error is about starts at err.at, except that a comment
\* directly after a bare dollar is reported one byte early.
ErrorStart == err.at + IF err.type = "UnterminatedComment" /\ At(err.at) = "$" THEN 1 ELSE 0

\* Nothing is lost and nothing is read twice: the texts of the tokens are
\* disjoint stretches of the source in order, and all that lies between
\* them, before the first and after the last (up to the error, if there is
\* one) is white space and comments.
Lossless ==
    Returned =>
        /\ InOrder(sql, Real)
        /\ Trivia(sql, EndOf(Real, Len(Real)), IF state = "done" THEN n ELSE ErrorStart)

SpansDrift(t, toks) ==
    \A k \in 1..Len(toks) :
        \/ toks[k].start = toks[k].from /\ toks[k].end = toks[k].to
        \/ /\ k > 1 /\ toks[k - 1].kind = "Operator" /\ t[toks[k - 1].from + 1] = "$"
           /\ toks[k - 1].to = toks[k].from /\ toks[k].kind = "Operator"
           /\ toks[k].start = toks[k].from - 1 /\ toks[k].end = toks[k].to - 1

\* A token's Span is where its Text is, except directly after a bare dollar
\* ("pushed with lastPos as its offset, exactly as upstream does"): there it
\* is one byte early, on the dollar itself, and the drift does not spread.
SpanDriftOnlyAfterDollar == SpansDrift(sql, Real)

IsDelimited(t, tok) == tok.kind = "Identifier" /\ t[tok.from + 1] \in QuotedIdentifierDelimiter
IsUnquoted(t, tok)  == tok.kind # "String" /\ ~IsDelimited(t, tok)

CommentsOutside(t, toks) ==
    \A k \in 1..Len(toks) :
        IsUnquoted(t, toks[k]) => \A p \in toks[k].from..(toks[k].to - 1) : ~CommentAt(t, p)

\* No comment is swallowed by a number or an operator: outside literals no
\* token's text contains a comment start, and neither does the boundary
\* between two touching operators.
NoCommentInToken == CommentsOutside(sql, Real)

Trimmed(t, toks) ==
    \A k \in 1..Len(toks) :
        LET tok == toks[k] last == t[tok.to] IN
        /\ tok.kind = "Operator" /\ tok.to > tok.from + 1 /\ last \in {"+", "-"} =>
              SpecialIn(t, tok.from, tok.to)
        /\ tok.kind = "Number" /\ tok.to < Len(t) => last \in InitialNumber

\* The operator trimming rule and the number backtracking leave nothing
\* half-eaten: an operator of several bytes ends in a sign only if it has a
\* special character, and a number ends in an exponent marker, a sign or a
\* separator only at the very end of the text.
TokenEndsTrimmed == Trimmed(sql, Real)

\* What the matcher's entry points rely on (TextAssumption of ParseLoop): the
\* sentinel is there and is last, a span ends inside its text, and texts are
\* in order.
ReadyToParse ==
    state = "done" =>
        /\ Len(tokens) >= 1
        /\ \A k \in 1..Len(tokens) :
              /\ tokens[k].from <= tokens[k].end /\ tokens[k].end <= tokens[k].to
              /\ tokens[k].to <= n
              /\ tokens[k].kind = "EndOfInput" <=> k = Len(tokens)
              /\ \A j \in 1..(k - 1) : tokens[j].to <= tokens[k].from

\* The tokens are the text: nothing is lost, spans are right but for the
\* known drift, no token holds a comment or ends half-eaten, and what is
\* returned is what the parser relies on.
TokensAreText ==
    /\ TypeOK /\ Lossless /\ SpanDriftOnlyAfterDollar /\ NoCommentInToken
    /\ TokenEndsTrimmed /\ ReadyToParse

-----------------------------------------------------------------------------
(* Literals and flags. *)

Flagged(t, toks) ==
    \A k \in 2..Len(toks) :
        toks[k - 1].kind = "String" /\ toks[k].kind = "String" =>
            /\ toks[k].newline <=> NewlineIn(t, toks[k - 1].to, toks[k].from)
            /\ toks[k].blockComment <=> BlockCommentIn(t, toks[k - 1].to, toks[k].from)

\* The flags stringLiteralMatcher joins literals by are right between any
\* two strings: a newline between them (in a comment or not), and a block
\* comment between them, are both noticed, and nothing else is.
ContinuationFlags == Flagged(sql, Real)

SingleQuoted(t, tok) == tok.kind = "String" /\ t[tok.from + 1] # "$"

Whole(t, toks) ==
    \A k \in 1..Len(toks) :
        /\ SingleQuoted(t, toks[k]) => Closed(t, toks[k].from, toks[k].to, "'")
        /\ IsDelimited(t, toks[k]) =>
              Closed(t, toks[k].from, toks[k].to, t[toks[k].from + 1])

\* Every quoted literal and identifier ends at its own closing quote:
\* doubled quotes and backslash escapes never end it early or late, and the
\* escape mode of one literal never leaks into the next.
LiteralsClosed ==
    /\ Whole(sql, Real)
    /\ err.type = "UnterminatedString" =>
          \A e \in (err.at + 1)..n : ~Closed(sql, err.at, e, "'")
    /\ err.type = "UnterminatedIdentifier" =>
          \A e \in (err.at + 1)..n : ~Closed(sql, err.at, e, At(err.at))
    /\ err.type = "UnterminatedComment" =>
          Pair(ErrorStart, "/", "*") /\ BlockEnd(sql, ErrorStart + 2, 1) > n

\* The continuation flags are right, and every literal and comment ends
\* where it ends.
LiteralsWellFormed == ContinuationFlags /\ LiteralsClosed

\* Tokenize always comes back, although the loop index moves backwards when
\* a number, an operator or a word ends.
Termination == <>Returned
=============================================================================
