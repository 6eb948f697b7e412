---------------------------- MODULE GrammarLoader ----------------------------
(***************************************************************************)
(* grammar.Parse: a machine over the characters of the grammar's text that *)
(* collects, rule by rule, a flat stream of tokens, and the recursive-     *)
(* descent parser that turns a rule's tokens into its expression tree.     *)
(* A text is a sequence of one-character strings; each action is one turn  *)
(* of parseRules' loop.                                                    *)
(***************************************************************************)
EXTENDS Integers, Sequences, FiniteSets

LOCAL INSTANCE SequencesExt

CONSTANTS
    Texts,       \* the grammar texts to parse
    Lower(_)     \* strings.ToLower of a name (a sequence of characters)

VARIABLES
    text,
    c,           \* the position of the next character
    state,       \* "name", "separator", "definition"; "done" and "error" at the end
    ruleName,
    parameters,  \* the current rule's parameters, at most one
    tokens,      \* the current rule's tokens
    bracketCount,
    inOrClause,
    rules,       \* the grammar: complete rules in the order they were added
    error        \* why Parse failed

vars == <<text, c, state, ruleName, parameters, tokens, bracketCount, inOrClause, rules, error>>

Newlines  == {"\n", "\r"}
Spaces    == Newlines \cup {" ", "\t"}
Operators == {"/", "?", "(", ")", "*", "+", "!"}
Punctuation == Spaces \cup Operators \cup {"'", "\\", "<", "-", ">", "[", "]", "^", "#", "%"}
Alnum(ch) == ch \notin Punctuation

N     == Len(text)
Here  == text[c]
At(k) == IF k \in 1..N THEN text[k] ELSE ""
\* The end of the run of alphanumeric characters that starts at k.
RunEnd(k) == CHOOSE e \in k..(N + 1) : /\ \A j \in k..(e - 1) : Alnum(text[j])
                                       /\ e = N + 1 \/ ~Alnum(text[e])
\* The first character from k on that is final and not escaped, or beyond the end.
ScanTo(final, k) ==
    LET scan[j \in 1..(N + 2)] == IF j > N \/ At(j) = final THEN j
                                  ELSE scan[IF At(j) = "\\" THEN j + 2 ELSE j + 1]
    IN  scan[k]
Slice(from, to) == SubSeq(text, from, IF to > N THEN N ELSE to)

-----------------------------------------------------------------------------
(* buildExpression *)
Token(type, txt) == [type |-> type, text |-> txt]
Op(ch) == Token("operator", <<ch>>)
Expr(type, txt, children) == [type |-> type, text |-> txt, children |-> children]
Sequence(children) == Expr("sequence", <<>>, children)

Parsed(e, pos) == [expr |-> e, pos |-> pos, err |-> ""]
Failed(why)    == [expr |-> Sequence(<<>>), pos |-> 0, err |-> why]

PostfixType(ch) == CASE ch = "?" -> "optional" [] ch = "*" -> "optionalRepeat" [] ch = "+" -> "repeat"

\* A parenthesized group is always a sequence.
Group(inner) == IF inner.type = "sequence" THEN inner ELSE Sequence(<<inner>>)

IsOp(ts, p, ch) == p <= Len(ts) /\ ts[p] = Op(ch)
EndOfChoice(ts, p) == p > Len(ts) \/ IsOp(ts, p, ")")

\* A sequence of one is its element.
Collapse(items) == IF Len(items) = 1 THEN items[1] ELSE Sequence(items)

RECURSIVE ParseChoice(_,_,_,_), ParsePrimary(_,_)

\* parseChoice and parseSequence: the alternatives complete so far, and the
\* elements of the current one.
ParseChoice(ts, p, alternatives, items) ==
    IF EndOfChoice(ts, p)
    THEN Parsed(IF alternatives = <<>> THEN Collapse(items)
                ELSE Expr("choice", <<>>, Append(alternatives, Collapse(items))), p)
    ELSE IF IsOp(ts, p, "/")
    THEN ParseChoice(ts, p + 1, Append(alternatives, Collapse(items)), <<>>)
    ELSE LET node    == ParsePrimary(ts, p)
             postfix == \E ch \in {"?", "*", "+"} : IsOp(ts, node.pos, ch)
             item    == IF postfix THEN Expr(PostfixType(ts[node.pos].text[1]), <<>>, <<node.expr>>)
                        ELSE node.expr
         IN  IF node.err # "" THEN node
             ELSE ParseChoice(ts, IF postfix THEN node.pos + 1 ELSE node.pos,
                              alternatives, Append(items, item))

\* Negative lookahead is parsed but ignored.
ParsePrimary(ts, start) ==
    LET p == CHOOSE k \in start..(Len(ts) + 1) : /\ ~IsOp(ts, k, "!")
                                                 /\ \A j \in start..(k - 1) : IsOp(ts, j, "!")
    IN  IF p > Len(ts) THEN Failed("unexpected end")
        ELSE IF IsOp(ts, p, "(") \/ ts[p].type = "call"
        THEN LET inner == ParseChoice(ts, p + 1, <<>>, <<>>)
             IN  IF inner.err # "" THEN inner
                 ELSE IF ~IsOp(ts, inner.pos, ")") THEN Failed("expected closing")
                 ELSE Parsed(IF ts[p].type = "call" THEN Expr("call", ts[p].text, <<inner.expr>>)
                             ELSE Group(inner.expr), inner.pos + 1)
        ELSE IF ts[p].type = "operator" THEN Failed("unrecognized token")
        ELSE Parsed(Expr(ts[p].type, ts[p].text, <<>>), p + 1)

BuildExpression(ts) ==
    LET root == ParseChoice(ts, 1, <<>>, <<>>)
    IN  IF root.err = "" /\ root.pos # Len(ts) + 1 THEN Failed("trailing tokens") ELSE root

\* Expression.String: every nested sequence and choice in parentheses.
RECURSIVE Write(_,_,_,_)
Write(e, top, or, open) ==
    LET child(k) == Write(e.children[k], FALSE, or, open)
        join(sep) ==
            (IF top THEN <<>> ELSE open)
            \o FlattenSeq([k \in 1..Len(e.children) |-> (IF k > 1 THEN sep ELSE <<>>) \o child(k)])
            \o (IF top THEN <<>> ELSE <<")">>)
    IN  CASE e.type = "literal"  -> <<"'">> \o e.text \o <<"'">>
          [] e.type \in {"reference", "regex"} -> e.text
          [] e.type = "call"     -> e.text \o open \o Write(e.children[1], TRUE, or, open) \o <<")">>
          [] e.type = "sequence" -> join(<<" ">>)
          [] e.type = "choice"   -> join(or)
          [] OTHER -> child(1) \o <<CASE e.type = "optional" -> "?" [] e.type = "repeat" -> "+"
                                     [] OTHER -> "*">>

-----------------------------------------------------------------------------
(* AssembledText *)

\* The keywords of a list file, given as its lines: trimmed, lower-cased, no blank ones.
TrimSpace(line) == SelectSeq(line, LAMBDA ch : ch \notin Spaces)
Keywords(lines) ==
    LET trimmed == [k \in 1..Len(lines) |-> Lower(TrimSpace(lines[k]))]
    IN  SelectSeq(trimmed, LAMBDA line : line # <<>>)

OrThenNewline == <<" ", "/", "\n">>

KeywordRule(list) ==
    LET words == Keywords(list.lines)
    IN  list.rule \o <<" ", "<", "-", " ">>
        \o FlattenSeq([k \in 1..Len(words) |->
              (IF k > 1 THEN OrThenNewline ELSE <<>>) \o <<"'">> \o words[k] \o <<"'">>])
        \o <<"\n">>

\* common.gram, then the keyword lists as rules, then the other files in order.
AssembledText(common, lists, others) ==
    common \o <<"\n">>
    \o FlattenSeq([k \in 1..Len(lists) |-> KeywordRule(lists[k])])
    \o FlattenSeq([k \in 1..Len(others) |-> others[k] \o <<"\n">>])

-----------------------------------------------------------------------------
(* parseRules *)
Running == state \notin {"done", "error"} /\ c <= N

Fail(why) ==
    /\ state' = "error" /\ error' = why
    /\ UNCHANGED <<text, c, ruleName, parameters, tokens, bracketCount, inOrClause, rules>>

Comment ==
    /\ Running /\ Here = "#"
    /\ c' = CHOOSE e \in c..(N + 1) : /\ \A j \in c..(e - 1) : text[j] \notin Newlines
                                      /\ e = N + 1 \/ text[e] \in Newlines
    /\ UNCHANGED <<text, state, ruleName, parameters, tokens, bracketCount, inOrClause, rules, error>>

\* Mutant: a newline ends the rule even in an unfinished alternative.
EndsRuleInChoice == state = "definition" /\ Here \in Newlines /\ bracketCount = 0 /\ tokens # <<>>

\* A newline ends the rule, except in brackets or after a '/'.
EndsRule ==
    /\ state = "definition" /\ Here \in Newlines
    /\ bracketCount = 0 /\ ~inOrClause /\ tokens # <<>>

Duplicate(name) == \E k \in 1..Len(rules) : Lower(rules[k].name) = Lower(name)

\* completeRule and addRule; the caller gives the machine's next state.
Complete(next, after) ==
    LET built == BuildExpression(tokens)
    IN  IF built.err # "" THEN Fail(built.err)
        ELSE IF Duplicate(ruleName) THEN Fail("duplicate rule name")
        ELSE /\ rules' = Append(rules, [name |-> ruleName, parameters |-> parameters,
                                        tokens |-> tokens, expression |-> built.expr])
             /\ state' = next
             /\ tokens' = <<>> /\ parameters' = <<>> /\ ruleName' = <<>>
             /\ c' = after
             /\ UNCHANGED <<text, bracketCount, inOrClause, error>>

CompleteRule == Running /\ EndsRule /\ Complete("name", c + 1)

SkipSpace ==
    /\ Running /\ Here \in Spaces /\ ~EndsRule
    /\ c' = c + 1
    /\ UNCHANGED <<text, state, ruleName, parameters, tokens, bracketCount, inOrClause, rules, error>>

In(s) == Running /\ state = s /\ Here \notin Spaces \cup {"#"}

RuleName ==
    /\ In("name")
    /\ LET end == RunEnd(IF Here = "%" THEN c + 1 ELSE c) IN
       IF end = c THEN Fail("expected a rule name")
       ELSE /\ ruleName' = Slice(c, end - 1) /\ c' = end
            /\ parameters' = <<>> /\ tokens' = <<>>
            /\ state' = "separator"
            /\ UNCHANGED <<text, bracketCount, inOrClause, rules, error>>

Parameter ==
    /\ In("separator") /\ Here = "("
    /\ LET end == RunEnd(c + 1) IN
       IF parameters # <<>> THEN Fail("multiple parameters")
       ELSE IF end = c + 1 THEN Fail("expected a parameter")
       ELSE IF At(end) # ")" THEN Fail("expected closing bracket")
       ELSE /\ parameters' = Append(parameters, Slice(c + 1, end - 1)) /\ c' = end + 1
            /\ UNCHANGED <<text, state, ruleName, tokens, bracketCount, inOrClause, rules, error>>

Separator ==
    /\ In("separator") /\ Here # "("
    /\ IF Here # "<" \/ At(c + 1) # "-" THEN Fail("expected a rule definition")
       ELSE /\ state' = "definition" /\ c' = c + 2
            /\ UNCHANGED <<text, ruleName, parameters, tokens, bracketCount, inOrClause, rules, error>>

\* One token of a definition: it ends an unfinished alternative.
Take(token, next, brackets, or) ==
    /\ tokens' = Append(tokens, token) /\ c' = next
    /\ bracketCount' = brackets /\ inOrClause' = or
    /\ UNCHANGED <<text, state, ruleName, parameters, rules, error>>

LiteralToken ==
    /\ In("definition") /\ Here = "'"
    /\ LET end == ScanTo("'", c + 1) IN
       IF end > N THEN Fail("did not find closing '")
       ELSE IF At(end + 1) = "i" THEN Fail("unexpected i")
       ELSE Take(Token("literal", Slice(c + 1, end - 1)), end + 1, bracketCount, FALSE)

ReferenceToken ==
    /\ In("definition") /\ Alnum(Here)
    /\ LET end == RunEnd(c) IN
       IF At(end) = "("
       THEN Take(Token("call", Slice(c, end - 1)), end + 1, bracketCount + 1, FALSE)
       ELSE Take(Token("reference", Slice(c, end - 1)), end, bracketCount, FALSE)

\* A character class that is not closed takes the rest of the text.
RegexToken ==
    /\ In("definition") /\ Here \in {"[", "<"}
    /\ LET end == ScanTo(IF Here = "<" THEN ">" ELSE "]", c) + 1
       IN  Take(Token("regex", Slice(c, end - 1)), end, bracketCount, FALSE)

OperatorToken ==
    /\ In("definition") /\ Here \in Operators
    /\ IF Here = ")" /\ bracketCount = 0 THEN Fail("unclosed bracket")
       ELSE Take(Op(Here), c + 1,
                 bracketCount + (CASE Here = "(" -> 1 [] Here = ")" -> -1 [] OTHER -> 0),
                 Here = "/")

UnrecognizedCharacter ==
    /\ In("definition") /\ ~Alnum(Here) /\ Here \notin Operators \cup {"'", "[", "<"}
    /\ Fail("unrecognized rule contents")

AtEnd == state \notin {"done", "error"} /\ c > N

EndOfText ==
    /\ AtEnd
    /\ CASE state = "name" -> /\ state' = "done"
                              /\ UNCHANGED <<text, c, ruleName, parameters, tokens, bracketCount,
                                             inOrClause, rules, error>>
         [] state = "separator" -> Fail("no definition")
         [] state = "definition" /\ tokens = <<>> -> Fail("rule is empty")
         [] OTHER -> Complete("done", c)

-----------------------------------------------------------------------------
Init ==
    /\ text \in Texts
    /\ c = 1 /\ state = "name"
    /\ ruleName = <<>> /\ parameters = <<>> /\ tokens = <<>>
    /\ bracketCount = 0 /\ inOrClause = FALSE
    /\ rules = <<>> /\ error = ""

Next ==
    \/ Comment \/ CompleteRule \/ SkipSpace
    \/ RuleName \/ Parameter \/ Separator
    \/ LiteralToken \/ ReferenceToken \/ RegexToken \/ OperatorToken \/ UnrecognizedCharacter
    \/ EndOfText
    \/ (state \in {"done", "error"} /\ UNCHANGED vars)

Spec == Init /\ [][Next]_vars

-----------------------------------------------------------------------------
(* Correctness. *)
\* The type invariant.
TypeOK ==
    /\ c \in 1..(N + 3) /\ bracketCount <= N /\ inOrClause \in BOOLEAN
    /\ state \in {"name", "separator", "definition", "done", "error"}
    /\ (error = "") = (state # "error")
    /\ Len(parameters) <= 1

TokenText(t) ==
    CASE t.type = "literal" -> <<"'">> \o t.text \o <<"'">>
      [] t.type = "call" -> t.text \o <<"(">>
      [] OTHER -> t.text
RuleText(r) ==
    r.name \o (IF r.parameters = <<>> THEN <<>> ELSE <<"(">> \o r.parameters[1] \o <<")">>)
    \o <<"<", "-">> \o FlattenSeq([k \in 1..Len(r.tokens) |-> TokenText(r.tokens[k])])
NoSpace(u) == SelectSeq(u, LAMBDA ch : ch \notin Spaces)

\* Nothing is lost: the names and tokens of an accepted text are all of it
\* but its spaces and comments, in order.
NothingLost ==
    state = "done" /\ (\A k \in 1..N : text[k] # "#") =>
        NoSpace(text) = NoSpace(FlattenSeq([k \in 1..Len(rules) |-> RuleText(rules[k])]))

\* The scanner's bracket count and the expression parser agree: a rule is
\* handed over only at a balanced point, so the parser's check for tokens
\* it has not used never fails.
NoTrailingTokens == error # "trailing tokens"

\* An expression without the sequence of one around the whole of a rule or
\* of an argument, which String does not write.
Bare(expression) ==
    LET RECURSIVE Strip(_,_)
        Strip(e, top) ==
            IF top /\ e.type = "sequence" /\ Len(e.children) = 1 THEN Strip(e.children[1], TRUE)
            ELSE [e EXCEPT !.children = [k \in 1..Len(e.children) |->
                                            Strip(e.children[k], e.type = "call")]]
    IN  Strip(expression, TRUE)

RECURSIVE TokensOf(_,_)
TokensOf(e, top) ==
    LET all(sep) == (IF top THEN <<>> ELSE <<Op("(")>>)
                    \o FlattenSeq([k \in 1..Len(e.children) |->
                          (IF k > 1 THEN sep ELSE <<>>) \o TokensOf(e.children[k], FALSE)])
                    \o (IF top THEN <<>> ELSE <<Op(")")>>)
    IN  CASE e.type \in {"literal", "reference", "regex"} -> <<Token(e.type, e.text)>>
          [] e.type = "call" -> <<Token("call", e.text)>> \o TokensOf(e.children[1], TRUE) \o <<Op(")")>>
          [] e.type = "sequence" -> all(<<>>)
          [] e.type = "choice" -> all(<<Op("/")>>)
          [] OTHER -> TokensOf(e.children[1], FALSE)
                      \o <<Op(CASE e.type = "optional" -> "?" [] e.type = "repeat" -> "+" [] OTHER -> "*")>>

\* The trees are in normal form: what String writes for a tree parses to it
\* again, up to a sequence of one around the whole, in every accepted text.
WrittenParsesBack ==
    state = "done" =>
        \A k \in 1..Len(rules) :
            LET again == BuildExpression(TokensOf(rules[k].expression, TRUE))
            IN  again.err = "" /\ Bare(again.expr) = Bare(rules[k].expression)
=============================================================================
