------------------------------ MODULE MCGrammar ------------------------------
(***************************************************************************)
(* The grammar, from its text to the tree of matchers: the loader on       *)
(* grammars written out in several layouts, on assembled keyword lists and *)
(* on every text of up to MaxPieces pieces after "R <- "; and the factory  *)
(* on grammars of up to four rules.  task says which is in the cells.      *)
(***************************************************************************)
EXTENDS Integers, Sequences, FiniteSets, SequencesExt

CONSTANT MaxPieces   \* bound: pieces of an arbitrary definition

VARIABLES task, c1, c2, c3, c4, c5, c6, c7, c8, c9, c10

-----------------------------------------------------------------------------
(* Grammar texts, and what they were written from. *)
LowerChars(name) == [k \in 1..Len(name) |->
    CASE name[k] = "R" -> "r" [] name[k] = "A" -> "a" [] name[k] = "S" -> "s" [] OTHER -> name[k]]

\* The loader's syntax, to write texts with.
W == INSTANCE GrammarLoader WITH Texts <- {}, Lower <- LowerChars, text <- c1, c <- c2, state <- c3,
        ruleName <- c4, parameters <- c5, tokens <- c6, bracketCount <- c7, inOrClause <- c8,
        rules <- c9, error <- c10

Lit(ch)  == W!Expr("literal", <<ch>>, <<>>)
Ref(ch)  == W!Expr("reference", <<ch>>, <<>>)
Call(e)  == W!Expr("call", <<"L">>, <<e>>)
Postfixed(e) == {W!Expr(t, <<>>, <<e>>) : t \in {"optional", "repeat", "optionalRepeat"}}

Leaves  == {Lit("a"), Lit("#"), Ref("S"), W!Expr("regex", <<"[", "'", "]">>, <<>>)}
Level1  == Leaves \cup UNION {Postfixed(e) : e \in {Lit("a"), Ref("S")}} \cup {Call(Ref("S"))}
Grouped == {W!Sequence(<<Lit("a"), Ref("S")>>), W!Sequence(<<Ref("S")>>),
            W!Sequence(<<W!Expr("choice", <<>>, <<Lit("/"), W!Sequence(<<Ref("S"), Lit("a")>>)>>)>>)}
Level2  == Level1 \cup Grouped \cup UNION {Postfixed(e) : e \in Grouped}
           \cup {Call(W!Expr("choice", <<>>, <<Ref("S"), W!Sequence(<<>>)>>)), Call(Call(Lit("a")))}
\* A sequence of one is written, and so read, as its element where it is the whole body.
Whole   == {e \in Level2 : ~(e.type = "sequence" /\ Len(e.children) = 1)}
Bodies  == Whole
           \cup {W!Expr(t, <<>>, <<d, e>>) : t \in {"sequence", "choice"}, d \in Level1, e \in Level2}

RuleOf(name, params, e) == [name |-> name, parameters |-> params, expression |-> e]
S1 == RuleOf(<<"S">>, <<>>, Lit("b"))

Ors   == {<<" ", "/", " ">>, <<"/", "\n", " ">>, <<"/", "#", "'", "\n">>}
Opens == {<<"(">>, <<"(", "\n">>}

\* A rule as grammar text, without its line's end.
WriteRule(r, or, open) ==
    r.name \o (IF r.parameters = <<>> THEN <<>> ELSE <<"(">> \o r.parameters[1] \o <<")">>)
    \o <<"<", "-", " ">> \o W!Write(r.expression, TRUE, or, open)

\* Pairs of a text and the rules it should give.
Written ==
    {<<WriteRule(RuleOf(<<"R">>, <<>>, e), or, open) \o <<"#", "R", "\n", "\n">> \o WriteRule(S1, or, open),
       <<RuleOf(<<"R">>, <<>>, e), S1>>>> : e \in Bodies, or \in Ors, open \in {<<"(", "\n">>}}
    \cup {<<WriteRule(RuleOf(n, p, e), <<"/">>, open) \o <<"\r", "\n">>, <<RuleOf(n, p, e)>>>> :
            n \in {<<"R">>, <<"%", "R">>, <<"R", "r">>}, p \in {<<>>, <<<<"D">>>>}, e \in Whole, open \in Opens}

Files == {<<WriteRule(r, <<"/", "\n">>, <<"(">>) \o end, <<r>>>> :
            r \in {RuleOf(<<"R">>, <<>>, Lit("a")), RuleOf(<<"s">>, <<>>, Call(Ref("R")))},
            end \in {<<>>, <<"\n">>, <<"#", "x">>}}
Lists == {<<[rule |-> <<"K">>, lines |-> lines], words>> :
            lines \in {<<<<"A">>, <<>>, <<"b", " ">>>>, <<<<" ", "a">>, <<"b">>>>},
            words \in {<<<<"a">>, <<"b">>>>}}
         \cup {<<[rule |-> <<"K">>, lines |-> <<<<"b", "\r">>, <<>>>>], <<<<"b">>>>>>}
KeywordRuleOf(words) ==
    LET literals == [k \in 1..Len(words) |-> W!Expr("literal", words[k], <<>>)]
    IN  RuleOf(<<"K">>, <<>>, IF Len(words) = 1 THEN literals[1] ELSE W!Expr("choice", <<>>, literals))

Assembled ==
    {<<W!AssembledText(f[1], <<l[1]>>, <<g[1]>>), f[2] \o <<KeywordRuleOf(l[2])>> \o g[2]>> :
        f \in Files, l \in Lists, g \in Files}

Pieces == {<<"a">>, <<"L", "(">>, <<"'", "x", "'">>, <<"'", "\\", "'", "i">>, <<"(">>, <<")">>, <<"/">>,
           <<"?">>, <<"!">>, <<"\n">>, <<"[", "\\", "]">>, <<"#">>, <<"-">>, <<"i">>}

Concat(u) == FlattenSeq(u)
Arbitrary == {<<"R", "<", "-">> \o Concat(u) : u \in UNION {[1..n -> Pieces] : n \in 0..MaxPieces}}
Broken == {<<>>, <<"R">>, <<"(">>, <<"R", "(">>, <<"R", "(", "D">>, <<"R", "(", "D", ")", "(", "E", ")">>, <<"R", "=">>,
           <<"R", "<", "-", "a", "\n", "r", "<", "-", "b">>}

Expected == Written \cup Assembled
GrammarTexts == {p[1] : p \in Expected} \cup Arbitrary \cup Broken

L == INSTANCE GrammarLoader WITH Texts <- GrammarTexts, Lower <- LowerChars, text <- c1, c <- c2, state <- c3,
        ruleName <- c4, parameters <- c5, tokens <- c6, bracketCount <- c7, inOrClause <- c8,
        rules <- c9, error <- c10

-----------------------------------------------------------------------------
(* Grammars to compile: recursive rules, a macro, an override, literals in *)
(* two spellings, and references to rules that are missing, are macros or  *)
(* are character classes.                                                  *)
Made(type, text, children) == [type |-> type, text |-> text, children |-> children]
Word(text)  == Made("literal", text, <<>>)
To(name)  == Made("reference", name, <<>>)
Seq2(a, b) == Made("sequence", "", <<a, b>>)
Alt2(a, b) == Made("choice", "", <<a, b>>)
Mac(name, a) == Made("call", name, <<a>>)
Post(type, a) == Made(type, "", <<a>>)

Postfixes == {"optional", "repeat", "optionalRepeat"}

Uses == {Word("x"), Word("X"), To("A"), To("Program"), To("Identifier"), To("Gone"), To("List"),
         Made("regex", "", <<>>)}

Combined(leaves) ==
    leaves \cup {Post(t, e) : t \in Postfixes, e \in leaves}
           \cup {Seq2(d, e) : d \in leaves, e \in leaves} \cup {Alt2(d, e) : d \in leaves, e \in leaves}
           \cup {Mac("List", e) : e \in leaves}

ProgramBodies ==
    Combined(Uses)
    \cup {Seq2(Alt2(Word("x"), Mac("List", e)), Post("optionalRepeat", Seq2(To("A"), e))) : e \in Uses}
    \cup {Alt2(Mac("List", Mac("List", e)), Made("sequence", "", <<Alt2(e, To("A"))>>)) : e \in Uses}
    \cup {Mac("A", Word("x")), Made("sequence", "", <<>>)}

ABodies == {To("A"), Seq2(Word("X"), To("Program")), Mac("List", To("A")),
            Alt2(Post("repeat", To("Identifier")), Seq2(Word("x"), Mac("List", To("Gone")))),
            Seq2(Mac("List", Word("x")), Mac("List", Word("X")))}

ListBodies == {Seq2(To("D"), Post("optionalRepeat", Seq2(Word(","), To("D")))), To("D"),
               Alt2(To("A"), To("D"))}

Defn(name, parameters, e) == [name |-> name, parameters |-> parameters, expression |-> e]

CompiledGrammars ==
    {[program    |-> Defn("Program", <<>>, p),
      a          |-> Defn("A", <<>>, a),
      list       |-> Defn("List", <<"D">>, l),
      identifier |-> Defn("Identifier", <<>>, Made("regex", "", <<>>))] :
        p \in ProgramBodies, a \in ABodies, l \in ListBodies}

OverrideRules == <<"Identifier", "EndOfInput">>
Hot  == {"A", "Identifier", "TableRef"}
LowerName(name) ==
    CASE name = "Program" -> "program" [] name = "A" -> "a" [] name = "List" -> "list"
      [] name = "Identifier" -> "identifier" [] name = "X" -> "x" [] OTHER -> name

F == INSTANCE Factory WITH Grammars <- CompiledGrammars, Root <- "Program", Overrides <- OverrideRules,
        MemoizedRules <- Hot, Lower <- LowerName, grammar <- c1, nodes <- c2, matchers <- c3,
        keywords <- c4, stack <- c5, call <- c6, ctl <- c7, ret <- c8

-----------------------------------------------------------------------------
Unused == "unused"

Init ==
    \/ task = "load" /\ L!Init
    \/ task = "compile" /\ F!Init /\ c9 = Unused /\ c10 = Unused

Load    == task = "load" /\ L!Next /\ UNCHANGED task
Compile == task = "compile" /\ F!Next /\ UNCHANGED <<task, c9, c10>>

Next == Load \/ Compile
Spec == Init /\ [][Next]_<<task, c1, c2, c3, c4, c5, c6, c7, c8, c9, c10>>

-----------------------------------------------------------------------------
(* Properties. *)

Defined(r) == RuleOf(r.name, r.parameters, r.expression)

Duplicates(expected) ==
    \E j, k \in 1..Len(expected) : j # k /\ LowerChars(expected[j].name) = LowerChars(expected[k].name)

\* Round trip: a grammar written in grammar syntax, in any layout that breaks
\* lines after '/' or inside brackets, with comments, or assembled from files
\* that need not end in a newline, parses to exactly the c9 it was written
\* from, names, parameters and trees, in order; and fails exactly if a name
\* comes twice, in whatever case.
ParsesAsWritten ==
    c3 \in {"done", "error"} =>
      \A p \in Expected : p[1] = c1 =>
        /\ c3 = "error" => c10 = "duplicate rule name" /\ Duplicates(p[2])
        /\ c3 = "done"  => [k \in 1..Len(c9) |-> Defined(c9[k])] = p[2] /\ ~Duplicates(p[2])

\* grammar.Parse: what is written in grammar syntax is read back, nothing of
\* an accepted text is lost, rules end only where brackets are balanced, and
\* every tree is in the form Expression.String writes.
GrammarsParseAsWritten ==
    task = "load" => /\ L!TypeOK /\ L!NothingLost /\ L!NoTrailingTokens /\ L!WrittenParsesBack
                     /\ ParsesAsWritten

\* matcher.New: the matchers are the grammar, each rule and keyword has one,
\* the hot rules' are memoized, and a grammar is refused exactly for a
\* defect in a rule that is needed.
MatchersAreGrammar ==
    task = "compile" => /\ F!TypeOK /\ F!MatchersShared /\ F!MemoizedAreHotRules
                        /\ F!FailsIfNeededRuleBroken /\ F!CompiledAsWritten
=============================================================================
