---------------------------- MODULE MCExpressions ----------------------------
(***************************************************************************)
(* The transformers of expressions on bounded inputs, one component in a   *)
(* behaviour: expressions and special forms, number literals, function     *)
(* calls, chains of indirections, window definitions, ARRAY subqueries and *)
(* the limit on depth.  task says which, and it runs in the first cells.   *)
(***************************************************************************)
EXTENDS AstNodes, WindowFrames

LOCAL INSTANCE SequencesExt

CONSTANT Tasks       \* the components that run

-----------------------------------------------------------------------------
(* Parse trees of expressions. *)
X == Leaf(Column("x"))
Y == Leaf(Column("y"))
One == Leaf(Node("Constant", "1", <<>>, "whole"))

SeqsUpTo(S, n) == UNION {[1..k -> S] : k \in 1..n}
Op(kind, op, neg) == Turn(kind, op, neg, 1)
Signs(ops, n)  == SeqsUpTo({Turn("op", o, FALSE, 0) : o \in ops}, n)
Repeated(rule, n, kid) == Tree(rule, [i \in 1..n |-> Turn("op", rule, FALSE, 0)], <<kid>>)

Chain(rule, tails, first, operand) ==
    Tree(rule, tails,
         <<first>> \o FlattenSeq([i \in 1..Len(tails) |->
                                    [j \in 1..tails[i].n |-> IF i = 1 /\ j = 1 THEN operand ELSE Y]]))

Prefixed  == {Tree("prefix", t, <<k>>) : t \in Signs({"-", "+"}, 3), k \in {X, One}}
Ladders   == {Chain(rule, t, X, k) : rule \in {"additive", "bitwise", "collate", "attimezone"},
                                     t \in {<<Op("op", "-", FALSE)>>, <<Op("op", "-", FALSE), Op("op", "+", FALSE)>>},
                                     k \in {Y, One}}
Minus     == Tree("prefix", <<Turn("op", "-", FALSE, 0)>>, <<One>>)
Nests     == {Repeated("tilde", n, k) : n \in 1..2, k \in {X, Minus}}
             \cup {Tree("prefix", <<Turn("op", "-", FALSE, 0)>>, <<Minus>>)}
             \cup {Tree("arrow", t, [i \in 1..(Len(t) + 1) |-> X]) :
                     t \in {<<Op("op", "", FALSE)>>, <<Op("op", "", FALSE), Op("op", "", FALSE)>>}}

Quantified == {Op("anyall", o, all) : o \in {"=", "==", "<>", "<", "<=", ">", ">=", "~", "!~", "~*", "!~*", "+"},
                                      all \in BOOLEAN}
NamedOps   == {Op("named", o, FALSE) : o \in {"+", "=", "<"}}
              \cup {Op("qualified", o, b) : o \in {"+", "<"}, b \in BOOLEAN}
\* A quantifier's operand is a subquery or a list.
Infixes == {Chain("infix", <<t>>, X, k) : t \in Quantified, k \in {QueryLeaf, ListLeaf}}
           \cup {Chain("infix", t, X, One) : t \in SeqsUpTo(NamedOps, 2)}
           \cup {Chain("infix", <<t, u>>, X, QueryLeaf) : t \in {Op("anyall", "<", all) : all \in BOOLEAN}, u \in NamedOps}
           \cup {Tree("custom", <<Op("op", "~", FALSE)>>, <<X>>)}

Variations == {"LIKE", "ILIKE", "GLOB", "SIMILAR", "REGEX", "IREGEX", "NLIKE", "NILIKE", "NREGEX", "NIREGEX"}
Likes == {Turn("like", v, neg, n) : v \in Variations, neg \in BOOLEAN, n \in 1..2}
Between == {Turn("between", "", neg, 2) : neg \in BOOLEAN}
Ins   == {Turn("in", op, neg, 1) : op \in {"list", "select", "contains"}, neg \in BOOLEAN}
InTwo == {Turn("in", "list", neg, 2) : neg \in BOOLEAN}
Cast  == Turn("cast", "BOOLEAN", FALSE, 0)
OperandOf(t) == IF t.op = "select" THEN QueryLeaf ELSE IF t.op = "contains" THEN ListLeaf ELSE One

InLikes == {Chain("inlike", <<t>>, X, k) : t \in Likes \cup Between \cup InTwo, k \in {Y, One}}
           \cup {Chain("inlike", <<t>> \o c, X, OperandOf(t)) : t \in Ins, c \in {<<>>, <<Cast>>}}
           \cup {Chain("inlike", <<t>>, X, QueryLeaf) : t \in {i \in Ins : i.op = "list"}}
           \cup {Chain("inlike", <<t>> \o c \o <<u>>, X, OperandOf(t)) :
                   t \in Ins \cup InTwo, u \in Between \cup {l \in Likes : l.op \in {"LIKE", "NREGEX"}}, c \in {<<>>, <<Cast>>}}

Comparisons == {"=", "<>", "<", ">", "<=", ">="}
Compares(first, k) == {Chain("compare", <<Op("op", o, FALSE)>>, first, k) : o \in Comparisons}
LikeXY == Chain("inlike", <<Turn("like", "LIKE", TRUE, 1)>>, X, Y)
Compared == UNION {Compares(X, k) : k \in {Y, One, Repeated("not", 1, Y), Repeated("not", 2, X)}}
            \cup UNION {Compares(LikeXY, k) : k \in {Y}}
            \cup {Chain("compare", <<Op("op", "<", FALSE), Op("op", o, FALSE)>>, X, k) : o \in {"<", "="}, k \in {Y, RaisedLeaf}}

Distincts == {Chain("distinct", t, X, k) : t \in SeqsUpTo({Op("distinct", "", b) : b \in BOOLEAN}, 2), k \in {Y, One}}

Tests == {Turn("test", o, neg, 0) : o \in {"NULL", "UNKNOWN", "TRUE", "FALSE"}, neg \in BOOLEAN}
IsTails == {Turn("test", "NULL", FALSE, 0), Turn("test", "FALSE", TRUE, 0), Cast, Op("distinct", "", FALSE),
            Op("compare", "<", FALSE), Op("named", "+", FALSE), Op("named", "<", FALSE)}
IsTrees == {Chain("is", <<t>> \o u, k, Y) : t \in Tests, u \in {<<>>} \cup SeqsUpTo(IsTails, 1), k \in {X, Y}}
           \cup {Chain("is", <<Turn("test", "TRUE", FALSE, 0)>> \o u, X, Y) : u \in [1..3 -> IsTails]}
           \cup {Chain("is", <<Turn("test", "NULL", FALSE, 0)>> \o <<t>>, X, QueryLeaf) :
                   t \in {Op("anyall", "<", all) : all \in BOOLEAN} \cup {Op("anyall", "!~", TRUE)}}

Parts == {X, One, LikeXY, Chain("compare", <<Op("op", "<", FALSE)>>, X, Y),
          Chain("is", <<Turn("test", "NULL", TRUE, 0)>>, X, Y)}
Nots  == {Repeated("not", n, k) : n \in 1..3, k \in Parts}
Ands  == {Tree("and", <<>>, k) : k \in UNION {[1..n -> Parts \cup {Y}] : n \in 2..3}}
SmallAnds == {Tree(rule, <<>>, <<k, Y>>) : rule \in {"and", "or"}, k \in {X, Repeated("not", 1, X)}}
Ors   == {Tree(rule, <<>>, k) : rule \in {"and", "or"}, k \in [1..2 -> SmallAnds \cup {Y, RaisedLeaf}]}
         \cup {Tree("or", <<>>, <<Tree("or", <<>>, <<a, X>>), a>>) : a \in SmallAnds}

\* Special forms, on operands that tell their argument orders apart.
Form(rule, op, flag, kids) == Tree(rule, <<Turn(rule, op, flag, 0)>>, kids)
Plus1 == Chain("additive", <<Op("op", "+", FALSE)>>, X, One)
Elem  == Leaf(Column("elem"))
CaseForms == {Form("case", "operand", else, [i \in 1..(2 * n + 1 + (IF else THEN 1 ELSE 0)) |-> IF i % 2 = 1 THEN X ELSE k]) :
            n \in 1..2, else \in BOOLEAN, k \in {Y, Plus1}}
         \cup {Form("case", "", else, [i \in 1..(2 * n + (IF else THEN 1 ELSE 0)) |-> IF i % 2 = 1 THEN X ELSE Y]) :
            n \in 1..2, else \in BOOLEAN}
CallForms == {Form("substring", op, FALSE, <<X, Y>>) : op \in {"for", "from"}}
         \cup {Form("substring", "list", FALSE, <<X, Y, Plus1>>), Form("overlay", "", FALSE, <<X, Y, Plus1>>)}
         \cup {Form("trim", d, b, <<X, Y>>) : d \in {"", "leading", "trailing"}, b \in BOOLEAN}
         \cup {Form(rule, "1", FALSE, <<X, Y>>) : rule \in {"nullif", "position", "coalesce", "row", "struct", "map"}}
         \cup {Form("extract", "1", FALSE, <<X>>), Form("map", "", FALSE, <<>>)}
         \cup {Form("list", "", b, <<X, Y>>) : b \in BOOLEAN}
         \cup {Form("interval", u, FALSE, <<k>>) : u \in {"", "hours", "days", "seconds"}, k \in {X, Plus1}}
         \cup {Tree("interval", <<Turn("range", "", FALSE, 0)>>, <<X>>)}
         \cup {Form("subquery", "scalar", b, <<Rows>>) : b \in BOOLEAN}
         \cup {Form("subquery", "exists", b, <<Rows>>) : b \in BOOLEAN}
         \cup {Form("positional", "1", b, <<>>) : b \in BOOLEAN}
         \cup {Form("number", "1", FALSE, <<>>), Form("national", "1", FALSE, <<>>)}
Stars == {Leaf(Node("Star", mods, <<>>, "whole")) : mods \in {"", "exclude"}}
Columnses == {Form("columns", "", b, <<k>>) :
                b \in BOOLEAN, k \in Stars \cup {X, Form("lambda", "v", FALSE, <<X>>), Form("columns", "", FALSE, <<X>>)}}
\* The list of a comprehension, its filter and its element, with v and with elem for the variable.
Comprehensions ==
    {Form("comprehension", v, FALSE, <<e, ListLeaf>> \o c) :
       v \in {"x", "elem"}, e \in {Plus1, Chain("additive", <<Op("op", "+", FALSE)>>, Elem, One)},
       c \in {<<>>, <<X>>, <<Elem>>, <<Chain("compare", <<Op("op", "<", FALSE)>>, X, Y)>>}}

ExprTrees == Prefixed \cup Ladders \cup Nests \cup Infixes \cup InLikes \cup Compared \cup Distincts \cup IsTrees
           \cup Nots \cup Ands \cup Ors
           \cup {Repeated("not", 1, k) : k \in Distincts}
           \cup CaseForms \cup CallForms \cup Columnses
           \cup Comprehensions
           \cup {Chain("inlike", <<Turn("in", "list", FALSE, 2)>>, k, RaisedLeaf) : k \in {X, RaisedLeaf}}

-----------------------------------------------------------------------------
(* Number literals, of words small enough that their digits overflow two.  *)
SomeDigits == {0, 1, 6, 9}
NoDigit == 10
SeqsOf(S, n) == {<<>>} \cup SeqsUpTo(S, n)
NumberText(neg, whole, frac, point, exponent) ==
    [neg |-> neg, whole |-> whole, frac |-> frac, point |-> point, exponent |-> exponent]

Numbers ==
    {NumberText(neg, ds, <<>>, FALSE, FALSE) : neg \in BOOLEAN, ds \in SeqsUpTo(SomeDigits, 6)}
    \cup {t \in {NumberText(neg, w, f, TRUE, FALSE) : neg \in BOOLEAN, w \in SeqsOf({0, 1, 9}, 3), f \in SeqsOf({0, 3, NoDigit}, 3)} :
             t.whole # <<>> \/ t.frac # <<>>}
    \cup {NumberText(FALSE, <<1>>, f, p, TRUE) : p \in BOOLEAN, f \in {<<>>, <<3>>, <<NoDigit>>}}

-----------------------------------------------------------------------------
(* Calls of a name of each kind with up to two arguments and every         *)
(* combination of modifiers; the grammar's method calls have only a list   *)
(* of arguments.                                                           *)
FunctionNames == {"f", "count", "ifnull", "unpack", "date", "time", "coalesce", "construct_array", "percentile_cont", "mode"}
Calls == [name : FunctionNames, schema : BOOLEAN, args : SeqsOf({"x", "star", "named"}, 2), distinct : {"no", "all", "distinct"},
          orders : 0..1, nulls : BOOLEAN, within : {0, 2, 3}, filter : BOOLEAN, export : BOOLEAN, over : BOOLEAN]
Methods == {c \in Calls : ~c.schema /\ c.within = 0 /\ ~c.filter /\ ~c.export /\ ~c.over}
ChainMethod(name, nulls) ==
    [name |-> name, schema |-> FALSE, args |-> <<>>, distinct |-> "no", orders |-> 0, nulls |-> nulls,
     within |-> 0, filter |-> FALSE, export |-> FALSE, over |-> FALSE]
ChainMethods == {ChainMethod("f", FALSE), ChainMethod("f", TRUE), ChainMethod("unpack", FALSE), ChainMethod("ifnull", FALSE)}

-----------------------------------------------------------------------------
(* Contents of window definitions: every range of frame bounds and a few   *)
(* other frames, and every partition and order.                            *)
FrameClause(framing, start, end, exclude) == [framing |-> framing, start |-> start, end |-> end, exclude |-> exclude]
MCContents ==
    [partition : BOOLEAN, order : {"none", "keys"}, frame : {[framing |-> "none"]}]
    \cup [partition : {TRUE}, order : {"all"}, frame : {[framing |-> "none"]}]
    \cup [partition : {FALSE}, order : {"keys"},
          frame : {FrameClause("RANGE", s, e, "none") : s \in BoundKinds, e \in BoundKinds \cup {"single"}}
                  \cup {FrameClause("ROWS", "UNBOUNDED_PRECEDING", "single", "none"),
                        FrameClause("GROUPS", "CURRENT_ROW", "CURRENT_ROW", "ties"),
                        FrameClause("RANGE", "UNBOUNDED_PRECEDING", "CURRENT_ROW", "ties")}]

-----------------------------------------------------------------------------
(* Lists of one or two items, one of which may have an alias of the        *)
(* internal form, and order keys of every kind.                            *)
Item(k, alias) == [alias |-> alias, expr |-> [kind |-> "item", value |-> k]]
ItemLists == {<<Item(1, <<>>)>>, <<Item(1, <<>>), Item(2, <<"__array_internal_idx", 2>>)>>}
OrderKeys ==
    [kind : {"integer"}, value : {1, 2}, desc : BOOLEAN]
    \cup [kind : {"decimal"}, value : {15}, desc : {FALSE}]   \* 1.5
    \cup [kind : {"column"}, value : {1, 2}, desc : BOOLEAN]
    \cup [kind : {"string", "star", "conjunction"}, value : {0}, desc : {FALSE}]

-----------------------------------------------------------------------------
(* Results of NOTs over tildes over sums over primaries, in parentheses or *)
(* not.                                                                    *)
Result(shape, rule, kids) == [shape |-> shape, rule |-> rule, kids |-> kids]
Word == Result("leaf", "word", <<>>)
Many(rule, x, n) == Result("repeat", rule, [k \in 1..n |-> x])
\* An optional carries the name of what it matched.
Maybe(rule, n, x) == IF n = 0 THEN Result("optional", "", <<>>) ELSE Result("optional", rule, <<x>>)

Primary      == Result("choice", "nesting", <<Result("list", "nesting", <<Word>>)>>)
Parens(e)    == Result("choice", "nesting", <<Result("list", "nesting", <<Result("list", "parens", <<Word, e, Word>>)>>)>>)
CallOf(e, f) == Result("list", "nesting", <<Word, Maybe("", 1, Result("repeat", "", <<e, f>>))>>)
Sum(e, n, f) == Result("list", "chain", <<e, Maybe("", n, Many("", Result("list", "tail", <<Word, f>>), n))>>)
Tildes(n, e) == Result("list", "TildeExpression", <<Maybe("", n, Many("", Word, n)), e>>)
NotsOver(n, e) ==
    Result("list", "not",
           <<Maybe("NotExpression", n,
                   Result("list", "NotExpression", <<Many("NotExpression", Result("list", "NotKeyword", <<Word>>), n)>>)), e>>)

Flat   == {NotsOver(n, Tildes(m, Sum(Primary, k, Primary))) : n, m \in 0..4, k \in 0..3}
Within == {NotsOver(n, Tildes(m, Sum(Primary, k, Primary))) : n \in {0, 1, 3}, m \in {0, 1}, k \in {0, 1}}
Once   == {NotsOver(n, Tildes(m, Sum(p, k, Primary))) :
             n \in {0, 2, 3}, m \in 0..2, k \in 0..1, p \in {Parens(e) : e \in Within} \cup {CallOf(e, f) : e, f \in Within}}
Twice  == {NotsOver(n, Parens(NotsOver(m, Parens(e)))) : n \in 0..4, m \in 0..2, e \in Within}
DeepTrees == Flat \cup Once \cup Twice

-----------------------------------------------------------------------------
VARIABLES task, c1, c2, c3, c4, c5, c6, c7

E == INSTANCE ExprMeaning WITH Trees <- ExprTrees, tree <- c1, ast <- c2
N == INSTANCE NumberLiteral WITH Texts <- Numbers, W <- 8, MaxWidth <- 4, SmallWidth <- 2,
                                 text <- c1, state <- c2, digits <- c3, i <- c4, hi <- c5, lo <- c6, value <- c7
F == INSTANCE FunctionCall
C == INSTANCE Indirection WITH Calls <- ChainMethods, MaxPath <- 6, MaxItems <- 4,
                               base <- c1, items <- c2, expr <- c3, stage <- c4
A == INSTANCE ArraySubquery WITH Items <- ItemLists, Keys <- OrderKeys, MaxKeys <- 3,
                                 node <- c1, list <- c2, orders <- c3, aggregate <- c4, argument <- c5
D == INSTANCE Depth WITH Trees <- DeepTrees, Limit <- 3, tree <- c1, folds <- c2, outcome <- c3

\* A function call and how it is written, the result, and the cell of the
\* array's list as it was written.
call    == c1
way     == c2
result  == c3
Unasked == [node |-> "none"]
asWritten == c6

Unused == "unused"
Cells  == <<c1, c2, c3, c4, c5, c6, c7>>
Above2 == <<c3, c4, c5, c6, c7, windowVars>>
Above3 == <<c4, c5, c6, c7, windowVars>>
Above4 == <<c5, c6, c7, windowVars>>

Init ==
    /\ task \in Tasks
    /\ InitWindows
    /\ \/ task = "expression" /\ E!Init /\ c3 = Unused /\ c4 = Unused /\ c5 = Unused /\ c6 = Unused /\ c7 = Unused
       \/ task = "number"     /\ N!Init
       \/ task = "chain"      /\ C!Init /\ c5 = Unused /\ c6 = Unused /\ c7 = Unused
       \/ task = "window"     /\ c1 = Unused /\ c2 = Unused /\ c3 = Unused /\ c4 = Unused
                              /\ c5 = Unused /\ c6 = Unused /\ c7 = Unused
       \/ task = "array"      /\ A!Init /\ c6 = c2 /\ c7 = Unused
       \/ task = "depth"      /\ D!Init /\ c4 = Unused /\ c5 = Unused /\ c6 = Unused /\ c7 = Unused
       \/ /\ task = "call"    /\ c3 = Unasked /\ c4 = Unused /\ c5 = Unused /\ c6 = Unused /\ c7 = Unused
          /\ \/ c2 = "call" /\ c1 \in Calls
             \/ c2 = "method" /\ c1 \in Methods

Expression == task = "expression" /\ E!Next /\ UNCHANGED <<task, Above2>>
Number == task = "number" /\ N!Next /\ UNCHANGED <<task, windowVars>>
Indirections == task = "chain" /\ C!Next /\ UNCHANGED <<task, Above4>>
Window == task = "window" /\ NextWindows /\ UNCHANGED <<task, Cells>>
Array == task = "array" /\ A!Next /\ UNCHANGED <<task, c6, c7, windowVars>>
DepthCheck == task = "depth" /\ D!Next /\ UNCHANGED <<task, Above3>>
TransformFunction ==
    /\ task = "call" /\ result = Unasked
    /\ c3' = (IF way = "call" THEN F!Call(call) ELSE F!Method(call))
    /\ UNCHANGED <<task, c1, c2, Above3>>

Next == Expression \/ Number \/ Indirections \/ Window \/ Array \/ DepthCheck \/ TransformFunction
Spec == Init /\ [][Next]_<<task, Cells, windowVars>>

-----------------------------------------------------------------------------
(* Properties. *)

\* Every rewriting of transform_expr.go keeps the expression's meaning in
\* every environment: flattened conjunctions, IS TRUE as a DISTINCT FROM,
\* NOT folded into an operator's name, ALL as a negated ANY, the CASE of a
\* quantified regex, swapped arguments, folded signs, list comprehensions.
RewritesKeepMeaning == task = "expression" => E!MeaningPreserved

\* And exactly the chains of comparisons, unusable quantifiers and doubled
\* negations are refused, an operand's own error first; conjunctions come
\* out flat, no literal stands under a minus, and the root has a location.
RefusedAndNormal ==
    task = "expression" => E!TypeOK /\ E!RefusedExactly /\ E!RootLocated /\ E!Normal

\* numberValue: the two words hold the digits read so far exactly, the value
\* is the number written if it fits them, of the narrowest type, and
\* decimals are rendered back as they were written.
NumbersAsWritten ==
    task = "number" => N!TypeOK /\ N!WordsExact /\ N!ExactIfItFits /\ N!Narrowest /\ N!DecimalsRoundTrip

\* transformFunction and method calls: a function or window has exactly the
\* modifiers and arguments written, and what is rewritten or cast loses no
\* others than those the order of the checks lets pass; syntax nodes are
\* complete; x.f(y) is f(x, y); WITHIN GROUP belongs to the ordered-set
\* aggregates.
CallsKeepModifiers ==
    task = "call" /\ result # Unasked =>
        /\ F!SyntaxNodesComplete(call, result) /\ F!ModifiersKept(call, way, result)
        /\ F!ArgumentsKept(call, way, result) /\ F!MethodIsCall(call, way, result) /\ F!OrderedSetsOnly(call, result)

\* transformBase: every name and operation of a chain is in the tree in the
\* order written, wherever the path of names ends, only the result of the
\* chain is located, and a chain is refused for four reasons only.
ChainsKeepItems ==
    task = "chain" => /\ C!TypeOK /\ C!NothingLost /\ C!SplitIrrelevant /\ C!OnlyTheResultLocated
                      /\ C!RefusedOnlyFor /\ C!SliceBoundsKept

\* ARRAY(query): the query aggregated is the one written, and its keys are
\* mirrored one for one, each by a reference to exactly what it means, but
\* for three kinds of key, which lose their link.
ArraysMirrorQueries ==
    task = "array" => A!TypeOK /\ A!ItemsKeepPlaces(asWritten) /\ A!OrdersMirrored(asWritten)

\* checkExpressionDepth refuses a statement exactly if some path weighs more
\* than the limit, although it stops early; the folds' own check then
\* refuses exactly as many NOTs in a row as the limit.
DepthLimitExact == task = "depth" => D!TypeOK /\ D!DepthExact /\ D!FoldsRefuseTheLimit

\* "integers become INTEGER/BIGINT/HUGEINT/UHUGEINT (then DOUBLE)"
\* (transform_single.go:317): an integer type's value is the number written.
IntegersAreExact == task = "number" => N!IntegersAreExact
=============================================================================
