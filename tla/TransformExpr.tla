---------------------------- MODULE TransformExpr ----------------------------
(***************************************************************************)
(* The expression transformers (parser/transform_expr.go): one operator    *)
(* per rule of expression.gram folds the transformed operands of a parse-  *)
(* tree node into AST nodes, or raises.                                    *)
(***************************************************************************)
EXTENDS AstNodes

LOCAL INSTANCE SequencesExt

CONSTANT Trees       \* the parse trees to transform

VARIABLES
    tree,            \* the parse tree
    ast              \* the result of transformExpression, Pending before

vars == <<tree, ast>>

\* The operands of the tail numbered i, of a node whose first operand comes
\* before the first tail.
Taken(n, kids, i) ==
    LET before == FoldLeft(LAMBDA a, t : a + t.n, 1, SubSeq(n.tails, 1, i - 1))
    IN  SubSeq(kids, before + 1, before + n.tails[i].n)

\* Fold the tails onto the first operand, left to right, until one raises.
FoldTails(n, kids, Step(_, _, _)) ==
    FoldLeftDomain(LAMBDA e, i : IF Raised(e) THEN e ELSE Step(e, i, Taken(n, kids, i)),
                   kids[1], n.tails)

Outermost(n, i) == i = Len(n.tails)

-----------------------------------------------------------------------------
(* Conjunctions, NOT, IS *)

\* appendConjunction: nested conjunctions of the same type are spliced.
Splice(type, e) == IF e.k = "Conjunction" /\ e.op = type THEN e.kids ELSE <<e>>

Conjunction(type, kids) ==
    IF Len(kids) = 1 THEN kids[1]
    ELSE Node("Conjunction", type, FlattenSeq([i \in 1..Len(kids) |-> Splice(type, kids[i])]), "whole")

\* Wrap e in count nodes, of which only the outermost is located.
Nested(count, e, Wrap(_, _)) ==
    FoldLeft(LAMBDA acc, i : Wrap(acc, IF i = count THEN "whole" ELSE "none"), e, [i \in 1..count |-> i])

ApplyNotKeywords(n, e) == Nested(Len(n.tails), e, NotExpr)

\* IS [NOT] TRUE is (CAST(e AS BOOLEAN)) IS [NOT] DISTINCT FROM true.
IsTest(e, t) ==
    CASE t.op \in {"NULL", "UNKNOWN"} ->
           OpExpr(IF t.neg THEN "IS_NOT_NULL" ELSE "IS_NULL", <<e>>, "clause")
      [] t.op \in {"TRUE", "FALSE"} ->
           Compare(IF t.neg THEN "DISTINCT" ELSE "NOT_DISTINCT",
                   CastTo(e, "BOOLEAN", "none"), Const(t.op), "clause")

DistinctType(t) == IF t.neg THEN "NOT_DISTINCT" ELSE "DISTINCT"

Chained == Raise("chained comparisons")

\* transformIsDistinctFrom
IsDistinctFrom(n, kids) ==
    FoldTails(n, kids, LAMBDA e, i, args : Compare(DistinctType(n.tails[i]), e, args[1], "upto"))

\* transformComparison: the operands have been transformed when it bans a chain.
Comparison(n, kids) ==
    IF Len(n.tails) > 1 THEN Chained
    ELSE IF n.tails = <<>> THEN kids[1]
    ELSE Compare(n.tails[1].op, kids[1], kids[2], "whole")

-----------------------------------------------------------------------------
(* Other operators, ANY and ALL *)
ComparisonOf(text) ==
    CASE text \in {"=", "=="} -> "=" [] text \in {"!=", "<>"} -> "<>"
      [] text \in {"<", ">", "<=", ">="} -> text [] OTHER -> ""

Negated(cmp) == CASE cmp = "=" -> "<>" [] cmp = "<>" -> "=" [] cmp = "<" -> ">="
                  [] cmp = ">" -> "<=" [] cmp = "<=" -> ">" [] cmp = ">=" -> "<"

IsScalarSubquery(e) == e.k = "Subquery" /\ e.op = "scalar"

\* anySubquery: a subquery is used directly, anything else as SELECT unnest(e).
AnySubquery(input, rhs, cmp, loc) ==
    Node("Subquery", cmp,
         <<input, IF IsScalarSubquery(rhs) THEN rhs.kids[1] ELSE Call("unnest", <<rhs>>, "none")>>, loc)

\* The CASE that x ~ ANY(list) and its variants become.
RegexAnyAll(input, list, op, all, loc) ==
    LET ref(name)   == Node("Column", name, <<>>, "none")
        lambda(p, b) == Node("Lambda", p, <<b>>, "none")
        match == Call("regexp_matches",
                      <<input, ref("__regex_pattern")>> \o (IF op \in {"~*", "!~*"} THEN <<Const("i")>> ELSE <<>>),
                      "none")
        body == IF op \in {"!~", "!~*"} THEN NotExpr(match, "none") ELSE match
        transformed == Call("list_transform", <<list, lambda("__regex_pattern", body)>>, "none")
        nulls == Call("list_filter",
                      <<transformed, lambda("__regex_match", OpExpr("IS_NULL", <<ref("__regex_match")>>, "none"))>>,
                      "none")
        bool(b) == Const(IF b THEN "TRUE" ELSE "FALSE")
    IN  Node("Case", "",
             <<Call("list_contains", <<transformed, bool(~all)>>, "none"), bool(~all),
               Compare(">", Call("len", <<nulls>>, "none"), Const("0"), "none"), Const("NULL"), bool(all)>>, loc)

\* transformAnyAll: x > ALL(...) becomes NOT(x <= ANY(...)).
AnyAll(input, t, rhs, loc) ==
    LET all == t.neg
        cmp == ComparisonOf(t.op)
    IN  IF cmp = "" /\ IsScalarSubquery(rhs) THEN Raise("ANY and ALL need a comparison")
        ELSE IF cmp = "" /\ t.op \in {"~", "~*", "!~", "!~*"} THEN RegexAnyAll(input, rhs, t.op, all, loc)
        ELSE IF cmp = "" THEN Raise("unsupported comparison")
        ELSE IF all THEN NotExpr(AnySubquery(input, rhs, Negated(cmp), "none"), loc)
        ELSE AnySubquery(input, rhs, cmp, loc)

\* transformNamedOperator: OPERATOR(schema.op) is a call even of a comparison;
\* neg is that it has more than one qualifier.
NamedOperator(input, t, rhs, loc) ==
    IF t.kind = "qualified"
    THEN IF t.neg THEN Raise("too many identifiers") ELSE Call(t.op, <<input, rhs>>, loc)
    ELSE IF ComparisonOf(t.op) # "" THEN Compare(ComparisonOf(t.op), input, rhs, loc)
    ELSE Call(t.op, <<input, rhs>>, loc)

\* otherOperatorTail's fold; ANY and ALL are located wherever the whole is known.
OtherOperatorTail(e, t, rhs, known, outermost) ==
    IF t.kind = "anyall"
    THEN AnyAll(e, t, rhs, IF known THEN "upto" ELSE "none")
    ELSE NamedOperator(e, t, rhs, IF known /\ outermost THEN "whole" ELSE "none")

InfixOtherOperator(n, kids) ==
    FoldTails(n, kids, LAMBDA e, i, args : OtherOperatorTail(e, n.tails[i], args[1], TRUE, Outermost(n, i)))

-----------------------------------------------------------------------------
(* IS with its tails *)

\* Mutant: the tails after an IS test are not compared.
TailRaisesNever(tails, i) == FALSE

\* Two DISTINCT tails or two comparison tails in a row are a chain.
TailRaises(tails, i) ==
    i > 1 /\ tails[i].kind = tails[i - 1].kind /\ tails[i].kind \in {"distinct", "compare"}

\* transformIs; a tail is a test, distinct, compare, named, qualified, anyall or cast.
Is(n, kids) ==
    LET step(e, i, args) ==
            LET t == n.tails[i]
            IN  IF TailRaises(n.tails, i) THEN Chained
                ELSE CASE t.kind = "test"     -> IsTest(e, t)
                       [] t.kind = "distinct" -> Compare(DistinctType(t), e, args[1], "none")
                       [] t.kind = "compare"  -> Compare(t.op, e, args[1], "none")
                       [] t.kind = "cast"     -> CastTo(e, t.op, "clause")
                       [] OTHER -> OtherOperatorTail(e, t, args[1], FALSE, FALSE)
    IN  LocatedIfNot(FoldTails(n, kids, step), "whole")

-----------------------------------------------------------------------------
(* BETWEEN, IN, LIKE *)

\* transformInClause: a single scalar subquery in the list is the subquery
\* form, and x IN y is contains(y, x).
InClause(input, t, args) ==
    CASE t.op = "list" ->
           IF Len(args) = 1 /\ IsScalarSubquery(args[1])
           THEN Node("Subquery", "=", <<input, args[1].kids[1]>>, "clause")
           ELSE OpExpr("IN", <<input>> \o args, "clause")
      [] t.op = "select"   -> Node("Subquery", "=", <<input, args[1].kids[1]>>, "clause")
      [] t.op = "contains" -> Call("contains", <<args[1], input>>, "clause")

Variation == [
    LIKE   |-> "~~",              ILIKE   |-> "~~*",
    GLOB   |-> "~~~",             SIMILAR |-> "regexp_full_match",
    REGEX  |-> "regexp_matches",  IREGEX  |-> "regexp_matches",
    NLIKE  |-> "!~~",             NILIKE  |-> "!~~*",
    NREGEX |-> "regexp_matches",  NIREGEX |-> "regexp_matches"]

CaseInsensitive(v) == v \in {"IREGEX", "NIREGEX"}
NegatedRegex(v)    == v \in {"NREGEX", "NIREGEX"}
AlreadyNegated(v)  == v \in {"NLIKE", "NILIKE", "NREGEX", "NIREGEX"}

\* Mutant: with an ESCAPE, the negation is taken to be in the name.
EscapeForgetsNot(v, negated, escaped) == ~escaped /\ NegatedRegex(v) # negated

\* Whether the call is wrapped in NOT: a negated LIKE or ILIKE changes its name instead.
WrapNot(v, negated, escaped) ==
    NegatedRegex(v) # negated /\ ~(negated /\ ~escaped /\ v \in {"LIKE", "ILIKE"})

LikeName(v, negated, escaped) ==
    IF escaped /\ v \in {"LIKE", "ILIKE"} THEN (IF v = "LIKE" THEN "like_escape" ELSE "ilike_escape")
    ELSE IF negated /\ v \in {"LIKE", "ILIKE"} THEN (IF v = "LIKE" THEN "!~~" ELSE "!~~*")
    ELSE Variation[v]

\* transformLikeClause, and the check transformBetweenInLike makes after it.
LikeClause(input, t, args) ==
    LET escaped == Len(args) = 2
        call == Call(LikeName(t.op, t.neg, escaped),
                     <<input>> \o args \o (IF CaseInsensitive(t.op) THEN <<Const("i")>> ELSE <<>>), "clause")
    IN  IF escaped /\ CaseInsensitive(t.op) THEN Raise("ESCAPE with a case-insensitive match")
        ELSE IF t.neg /\ AlreadyNegated(t.op) THEN Raise("NOT before a negated operator")
        ELSE IF WrapNot(t.op, t.neg, escaped) THEN NotExpr(call, "none") ELSE call

\* transformBetweenInLike: IN predicates with their casts, then BETWEEN or LIKE.
BetweenInLike(n, kids) ==
    LET negate(t, e) == IF t.neg THEN NotExpr(e, "none") ELSE e
        step(e, i, args) ==
            LET t == n.tails[i]
            IN  CASE t.kind = "in"      -> negate(t, InClause(e, t, args))
                  [] t.kind = "cast"    -> CastTo(e, t.op, "clause")
                  [] t.kind = "between" -> negate(t, Node("Between", "", <<e>> \o args, "clause"))
                  [] t.kind = "like"    -> LikeClause(e, t, args)
    IN  LocatedIfNot(FoldTails(n, kids, step), "whole")

-----------------------------------------------------------------------------
(* The arithmetic ladder, COLLATE, AT TIME ZONE and the prefix operators *)

\* binaryLadder: additive operators are located on the operator token.
BinaryLadder(n, kids) ==
    FoldTails(n, kids, LAMBDA e, i, args :
        Call(n.tails[i].op, <<e, args[1]>>,
             IF n.rule = "additive" THEN "clause" ELSE IF Outermost(n, i) THEN "whole" ELSE "none"))

Tilde(n, e) == Nested(Len(n.tails), e, LAMBDA x, loc : Call("~", <<x>>, loc))

\* collationName: a column's or constant's spelling, else the source text.
Collate(n, kids) ==
    FoldTails(n, kids, LAMBDA e, i, args :
        Node("Collate", IF args[1].k \in {"Column", "Constant"} THEN args[1].op ELSE "source text", <<e>>, "upto"))

AtTimeZone(n, kids) ==
    FoldTails(n, kids, LAMBDA e, i, args : Call("timezone", <<args[1], e>>, "upto"))

\* Literal.Negate toggles the leading sign of a number's text.
NegateText(text) == CASE text = "1" -> "-1" [] text = "-1" -> "1" [] text = "2" -> "-2" [] text = "-2" -> "2"
IsNumber(e) == e.k = "Constant" /\ e.op \in {"1", "-1", "2", "-2"}

\* transformPrefix, from the innermost operator outwards: a minus before a
\* number is folded into its text.
Prefix(n, e) ==
    LET ops == Reverse(n.tails)
        wrap(x, i) ==
            LET loc == IF i = Len(ops) THEN "whole" ELSE "none"
            IN  IF ops[i].op = "-" /\ IsNumber(x) THEN Node("Constant", NegateText(x.op), <<>>, loc)
                ELSE Call(ops[i].op, <<x>>, loc)
    IN  FoldLeftDomain(wrap, e, ops)

\* transformLambdaArrow: x -> y -> z is LAMBDA(LAMBDA(x, y), z).
LambdaArrow(n, kids) ==
    FoldTails(n, kids, LAMBDA e, i, args :
        Node("Arrow", "", <<e, args[1]>>, IF Outermost(n, i) THEN "whole" ELSE "none"))

-----------------------------------------------------------------------------
(* transformExpression: a rule's operands are transformed from left to     *)
(* right, and what one of them raises ends it, before the rule folds them. *)
Fold(n, kids) ==
    CASE n.rule = "arrow"      -> LambdaArrow(n, kids)
      [] n.rule = "or"         -> Conjunction("OR", kids)
      [] n.rule = "and"        -> Conjunction("AND", kids)
      [] n.rule = "not"        -> ApplyNotKeywords(n, kids[1])
      [] n.rule = "is"         -> Is(n, kids)
      [] n.rule = "distinct"   -> IsDistinctFrom(n, kids)
      [] n.rule = "compare"    -> Comparison(n, kids)
      [] n.rule = "inlike"     -> BetweenInLike(n, kids)
      [] n.rule = "infix"      -> InfixOtherOperator(n, kids)
      [] n.rule = "custom"     -> Call(n.tails[1].op, kids, "whole")
      [] n.rule \in {"bitwise", "additive", "multiplicative"} -> BinaryLadder(n, kids)
      [] n.rule = "tilde"      -> Tilde(n, kids[1])
      [] n.rule = "collate"    -> Collate(n, kids)
      [] n.rule = "attimezone" -> AtTimeZone(n, kids)
      [] n.rule = "prefix"     -> Prefix(n, kids[1])
      [] n.rule = "leaf"       -> n.tails[1]
      [] OTHER                 -> SpecialForm(n, kids)

RECURSIVE TransformExpression(_)
TransformExpression(n) ==
    LET kids == [i \in 1..Len(n.kids) |-> TransformExpression(n.kids[i])]
        bad  == SelectSeq(kids, Raised)
    IN  IF bad # <<>> THEN bad[1] ELSE Fold(n, kids)

Init == tree \in Trees /\ ast = Pending

Transform == /\ ast = Pending
             /\ ast' = TransformExpression(tree)
             /\ UNCHANGED tree

Next == Transform
Spec == Init /\ [][Next]_vars
=============================================================================
