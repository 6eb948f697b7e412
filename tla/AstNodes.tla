------------------------------ MODULE AstNodes ------------------------------
(***************************************************************************)
(* Parse-tree nodes and AST nodes of expressions, the small builders of    *)
(* parser/transform_expr.go, and the forms that desugar into calls.        *)
(*                                                                         *)
(* A parse-tree node is [rule, tails, kids]: kids are its operands in      *)
(* source order, and tails what stands between them, each with the number  *)
(* n of operands it takes.  An AST node is [k, op, kids, loc]; loc says    *)
(* where the node's span comes from: the rule's whole extent, the extent   *)
(* up to a tail, a clause or operator token of its own, or nowhere.        *)
(***************************************************************************)
EXTENDS Integers, Sequences, FiniteSets

Tree(rule, tails, kids) == [rule |-> rule, tails |-> tails, kids |-> kids]
Turn(kind, op, neg, n)  == [kind |-> kind, op |-> op, neg |-> neg, n |-> n]

Node(k, op, kids, loc) == [k |-> k, op |-> op, kids |-> kids, loc |-> loc]
Raise(why)  == Node("raised", why, <<>>, "none")
Raised(e)   == e.k = "raised"
Pending     == Node("pending", "", <<>>, "none")

-----------------------------------------------------------------------------
(* Small builders. *)
NotExpr(e, loc)            == Node("Operator", "NOT", <<e>>, loc)
OpExpr(op, kids, loc)      == Node("Operator", op, kids, loc)

Compare(op, l, r, loc)     == Node("Comparison", op, <<l, r>>, loc)
Call(name, args, loc)      == Node("Function", name, args, loc)
CastTo(e, type, loc)       == Node("Cast", type, <<e>>, loc)
Const(literal)             == Node("Constant", literal, <<>>, "none")
Located(e, loc)            == [e EXCEPT !.loc = loc]

\* setSpan, where a rule's own location lands on a result that has none.
LocatedIfNot(e, loc)       == IF ~Raised(e) /\ e.loc = "none" THEN Located(e, loc) ELSE e

-----------------------------------------------------------------------------
(* Operands, leaves of the parse tree that stand for what they become: a   *)
(* column whose value is a list, a scalar subquery over its rows, and one  *)
(* that raises.                                                            *)
Leaf(e)    == Tree("leaf", <<e>>, <<>>)
Column(n)  == Node("Column", n, <<>>, "whole")
Rows       == Leaf(Node("Rows", "", <<>>, "whole"))
ListLeaf   == Leaf(Column("l"))
QueryLeaf  == Leaf(Node("Subquery", "scalar", <<Node("Rows", "", <<>>, "whole")>>, "whole"))
RaisedLeaf == Leaf(Raise("an operand's error"))

-----------------------------------------------------------------------------
(* Special forms (parser/transform_single.go, transform_func.go): kids are *)
(* a form's operands in the order the code transforms them; t is what the  *)
(* form says besides.                                                      *)
Ref(name)       == Node("Column", name, <<>>, "none")
Lambda(p, body) == Node("Lambda", p, <<body>>, "none")
Inner(name, args) == Call(name, args, "none")

\* The operands numbered a, a + 2, ...
Every2nd(kids, a) == [i \in 1..((Len(kids) - a) \div 2 + 1) |-> kids[a + 2 * (i - 1)]]

\* transformCase: CASE x WHEN v compares x with each v; without ELSE it is
\* NULL.  t.op is "operand" or "", t.neg that there is an ELSE.
CaseForm(t, kids) ==
    LET from  == IF t.op = "operand" THEN 2 ELSE 1
        arms  == SubSeq(kids, from, IF t.neg THEN Len(kids) - 1 ELSE Len(kids))
        check(e, i) == IF i % 2 = 1 /\ t.op = "operand" THEN Compare("=", kids[1], e, "none") ELSE e
    IN  Node("Case", "", [i \in 1..Len(arms) |-> check(arms[i], i)]
                         \o <<IF t.neg THEN kids[Len(kids)] ELSE Const("NULL")>>, "whole")

\* transformSubqueryExpr: [NOT] [EXISTS] (query).
SubqueryForm(t, kids) ==
    LET sub == Node("Subquery", t.op, kids, "whole") IN IF t.neg THEN NotExpr(sub, "whole") ELSE sub

\* transformSubstring: substring(s FOR n) is substring(s, 1, n).
SubstringForm(t, kids) ==
    Call("substring", IF t.op = "for" THEN <<kids[1], Const("1"), kids[2]>> ELSE kids, "whole")

\* transformTrim: the characters are written first and passed last.
TrimForm(t, kids) ==
    Call(CASE t.op = "leading" -> "ltrim" [] t.op = "trailing" -> "rtrim" [] OTHER -> "trim",
         IF t.neg THEN Append(SubSeq(kids, 2, Len(kids)), kids[1]) ELSE kids, "whole")

\* transformMap
MapForm(kids) ==
    Call("map", <<Inner("list_value", IF kids = <<>> THEN <<>> ELSE Every2nd(kids, 1)),
                  Inner("list_value", IF kids = <<>> THEN <<>> ELSE Every2nd(kids, 2))>>, "whole")

\* extractLambda
ExtractLambda(field) == Lambda("elem", Inner("struct_extract", <<Ref("elem"), Const(field)>>))

\* transformListComprehension: [e FOR v IN src IF c]; kids are e, src and c,
\* and t.op is v.
ComprehensionForm(t, kids) ==
    IF Len(kids) = 2
    THEN Call("list_apply", <<kids[2], Lambda(t.op, kids[1])>>, "whole")
    ELSE LET pack   == Lambda(t.op, Inner("struct_pack", <<kids[3], kids[1]>>))
             mapped == Inner("list_apply", <<kids[2], pack>>)
         IN  Call("list_apply", <<Inner("list_filter", <<mapped, ExtractLambda("filter")>>), ExtractLambda("result")>>,
                  "whole")

\* transformIntervalLiteral: to_<unit>; only seconds and milliseconds keep a
\* fraction, the other units are truncated to an integer type.
FineUnits == {"hours", "minutes", "microseconds"}
IntervalForm(t, kids) ==
    LET double == CastTo(kids[1], "DOUBLE", "none")
        int    == IF t.op \in FineUnits THEN "BIGINT" ELSE "INTEGER"
    IN  CASE t.kind = "range" -> Raise("interval range")
          [] t.op = ""        -> CastTo(kids[1], "INTERVAL", "whole")
          [] t.op \in {"seconds", "milliseconds"} -> Call("to_unit", <<double>>, "whole")
          [] OTHER -> Call("to_unit", <<CastTo(Inner("trunc", <<double>>), int, "none")>>, "whole")

\* transformColumnsExpr: COLUMNS(*) collapses to a star of its own, keeping
\* the modifiers of a star in it; COLUMNS(lambda) filters a star.
ColumnsForm(t, kids) ==
    LET e == kids[1]
        star == CASE e.k = "Star"   -> Node("Columns", e.op, <<>>, e.loc)
                  [] e.k = "Lambda" -> Node("Columns", "", <<Inner("list_filter", <<Node("Star", "", <<>>, "none"), e>>)>>, "whole")
                  [] OTHER          -> Node("Columns", "", <<e>>, "whole")
    IN  IF t.neg THEN OpExpr("UNPACK", <<IF star.kids # <<>> THEN Located(star, "none") ELSE star>>, "whole")
        ELSE star

\* transformSpecialFunction, transformSingle and the constructors.
SpecialForm(n, kids) ==
    LET t == n.tails[1]
    IN  CASE n.rule = "case"     -> CaseForm(t, kids)
          [] n.rule = "subquery" -> SubqueryForm(t, kids)
          [] n.rule = "coalesce" -> OpExpr("COALESCE", kids, "whole")
          [] n.rule = "extract"  -> Call("date_part", <<Const(t.op), kids[1]>>, "whole")
          [] n.rule = "nullif"   -> Call("nullif", kids, "whole")
          [] n.rule = "position" -> Call("position", <<kids[2], kids[1]>>, "whole")
          [] n.rule = "substring" -> SubstringForm(t, kids)
          [] n.rule = "trim"     -> TrimForm(t, kids)
          [] n.rule = "overlay"  -> Call("overlay", kids, "whole")
          [] n.rule = "lambda"   -> Located(Lambda(t.op, kids[1]), "whole")
          [] n.rule = "columns"  -> ColumnsForm(t, kids)
          [] n.rule = "list"     -> IF t.neg THEN OpExpr("ARRAY", kids, "whole") ELSE Call("list_value", kids, "whole")
          [] n.rule = "struct"   -> Call("struct_pack", kids, "whole")
          [] n.rule = "row"      -> Call("row", kids, "whole")
          [] n.rule = "map"      -> MapForm(kids)
          [] n.rule = "comprehension" -> ComprehensionForm(t, kids)
          [] n.rule = "interval" -> IntervalForm(t, kids)
          [] n.rule = "number"   -> Node("Constant", t.op, <<>>, "whole")
          [] n.rule = "national" -> CastTo(Const(t.op), "VARCHAR", "whole")
          [] n.rule = "positional" -> IF t.neg THEN Raise("positional reference") ELSE Node("Position", t.op, <<>>, "whole")
=============================================================================
