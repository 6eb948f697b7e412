----------------------------- MODULE ExprMeaning -----------------------------
(***************************************************************************)
(* What expressions mean, for the properties of their transformers: what   *)
(* SQL says of a parse tree (Means) and what its AST means (Eval), in      *)
(* every environment of three-valued logic.  A value is <<>> for NULL or   *)
(* <<i>> for an integer, 0 being false.                                    *)
(***************************************************************************)
EXTENDS TransformExpr, TLC

LOCAL INSTANCE SequencesExt

-----------------------------------------------------------------------------
(* Values. *)
Values == {<<>>, <<0>>, <<1>>}
Lists  == {<<>>, <<<<1>>>>, <<<<0>>, <<>>>>, <<<<1>>, <<>>>>, <<<<0>>, <<1>>>>}
Envs   == [x : Values, y : Values, elem : Values \ {<<>>}, l : Lists]

Null     == <<>>
Comparisons == {"=", "<>", "<", ">", "<=", ">="}
Bool(b)  == <<IF b THEN 1 ELSE 0>>
IsTrue(v) == v # Null /\ v[1] # 0
IsFalse(v) == v = <<0>>
Not3(v)  == IF v = Null THEN Null ELSE Bool(~IsTrue(v))
And3(vs) == IF \E v \in vs : IsFalse(v) THEN Bool(FALSE) ELSE IF Null \in vs THEN Null ELSE Bool(TRUE)
Or3(vs)  == Not3(And3({Not3(v) : v \in vs}))
Strict(p, vs) == IF \E i \in 1..Len(vs) : vs[i] = Null THEN Null ELSE p

\* Comparisons are strict except IS [NOT] DISTINCT FROM.
Less(a, b) == a[1] < b[1]
Cmp(op, a, b) ==
    CASE op = "DISTINCT" -> Bool(a # b)
      [] op = "NOT_DISTINCT" -> Bool(a = b)
      [] OTHER -> Strict(CASE op = "="  -> Bool(a = b)       [] op = "<>" -> Bool(a # b)
                           [] op = "<"  -> Bool(Less(a, b))  [] op = ">"  -> Bool(Less(b, a))
                           [] op = "<=" -> Bool(~Less(b, a)) [] op = ">=" -> Bool(~Less(a, b)), <<a, b>>)

\* What the functions of the catalog compute; a name with an argument more is another function.
Match(what, a) ==
    CASE what = "~~"  -> Less(a[1], a[2])        [] what = "~~*" -> ~Less(a[2], a[1])
      [] what = "~~~" -> Less(a[2], a[1])        [] what = "regexp_full_match" -> a[1] = a[2]
      [] what = "regexp_matches" /\ Len(a) = 2 -> a[1][1] = 0 /\ a[2][1] # 0
      [] what = "regexp_matches" /\ Len(a) = 3 -> a[1][1] # 0
      [] what = "like_escape" -> Less(a[1], a[3]) [] what = "ilike_escape" -> Less(a[2], a[3])
Function(name, a) ==
    Strict(CASE name = "+" -> <<IF Len(a) = 1 THEN a[1][1] ELSE a[1][1] + a[2][1]>>
             [] name = "-" -> <<IF Len(a) = 1 THEN -a[1][1] ELSE a[1][1] - a[2][1]>>
             [] name = "~" -> <<-a[1][1] - 1>>
             [] name = "<" -> Bool(Less(a[1], a[2]))
             [] name = "timezone" -> <<2 * a[2][1] + 3 * a[1][1]>>
             [] name = "!~~" /\ Len(a) = 2  -> Bool(~Match("~~", a))
             [] name = "!~~*" /\ Len(a) = 2 -> Bool(~Match("~~*", a))
             [] name \in {"!~~", "!~~*", "~~~", "regexp_full_match"} /\ Len(a) = 3 -> Bool(Less(a[3], a[2]))
             [] OTHER -> Bool(Match(name, a)), a)

\* Functions of which only the arguments and their order matter.
Opaque == {"date_part", "nullif", "position", "substring", "trim", "ltrim", "rtrim", "overlay", "row", "map"}
FirstKnown(vs) == IF \A i \in 1..Len(vs) : vs[i] = Null THEN Null ELSE vs[CHOOSE i \in 1..Len(vs) :
                     vs[i] # Null /\ \A j \in 1..(i - 1) : vs[j] = Null]
\* The value of a CASE's arms: conditions at the odd places, the ELSE last.
FirstTrue(vs) == LET hits == {i \in 1..(Len(vs) - 1) : i % 2 = 1 /\ IsTrue(vs[i])}
                 IN  IF hits = {} THEN vs[Len(vs)] ELSE vs[(CHOOSE i \in hits : \A j \in hits : i <= j) + 1]
ColumnsOf(mods) == IF mods = "exclude" THEN {"x"} ELSE {"x", "y"}

\* The constants' values; "i" is a regex option.
ConstValue(text) == CASE text \in {"1", "TRUE"} -> <<1>> [] text = "-1" -> <<-1>> [] text = "2" -> <<2>>
                      [] text = "-2" -> <<-2>> [] text \in {"0", "FALSE"} -> <<0>> [] text = "i" -> <<1>>
                      [] text = "NULL" -> Null

\* What an AST means; EvalList is for the nodes that are lists or rows.
RECURSIVE Eval(_,_), EvalList(_,_)
Eval(e, env) ==
    LET v(i) == Eval(e.kids[i], env)
        vs   == [i \in 1..Len(e.kids) |-> v(i)]
    IN  CASE e.k = "Column"      -> env[e.op]
          [] e.k = "Constant"    -> ConstValue(e.op)
          [] e.k = "Conjunction" -> IF e.op = "AND" THEN And3({vs[i] : i \in DOMAIN vs}) ELSE Or3({vs[i] : i \in DOMAIN vs})
          [] e.k = "Comparison"  -> Cmp(e.op, v(1), v(2))
          [] e.k = "Between"     -> And3({Cmp("<=", v(2), v(1)), Cmp("<=", v(1), v(3))})
          [] e.k = "Cast"        -> IF e.op = "BOOLEAN" THEN Strict(Bool(IsTrue(v(1))), <<v(1)>>) ELSE v(1)
          [] e.k = "Collate"     -> v(1)
          [] e.k = "Arrow"       -> <<>>
          [] e.k = "Case"        -> FirstTrue(vs)
          [] e.k = "Position"    -> <<e.op>>
          [] e.k = "Star"        -> <<ColumnsOf(e.op)>>
          [] e.k = "Columns"     ->
               IF e.kids = <<>> THEN <<ColumnsOf(e.op)>>
               ELSE IF e.kids[1].op = "list_filter"
               THEN <<{c \in ColumnsOf(e.kids[1].kids[1].op) : IsTrue(Eval(e.kids[1].kids[2].kids[1], env))}>>
               ELSE <<"regex", v(1)>>
          [] e.k = "Subquery" /\ e.op = "exists" -> Bool(env.l # <<>>)
          [] e.k = "Subquery" /\ e.op = "scalar" -> IF env.l = <<>> THEN Null ELSE env.l[1]
          [] e.k = "Subquery" /\ e.op \notin {"scalar", "exists"} ->
               LET input == v(1) IN Or3({Cmp(e.op, input, r) : r \in ToSet(EvalList(e.kids[2], env))})
          [] e.k = "Operator" ->
               (CASE e.op = "NOT" -> Not3(v(1)) [] e.op = "IS_NULL" -> Bool(v(1) = Null)
                  [] e.op = "IS_NOT_NULL" -> Bool(v(1) # Null)
                  [] e.op = "COALESCE" -> FirstKnown(vs)
                  [] e.op = "UNPACK" -> <<"unpack", v(1)>>
                  [] e.op = "ARRAY" -> <<vs>>
                  [] e.op = "IN" -> Or3({Cmp("=", vs[1], vs[i]) : i \in 2..Len(vs)}))
          [] e.k = "Function" ->
               CASE e.op \in {"contains", "list_contains"} ->
                      LET probe == v(2) IN Strict(Bool(\E r \in ToSet(EvalList(e.kids[1], env)) : r = probe), <<probe>>)
                 [] e.op = "list_apply" -> <<EvalList(e, env)>>
                 [] e.op \in {"list_value", "struct_pack"} -> <<vs>>
                 [] e.op = "struct_extract" -> v(1)[1][IF e.kids[2].op = "filter" THEN 1 ELSE 2]
                 [] e.op \in Opaque -> <<e.op, vs>>
                 [] e.op \in {"to_unit", "trunc"} -> v(1)
                 [] e.op = "len" -> <<Len(EvalList(e.kids[1], env))>>
                 [] OTHER -> Function(e.op, vs)
EvalList(e, env) ==
    LET body(r) == Eval(e.kids[2].kids[1], (e.kids[2].op :> r) @@ env)
        rows == EvalList(e.kids[1], env)
    IN  CASE e.k \in {"Rows", "Column"} -> env.l
          [] e.k = "Subquery" -> env.l
          [] e.op = "unnest" -> rows
          [] e.op \in {"list_transform", "list_apply"} -> [i \in 1..Len(rows) |-> body(rows[i])]
          [] e.op = "list_filter" -> SelectSeq(rows, LAMBDA r : IsTrue(body(r)))

-----------------------------------------------------------------------------
(* What a parse tree means, from SQL's rules. *)
LikeMeans(t, a) ==
    LET positive == CASE t.op \in {"LIKE", "NLIKE"} -> IF Len(a) = 2 THEN "~~" ELSE "like_escape"
                      [] t.op \in {"ILIKE", "NILIKE"} -> IF Len(a) = 2 THEN "~~*" ELSE "ilike_escape"
                      [] t.op = "GLOB" -> "~~~" [] t.op = "SIMILAR" -> "regexp_full_match"
                      [] OTHER -> "regexp_matches"
        args  == IF t.op \in {"IREGEX", "NIREGEX"} THEN Append(a, <<1>>) ELSE a
        plain == IF t.op \in {"NLIKE", "NILIKE"} /\ Len(a) = 3 THEN Not3(Function("!~~", a)) ELSE Function(positive, args)
    IN  IF t.neg # (t.op \in {"NLIKE", "NILIKE", "NREGEX", "NIREGEX"}) THEN Not3(plain) ELSE plain

QuantMeans(t, input, rows) ==
    LET one(r) == CASE t.op \in {"~", "!~"}   -> Function("regexp_matches", <<input, r>>)
                    [] t.op \in {"~*", "!~*"} -> Function("regexp_matches", <<input, r, <<1>>>>)
                    [] OTHER -> Cmp(IF t.op = "==" THEN "=" ELSE t.op, input, r)
        holds(r) == IF t.op \in {"!~", "!~*"} THEN Not3(one(r)) ELSE one(r)
        each == {holds(r) : r \in ToSet(rows)}
    IN  IF t.neg THEN And3(each) ELSE Or3(each)

\* One tail, applied to the value v before it; vs are its operands' values.
TailMeans(n, t, v, vs, env) ==
    LET isIt == CASE t.op \in {"NULL", "UNKNOWN"} -> v = Null
                  [] t.op = "TRUE" -> IsTrue(v) [] t.op = "FALSE" -> v # Null /\ ~IsTrue(v)
                  [] OTHER -> FALSE
        in   == IF t.op = "list" /\ Len(vs) > 1 THEN Or3({Cmp("=", v, vs[i]) : i \in 1..Len(vs)})
                ELSE Or3({Cmp("=", v, r) : r \in ToSet(env.l)})
        has  == Strict(Bool(v \in ToSet(env.l)), <<v>>)
        neg(b) == IF t.neg THEN Not3(b) ELSE b
    IN  CASE t.kind = "test" -> Bool(t.neg # isIt)
          [] t.kind = "distinct" -> Bool(t.neg = (v = vs[1]))
          [] t.kind = "cast" -> Strict(Bool(IsTrue(v)), <<v>>)
          [] t.kind = "anyall" -> QuantMeans(t, v, env.l)
          [] t.kind = "compare" \/ n.rule = "compare" -> Cmp(t.op, v, vs[1])
          [] t.kind \in {"named", "qualified"} ->
               IF t.op \in Comparisons THEN Cmp(t.op, v, vs[1]) ELSE Function(t.op, <<v, vs[1]>>)
          [] t.kind = "in" -> neg(IF t.op = "contains" THEN has ELSE in)
          [] t.kind = "between" -> neg(And3({Cmp(">=", v, vs[1]), Cmp("<=", v, vs[2])}))
          [] t.kind = "like" -> LikeMeans(t, <<v>> \o vs)
          [] n.rule = "collate" -> v
          [] n.rule = "attimezone" -> Strict(<<2 * v[1] + 3 * vs[1][1]>>, <<v, vs[1]>>)
          [] OTHER -> Function(t.op, <<v, vs[1]>>)

\* A scalar subquery as the only element of an IN list is the subquery form; any other lone element a list of one.
LoneElement(n, i) == n.rule = "inlike" /\ n.tails[i].op = "list" /\ n.tails[i].n = 1

SpecialRules == {"case", "subquery", "coalesce", "extract", "nullif", "position", "substring", "trim", "overlay",
                 "lambda", "columns", "list", "struct", "row", "map", "interval", "number", "national", "positional"}

\* What the special forms mean; vs are the values of their operands.
FormMeans(n, vs, env) ==
    LET t     == n.tails[1]
        first == IF t.op = "operand" THEN 2 ELSE 1
        last  == IF t.neg THEN Len(vs) - 1 ELSE Len(vs)
        chosen == {i \in first..last : (i - first) % 2 = 0 /\
                     IF t.op = "operand" THEN IsTrue(Cmp("=", vs[1], vs[i])) ELSE IsTrue(vs[i])}
        columns == IF n.kids[1].rule # "leaf" \/ n.kids[1].tails[1].k # "Star" THEN <<"regex", vs[1]>>
                   ELSE <<ColumnsOf(n.kids[1].tails[1].op)>>
        filtered == <<{c \in {"x", "y"} : IsTrue(vs[1])}>>
        unpacked(cols) == IF t.neg THEN <<"unpack", cols>> ELSE cols
        sub == IF t.op = "exists" THEN Bool(env.l # <<>>) ELSE IF env.l = <<>> THEN Null ELSE env.l[1]
    IN  CASE n.rule = "case" -> IF chosen # {} THEN vs[(CHOOSE i \in chosen : \A j \in chosen : i <= j) + 1]
                                ELSE IF t.neg THEN vs[Len(vs)] ELSE Null
          [] n.rule = "subquery" -> IF t.neg THEN Not3(sub) ELSE sub
          [] n.rule = "coalesce" -> FirstKnown(vs)
          [] n.rule = "extract" -> <<"date_part", <<<<1>>, vs[1]>>>>
          \* POSITION(needle IN haystack) is position(haystack, needle)
          [] n.rule = "position" -> <<"position", <<vs[2], vs[1]>>>>
          [] n.rule = "substring" -> <<"substring", IF t.op = "for" THEN <<vs[1], <<1>>, vs[2]>> ELSE vs>>
          \* TRIM(chars FROM source) is trim(source, chars)
          [] n.rule = "trim" -> <<CASE t.op = "leading" -> "ltrim" [] t.op = "trailing" -> "rtrim" [] OTHER -> "trim",
                                  IF t.neg THEN <<vs[2], vs[1]>> ELSE vs>>
          [] n.rule \in {"list", "struct"} -> <<vs>>
          [] n.rule = "map" -> LET half(a) == [i \in 1..(Len(vs) \div 2) |-> vs[2 * i - 2 + a]]
                               IN  <<"map", <<<<half(1)>>, <<half(2)>>>>>>
          [] n.rule = "interval" -> vs[1]
          [] n.rule = "columns" -> unpacked(IF n.kids[1].rule = "lambda" THEN filtered ELSE columns)
          [] n.rule \in {"number", "national"} -> ConstValue(t.op)
          [] n.rule = "positional" -> <<t.op>>
          [] n.rule = "lambda" -> vs[1]
          [] OTHER -> <<n.rule, vs>>

RECURSIVE Means(_,_)
Means(n, env) ==
    LET vs == [i \in 1..Len(n.kids) |-> IF n.kids[i] = ListLeaf \/ n.rule \in {"comprehension", "subquery"} THEN Null ELSE Means(n.kids[i], env)]
        apply(v, i) ==
            LET args == Taken(n, vs, i)
                t    == n.tails[i]
            IN  IF LoneElement(n, i) /\ Taken(n, n.kids, i) # <<QueryLeaf>>
                THEN (LET in == Cmp("=", v, args[1]) IN IF t.neg THEN Not3(in) ELSE in)
                ELSE TailMeans(n, t, v, args, env)
        with(v) == (n.tails[1].op :> v) @@ env
        kept    == IF Len(n.kids) = 2 THEN env.l
                   ELSE SelectSeq(env.l, LAMBDA v : IsTrue(Means(n.kids[3], with(v))))
    IN  CASE n.rule = "leaf" -> Eval(n.tails[1], env)
          [] n.rule = "comprehension" -> <<[i \in 1..Len(kept) |-> Means(n.kids[1], with(kept[i]))]>>
          [] n.rule \in SpecialRules -> FormMeans(n, vs, env)
          [] n.rule = "or"  -> Or3(ToSet(vs))
          [] n.rule = "and" -> And3(ToSet(vs))
          [] n.rule = "not" -> IF Len(n.tails) % 2 = 1 THEN Not3(vs[1]) ELSE Not3(Not3(vs[1]))
          [] n.rule = "tilde" -> IF Len(n.tails) = 1 THEN Function("~", vs) ELSE vs[1]
          [] n.rule = "custom" -> Function(n.tails[1].op, vs)
          [] n.rule = "prefix" ->
               LET minuses == Cardinality({i \in 1..Len(n.tails) : n.tails[i].op = "-"})
               IN  IF minuses % 2 = 1 THEN Function("-", vs) ELSE vs[1]
          [] n.rule = "arrow" -> Null
          [] OTHER -> FoldLeftDomain(apply, vs[1], n.tails)

-----------------------------------------------------------------------------
(* Properties. *)
Done == ast # Pending
RECURSIVE Subtrees(_)
Subtrees(n) == {n} \cup UNION {Subtrees(n.kids[i]) : i \in 1..Len(n.kids)}
RECURSIVE Nodes(_)
Nodes(e) == {e} \cup UNION {Nodes(e.kids[i]) : i \in 1..Len(e.kids)}

Kinds == {"pending", "raised", "Column", "Constant", "Conjunction", "Comparison", "Operator", "Function",
          "Subquery", "Rows", "Between", "Cast", "Case", "Lambda", "Collate", "Arrow",
          "Star", "Columns", "Position"}
\* The type invariant.
TypeOK ==
    \A e \in Nodes(ast) : /\ e.k \in Kinds /\ e.loc \in {"none", "whole", "upto", "clause"}
                          /\ Raised(e) => ast = e
                          /\ e.k = "Comparison" => Len(e.kids) = 2

\* Every rewriting of transform_expr.go keeps the expression's meaning: flattened
\* conjunctions, IS TRUE as a DISTINCT FROM, NOT folded into an operator's name,
\* ALL as a negated ANY, the regex CASE, swapped arguments, folded signs.
MeaningPreserved ==
    Done /\ ~Raised(ast) => \A env \in Envs : Eval(ast, env) = Means(tree, env)

\* The node an expression becomes always has a location, whichever synthesized
\* node comes out on top.
RootLocated == Done /\ ~Raised(ast) => ast.loc # "none"

\* What no accepted expression contains: two comparison operators in a row
\* whose first is not the operand of anything in between.
Ungrouped(n) ==
    \/ n.rule = "compare" /\ Len(n.tails) > 1
    \/ n.rule = "is" /\ \E i \in 1..(Len(n.tails) - 1), kind \in {"compare", "distinct"} :
                           n.tails[i].kind = kind /\ n.tails[i + 1].kind = kind
NoUnsupported(n) ==
    \A i \in 1..Len(n.tails) : n.rule # "leaf" =>
        LET t == n.tails[i]
        IN  /\ t.kind = "anyall" => t.op # "+" /\ (t.op \in {"~", "!~", "~*", "!~*"} => Taken(n, n.kids, i) # <<QueryLeaf>>)
            /\ t.kind = "qualified" => ~t.neg
            /\ t.kind = "range" => FALSE
            /\ n.rule = "positional" => ~t.neg
            /\ t.kind = "like" => /\ t.op \in {"IREGEX", "NIREGEX"} => t.n = 1
                                  /\ t.op \in {"NLIKE", "NILIKE", "NREGEX", "NIREGEX"} => ~t.neg
\* An expression is refused exactly if some part of it is: a chain of
\* comparisons, an operator ANY cannot use, a doubled negation; and an
\* operand's own error comes before the chain's that it is part of.
RefusedExactly ==
    Done => /\ Raised(ast) <=> \E n \in Subtrees(tree) : n = RaisedLeaf \/ Ungrouped(n) \/ ~NoUnsupported(n)
            /\ ast = Chained => RaisedLeaf \notin Subtrees(tree)

\* Conjunctions are flat, through parentheses too, and no number literal
\* stands under a minus.
Normal ==
    Done => \A e \in Nodes(ast) :
        /\ e.k = "Conjunction" => Len(e.kids) > 1 /\ \A i \in 1..Len(e.kids) :
                                      ~(e.kids[i].k = "Conjunction" /\ e.kids[i].op = e.op)
        /\ e.k = "Function" /\ e.op = "-" /\ Len(e.kids) = 1 => ~IsNumber(e.kids[1])
=============================================================================
