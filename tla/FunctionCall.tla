---------------------------- MODULE FunctionCall ----------------------------
(***************************************************************************)
(* What a function call becomes (transformFunction and the method chain    *)
(* of transformDot, parser/transform_func and transform_expr): a function  *)
(* or window expression, a syntax node for the names the parser rewrites,  *)
(* a cast, or an error, depending on the modifiers written with it.        *)
(*                                                                         *)
(* An argument is "x" or "y", "star" (an unmodified, unqualified one) or   *)
(* "named"; orders counts the ORDER BY keys, within those of WITHIN GROUP  *)
(* plus one (0: no such clause).                                           *)
(***************************************************************************)
EXTENDS Naturals, Sequences

\* The names that are rewritten, and the arguments they need; any number if
\* none is given.
Rewritten == {"unpack", "try", "construct_array", "ifnull", "coalesce", "date"}
OneArgument == {"unpack", "try", "date"}
TypeNames == {"time"}
OrderedSet == [percentile_cont |-> "quantile_cont", percentile_disc |-> "quantile_disc", mode |-> "mode"]
OrderedSetArgs(name) == IF name = "mode" THEN 0 ELSE 1

Refused == [node |-> "error"]

-----------------------------------------------------------------------------
\* transformFunctionArgumentList: f(DISTINCT) and f(ALL) are refused, but
\* not in a method chain.
ListRefused(call, method) == call.distinct # "no" /\ call.args = <<>> /\ ~method

WithinRefused(call) ==
    call.within > 0 /\ (call.distinct = "distinct" \/ call.orders > 0 \/ call.within # 2)

\* The orders the call ends up with: WITHIN GROUP's replace its own.
Orders(call) == IF call.within > 0 THEN call.within - 1 ELSE call.orders

\* starCallRewrite; a method chain drops its star in any case.
StarArgs(call, method) ==
    IF call.args = <<"star">> /\ (method \/ (call.distinct # "distinct" /\ Orders(call) = 0))
    THEN <<>> ELSE call.args

Named(args) == \E k \in 1..Len(args) : args[k] = "named"

\* parserFunctionRewrite, for a name that is rewritten.
Rewrite(name, args) ==
    IF \/ name \in OneArgument /\ Len(args) # 1
       \/ name = "ifnull" /\ Len(args) # 2
       \/ name # "date" /\ Named(args)
    THEN Refused
    ELSE [node |-> "rewritten", name |-> IF name = "ifnull" THEN "coalesce" ELSE name, args |-> args]

\* Mutant: a window function does not get the call's filter.
FunctionUnfiltered(name, schema, args, call) ==
    [node |-> IF call.over THEN "window" ELSE "function", name |-> name, schema |-> schema, args |-> args,
     distinct |-> call.distinct = "distinct", orders |-> Orders(call), filter |-> call.filter /\ ~call.over,
     export |-> call.export, nulls |-> call.nulls]

\* transformFunction's node, and transformOver's.
Function(name, schema, args, call) ==
    [node |-> IF call.over THEN "window" ELSE "function", name |-> name, schema |-> schema, args |-> args,
     distinct |-> call.distinct = "distinct", orders |-> Orders(call), filter |-> call.filter,
     export |-> call.export, nulls |-> call.nulls]

-----------------------------------------------------------------------------
\* The WITHIN GROUP clause of a call without OVER: only the ordered-set
\* aggregates have one, under their quantile names.
Ordered(name, args, call) ==
    IF call.within = 0 THEN Function(name, call.schema, args, call)
    ELSE IF name \notin DOMAIN OrderedSet \/ Len(args) # OrderedSetArgs(name) THEN Refused
    ELSE Function(OrderedSet[name], call.schema, args, call)

\* transformFunction.
Call(call) ==
    LET args == StarArgs(call, FALSE)
        name == IF call.name = "count" /\ args = <<>> /\ ~call.over THEN "count_star" ELSE call.name
    IN  IF ListRefused(call, FALSE) \/ WithinRefused(call) \/ (call.over /\ call.export) THEN Refused
        ELSE IF call.over THEN Function(name, call.schema, args, call)
        ELSE IF name \in Rewritten \ {"coalesce"} THEN Rewrite(name, args)
        ELSE IF /\ name \in TypeNames /\ ~call.schema /\ Len(args) = 1 /\ ~Named(args)
                /\ call.distinct # "distinct" /\ ~call.filter
             THEN [node |-> "cast", name |-> name, args |-> args]
        ELSE IF call.nulls THEN Refused
        ELSE Ordered(name, args, call)

\* transformDot's method on any base but a bare column reference: the base
\* is the first argument, and a rewritten call may not have modifiers.
Method(call) ==
    LET args == <<"base">> \o StarArgs(call, TRUE)
    IN  IF call.nulls THEN Refused
        ELSE IF call.name \in Rewritten
             THEN IF call.distinct = "distinct" \/ call.orders > 0 THEN Refused ELSE Rewrite(call.name, args)
        ELSE Function(call.name, FALSE, args, call)

\* And on a bare one: up to two names qualify the function, which is then
\* not rewritten.
Qualified(names, call) ==
    IF call.nulls \/ names > 2 THEN Refused
    ELSE Function(call.name, TRUE, StarArgs(call, TRUE), call)

-----------------------------------------------------------------------------
(* Correctness. *)
\* The properties of a call, written this way ("call" or "method"), and of
\* the result it was given.
Accepted(result) == result # Refused

\* The modifiers written with a call, and those its node has; a syntax node
\* or a cast has none.
Written(call) ==
    [distinct |-> call.distinct = "distinct", filter |-> call.filter, export |-> call.export,
     nulls |-> call.nulls, over |-> call.over,
     orders |-> call.orders + (IF call.within > 0 THEN call.within - 1 ELSE 0)]
Carried(result) ==
    IF result.node \in {"function", "window"}
    THEN [distinct |-> result.distinct, filter |-> result.filter, export |-> result.export,
          nulls |-> result.nulls, over |-> result.node = "window", orders |-> result.orders]
    ELSE [distinct |-> FALSE, filter |-> FALSE, export |-> FALSE, nulls |-> FALSE, over |-> FALSE, orders |-> 0]
Lost(call, result) == {m \in DOMAIN Written(call) : Carried(result)[m] # Written(call)[m]}

\* A syntax node has the arguments it is made for.
SyntaxNodesComplete(call, result) ==
    Accepted(result) /\ result.node = "rewritten" =>
        /\ result.name \in OneArgument => Len(result.args) = 1
        /\ call.name = "ifnull" => Len(result.args) = 2

\* A function or window node has exactly the modifiers written with the
\* call, WITHIN GROUP's key as its order, EXPORT_STATE without OVER only and
\* the nulls option with it only.  What is no function any more has none:
\* a cast of a plain call loses its order, nulls option and EXPORT_STATE
\* silently, but never its DISTINCT or FILTER; a rewritten plain call loses
\* all but OVER, which keeps the call from being rewritten; a rewritten
\* method loses nothing, for it is refused.
ModifiersKept(call, way, result) ==
    Accepted(result) =>
        /\ Lost(call, result) \subseteq CASE result.node = "cast" -> {"orders", "nulls", "export"}
                                         [] result.node = "rewritten" /\ way = "call" ->
                                                {"distinct", "filter", "export", "nulls", "orders"}
                                         [] OTHER -> {}
        /\ result.node = "window" => ~result.export
        /\ result.node = "function" => ~result.nulls

\* And every argument in its place, but for a lone star, which stays where
\* DISTINCT or an order makes a difference.
ArgumentsKept(call, way, result) ==
    Accepted(result) =>
        LET base == IF way = "method" THEN <<"base">> ELSE <<>>
        IN  \/ result.args = base \o call.args
            \/ /\ call.args = <<"star">> /\ result.args = base
               /\ way = "call" => ~Written(call).distinct /\ Written(call).orders = 0

\* x.f(y) is f(x, y): the same node with the same modifiers, unless a star
\* is dropped, and except that the method chain rewrites coalesce as well,
\* makes no casts of type names and refuses a rewritten call's modifiers.
MethodIsCall(call, way, result) ==
    way = "method" /\ Accepted(result) =>
        LET plain == Call([call EXCEPT !.args = <<"base">> \o @])
        IN  \/ result = plain
            \/ call.args = <<"star">>
            \/ call.name = "coalesce" /\ result.node = "rewritten" /\ result.args = plain.args
            \/ call.name \in TypeNames /\ plain.node = "cast"

\* A function with WITHIN GROUP is one of the ordered-set aggregates, under
\* its quantile name, with one key and the arguments it takes.
OrderedSetsOnly(call, result) ==
    Accepted(result) /\ call.within > 0 /\ result.node = "function" =>
        /\ call.name \in DOMAIN OrderedSet /\ result.name = OrderedSet[call.name]
        /\ result.orders = 1 /\ Len(result.args) = OrderedSetArgs(call.name) /\ ~result.distinct
=============================================================================
