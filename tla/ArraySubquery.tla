--------------------------- MODULE ArraySubquery ----------------------------
(***************************************************************************)
(* ARRAY(SELECT ...) becomes an array_agg over the query                   *)
(* (transformList, arrayAggOrders and cloneWithAlias,                      *)
(* parser/transform_func): the aggregate repeats the query's ORDER BY, and *)
(* a key it cannot name otherwise is appended to the query's own list.     *)
(*                                                                         *)
(* A query is a select or another node (set), with the items of its list,  *)
(* each an expression and its alias, and its order keys. A key is an       *)
(* expression of a kind with the value of its constant or the number of    *)
(* its names, and a direction.                                             *)
(***************************************************************************)
EXTENDS Naturals, Sequences

CONSTANTS Items, \* the lists a select may start with
          Keys,  \* the order keys of a query
          MaxKeys

LOCAL INSTANCE SequencesExt

\* Kinds of expressions: constants that are kept as an int64 (a decimal is
\* its digits without the point), and the others cloneWithAlias has a case
\* for, or none.
Integral == {"integer", "decimal"}
CloneKinds == {"integer", "decimal", "string", "column", "function", "star"}

\* The alias of the k-th key; a user may write it too.
Alias(k) == <<"__array_internal_idx", k>>
NoAlias == <<>>

VARIABLES node,      \* "select" or "set"
          list,      \* items of the query's list
          orders,    \* its ORDER BY keys
          aggregate, \* the keys of the array_agg, as far as they are made
          argument   \* what is aggregated
vars == <<node, list, orders, aggregate, argument>>

-----------------------------------------------------------------------------
\* Mutant: columns are appended as they are.
CloneAliasColumn(key, alias) == IF key.kind \in CloneKinds \ {"column"} THEN alias ELSE NoAlias

\* cloneWithAlias: the alias an appended copy of this expression has. An
\* expression without a case of its own is appended itself, as it is.
CloneAlias(key, alias) == IF key.kind \in CloneKinds THEN alias ELSE NoAlias

Expression(key) == [kind |-> key.kind, value |-> key.value]
Position(key) == [kind |-> "position", value |-> key.value, desc |-> key.desc]
Named(k, key) == [kind |-> "alias", value |-> k, desc |-> key.desc]

\* The key of a set operation: a column loses its qualifiers.
FinalName(key) == IF key.kind = "column" THEN [key EXCEPT !.value = 1] ELSE key

-----------------------------------------------------------------------------
Init ==
    /\ node \in {"select", "set"} /\ list \in Items
    /\ orders \in UNION {[1..k -> Keys] : k \in 0..MaxKeys}
    /\ aggregate = <<>> /\ argument = "none"

\* One key of arrayAggOrders.
Order ==
    /\ argument = "none" /\ Len(aggregate) < Len(orders)
    /\ LET k == Len(aggregate) + 1
           key == orders[k]
       IN  IF key.kind \in Integral THEN aggregate' = Append(aggregate, Position(key)) /\ UNCHANGED list
           ELSE IF node = "select"
                THEN /\ aggregate' = Append(aggregate, Named(k, key))
                     /\ list' = Append(list, [alias |-> CloneAlias(key, Alias(k)), expr |-> Expression(key)])
           ELSE aggregate' = Append(aggregate, FinalName(key)) /\ UNCHANGED list
    /\ UNCHANGED <<node, orders, argument>>

\* The aggregate itself: the first item of a select, every column of a set.
Aggregate ==
    /\ argument = "none" /\ Len(aggregate) = Len(orders)
    /\ argument' = (IF node = "select" THEN "#1" ELSE "*COLUMNS(*)")
    /\ UNCHANGED <<node, list, orders, aggregate>>

Next == Order \/ Aggregate
Spec == Init /\ [][Next]_vars

-----------------------------------------------------------------------------
(* Correctness. *)
Done == argument # "none"

-----------------------------------------------------------------------------
\* The type invariant; keys are made in order, and every position counts
\* from one.
TypeOK ==
    /\ node \in {"select", "set"} /\ argument \in {"none", "#1", "*COLUMNS(*)"}
    /\ Len(aggregate) <= Len(orders)
    /\ \A k \in 1..Len(aggregate) :
          /\ aggregate[k].kind \in {"position", "alias"} \cup {key.kind : key \in Keys}
          /\ aggregate[k].kind = "position" => aggregate[k].value = orders[k].value

\* The query that is aggregated is the query that was written: its items
\* keep their places, so that #1 and the positions mean what they meant.
\* written is the list as it was at the start.
ItemsKeepPlaces(written) == SubSeq(list, 1, Len(written)) = written /\ (node = "set" => list = written)

\* What a key of the aggregate may stand for: a place in the list, every
\* item of its alias, or an expression; and what the query's key means, a
\* column of a set operation being one of its result.
Referred(key) ==
    CASE key.kind = "position" -> {Expression(key)}
      [] key.kind = "alias"    -> {list[j].expr : j \in {i \in 1..Len(list) : list[i].alias = Alias(key.value)}}
      [] OTHER                 -> {Expression(key)}
Meant(key) ==
    CASE key.kind = "integer"                   -> Expression(Position(key))
      [] node = "set" /\ key.kind = "column" -> [kind |-> "column", value |-> 1]
      [] OTHER                                  -> Expression(key)

\* The keys that lose their link: a decimal, taken for the position its
\* digits spell; an expression the copy gives no alias; and one whose alias
\* the user wrote as well.
Unlinked(k, written) ==
    \/ orders[k].kind = "decimal"
    \/ /\ node = "select" /\ orders[k].kind \notin Integral
       /\ \/ orders[k].kind \notin CloneKinds
          \/ \E j \in 1..Len(written) : written[j].alias = Alias(k)

\* The aggregate has the keys of the query, one for one, in the same order
\* and direction, and each stands for exactly what the query's key means,
\* unless it is one of those that lose their link; they do lose it.
OrdersMirrored(written) ==
    Done => /\ Len(aggregate) = Len(orders)
            /\ \A k \in 1..Len(orders) :
                  /\ aggregate[k].desc = orders[k].desc
                  /\ Referred(aggregate[k]) = {Meant(orders[k])} <=> ~Unlinked(k, written)
=============================================================================
