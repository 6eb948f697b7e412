----------------------------- MODULE Indirection ----------------------------
(***************************************************************************)
(* The chain of operators behind a base expression (transformBase,         *)
(* parser/transform_expr): names, method calls, subscripts, slices, casts  *)
(* and postfix operators, applied from left to right.                      *)
(*                                                                         *)
(* An expression is a base under the operations applied to it: names is    *)
(* the length of the column reference at its bottom (0: something else),   *)
(* bare says that the chain may still be a qualified name, and an          *)
(* operation has its kind and whether it has a location of its own.        *)
(***************************************************************************)
EXTENDS FunctionCall

LOCAL INSTANCE SequencesExt
LOCAL INSTANCE FiniteSetsExt

CONSTANTS Calls,    \* the method calls in a chain
          MaxPath,  \* the names in the longest reference
          MaxItems  \* the longest chain

MaxNames == 4   \* catalog, schema, table, column

Op(kind, located) == [op |-> kind, located |-> located]
Ref(names) == [names |-> names, bare |-> TRUE, ops |-> <<>>]
Other == [names |-> 0, bare |-> FALSE, ops |-> <<>>]

\* transformColumnReference: a longer path is four names and extractions,
\* of which the outermost has the location (deepColumnRef).
Column(names) ==
    IF names <= MaxNames THEN Ref(names)
    ELSE [Ref(MaxNames) EXCEPT !.ops = [k \in 1..names - MaxNames |-> Op("extract", k = names - MaxNames)]]

\* A reference of five names or more under a catalog and reserved schemas
\* keeps them all.
NestedSchema(names) == Ref(names)

\* The expressions a chain may start from, and the indirections.
Bases == {Column(n) : n \in 1..MaxPath} \cup {NestedSchema(5), Other}

Slices == [start : BOOLEAN, upper : {<<>>, <<"value">>, <<"open">>, <<"open", "value">>}]
Items ==
    [kind : {"name", "cast", "factorial"}]
    \cup [kind : {"method"}, call : Calls] \cup [kind : {"slice"}, slice : Slices]

-----------------------------------------------------------------------------
VARIABLES base,   \* the expression at the start
          items,  \* the indirections applied
          expr,   \* what they have built
          stage   \* "chain", "done" or "refused"
vars == <<base, items, expr, stage>>

IsRef(e) == e.bare /\ e.ops = <<>> /\ e.names > 0
Apply(e, op) == [e EXCEPT !.bare = FALSE, !.ops = Append(@, op)]

\* transformDot: a name extends the reference or extracts a field.
DotName(e, last) ==
    IF IsRef(e) /\ e.names < MaxNames THEN [e EXCEPT !.names = @ + 1] ELSE Apply(e, Op("extract", last))

DotMethodCall(e, call) == IF IsRef(e) THEN Qualified(e.names, call) ELSE Method(call)

\* transformDot: a method. Its names qualify the function if they are a
\* bare reference, and anything else is the first argument. A rewritten call
\* has a location only as the result.
DotMethod(e, call, last) ==
    LET f == DotMethodCall(e, call)
    IN  IF IsRef(e) THEN [names |-> e.names, bare |-> FALSE, ops |-> <<Op("qualified", TRUE)>>]
        ELSE Apply(e, Op(f.node, f.node = "function" \/ last))

\* transformSlice, emptySliceBound, sliceBoundValue: a bound that is left
\* out is open.
SliceBounds(s) == <<IF s.start THEN "value" ELSE "open">> \o s.upper
Slice(e, s) ==
    Apply(e, [op |-> IF s.upper = <<>> THEN "subscript" ELSE "slice", located |-> TRUE, bounds |-> SliceBounds(s)])

AfterCast == items # <<>> /\ items[Len(items)].kind = "cast"

\* Mutant: a subscript may follow a cast.
RefusedAfterCast(item) ==
    \/ item.kind = "slice" /\ ~item.slice.start /\ item.slice.upper = <<>>
    \/ item.kind = "method" /\ DotMethodCall(expr, item.call) = Refused

\* The indirections that are refused where they stand.
RefusedHere(item) ==
    \/ item.kind = "slice" /\ (AfterCast \/ (~item.slice.start /\ item.slice.upper = <<>>))
    \/ item.kind = "method" /\ DotMethodCall(expr, item.call) = Refused

\* transformIndirection.
Indirect(e, item, last) ==
    CASE item.kind = "name"   -> DotName(e, last)
      [] item.kind = "method" -> DotMethod(e, item.call, last)
      [] item.kind = "slice"  -> Slice(e, item.slice)
      [] OTHER                -> Apply(e, Op(item.kind, TRUE))   \* a cast or a factorial

-----------------------------------------------------------------------------
Init == base \in Bases /\ items = <<>> /\ expr = base /\ stage = "chain"

\* The next indirection of the chain, the last one or not.
Indirection(item, last) ==
    /\ stage = "chain" /\ Len(items) < MaxItems
    /\ items' = Append(items, item)
    /\ IF RefusedHere(item) THEN stage' = "refused" /\ UNCHANGED expr
       ELSE expr' = Indirect(expr, item, last) /\ stage' = (IF last THEN "done" ELSE "chain")
    /\ UNCHANGED base

Next == \E item \in Items, last \in BOOLEAN : Indirection(item, last)
Spec == Init /\ [][Next]_vars

-----------------------------------------------------------------------------
(* Correctness. *)
\* Reference definition: the whole chain at once. Names counts the names
\* before the first other item.
FirstOther ==
    LET others == {k \in 1..Len(items) : items[k].kind # "name"}
    IN  IF others = {} THEN 0 ELSE Min(others)
LeadingNames == IF FirstOther = 0 THEN Len(items) ELSE FirstOther - 1
KindsOf(s) == [k \in 1..Len(s) |-> s[k].op]

\* What an item is in the tree.
Shape(item) ==
    CASE item.kind = "name"   -> {"extract"}
      [] item.kind = "method" -> {"function", "rewritten"}
      [] item.kind = "slice"  -> {IF item.slice.upper = <<>> THEN "subscript" ELSE "slice"}
      [] OTHER                -> {item.kind}

-----------------------------------------------------------------------------
\* The type invariant; a reference has at most the four names of catalog,
\* schema, table and column, unless the grammar's longer form made it.
TypeOK ==
    /\ stage \in {"chain", "done", "refused"}
    /\ base.names <= MaxNames => expr.names <= MaxNames
    /\ \A k \in 1..Len(expr.ops) : expr.ops[k].located \in BOOLEAN

\* Every name and operation written is in the tree, in the order written:
\* the names before anything else extend the reference, qualify a function
\* or extract fields.
NothingLost ==
    stage # "refused" =>
        \/ /\ expr.names + Cardinality({k \in 1..Len(expr.ops) : expr.ops[k].op = "extract"})
              = base.names + Cardinality({k \in 1..Len(base.ops) : base.ops[k].op = "extract"})
                + Cardinality({k \in 1..Len(items) : items[k].kind = "name"})
           /\ LET merged == Len(items) + Len(base.ops) - Len(expr.ops)
              IN  /\ merged \in 0..LeadingNames
                  /\ \A k \in merged + 1..Len(items) : expr.ops[Len(base.ops) - merged + k].op \in Shape(items[k])
        \/ /\ expr.ops[1].op = "qualified" /\ items[FirstOther].kind = "method"
           /\ expr.names = base.names + LeadingNames
           /\ \A k \in FirstOther + 1..Len(items) : expr.ops[k - FirstOther + 1].op \in Shape(items[k])

\* Where a path of names ends and its indirections begin depends on the
\* words in it, and does not change the tree; nor its locations, if nothing
\* but the names is there.
RECURSIVE Chain(_, _)
Chain(e, rest) ==
    IF rest = <<>> THEN e ELSE Chain(Indirect(e, Head(rest), Len(rest) = 1), Tail(rest))
SplitIrrelevant ==
    stage = "done" /\ base.names > 0 /\ base = Column(base.names) =>
        LET whole == Chain(Column(base.names + LeadingNames), SubSeq(items, LeadingNames + 1, Len(items)))
        IN  /\ whole.names = expr.names /\ KindsOf(whole.ops) = KindsOf(expr.ops)
            /\ LeadingNames = Len(items) => whole.ops = expr.ops

\* Extractions and rewritten calls inside a chain have no location, and the
\* outermost operation always has one.
OnlyTheResultLocated ==
    stage = "done" =>
        /\ \A k \in Len(base.ops) + 1..Len(expr.ops) - 1 :
              expr.ops[k].op \in {"extract", "rewritten"} => ~expr.ops[k].located
        /\ expr.ops # <<>> => expr.ops[Len(expr.ops)].located

\* A chain is refused for one of four things only: a subscript behind a
\* cast, an empty subscript, a method its modifiers or arguments forbid, and
\* a function qualified by three or four names; with five or more the path
\* is an argument and the call is accepted.
RefusedOnlyFor ==
    LET item == items[Len(items)]
        names == base.names + Len(base.ops) + LeadingNames
        chain == FirstOther = Len(items) /\ base.bare
    IN  items # <<>> =>
            (stage = "refused" <=>
                \/ item.kind = "slice" /\ ((~item.slice.start /\ item.slice.upper = <<>>)
                                             \/ (Len(items) > 1 /\ items[Len(items) - 1].kind = "cast"))
                \/ /\ item.kind = "method"
                   /\ \/ item.call.nulls
                      \/ chain /\ names \in {3, 4}
                      \/ chain /\ base = NestedSchema(5) /\ LeadingNames = 0
                      \/ item.call.name = "ifnull"
                         /\ (~chain \/ (names > 4 /\ ~(base = NestedSchema(5) /\ LeadingNames = 0))))

\* A slice has an expression for every bound written and an open one for
\* every bound left out; a subscript is never open.
SliceBoundsKept ==
    \A k \in 1..Len(expr.ops) :
        /\ expr.ops[k].op = "subscript" => expr.ops[k].bounds = <<"value">>
        /\ expr.ops[k].op = "slice" => Len(expr.ops[k].bounds) \in {2, 3}
=============================================================================
