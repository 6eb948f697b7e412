---------------------------- MODULE SetOperations ----------------------------
(***************************************************************************)
(* Queries with WITH clauses and set operations (transformSelectInternal,  *)
(* transformWithClause, transformSetOpChain, buildSetOp;                   *)
(* parser/transform_select). Chains of one kind of UNION become one node   *)
(* with many inputs, and a UNION that is the body of a recursive CTE is    *)
(* taken apart again.                                                      *)
(*                                                                         *)
(* A parse tree is a SELECT, known by its place in the source, or a query  *)
(* in parentheses: [with, first, tails, mods], where first is a chain of   *)
(* INTERSECTs [atom, tails], each tail of mods is "order", "limit" or      *)
(* "percent", and with is [recursive, entries]. The state is a query that  *)
(* is transformed piece by piece; what is in parentheses in it is          *)
(* transformed whole by Query.                                             *)
(***************************************************************************)
EXTENDS Naturals, SequencesExt, FiniteSetsExt

CONSTANTS Queries \* the queries transformed

VARIABLES query, \* the parse tree
          ctes,  \* the entries of its WITH clause made so far
          node,  \* its node so far
          made,  \* the tails of its chain taken
          stage  \* "with", "first", "tails", "mods", "done" or "refused"
vars == <<query, ctes, node, made, stage>>

\* The nodes.
Node(kind, all, inputs, from, to) ==
    [kind |-> kind, all |-> all, inputs |-> inputs, from |-> from, to |-> to, mods |-> <<>>, ctes |-> <<>>]
Select(place) == Node("SELECT", FALSE, <<>>, place, place)
Dml(kind, place, with) == [Node(kind, FALSE, <<>>, place, place) EXCEPT !.ctes = with]
NoNode  == Node("none", FALSE, <<>>, 0, 0)
Refused(why) == [NoNode EXCEPT !.kind = "refused", !.mods = <<why>>]
IsRefused(n) == n.kind = "refused"

Unions == {"UNION", "UNION BY NAME"}

\* The first refusal among nodes made in order.
OrRefused(nodes, n) ==
    IF \E k \in 1..Len(nodes) : IsRefused(nodes[k]) THEN SelectSeq(nodes, IsRefused)[1] ELSE n

-----------------------------------------------------------------------------
(* Set operations. *)

\* buildSetOp: whether the right side becomes one more input of the left.
Joins(left, kind, all) ==
    kind \in Unions /\ left.kind = kind /\ left.all = all /\ left.mods = <<>> /\ left.ctes = <<>>

\* buildSetOp.
Build(left, right, clause) ==
    LET kind == IF clause.byName THEN "UNION BY NAME" ELSE clause.type
    IN  IF clause.byName /\ clause.type # "UNION" THEN Refused("by name")
        ELSE IF Joins(left, kind, clause.all)
        THEN [left EXCEPT !.inputs = Append(@, right), !.to = right.to]
        ELSE Node(kind, clause.all, <<left, right>>, left.from, right.to)

-----------------------------------------------------------------------------
(* Recursive CTEs. *)

\* The rest of a UNION that loses its last input; its extent stays.
Shortened(n) == [n EXCEPT !.inputs = Front(@)]

\* Mutant: the first input is the base, and the others the recursive part.
SplitFirst(n) == <<n.inputs[1], IF Len(n.inputs) = 2 THEN n.inputs[2] ELSE [n EXCEPT !.inputs = Tail(@)]>>

\* The base and the recursive part; of two inputs the base is the first one,
\* and the UNION's own modifiers are gone.
Split(n) == <<IF Len(n.inputs) = 2 THEN n.inputs[1] ELSE Shortened(n), Last(n.inputs)>>

\* A LIMIT in per cent passes.
NotRecursive(n) == Contains(n.mods, "order") \/ Contains(n.mods, "limit")

\* The end of transformWithStatement, under RECURSIVE.
ToRecursive(n) ==
    IF n.kind = "COPY" THEN Refused("copy")
    ELSE IF n.kind \in {"INSERT", "UPDATE", "DELETE"} THEN Refused("dml")
    ELSE IF n.kind = "UNION" /\ Len(n.inputs) >= 2
    THEN IF NotRecursive(n) THEN Refused("modifier")
         ELSE [Node("RECURSIVE", n.all, Split([n EXCEPT !.ctes = <<>>]), n.from, n.to) EXCEPT !.ctes = n.ctes]
    ELSE n

\* dmlQueryNode: the statement's own WITH clause moves to the node;
\* TRUNCATE becomes a DELETE.
DmlNode(body, with) ==
    CASE body.dml \in {"INSERT", "UPDATE", "DELETE"} -> Dml(body.dml, body.place, with)
      [] body.dml = "TRUNCATE"                       -> Dml("DELETE", body.place, <<>>)
      [] body.dml = "COPY TO"                        -> Dml("COPY", body.place, <<>>)
      [] OTHER                                       -> Refused("body")

-----------------------------------------------------------------------------
(* Queries. *)

\* Names are compared in lower case.
Taken(entries, name) == \E k \in 1..Len(entries) : entries[k].name.lower = name.lower

\* applyResultModifiers: a query in parentheses keeps the ones it has.
Modified(n, mods) == [n EXCEPT !.mods = @ \o mods]

\* The outer WITH clause comes before that of the query in parentheses.
Prefixed(n, entries) == [n EXCEPT !.ctes = entries \o @]

RECURSIVE Query(_)

\* transformSelectAtom.
Atom(a) == IF a.kind = "place" THEN Select(a.place) ELSE Query(a)

\* transformIntersectChain: every INTERSECT is a node with two inputs.
IntersectTail(left, tail) ==
    LET right == Atom(tail.atom)
    IN  OrRefused(<<left, right>>, Node("INTERSECT", tail.all, <<left, right>>, left.from, right.to))
Intersects(chain) == FoldLeft(IntersectTail, Atom(chain.atom), chain.tails)

\* SelectSetOpChainTail.
ChainTail(left, tail) ==
    LET right == Intersects(tail.chain)
    IN  OrRefused(<<left, right>>, Build(left, right, tail.clause))

\* transformWithStatement, the body first.
Body(entry, recursive) ==
    LET made_ == IF entry.body.kind = "dml"
                 THEN LET with == IF entry.body.with = <<>> THEN <<>> ELSE <<[name |-> entry.body.with[1], query |-> Select(entry.body.place)]>>
                      IN  DmlNode(entry.body, with)
                 ELSE Query(entry.body)
    IN  IF recursive /\ ~IsRefused(made_) THEN ToRecursive(made_) ELSE made_

\* transformWithClause, one entry: a name taken is noticed after its body.
\* A refusal is an entry without a name.
WithEntry(entries, entry, recursive) ==
    LET body == Body(entry, recursive)
    IN  IF IsRefused(body) THEN <<[name |-> "", query |-> body]>>
        ELSE IF Taken(entries, entry.name) THEN <<[name |-> "", query |-> Refused("duplicate")]>>
        ELSE Append(entries, [name |-> entry.name, query |-> body])
ClauseRefused(entries) == entries # <<>> /\ IsRefused(entries[1].query)
WithClause(with) ==
    FoldLeft(LAMBDA acc, entry : IF ClauseRefused(acc) THEN acc ELSE WithEntry(acc, entry, with.recursive), <<>>, with.entries)

\* transformSelectInternal.
Query(q) ==
    LET entries == WithClause(q.with)
        chain   == FoldLeft(ChainTail, Intersects(q.first), q.tails)
    IN  IF ClauseRefused(entries) THEN entries[1].query
        ELSE OrRefused(<<chain>>, Prefixed(Modified(chain, q.mods), entries))

-----------------------------------------------------------------------------
(* The outermost query, piece by piece. *)

Init ==
    /\ query \in Queries
    /\ ctes = <<>> /\ node = NoNode /\ made = 0 /\ stage = "with"

With ==
    /\ stage = "with" /\ Len(ctes) < Len(query.with.entries)
    /\ LET entries == WithEntry(ctes, query.with.entries[Len(ctes) + 1], query.with.recursive)
       IN  IF ClauseRefused(entries)
           THEN node' = entries[1].query /\ stage' = "refused" /\ UNCHANGED ctes
           ELSE ctes' = entries /\ UNCHANGED <<node, stage>>
    /\ UNCHANGED <<query, made>>

First ==
    /\ stage = "with" /\ Len(ctes) = Len(query.with.entries)
    /\ node' = Intersects(query.first)
    /\ stage' = IF IsRefused(node') THEN "refused" ELSE "tails"
    /\ UNCHANGED <<query, ctes, made>>

ChainStep ==
    /\ stage = "tails" /\ made < Len(query.tails)
    /\ node' = ChainTail(node, query.tails[made + 1])
    /\ IF IsRefused(node') THEN stage' = "refused" /\ UNCHANGED made ELSE made' = made + 1 /\ UNCHANGED stage
    /\ UNCHANGED <<query, ctes>>

Finish ==
    /\ stage = "tails" /\ made = Len(query.tails)
    /\ node' = Prefixed(Modified(node, query.mods), ctes)
    /\ stage' = "done"
    /\ UNCHANGED <<query, ctes, made>>

Next == With \/ First \/ ChainStep \/ Finish
Spec == Init /\ [][Next]_vars

-----------------------------------------------------------------------------
(* Correctness. *)
\* Reference definition: a term of binary operations, read off the parse
\* tree by the last operator that binds least.
Term(op, all, kids, place, mods, with) ==
    [op |-> op, all |-> all, kids |-> kids, place |-> place, mods |-> mods, with |-> with]
Names(entries) == [k \in 1..Len(entries) |-> entries[k].name]

RECURSIVE Meant(_), MeantChain(_, _), MeantTails(_, _)
MeantAtom(a) == IF a.kind = "place" THEN Term("SELECT", FALSE, <<>>, a.place, <<>>, <<>>) ELSE Meant(a)
MeantChain(chain, n) ==
    IF n = 0 THEN MeantAtom(chain.atom)
    ELSE Term("INTERSECT", chain.tails[n].all, <<MeantChain(chain, n - 1), MeantAtom(chain.tails[n].atom)>>, 0, <<>>, <<>>)
MeantTails(q, n) ==
    IF n = 0 THEN MeantChain(q.first, Len(q.first.tails))
    ELSE LET tail == q.tails[n]
         IN  Term(IF tail.clause.byName THEN "UNION BY NAME" ELSE tail.clause.type, tail.clause.all,
                  <<MeantTails(q, n - 1), MeantChain(tail.chain, Len(tail.chain.tails))>>, 0, <<>>, <<>>)
Meant(q) ==
    LET chain == MeantTails(q, Len(q.tails))
    IN  [chain EXCEPT !.mods = @ \o q.mods, !.with = Names(q.with.entries) \o @]

\* A node as such a term: of many inputs, the first two are one.
RECURSIVE Binary(_)
Binary(n) ==
    CASE n.inputs = <<>> -> Term(n.kind, FALSE, <<>>, n.from, n.mods, Names(n.ctes))
      [] Len(n.inputs) = 2 -> Term(n.kind, n.all, <<Binary(n.inputs[1]), Binary(n.inputs[2])>>, 0, n.mods, Names(n.ctes))
      [] OTHER -> LET first == [n EXCEPT !.inputs = Front(@), !.mods = <<>>, !.ctes = <<>>]
                  IN  Term(n.kind, n.all, <<Binary(first), Binary(Last(n.inputs))>>, 0, n.mods, Names(n.ctes))

RECURSIVE Nodes(_)
Nodes(n) == {n} \cup UNION {Nodes(n.inputs[k]) : k \in 1..Len(n.inputs)}
Leaves(n) == {m.from : m \in {l \in Nodes(n) : l.inputs = <<>>}}

\* What is wrong with a query.
RECURSIVE Wrong(_), WrongAtom(_)
WrongChain(c) == WrongAtom(c.atom) \/ \E k \in 1..Len(c.tails) : WrongAtom(c.tails[k].atom)
WrongAtom(a) == a.kind # "place" /\ Wrong(a)
WrongBody(b, recursive) ==
    IF b.kind = "dml"
    THEN b.dml \in {"COPY FROM", "CREATE"} \/ recursive
    ELSE \/ Wrong(b)
         \/ recursive /\ Meant(b).op = "UNION" /\ \E k \in 1..Len(Meant(b).mods) : Meant(b).mods[k] \in {"order", "limit"}
Wrong(q) ==
    LET es == q.with.entries IN
    \/ WrongChain(q.first)
    \/ \E k \in 1..Len(q.tails) :
          \/ WrongChain(q.tails[k].chain)
          \/ q.tails[k].clause.byName /\ q.tails[k].clause.type # "UNION"
    \/ \E k \in 1..Len(es) : WrongBody(es[k].body, q.with.recursive)
    \/ \E j, k \in 1..Len(es) : j < k /\ es[j].name.lower = es[k].name.lower

-----------------------------------------------------------------------------
\* The type invariant; only a UNION has more than two inputs, and what is
\* made so far is not refused.
TypeOK ==
    /\ stage \in {"with", "tails", "done", "refused"}
    /\ made \in 0..Len(query.tails) /\ Len(ctes) <= Len(query.with.entries)
    /\ stage = "with" => node = NoNode
    /\ stage \in {"tails", "done"} =>
         \A n \in Nodes(node) : n.kind # "refused" /\ (n.inputs = <<>> \/ Len(n.inputs) = 2 \/ (n.kind \in Unions /\ Len(n.inputs) > 2))

\* However UNIONs are joined, a query means what its operators say:
\* INTERSECT first, the others from the left, a modifier or WITH clause for
\* what it is written on, the outer ones around the inner ones.
AssociatesLeft == stage = "done" => Binary(node) = Meant(query)

\* A chain of one UNION is one node: no UNION is the first input of another
\* of its kind, unless a modifier or WITH clause of its own is in the way.
FullyJoined ==
    stage \in {"tails", "done"} =>
        \A n \in Nodes(node) : n.kind \in Unions =>
            ~(n.inputs[1].kind = n.kind /\ n.inputs[1].all = n.all /\ n.inputs[1].mods = <<>> /\ n.inputs[1].ctes = <<>>)

\* The extent of a node is from its first SELECT to its last one, also after
\* one more is joined.
ExtentsGrow ==
    stage \in {"tails", "done"} =>
        \A n \in Nodes(node) : n.from = Min(Leaves(n)) /\ n.to = Max(Leaves(n))

\* The entries of a recursive WITH clause: the recursive part of a UNION is
\* its last operand and the base is all the others, as if they had never
\* been joined, apart from a LIMIT in per cent. Everything else is as
\* without RECURSIVE.
RecursiveSplits ==
    \A k \in 1..Len(ctes) :
        LET body == query.with.entries[k].body
            n    == ctes[k].query
            meant == Meant(body)
        IN  body.kind # "dml" =>
                IF query.with.recursive /\ meant.op = "UNION"
                THEN /\ n.kind = "RECURSIVE" /\ n.all = meant.all /\ Names(n.ctes) = meant.with
                     /\ [Binary(n.inputs[1]) EXCEPT !.mods = meant.kids[1].mods] = meant.kids[1]
                     /\ Binary(n.inputs[2]) = meant.kids[2]
                ELSE Binary(n) = meant

\* A query is refused exactly for BY NAME of an EXCEPT, a name given twice,
\* a body that is no query, DML under RECURSIVE, and an ORDER BY or LIMIT of
\* a recursive UNION.
RefusedExactly == (stage = "refused" => Wrong(query)) /\ (stage = "done" => ~Wrong(query))

=============================================================================
