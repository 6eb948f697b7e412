------------------------------ MODULE GroupBy -------------------------------
(***************************************************************************)
(* The GROUP BY clause (transformGroupBy, parser/transform_select): every  *)
(* entry adds its expressions to the group list and gives a list of        *)
(* grouping sets, and the sets of all entries are multiplied out.          *)
(*                                                                         *)
(* A unit is a sequence of expressions, of which a parenthesised list has  *)
(* several. An entry is empty, a base unit, a ROLLUP or CUBE of units, or  *)
(* GROUPING SETS of entries. An expression is a name, the star or an       *)
(* anonymous parameter, which every transformation gives a new number; a   *)
(* grouping set is a set of places in the group list.                      *)
(***************************************************************************)
EXTENDS Naturals, SequencesExt, FiniteSetsExt

CONSTANTS Entries,    \* the entries of a clause
          MaxEntries,
          MaxSets     \* maxGroupingSets

Param == "?"
Star  == "*"

VARIABLES entries, \* the clause; empty: GROUP BY ALL
          made,    \* the entries transformed
          list,    \* group expressions: a name, or the number of a parameter
          params,  \* the parameters numbered so far
          sets,    \* the grouping sets of the entries made
          stage    \* "peek", "entries", "done", "all" or "refused"
vars == <<entries, made, list, params, sets, stage>>

\* What an entry works on, and gives: sets or a refusal.
State(l, p) == [list |-> l, params |-> p, sets |-> <<>>, refused |-> FALSE]
Current == State(list, params)

-----------------------------------------------------------------------------
\* addGroupExpression: an expression the list has is not added again.
Add(st, e) ==
    LET number == IF e = Param THEN st.params + 1 ELSE st.params
        expr   == IF e = Param THEN <<e, number>> ELSE <<e>>
        new    == IF Contains(st.list, expr) THEN st.list ELSE Append(st.list, expr)
    IN  [list |-> new, params |-> number, set |-> st.set \cup {CHOOSE k \in 1..Len(new) : new[k] = expr}]

\* groupByUnit: all expressions of a unit are one set.
Unit(st, unit) == FoldLeft(Add, [list |-> st.list, params |-> st.params, set |-> {}], unit)

\* The sets of the units of a ROLLUP or CUBE, one after another.
AddUnit(st, unit) ==
    LET u == Unit(st, unit)
    IN  [st EXCEPT !.list = u.list, !.params = u.params, !.sets = Append(@, u.set)]
Units(st, units) == FoldLeft(AddUnit, st, units)

UnionUpTo(units, n) == UNION {units[k] : k \in 1..n}

\* Mutant: the grand total is left out.
RollupNoTotal(units) == [n \in 1..Len(units) |-> UnionUpTo(units, n)]

\* rollupSets: the prefixes.
RollupSets(units) == [n \in 1..Len(units) + 1 |-> UnionUpTo(units, n - 1)]

\* cubeSets: the subsets, depth first: those with the first unit after the
\* empty one and before those without it.
RECURSIVE CubeSets(_)
CubeSets(units) ==
    IF units = <<>> THEN << {} >>
    ELSE LET rest == CubeSets(Tail(units))
         IN  << {} >> \o [k \in 1..Len(rest) |-> Head(units) \cup rest[k]] \o Tail(rest)

\* CheckGroupingSetCubes: the subsets are counted before they are made.
CubeTooLarge(units) == 2 ^ Len(units) > MaxSets

\* transformGroupByExpressionEntry.
RECURSIVE Entry(_, _)
Entry(st, entry) ==
    CASE entry.kind = "empty" -> [st EXCEPT !.sets = << {} >>]
      [] entry.kind = "base"  -> LET u == Unit(st, entry.unit)
                                 IN  [st EXCEPT !.list = u.list, !.params = u.params, !.sets = <<u.set>>]
      [] entry.kind \in {"cube", "rollup"} ->
            LET made_ == Units(st, entry.units)
            IN  IF entry.units = <<>> \/ (entry.kind = "cube" /\ CubeTooLarge(entry.units)) THEN [st EXCEPT !.refused = TRUE]
                ELSE [made_ EXCEPT !.sets = IF entry.kind = "cube" THEN CubeSets(@) ELSE RollupSets(@)]
      [] entry.kind = "sets"  ->
            FoldLeft(LAMBDA acc, e : LET one == Entry(State(acc.list, acc.params), e)
                                     IN  [one EXCEPT !.sets = acc.sets \o @, !.refused = @ \/ acc.refused],
                     st, entry.entries)

-----------------------------------------------------------------------------
Init ==
    /\ entries \in UNION {[1..n -> Entries] : n \in 0..MaxEntries}
    /\ made = 0 /\ list = <<>> /\ params = 0 /\ sets = << {} >> /\ stage = "peek"

Done(s) == stage' = s /\ UNCHANGED <<entries, made, list, params, sets>>

\* GROUP BY ALL, and peekBareStar: the only entry is transformed to see
\* whether it is a star, and transformed again if it is not.
Peek ==
    /\ stage = "peek"
    /\ IF entries = <<>> THEN Done("all")
       ELSE IF Len(entries) = 1 /\ entries[1].kind = "base"
       THEN IF entries[1].unit = <<Star>> THEN Done("all")
            ELSE /\ params' = Unit(Current, entries[1].unit).params /\ stage' = "entries"
                 /\ UNCHANGED <<entries, made, list, sets>>
       ELSE Done("entries")

\* The sets of the entries so far, each with each of the next.
Product(s, t) == [k \in 1..Len(s) * Len(t) |-> s[((k - 1) \div Len(t)) + 1] \cup t[((k - 1) % Len(t)) + 1]]

\* The next entry.
Group ==
    /\ stage = "entries" /\ made < Len(entries)
    /\ LET next == Entry(Current, entries[made + 1])
       IN  IF next.refused \/ Len(sets) * Len(next.sets) > MaxSets
           THEN stage' = "refused" /\ UNCHANGED <<made, list, params, sets>>
           ELSE /\ list' = next.list /\ params' = next.params /\ sets' = Product(sets, next.sets)
                /\ made' = made + 1 /\ UNCHANGED stage
    /\ UNCHANGED entries

Finish == stage = "entries" /\ made = Len(entries) /\ Done("done")

Next == Peek \/ Group \/ Finish
Spec == Init /\ [][Next]_vars

-----------------------------------------------------------------------------
(* Correctness. *)
\* Reference definition: an entry stands for a set of sets of names, a
\* clause for all the ways to unite one of each. Without parameters.
NamesUpTo(units, n) == UNION {ToSet(units[k]) : k \in 1..n}
RECURSIVE Meaning(_)
Meaning(entry) ==
    CASE entry.kind = "empty"  -> {{}}
      [] entry.kind = "base"   -> {ToSet(entry.unit)}
      [] entry.kind = "rollup" -> {NamesUpTo(entry.units, n) : n \in 0..Len(entry.units)}
      [] entry.kind = "cube"   -> {UNION {ToSet(entry.units[k]) : k \in s} : s \in SUBSET (1..Len(entry.units))}
      [] OTHER                 -> UNION {Meaning(entry.entries[k]) : k \in 1..Len(entry.entries)}

RECURSIVE Count(_)
Count(entry) ==
    CASE entry.kind \in {"empty", "base"} -> 1
      [] entry.kind = "rollup" -> Len(entry.units) + 1
      [] entry.kind = "cube"   -> 2 ^ Len(entry.units)
      [] OTHER                 -> FoldLeft(LAMBDA n, e : n + Count(e), 0, entry.entries)

RECURSIVE Expressions(_)
Expressions(entry) ==
    CASE entry.kind = "empty" -> <<>>
      [] entry.kind = "base"  -> entry.unit
      [] entry.kind = "sets"  -> FlattenSeq([k \in 1..Len(entry.entries) |-> Expressions(entry.entries[k])])
      [] OTHER                -> FlattenSeq(entry.units)

RECURSIVE EmptyUnits(_)
EmptyUnits(entry) ==
    \/ entry.kind \in {"cube", "rollup"} /\ entry.units = <<>>
    \/ entry.kind = "sets" /\ \E k \in 1..Len(entry.entries) : EmptyUnits(entry.entries[k])

Written == FlattenSeq([k \in 1..made |-> Expressions(entries[k])])
Parameters(s) == Cardinality({k \in 1..Len(s) : s[k] = Param})
NamesOf(set) == {list[k][1] : k \in set}
Total == FoldLeft(LAMBDA n, e : n * Count(e), 1, SubSeq(entries, 1, made))

-----------------------------------------------------------------------------
\* The type invariant; every grouping set is over the group list.
TypeOK ==
    /\ stage \in {"peek", "entries", "done", "all", "refused"} /\ made \in 0..Len(entries)
    /\ \A k \in 1..Len(sets) : sets[k] \subseteq 1..Len(list)

\* The group list has every expression written, once and in the order of
\* first use; parameters are told apart by their numbers, and each is a
\* group of its own.
GroupsOnceInOrder ==
    /\ IsInjective(list)
    /\ {list[k][1] : k \in 1..Len(list)} = ToSet(Written)
    /\ Cardinality({k \in 1..Len(list) : list[k][1] = Param}) = Parameters(Written)
    /\ \A j, k \in 1..Len(list) : j < k /\ list[j][1] = Param /\ list[k][1] = Param => list[j][2] < list[k][2]

\* The grouping sets are the ways to unite one set of each entry, none is
\* lost and none is added.
SetsMultipliedOut ==
    stage \in {"entries", "done"} =>
        /\ {NamesOf(sets[k]) : k \in 1..Len(sets)}
           = {UNION {f[k] : k \in 1..made} :
                f \in {g \in [1..made -> UNION {Meaning(entries[k]) : k \in 1..made}] :
                         \A k \in 1..made : g[k] \in Meaning(entries[k])}}
        /\ Len(sets) = Total

\* There are never more grouping sets than the limit, and a clause is
\* refused for that or for a CUBE or ROLLUP of nothing only.
LimitExact ==
    /\ Len(sets) <= MaxSets
    /\ stage = "refused" =>
         EmptyUnits(entries[made + 1]) \/ Total * Count(entries[made + 1]) > MaxSets

\* A clause is ALL exactly if it is written so or as one bare star; it then
\* has no groups and no parameters.
AllIsAlone ==
    stage = "all" => list = <<>> /\ params = 0 /\ (entries = <<>> \/ entries = <<[kind |-> "base", unit |-> <<Star>>]>>)

=============================================================================
