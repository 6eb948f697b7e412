----------------------------- MODULE TreeCompare -----------------------------
(***************************************************************************)
(* The serialized tree of a statement and its comparison with the one the  *)
(* oracle wrote (internal/serialize: Script's values, Equal, Normalize,    *)
(* FirstDiff).                                                             *)
(*                                                                         *)
(* A document is a number, a string, an object or an array. Strings are    *)
(* numbered in their order, the keys of objects are in KeyOrder. A number  *)
(* is a whole one, or "Infinity", "-Infinity" or "NaN"; whole ones are     *)
(* exact as float64 up to Exact and every second one is from there to      *)
(* twice that, which is as far as instances go.                            *)
(***************************************************************************)
EXTENDS SequencesExt, Naturals

CONSTANTS Cases,    \* pairs of the oracle's document and the statement's
          KeyOrder, \* the keys, sorted
          Exact     \* a multiple of 4

VARIABLES want, got,
          stage,  \* "script", "equal", "diff" or "done"; or what failed
          equal,
          diff    \* the path reported; only read when not equal
vars == <<want, got, stage, equal, diff>>

Num(n)    == [t |-> "num", num |-> n]
NotFinite(name) == [t |-> "notfinite", name |-> name]
Str(s)    == [t |-> "str", str |-> s]
Arr(list) == [t |-> "arr", list |-> list]
Obj(f)    == [t |-> "obj", fields |-> f]
Keys(o)   == DOMAIN o.fields

\* All documents within one.
RECURSIVE Within(_)
Within(d) ==
    {d} \cup CASE d.t = "arr" -> UNION {Within(d.list[k]) : k \in 1..Len(d.list)}
               [] d.t = "obj" -> UNION {Within(d.fields[k]) : k \in Keys(d)}
               [] OTHER       -> {}
Valid(d) == \A x \in Within(d) : x.t # "notfinite"

-----------------------------------------------------------------------------
(* Reading and normalizing. *)

\* A number as json.Unmarshal gives it to an any: the nearest float64, of
\* two as near the even one.
Float(n) == IF n <= Exact \/ n % 2 = 0 THEN n ELSE IF (n + 1) % 4 = 0 THEN n + 1 ELSE n - 1

RECURSIVE Unmarshalled(_)
Unmarshalled(d) ==
    CASE d.t = "num" -> Num(Float(d.num))
      [] d.t = "arr" -> Arr([k \in 1..Len(d.list) |-> Unmarshalled(d.list[k])])
      [] d.t = "obj" -> Obj([k \in Keys(d) |-> Unmarshalled(d.fields[k])])
      [] OTHER       -> d

\* What the elements of an unordered list are sorted by; entries of a
\* qualified list are rendered, the column before its table. Strings are
\* numbered below 10, 0 for the empty one.
StringOf(d) == IF d.t = "str" THEN d.str ELSE 0
SortKey(key, d) ==
    CASE key = "exclude_list" -> StringOf(d)
      [] key = "named_param_map" -> IF d.t = "obj" /\ "key" \in Keys(d) THEN StringOf(d.fields["key"]) ELSE 0
      [] key = "qualified_exclude_list" -> 10 * StringOf(d.fields["column"]) + StringOf(d.fields["table"])

Unordered == {"named_param_map", "exclude_list", "qualified_exclude_list"}

Sorted(key, d) ==
    IF key \notin Unordered \/ d.t # "arr" THEN d
    ELSE LET Before(i, j) == \/ SortKey(key, d.list[i]) < SortKey(key, d.list[j])
                             \/ SortKey(key, d.list[i]) = SortKey(key, d.list[j]) /\ i < j
             order == SetToSortSeq(1..Len(d.list), Before)
         IN  Arr([k \in 1..Len(d.list) |-> d.list[order[k]]])

RECURSIVE Normalized(_)
Normalized(d) ==
    CASE d.t = "arr" -> Arr([k \in 1..Len(d.list) |-> Normalized(d.list[k])])
      [] d.t = "obj" -> Obj([k \in Keys(d) |-> Normalized(Sorted(k, d.fields[k]))])
      [] OTHER       -> d

\* What is compared.
Read(d) == Normalized(Unmarshalled(d))

-----------------------------------------------------------------------------
(* The first difference: the paths that may be reported, none if equal. *)

KeyAt(k) == [key |-> k, index |-> 0]
IndexAt(i) == [key |-> "", index |-> i]
Below(step, paths) == {<<step>> \o p : p \in paths}

\* In the order of a Go map.
Extra(w, g) == {<<KeyAt(k)>> : k \in Keys(g) \ Keys(w)}

\* Mutant: the walk goes on after a difference.
KeepLast(found, paths) == IF paths # {} THEN paths ELSE found

\* The walk returns at the first difference.
Keep(found, paths) == IF found # {} THEN found ELSE paths

RECURSIVE FirstDiff(_, _)
FirstDiff(w, g) ==
    CASE w.t = "obj" ->
            IF g.t # "obj" THEN {<<>>}
            ELSE LET keys == SelectSeq(KeyOrder, LAMBDA k : k \in Keys(w))
                     Visit(found, k) ==
                        Keep(found, IF k \notin Keys(g) THEN {<<KeyAt(k)>>}
                                    ELSE Below(KeyAt(k), FirstDiff(w.fields[k], g.fields[k])))
                     inWant == FoldLeft(Visit, {}, keys)
                 IN  IF inWant # {} THEN inWant ELSE Extra(w, g)
      [] w.t = "arr" ->
            IF g.t # "arr" \/ Len(w.list) # Len(g.list) THEN {<<>>}
            ELSE LET Visit(found, i) == Keep(found, Below(IndexAt(i), FirstDiff(w.list[i], g.list[i])))
                 IN  FoldLeft(Visit, {}, [i \in 1..Len(w.list) |-> i])
      [] OTHER -> IF w = g THEN {} ELSE {<<>>}

-----------------------------------------------------------------------------
Init ==
    /\ \E c \in Cases : want = c[1] /\ got = c[2]
    /\ stage = "script" /\ equal = FALSE /\ diff = <<>>

\* Script: json.Marshal checks what a RawMessage holds, and Infinity and
\* NaN are no JSON.
Script ==
    /\ stage = "script"
    /\ stage' = IF Valid(got) THEN "equal" ELSE "serialize failed"
    /\ UNCHANGED <<want, got, equal, diff>>

\* Equal: both are read and normalized.
Equal ==
    /\ stage = "equal"
    /\ IF Valid(want)
       THEN /\ equal' = (Read(want) = Read(got))
            /\ stage' = IF equal' THEN "done" ELSE "diff"
       ELSE stage' = "parsing failed" /\ UNCHANGED equal
    /\ UNCHANGED <<want, got, diff>>

\* Its report.
Report ==
    /\ stage = "diff"
    /\ \E p \in FirstDiff(Read(want), Read(got)) : diff' = p
    /\ stage' = "done"
    /\ UNCHANGED <<want, got, equal>>

Next == Script \/ Equal \/ Report
Spec == Init /\ [][Next]_vars

-----------------------------------------------------------------------------
(* Correctness. *)
\* Reference definition: the same up to the order of the unordered lists,
\* and to what float64 cannot tell apart if that is allowed: odd numbers
\* above Exact from those next to them.
HashContainers == {"named_param_map", "exclude_list", "qualified_exclude_list"}
Near(m, n) == m >= Exact /\ n >= Exact /\ (m - n) \in {-2, -1, 0, 1, 2} /\ (m = n \/ m % 2 = 1 \/ n % 2 = 1)

RECURSIVE Same(_, _, _)
SameLists(a, b, ordered, rounded) ==
    /\ Len(a) = Len(b)
    /\ \E pi \in [1..Len(a) -> 1..Len(a)] :
          /\ IsInjective(pi) /\ (ordered => \A k \in 1..Len(a) : pi[k] = k)
          /\ \A k \in 1..Len(a) : Same(a[k], b[pi[k]], rounded)
Same(a, b, rounded) ==
    /\ a.t = b.t
    /\ CASE a.t = "arr" -> SameLists(a.list, b.list, TRUE, rounded)
         [] a.t = "obj" ->
               /\ Keys(a) = Keys(b)
               /\ \A k \in Keys(a) :
                     IF k \in HashContainers /\ a.fields[k].t = "arr" /\ b.fields[k].t = "arr"
                     THEN SameLists(a.fields[k].list, b.fields[k].list, FALSE, rounded)
                     ELSE Same(a.fields[k], b.fields[k], rounded)
         [] a.t = "num" -> a = b \/ (rounded /\ Near(a.num, b.num))
         [] OTHER -> a = b

\* Where a path leads; absent if it leaves the document.
Absent == [t |-> "absent"]
Step(d, step) ==
    IF step.key # "" THEN IF d.t = "obj" /\ step.key \in Keys(d) THEN d.fields[step.key] ELSE Absent
    ELSE IF d.t = "arr" /\ step.index \in 1..Len(d.list) THEN d.list[step.index] ELSE Absent
At(d, path) == FoldLeft(Step, d, path)

\* The type invariant; a difference is only looked for in, and reported of,
\* an unequal pair.
TypeOK ==
    /\ stage \in {"script", "equal", "diff", "done", "serialize failed", "parsing failed"}
    /\ equal \in BOOLEAN
    /\ (stage = "diff" => ~equal) /\ (diff # <<>> => ~equal /\ stage = "done")

\* Two documents that are the same up to the order of the lists upstream
\* writes from unordered containers, at any depth, are equal; and equal ones
\* are the same up to that and to numbers float64 cannot tell apart, exactly
\* the same if no number is above Exact.
Large(d) == \E x \in Within(d) : x.t = "num" /\ x.num > Exact
EqualUpToOrder ==
    stage \in {"diff", "done"} =>
        /\ Same(want, got, FALSE) => equal
        /\ equal => Same(want, got, TRUE)
        /\ equal /\ ~Large(want) /\ ~Large(got) => Same(want, got, FALSE)

\* A pair is compared exactly if neither has an Infinity or NaN: the
\* statement's own is found when it is serialized, the oracle's when read.
NotFiniteRefused ==
    stage \notin {"script", "equal"} =>
        /\ stage = "serialize failed" <=> ~Valid(got)
        /\ stage = "parsing failed" <=> Valid(got) /\ ~Valid(want)

\* The path reported leads to a difference, and to the first: on every level
\* of it, whatever comes before the step taken is the same, the elements of
\* lower index, the keys of lower name, and all of the oracle's keys before
\* one it does not have.
Agree(w, g, k) == k \in Keys(g) /\ w.fields[k] = g.fields[k]
Earlier(w, key) ==
    IF key \notin Keys(w) THEN Keys(w)
    ELSE {KeyOrder[i] : i \in {j \in 1..Len(KeyOrder) : \E n \in (j + 1)..Len(KeyOrder) : KeyOrder[n] = key}} \cap Keys(w)
DiffIsFirst ==
    stage = "done" /\ ~equal =>
        LET wants == Read(want)
            gots  == Read(got)
            w == At(wants, diff)
            g == At(gots, diff)
        IN  /\ w # g
            /\ w.t = "obj" => g.t # "obj"
            /\ w.t = "arr" => g.t # "arr" \/ Len(w.list) # Len(g.list)
            /\ \A n \in 1..Len(diff) :
                  LET up == SubSeq(diff, 1, n - 1)
                      x  == At(wants, up)
                      y  == At(gots, up)
                  IN  IF diff[n].key = "" THEN \A i \in 1..(diff[n].index - 1) : x.list[i] = y.list[i]
                      ELSE \A k \in Earlier(x, diff[n].key) : Agree(x, y, k)

\* Every difference is reported: what is unequal has one.
AlwaysADiff == stage = "diff" => FirstDiff(Read(want), Read(got)) # {}
=============================================================================
