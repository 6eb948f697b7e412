------------------------------ MODULE MCQueries ------------------------------
(***************************************************************************)
(* The transformers of whole queries, and the check and the extents of     *)
(* their text, on bounded inputs, one component in a behaviour: set        *)
(* operations with WITH clauses, GROUP BY, sequence options, UTF-8         *)
(* validation and locations.  task says which, in the first cells.         *)
(***************************************************************************)
EXTENDS SequenceOptions, Integers, SequencesExt, FiniteSets

-----------------------------------------------------------------------------
(* Chains of up to three operands, each a SELECT or a query in parentheses *)
(* over one or two of them, with modifiers; and WITH clauses of up to two  *)
(* entries.                                                                *)
NoWith == [recursive |-> FALSE, entries |-> <<>>]
Atom(p) == [kind |-> "place", place |-> p]
Clause(type, all, byName) == [type |-> type, all |-> all, byName |-> byName]
Union     == Clause("UNION", FALSE, FALSE)
UnionAll  == Clause("UNION", TRUE, FALSE)
ByName    == Clause("UNION", FALSE, TRUE)
Except    == Clause("EXCEPT", FALSE, FALSE)
Intersect == Clause("INTERSECT", FALSE, FALSE)
Paren(with, first, tails, mods) == [kind |-> "query", with |-> with, first |-> first, tails |-> tails, mods |-> mods]
Chain(a) == [atom |-> a, tails |-> <<>>]

\* The tree of atoms with operators between them: INTERSECT binds tighter.
Parsed(atoms, ops, with, mods) ==
    LET Take(acc, k) ==
            IF ops[k].type # "INTERSECT" THEN Append(acc, [clause |-> ops[k], chain |-> Chain(atoms[k + 1])])
            ELSE [acc EXCEPT ![Len(acc)].chain.tails = Append(@, [all |-> ops[k].all, atom |-> atoms[k + 1]])]
        chains == FoldLeft(Take, <<[clause |-> Union, chain |-> Chain(atoms[1])]>>, [k \in 1..Len(ops) |-> k])
    IN  Paren(with, chains[1].chain, Tail(chains), mods)

A == [text |-> "a", lower |-> "a"]
CapitalA == [text |-> "A", lower |-> "a"]
B == [text |-> "b", lower |-> "b"]
One(p, mods)     == Parsed(<<Atom(p)>>, <<>>, NoWith, mods)
Two(p, op, mods) == Parsed(<<Atom(p), Atom(p + 1)>>, <<op>>, NoWith, mods)
Entry(name, body) == [name |-> name, body |-> body]
With1(entry) == [recursive |-> FALSE, entries |-> <<entry>>]

\* An operand that starts at place p; it takes two places.
Operands(p) ==
    {Atom(p), One(p, <<"limit">>), Two(p, Union, <<>>), Two(p, UnionAll, <<>>), Two(p, ByName, <<>>),
     Two(p, Union, <<"order", "percent">>), Two(p, Except, <<>>), Two(p, Intersect, <<>>),
     Parsed(<<Atom(p), Atom(p + 1)>>, <<Union>>, With1(Entry(A, One(0, <<>>))), <<>>)}
ModsOf == {<<>>, <<"order">>, <<"limit">>, <<"percent">>}

Chains ==
    {Parsed(<<a>>, <<>>, w, m) : a \in Operands(1), m \in ModsOf, w \in {NoWith, With1(Entry(B, One(0, <<>>)))}}
    \cup {Parsed(<<a, b>>, <<o>>, w, m) :
            a \in Operands(1), b \in Operands(3), m \in ModsOf, w \in {NoWith, With1(Entry(B, One(0, <<>>)))},
            o \in [type : {"UNION", "EXCEPT"}, all : BOOLEAN, byName : BOOLEAN] \cup {Intersect}}
    \cup {Parsed(<<a, b, c>>, <<o1, o2>>, NoWith, <<>>) :
            a \in Operands(1), b \in {Atom(3), Two(3, Union, <<>>)}, c \in {Atom(5), One(5, <<"limit">>), Two(5, Union, <<>>)}, o1, o2 \in {Union, UnionAll, ByName, Except, Intersect}}

Bodies ==
    {[kind |-> "dml", dml |-> d, place |-> 1, with |-> w] :
        d \in {"INSERT", "UPDATE", "DELETE", "TRUNCATE", "COPY TO", "COPY FROM", "CREATE"}, w \in {<<>>, <<A>>}}
    \cup {One(1, <<>>), Two(1, Union, <<>>), Two(1, Except, <<"limit">>), Two(1, Clause("EXCEPT", FALSE, TRUE), <<>>),
          Parsed(<<Atom(1), Two(2, Union, <<>>)>>, <<Union>>, NoWith, <<>>)}
    \cup {Parsed(<<a, Atom(3), Atom(4)>>, <<o, Union>>, w, m) :
            a \in {Atom(1), Two(1, Union, <<>>)}, o \in {Union, UnionAll, Intersect},
            w \in {NoWith, With1(Entry(A, One(0, <<>>)))}, m \in ModsOf \cup {<<"order", "percent">>}}
Withs ==
    {Paren([recursive |-> r, entries |-> <<Entry(A, b)>>], Chain(Atom(9)), <<>>, <<>>) : r \in BOOLEAN, b \in Bodies}
    \cup {Paren([recursive |-> r, entries |-> <<Entry(A, One(0, <<>>)), Entry(n, b)>>], Chain(Atom(9)), <<>>, <<>>) :
            r \in BOOLEAN, n \in {A, CapitalA, B}, b \in {One(1, <<>>), Two(1, Union, <<>>), Two(1, UnionAll, <<"percent">>)}}

Queries == Chains \cup Withs

-----------------------------------------------------------------------------
(* GROUP BY entries over two names, parameters and the star.               *)
Unit(unit) == [kind |-> "base", unit |-> unit]
Units == {<<"a">>, <<"b">>, <<"a", "b">>}
UnitLists == UNION {[1..n -> Units] : n \in 1..2} \cup {<<>>, <<<<"?">>, <<"a">>>>, <<<<"a">>, <<"b">>, <<"c">>>>}
EmptyEntry == [kind |-> "empty"]
Entries ==
    {EmptyEntry, Unit(<<"a">>), Unit(<<"b", "a">>), Unit(<<"?">>), Unit(<<"a", "?", "?">>), Unit(<<"*">>)}
    \cup [kind : {"cube", "rollup"}, units : UnitLists]
    \cup [kind : {"sets"},
          entries : {<<Unit(<<"b">>), EmptyEntry>>,
                     <<[kind |-> "cube", units |-> <<<<"b">>, <<"a">>>>], Unit(<<"c">>)>>,
                     <<[kind |-> "sets", entries |-> <<Unit(<<"a">>), [kind |-> "rollup", units |-> <<<<"b">>>>]>>], EmptyEntry>>,
                     <<[kind |-> "rollup", units |-> <<<<"b">>, <<"a">>>>], [kind |-> "cube", units |-> <<<<"c">>, <<"b">>>>], EmptyEntry>>}]

-----------------------------------------------------------------------------
(* Sequence options with values at both ends of a small int64 and every    *)
(* other kind of value.                                                    *)
MCMinInt == -2
MCMaxInt == 2
Opt(key, kind) == [key |-> key, value |-> [kind |-> kind]]
OptInt(key, v) == [key |-> key, value |-> [kind |-> "int64", v |-> v]]
MCOptions ==
    {Opt(key, "none") : key \in {"cycle", "nominvalue", "nomaxvalue", "owned"}}
    \cup {Opt("increment", kind) : kind \in {"huge", "wide", "decimal", "null", "expression"}}
    \cup {Opt("start", kind) : kind \in {"huge", "null"}} \cup {Opt("minvalue", "wide")}
    \cup {OptInt("increment", v) : v \in {-1, 0, 1}}
    \cup {OptInt("minvalue", v) : v \in {MCMinInt, 1}}
    \cup {OptInt("maxvalue", v) : v \in {-1, 1, MCMaxInt}}
    \cup {OptInt("start", v) : v \in {MCMinInt, 0, MCMaxInt}}

-----------------------------------------------------------------------------
(* Texts of up to four bytes: letters, line breaks, continuations, and     *)
(* first bytes at every boundary between lengths and of code points.       *)
\* A, \n; 80, 8F, 90, 9F, A0, BF; C0, DF, E0, ED, EF, F0, F4, F7, F8, FF.
Bytes  == {65, 10, 128, 143, 144, 159, 160, 191, 192, 223, 224, 237, 239, 240, 244, 247, 248, 255}
Few    == {10, 128, 143, 191, 224, 244}
UpTo(S, n) == UNION {[1..k -> S] : k \in 0..n}
Openings == {<<65, 10>>, <<10, 10, 65>>, <<239, 191, 191, 10>>}
Texts ==
    UpTo(Bytes, 3) \cup UpTo(Few, 4)
    \cup {<<b, c, d, e>> : b \in {240, 244, 247, 248}, c, d, e \in {128, 143, 144, 191}}
    \cup {p \o s : p \in Openings, s \in UpTo(Few, 3)}

-----------------------------------------------------------------------------
(* Three tokens and the end of input, next to each other or apart; and an  *)
(* operator after a bare dollar, which is recorded where the dollar is.    *)
Token(start, len) == [start |-> start, len |-> len]
Apart ==
    {<<Token(a, 1), Token(a + 1 + g, l), Token(a + 1 + g + l + h, 1), Token(e, 0)>> :
        a \in 0..1, g \in 0..1, l \in 1..2, h \in {0, 2}, e \in {7, 8}}
AfterDollar ==
    {<<Token(0, 1), Token(0, 1), Token(2, 1), Token(4, 0)>>,
     <<Token(0, 1), Token(1, 1), Token(1, 2), Token(3, 0)>>}
Scripts == Apart \cup AfterDollar

-----------------------------------------------------------------------------
VARIABLES task, c1, c2, c3, c4, c5, c6

S == INSTANCE SetOperations WITH query <- c1, ctes <- c2, node <- c3, made <- c4, stage <- c5
G == INSTANCE GroupBy WITH MaxEntries <- 3, MaxSets <- 7,
                           entries <- c1, made <- c2, list <- c3, params <- c4, sets <- c5, stage <- c6
U == INSTANCE Utf8 WITH Queries <- Texts, src <- c1, i <- c2, reason <- c3, error <- c4
L == INSTANCE Locations WITH MaxResults <- 6, tokens <- c1, pos <- c2, stack <- c3, made <- c4

Unused == "unused"

\* No sequence is being read.
IdleSequence ==
    /\ statement = "create" /\ options = <<>> /\ evaluated = 0 /\ seq = [key \in {} |-> 0]
    /\ evalOK = TRUE /\ phase = "options" /\ why = "none"
Cells == <<c1, c2, c3, c4, c5, c6>>

Init ==
    \/ task = "set operation" /\ S!Init /\ c6 = Unused /\ IdleSequence
    \/ task = "group by"      /\ G!Init /\ IdleSequence
    \/ task = "sequence"      /\ InitSequence /\ c1 = Unused /\ c2 = Unused /\ c3 = Unused
                              /\ c4 = Unused /\ c5 = Unused /\ c6 = Unused
    \/ task = "utf8"          /\ U!Init /\ c5 = Unused /\ c6 = Unused /\ IdleSequence
    \/ task = "location"      /\ L!Init /\ c5 = Unused /\ c6 = Unused /\ IdleSequence

SetOperation   == task = "set operation" /\ S!Next /\ UNCHANGED <<task, c6, sequenceVars>>
GroupBy        == task = "group by" /\ G!Next /\ UNCHANGED <<task, sequenceVars>>
SequenceOption == task = "sequence" /\ NextSequence /\ UNCHANGED <<task, Cells>>
Validate       == task = "utf8" /\ U!Next /\ UNCHANGED <<task, c5, c6, sequenceVars>>
Locate         == task = "location" /\ L!Next /\ UNCHANGED <<task, c5, c6, sequenceVars>>

Next == SetOperation \/ GroupBy \/ SequenceOption \/ Validate \/ Locate
Spec == Init /\ [][Next]_<<task, Cells, sequenceVars>>

-----------------------------------------------------------------------------
(* Properties. *)

\* buildSetOp and transformWithClause: however chains of UNIONs are joined
\* into one node, and taken apart again for a recursive CTE, a query means
\* what its operators, modifiers and WITH clauses say; and it is refused
\* exactly for what has no meaning.
SetOperationsKeepMeaning ==
    task = "set operation" => /\ S!TypeOK /\ S!AssociatesLeft /\ S!FullyJoined /\ S!ExtentsGrow
                              /\ S!RecursiveSplits /\ S!RefusedExactly

\* transformGroupBy: the group list has every expression once, in order, and
\* the grouping sets are exactly the products of what the entries stand
\* for, never more than the limit, which alone refuses a clause.
GroupingSetsMultiplyOut ==
    task = "group by" => /\ G!TypeOK /\ G!GroupsOnceInOrder /\ G!SetsMultipliedOut /\ G!LimitExact
                         /\ G!AllIsAlone

\* validateUTF8: a query passes exactly if it is a sequence of written code
\* points, the two errors are told apart, and errorAt's line and column
\* lead back to the byte.
TextIsCodePoints ==
    task = "utf8" => U!TypeOK /\ U!PassesText /\ U!ReasonsApart /\ U!PositionFindsByte

\* encloseChild: though a node's offset never moves, it encloses its
\* children, and ends with the texts it consumed or where the next begins.
ExtentsEnclose == task = "location" => L!TypeOK /\ L!EnclosesChildren /\ L!EndsAtTextOrNext
=============================================================================
