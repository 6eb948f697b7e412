------------------------------- MODULE MCTools -------------------------------
(***************************************************************************)
(* The tools around the parser, one in a behaviour: the corpus files and   *)
(* the upstream tests they are made from, the comparison of trees, the     *)
(* oracle, the regeneration of the corpus and the differential tester.     *)
(* task says which.  The corpus files, the tests and the trees share cells; *)
(* the others have their own variables, which the rest leave at a start.   *)
(***************************************************************************)
EXTENDS Difftest, Oracle, Regenerate

CONSTANT MaxLines      \* bound: the lines of a corpus file nobody wrote

VARIABLES task, c1, c2, c3, c4, c5, c6, c7, c8, c9, c10
from7 == <<c7, c8, c9, c10>>
from1 == <<c1, c2, c3, c4, c5, c6, from7>>
cells == <<task, from1, oracleVars, regenerateVars, vars>>

-----------------------------------------------------------------------------
(* Corpus files: those Write makes of statements that can be stored, with  *)
(* carriage returns or without, some of these cut short at any line or     *)
(* within one, and any few lines.                                          *)
Seqs(S, n) == UNION {[1..k -> S] : k \in 0..n}

Comment   == {"# x"}
ErrorLine == {"error: e", "error: "}
Lines     == {"text", "# x", "", "==", "--", "ok"}
WithReturn  == {"text\r", "--\r", "\r"}
Chomp(l)  == CASE l = "text\r" -> "text" [] l = "--\r" -> "--" [] l = "\r" -> "" [] OTHER -> l

CaseOf(s) == {[sql |-> s, verdict |-> v] : v \in {"ok", "error: e"}}

W == INSTANCE CorpusFile WITH Contents <- {},
                              ErrorLines <- ErrorLine, Comments <- Comment, Chomped <- Chomp,
                              content <- c1, at <- c2, headerDone <- c3, header <- c4, cases <- c5, sql <- c6,
                              expectation <- c7, inExpectation <- c8, sawContent <- c9, result <- c10

Statements == {s \in Seqs(Lines, 3) \cup Seqs(Lines \cup WithReturn, 2) : W!CanStore(s)}
Paired     == {s \in Statements : Len(s) <= 2 /\ (s \in Seqs(Lines, 2) \/ s \in Seqs({"text", "--\r"}, 2))}
Written(S) ==
    {[header |-> h, cases |-> c] : h \in {<<>>, <<"# x">>}, c \in [1..1 -> UNION {CaseOf(s) : s \in S}]}
    \cup {[header |-> <<"# x">>, cases |-> c] :
             c \in [1..2 -> UNION {CaseOf(s) : s \in S \cap Paired}]}

\* A file cut short: after any of its lines, or within the last.
CutLine(l) == CASE l = "==" -> {"="} [] l = "--" -> {"-"} [] l = "ok" -> {"o"} [] l = "error: e" -> {"error: ", "error:"}
                [] OTHER -> {l}
Cuts(s) == {SubSeq(s, 1, k) : k \in 0..Len(s)}
               \cup UNION {{SubSeq(s, 1, k - 1) \o <<l>> : l \in CutLine(s[k])} : k \in 1..Len(s)}
Cutting == {f \in Written({<<"text">>, <<"text", "">>}) : Len(f.cases) = 2}

FilesWritten    == Written(Statements)
WrittenContents == {W!Write(f) : f \in FilesWritten}
FileOf          == [c \in WrittenContents |-> CHOOSE f \in FilesWritten : W!Write(f) = c]
CutContents     == UNION {Cuts(W!Write(f)) : f \in Cutting}
UncutOf         == [c \in CutContents |-> {f \in Cutting : c \in Cuts(W!Write(f))}]
CorpusContents  == WrittenContents \cup CutContents \cup Seqs({"text", "", "==", "--", "ok", "# x"}, MaxLines)

C == INSTANCE CorpusFile WITH Contents <- CorpusContents,
                              ErrorLines <- ErrorLine, Comments <- Comment, Chomped <- Chomp,
                              content <- c1, at <- c2, headerDone <- c3, header <- c4, cases <- c5, sql <- c6,
                              expectation <- c7, inExpectation <- c8, sawContent <- c9, result <- c10

-----------------------------------------------------------------------------
(* Upstream tests: files put together from records, one or two of every    *)
(* shape, and what Extract has to find in them.                            *)
T == INSTANCE SqlTest WITH content <- c1, at <- c2, mode <- c3, sql <- c4, start <- c5, statements <- c6

Line(shape)    == [kind |-> shape, template |-> FALSE, cr |-> FALSE]
Directives     == {<<Line("sql directive")>>, <<Line("other"), Line("spaces"), Line("sql directive")>>,
                   <<Line("indented comment"), Line("sql directive")>>}
SqlLines       == {Line("other"), Line("spaces"), Line("sql directive"),
                   [Line("other") EXCEPT !.template = TRUE], [Line("other") EXCEPT !.cr = TRUE]}
ResultLines    == {Line("sql directive"), Line("other"), Line("separator")}
Results        == {<<>>} \cup {<<Line("separator")>> \o r : r \in Seqs(ResultLines, 2)}
RecordEnds     == {Line("blank"), Line("comment")}

Records ==
    {[before |-> b, sql |-> s, results |-> r, end |-> e] :
        b \in Directives, s \in Seqs(SqlLines, 2), r \in Results, e \in RecordEnds}
\* A few records of every kind to put before another.
FirstRecords ==
    {r \in Records : /\ r.before = <<Line("sql directive")>> /\ r.end = Line("blank")
                     /\ r.sql \in {<<>>, <<Line("other")>>, <<Line("spaces"), Line("other")>>}
                     /\ r.results \in {<<>>, <<Line("separator"), Line("sql directive")>>}}

LastRecords == {r \in Records : Len(r.before) = 1 /\ Len(r.results) <= 2}

\* The lines of a record; the last one's end may be the end of the file.
RenderedRecord(r) == r.before \o r.sql \o r.results \o <<r.end>>
Ended(rs)   == FlattenSeq([k \in 1..Len(rs) |-> RenderedRecord(rs[k])])
ContentsOf(rs) == {Ended(rs), Front(Ended(rs))}
Scripts == {<<r>> : r \in Records} \cup {<<f, r>> : f \in FirstRecords, r \in LastRecords}

-----------------------------------------------------------------------------
(* Pairs of documents with lists of each kind, in every order, at the top  *)
(* and one level down; of several keys that differ; and of numbers that    *)
(* float64 and JSON have and have not.                                     *)
SortedKeys == <<"column", "exclude_list", "key", "named_param_map", "other", "qualified_exclude_list", "table", "value">>


V == INSTANCE TreeCompare WITH Cases <- {},
                              KeyOrder <- SortedKeys, Exact <- 8,
                               want <- c1, got <- c2, stage <- c3, equal <- c4, diff <- c5

Qualify(c, t)  == V!Obj([k \in {"column", "table"} |-> V!Str(IF k = "column" THEN c ELSE t)])
Param(k, v) == V!Obj([x \in {"key", "value"} |-> IF x = "key" THEN V!Str(k) ELSE V!Num(v)])
Only(key, d) == V!Obj([k \in {key} |-> d])
ListsOf(S, n) == {V!Arr(s) : s \in UNION {{f \in [1..m -> S] : IsInjective(f)} : m \in 0..n}}

Excluded  == ListsOf({V!Str(1), V!Str(2), V!Str(3)}, 3)
Params    == {V!Arr(<<>>), V!Arr(<<Param(1, 1)>>), V!Arr(<<Param(1, 1), Param(2, 2)>>), V!Arr(<<Param(2, 2), Param(1, 1)>>),
              V!Arr(<<Param(2, 1), Param(1, 2)>>), V!Arr(<<Param(1, 2), Param(2, 1)>>)}
Qualified == ListsOf({Qualify(1, 0), Qualify(1, 2), Qualify(2, 0)}, 2)
Ordered   == ListsOf({V!Num(1), V!Num(2)}, 2) \cup {V!Num(1), V!Str(1)}
Two(e, o) == V!Obj([k \in {"exclude_list", "other"} |-> IF k = "other" THEN o ELSE e])

Flat ==
    {Only("exclude_list", e) : e \in Excluded} \cup {Only("named_param_map", p) : p \in Params}
    \cup {Only("qualified_exclude_list", q) : q \in Qualified} \cup {Only("other", o) : o \in Ordered}
Some(n) == {V!Arr(<<>>), V!Arr(<<V!Str(1), V!Str(2)>>), V!Arr(<<V!Str(2), V!Str(1)>>), V!Arr(<<V!Str(3)>>)}
Deep ==
    {Two(e, o) : e \in Some(0), o \in {Only("exclude_list", x) : x \in Some(0)} \cup {V!Num(1), V!Num(2), V!Arr(<<V!Num(1)>>)}}
Pairs == (Flat \cup Deep) \X (Flat \cup Deep)

Holder(d) == Only("value", d)
Values == {V!Num(n) : n \in {0} \cup 7..14} \cup {V!NotFinite("Infinity"), V!NotFinite("NaN")}
Numbers == {V!Arr(<<V!Num(m), V!Num(n)>>) : m, n \in {8, 9, 11}}
\* Objects of up to three keys whose values are objects themselves.
Inner  == {Only("key", V!Num(1)), Only("key", V!Num(2)), Only("value", V!Num(1)), V!Obj([k \in {} |-> V!Num(1)])}
Keyed  == UNION {{V!Obj(f) : f \in [ks -> Inner]} : ks \in SUBSET {"column", "other", "value"}}
Documents == Pairs \cup {<<Holder(d), Holder(e)>> : d, e \in Values} \cup (Numbers \X Numbers) \cup (Keyed \X Keyed)

D == INSTANCE TreeCompare WITH Cases <- Documents,
                              KeyOrder <- SortedKeys, Exact <- 8,
                               want <- c1, got <- c2, stage <- c3, equal <- c4, diff <- c5

-----------------------------------------------------------------------------
(* Batches of up to two statements, which fail in every way.               *)
Statement == {s \in [parse : ParseResults, exec : ExecResults] : s.parse # "ok" => s.exec = "ok"}
MCBatches == {<<>>} \cup [1..1 -> Statement] \cup [1..2 -> Statement]

-----------------------------------------------------------------------------
(* The corpus over three runs, full and partial, completed and cut short,  *)
(* while upstream's tests come, go and repeat each other's statements.     *)
MCFiles  == <<"f1", "f2">>
Tree(a, b) == [f \in {"f1", "f2"} |-> IF f = "f1" THEN a ELSE b]
MCTrees  == {Tree(<<"s1">>, <<"s1", "s2">>), Tree(<<"bad", "s2", "s2">>, <<>>), Tree(<<>>, <<"s2", "bad", "s1">>)}
MCSubsets == {{"f1", "f2"}, {"f2"}}

-----------------------------------------------------------------------------
Unused == "unused"
Spare7  == c7 = Unused /\ c8 = Unused /\ c9 = Unused /\ c10 = Unused
Spare6  == c6 = Unused /\ Spare7
Spare1  == c1 = Unused /\ c2 = Unused /\ c3 = Unused /\ c4 = Unused /\ c5 = Unused /\ Spare6

\* The tools that have their own variables, not in use.
IdleDifftest   == Init /\ kind = [m \in 1..N |-> "nested"] /\ ~duration
IdleOracle     == InitOracle /\ process = "running" /\ batch = <<[parse |-> "ok", exec |-> "ok"]>>
IdleRegenerate == InitRegenerate /\ tree = Tree(<<"s1">>, <<"s1", "s2">>)

ToolsInit ==
    \/ /\ IdleDifftest /\ IdleOracle /\ IdleRegenerate
       /\ \/ task = "corpus file" /\ C!Init
          \/ /\ task = "extract" /\ c7 \in Scripts /\ \E script \in ContentsOf(c7) : T!Init(script)
             /\ c8 = Unused /\ c9 = Unused /\ c10 = Unused
          \/ task = "compare" /\ D!Init /\ Spare6
    \/ task = "oracle" /\ InitOracle /\ Spare1 /\ IdleDifftest /\ IdleRegenerate
    \/ task = "regenerate" /\ InitRegenerate /\ Spare1 /\ IdleDifftest /\ IdleOracle
    \/ task = "difftest" /\ Init /\ Spare1 /\ IdleOracle /\ IdleRegenerate

OthersRest == UNCHANGED <<vars, oracleVars, regenerateVars>>
ReadCorpus == task = "corpus file" /\ C!Next /\ UNCHANGED task /\ OthersRest
Extract    == task = "extract" /\ T!Next /\ UNCHANGED <<task, from7>> /\ OthersRest
Compare    == task = "compare" /\ D!Next /\ UNCHANGED <<task, c6, from7>> /\ OthersRest

AskOracle(step) == task = "oracle" /\ step /\ UNCHANGED <<task, from1, vars, regenerateVars>>
RegenerateCorpus(step) == task = "regenerate" /\ step /\ UNCHANGED <<task, from1, vars, oracleVars>>
TestMutants(step) == task = "difftest" /\ step /\ UNCHANGED <<task, from1, oracleVars, regenerateVars>>

ToolsNext == \/ ReadCorpus \/ Extract \/ Compare
             \/ AskOracle(NextOracle) \/ RegenerateCorpus(NextRegenerate) \/ TestMutants(Next)

\* Oracle.Run's deadline passes and Run goes on; nothing is assumed of the
\* command line.  The differential tester's generator and workers go on, the
\* oracle answering them, time runs out, and its mutex is handed on fairly.
OracleGoesOn == WF_cells(AskOracle(Deadline)) /\ WF_cells(AskOracle(Return))
DifftestGoesOn ==
    /\ WF_cells(TestMutants(Generate)) /\ WF_cells(TestMutants(Close)) /\ WF_cells(TestMutants(Report))
    /\ \A w \in Workers : /\ WF_cells(TestMutants(Receive(w) \/ WorkerDone(w)))
                          /\ WF_cells(TestMutants(Ask(w))) /\ WF_cells(TestMutants(Skip(w)))
                          /\ SF_cells(TestMutants(Lock(w)))
                          /\ WF_cells(TestMutants(Store(w))) /\ WF_cells(TestMutants(Unlock(w)))

ToolsSpec == ToolsInit /\ [][ToolsNext]_cells /\ OracleGoesOn /\ DifftestGoesOn

-----------------------------------------------------------------------------
(* Properties. *)

\* A file of statements that can be stored is read back as it was written
\* exactly if none of their lines ends in a carriage return; these returns
\* are all that is lost, as long as the statements can be stored without.
ChompedAll(lines) == [k \in 1..Len(lines) |-> Chomp(lines[k])]
RoundTrip ==
    c10 # "reading" /\ c1 \in WrittenContents =>
        LET f    == FileOf[c1]
            kept == [k \in 1..Len(f.cases) |-> [f.cases[k] EXCEPT !.sql = ChompedAll(@)]]
        IN  /\ C!Finished /\ f = [header |-> c4, cases |-> c5] <=>
                  \A k \in 1..Len(f.cases) : ToSet(f.cases[k].sql) \cap WithReturn = {}
            /\ (\A k \in 1..Len(kept) : C!CanStore(kept[k].sql)) =>
                  C!Finished /\ c4 = f.header /\ c5 = kept

\* A file cut short, by a write that was interrupted, is refused exactly if
\* it ends within a case, before its verdict is one.  A cut between two
\* cases or in a last separator goes unnoticed: the cases up to there are
\* read as they were, with the verdict the cut has left of the last.
FirstLine(f, k)   == Len(W!Write([f EXCEPT !.cases = SubSeq(@, 1, k - 1)])) + 1
VerdictLine(f, k) == FirstLine(f, k) + Len(f.cases[k].sql) + 1
CutsAreRead ==
    c10 # "reading" /\ c1 \in CutContents =>
        \A f \in UncutOf[c1] :
            LET begun == {k \in 1..Len(f.cases) : FirstLine(f, k) <= Len(c1)}
                Whole(k) == /\ VerdictLine(f, k) <= Len(c1)
                            /\ c1[VerdictLine(f, k)] \in {"ok", "error: ", "error: e"}
            IN  IF \E k \in begun : ~Whole(k) THEN c10 = "error"
                ELSE /\ C!Finished
                     /\ c5 = [k \in begun |-> [sql |-> f.cases[k].sql, verdict |-> c1[VerdictLine(f, k)]]]

\* What a file's records hold: each one's SQL where it stands.
Before(rs, k) == Len(FlattenSeq([j \in 1..(k - 1) |-> RenderedRecord(rs[j])])) + Len(rs[k].before)
IsStatement(r) == r.sql # <<>> /\ \A k \in 1..Len(r.sql) : ~r.sql[k].template
Expected(rs) ==
    LET kept == SelectSeq([k \in 1..Len(rs) |-> <<k, rs[k]>>], LAMBDA p : IsStatement(p[2]))
    IN  [j \in 1..Len(kept) |-> [sql  |-> [i \in 1..Len(kept[j][2].sql) |-> T!WithoutCr(kept[j][2].sql[i])],
                                 line |-> Before(rs, kept[j][1]) + 1]]

\* Every record's SQL is found, whole and at its line, whatever results and
\* directives stand around it; nothing in the results is taken for SQL.
ExtractsRecords == c3 = "done" => c6 = Expected(c7)

\* testfile.Read and sqltest.Extract: what was written is read back but for
\* carriage returns, a file cut short is refused or read as far as it has
\* verdicts, and every statement of a test is found, whole and at its line.
FilesReadBack ==
    /\ task = "corpus file" => C!TypeOK /\ C!NothingDropped /\ RoundTrip /\ CutsAreRead
    /\ task = "extract" => T!TypeOK /\ T!StatementsAreRuns /\ ExtractsRecords

\* Equal and FirstDiff: two trees are equal up to the order of upstream's
\* unordered lists and to what float64 does not tell apart, and of two that
\* are not, the first difference is reported; Script and Equal refuse what
\* is no JSON.
TreesCompared ==
    task = "compare" =>
        D!TypeOK /\ D!EqualUpToOrder /\ D!NotFiniteRefused /\ D!DiffIsFirst /\ D!AlwaysADiff

\* Oracle.Run returns whatever the command line does, its deadline bounding
\* a hang, and a differential run ends, one bounded by time as well.
ToolsEnd == <>(/\ task = "oracle" => verdict # NoVerdict
               /\ task = "difftest" => Finished)
=============================================================================
