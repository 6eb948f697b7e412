------------------------------ MODULE SqlTest ------------------------------
(***************************************************************************)
(* sqltest.Extract: the statements of a sqllogictest file, found record by *)
(* record: a directive, its SQL up to a blank line, a comment or the       *)
(* separator, and the results the separator starts.                        *)
(*                                                                         *)
(* A line is a record: what it is once trimmed, what it is as it stands,   *)
(* and what its text holds; cr says that it has a carriage return.         *)
(***************************************************************************)
EXTENDS Naturals, Sequences

\* The kinds of lines: blank; white space only; a comment at its start; an
\* indented one; "----"; a directive of SQL; skipif and the like; any other.
LineKinds == {"blank", "spaces", "comment", "indented comment", "separator", "sql directive", "other"}

VARIABLES
    content,
    at,            \* the line to read
    mode,          \* "directive", "sql", "results", "done"
    sql, start,    \* the record's lines and where they begin
    statements

vars == <<content, at, mode, sql, start, statements>>

line == content[at]
\* The file is a sequence of lines.
Init(file) ==
    /\ content = file
    /\ at = 1 /\ mode = "directive" /\ sql = <<>> /\ start = 0 /\ statements = <<>>

\* What ends a record: an empty line or a comment at the start of one.
Ends(l)    == l.kind \in {"blank", "comment"}
Templated  == \E k \in 1..Len(sql) : sql[k].template
\* Mutant: the next record keeps the line of this one.
EmitKeepsStart ==
    /\ statements' = (IF sql = <<>> \/ Templated THEN statements
                      ELSE Append(statements, [sql |-> sql, line |-> start]))
    /\ sql' = <<>> /\ UNCHANGED start

\* The record is over: it is a statement unless empty or a template.
Emit == /\ statements' = IF sql = <<>> \/ Templated THEN statements
                         ELSE Append(statements, [sql |-> sql, line |-> start])
        /\ sql' = <<>> /\ start' = 0

Read(m) == mode = m /\ at <= Len(content) /\ at' = at + 1

-----------------------------------------------------------------------------
\* Comments, conditions and every other directive are passed over.
Directive ==
    /\ Read("directive")
    /\ mode' = IF line.kind = "sql directive" THEN "sql" ELSE mode
    /\ UNCHANGED <<content, sql, start, statements>>

\* ReplaceAll(line, "\r", "").
WithoutCr(l) == [l EXCEPT !.cr = FALSE]

SqlLine ==
    /\ Read("sql") /\ ~Ends(line) /\ line.kind # "separator"
    /\ sql' = Append(sql, WithoutCr(line))
    /\ start' = IF start = 0 THEN at ELSE start
    /\ UNCHANGED <<content, mode, statements>>

\* The statement is emitted once its results are skipped.
Separator ==
    /\ Read("sql") /\ line.kind = "separator"
    /\ mode' = "results" /\ UNCHANGED <<content, sql, start, statements>>

RecordEnd ==
    /\ \/ Read("sql") /\ Ends(line)
       \/ Read("results") /\ Ends(line)
    /\ mode' = "directive" /\ Emit /\ UNCHANGED content

Result == /\ Read("results") /\ ~Ends(line)
          /\ UNCHANGED <<content, mode, sql, start, statements>>

\* The end of the file ends a record as well.
EndOfFile ==
    /\ mode # "done" /\ at > Len(content)
    /\ mode' = "done" /\ Emit /\ UNCHANGED <<content, at>>

Next == Directive \/ SqlLine \/ Separator \/ RecordEnd \/ Result \/ EndOfFile

-----------------------------------------------------------------------------
(* Correctness. *)
\* The type invariant; a record being read has begun.
TypeOK == /\ at \in 1..(Len(content) + 1) /\ mode \in {"directive", "sql", "results", "done"}
          /\ start = 0 <=> sql = <<>>
          /\ sql # <<>> => mode \in {"sql", "results"}

\* A statement is an unbroken run of lines after a directive.
StatementsAreRuns ==
    \A k \in 1..Len(statements) :
        LET s == statements[k]
        IN  /\ s.line > 1 /\ content[s.line - 1].kind = "sql directive"
            /\ \A j \in 1..Len(s.sql) : s.sql[j] = WithoutCr(content[s.line + j - 1])
            /\ k > 1 => s.line > statements[k - 1].line + Len(statements[k - 1].sql)
=============================================================================
