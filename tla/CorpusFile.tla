----------------------------- MODULE CorpusFile -----------------------------
(***************************************************************************)
(* The corpus format (internal/testfile): Write renders a file's header    *)
(* and cases as lines, Read takes the lines apart again, one at a time.    *)
(*                                                                         *)
(* A statement is the sequence of its lines, a line a member of a small    *)
(* set: the separators, the verdicts, a blank one, a comment, or text.     *)
(* An error is the text after "error: ".  Chomped is the scanner's work:   *)
(* it drops the carriage return before a newline.                          *)
(***************************************************************************)
EXTENDS Naturals, Sequences, SequencesExt

CONSTANTS
    Contents,    \* the files to read, as sequences of lines
    ErrorLines,  \* the verdict lines of refused statements
    Comments,    \* the lines that start with #
    Chomped(_)   \* a line as the scanner gives it

CaseSeparator == "=="
PartSeparator == "--"
Blank         == ""
Accepted      == "ok"

VARIABLES
    content,
    at,            \* the line to read
    headerDone,
    header, cases, \* the file so far
    sql, expectation, inExpectation, sawContent,
    result         \* "reading", "ok", "error"

file == <<header, cases>>
vars == <<content, at, headerDone, header, cases, sql, expectation, inExpectation, sawContent, result>>

-----------------------------------------------------------------------------
CanStore(s) ==
    /\ s # <<>> /\ s[1] # Blank /\ s[1] \notin Comments
    /\ \A k \in 1..Len(s) : s[k] \notin {CaseSeparator, PartSeparator}

\* Write: a case is its statement, its verdict and a separator.
Rendered(c) == c.sql \o <<PartSeparator, c.verdict, CaseSeparator>>
Write(f) == f.header \o (IF f.header = <<>> THEN <<>> ELSE <<Blank>>)
                \o FlattenSeq([k \in 1..Len(f.cases) |-> Rendered(f.cases[k])])

-----------------------------------------------------------------------------
Init == /\ content \in Contents
        /\ at = 1 /\ headerDone = FALSE /\ header = <<>> /\ cases = <<>>
        /\ sql = <<>> /\ expectation = <<>> /\ inExpectation = FALSE /\ sawContent = FALSE
        /\ result = "reading"

line   == Chomped(content[at])
Scan   == result = "reading" /\ at <= Len(content) /\ at' = at + 1
Refuse == result' = "error" /\ UNCHANGED <<header, cases, sql, expectation, inExpectation, sawContent>>

\* The header ends at the first line that is neither a comment nor blank.
HeaderLine ==
    /\ Scan /\ ~headerDone /\ line \in Comments \cup {Blank}
    /\ header' = IF line = Blank THEN header ELSE Append(header, line)
    /\ UNCHANGED <<content, headerDone, cases, sql, expectation, inExpectation, sawContent, result>>

\* Mutant: a case that lacks its verdict is dropped.
FlushDrops ==
    IF sawContent /\ inExpectation /\ expectation # <<>> /\ expectation[1] \in ErrorLines \cup {Accepted}
    THEN /\ cases' = Append(cases, [sql |-> sql, verdict |-> expectation[1]])
         /\ sql' = <<>> /\ expectation' = <<>> /\ inExpectation' = FALSE /\ sawContent' = FALSE
         /\ UNCHANGED <<header, result>>
    ELSE UNCHANGED <<header, cases, sql, expectation, inExpectation, sawContent, result>>

\* flush: the case read is complete, or the file is refused.
Flush ==
    IF ~sawContent THEN UNCHANGED <<header, cases, sql, expectation, inExpectation, sawContent, result>>
    ELSE IF ~inExpectation \/ expectation = <<>> \/ expectation[1] \notin ErrorLines \cup {Accepted} THEN Refuse
    ELSE /\ cases' = Append(cases, [sql |-> sql, verdict |-> expectation[1]])
         /\ sql' = <<>> /\ expectation' = <<>> /\ inExpectation' = FALSE /\ sawContent' = FALSE
         /\ UNCHANGED <<header, result>>

InBody == Scan /\ (headerDone \/ line \notin Comments \cup {Blank}) /\ headerDone' = TRUE

EndCase == InBody /\ line = CaseSeparator /\ Flush /\ UNCHANGED content

EndStatement ==
    /\ InBody /\ line = PartSeparator
    /\ IF inExpectation THEN Refuse
       ELSE /\ inExpectation' = TRUE /\ sawContent' = TRUE
            /\ UNCHANGED <<header, cases, sql, expectation, result>>
    /\ UNCHANGED content

\* A blank line between cases is dropped, any other belongs to the case.
OtherLine ==
    /\ InBody /\ line \notin {CaseSeparator, PartSeparator}
    /\ IF line = Blank /\ ~sawContent THEN UNCHANGED <<sql, expectation, sawContent>>
       ELSE /\ sawContent' = TRUE
            /\ sql' = IF inExpectation THEN sql ELSE Append(sql, line)
            /\ expectation' = IF inExpectation THEN Append(expectation, line) ELSE expectation
    /\ UNCHANGED <<content, header, cases, inExpectation, result>>

EndOfFile ==
    /\ result = "reading" /\ at > Len(content) /\ at = Len(content) + 1
    /\ at' = at + 1 /\ Flush /\ UNCHANGED <<content, headerDone>>

Done == /\ result = "reading" /\ at = Len(content) + 2
        /\ result' = "ok"
        /\ UNCHANGED <<content, at, headerDone, header, cases, sql, expectation, inExpectation, sawContent>>

Next == HeaderLine \/ EndCase \/ EndStatement \/ OtherLine \/ EndOfFile \/ Done
Spec == Init /\ [][Next]_vars

-----------------------------------------------------------------------------
(* Correctness. *)
Finished == result = "ok"

\* The type invariant; a statement is being read while no verdict is.
TypeOK == /\ at \in 1..(Len(content) + 2)
          /\ expectation # <<>> => inExpectation
          /\ inExpectation \/ sql # <<>> => sawContent /\ headerDone

\* A file that is read loses no line: what is in no statement and no header
\* is blank, a separator, or one of a verdict's lines.
NothingDropped ==
    Finished =>
        \A k \in 1..Len(content) : Chomped(content[k]) \notin {Blank, CaseSeparator, PartSeparator} =>
            \/ \E c \in 1..Len(cases) : Chomped(content[k]) \in ToSet(cases[c].sql)
            \/ Chomped(content[k]) \in ToSet(header)
            \/ \E j \in 1..(k - 1) : /\ Chomped(content[j]) = PartSeparator
                                     /\ \A i \in j..k : Chomped(content[i]) # CaseSeparator
=============================================================================
