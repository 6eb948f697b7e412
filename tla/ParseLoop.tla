------------------------------ MODULE ParseLoop ------------------------------
(***************************************************************************)
(* parser.Parse and ParseStatement: parseString's loop over the statements *)
(* of a text.  The scanner's tokens are given (Texts); what the engine and *)
(* the transformer make of a statement is left open, so every sequence of  *)
(* verdicts occurs; and the caller's context may be cancelled at any time. *)
(*                                                                         *)
(* Positions count tokens from 0, as in the code: the current token is     *)
(* toks[pos + 1].                                                          *)
(***************************************************************************)
EXTENDS Integers, Sequences

CONSTANT Texts   \* [len, toks]: the length of a source and its tokens

Terminators == {"Terminator", "EndOfInput"}

\* What Tokenize returns (Lexer): the sentinel is there and is last; texts
\* are in order and inside the source; and a span ends where its text does,
\* or, after a bare dollar, earlier, but not before the text begins.
ASSUME TextAssumption ==
    \A x \in Texts :
        /\ x.len \in Nat
        /\ x.toks \in Seq([kind : Terminators \cup {"Other"}, end : Nat, from : Nat, to : Nat])
        /\ Len(x.toks) >= 1
        /\ \A k \in 1..Len(x.toks) :
              /\ x.toks[k].from <= x.toks[k].end /\ x.toks[k].end <= x.toks[k].to
              /\ x.toks[k].to <= x.len
              /\ x.toks[k].kind = "EndOfInput" <=> k = Len(x.toks)
              /\ \A j \in 1..(k - 1) : x.toks[j].to <= x.toks[k].from

VARIABLES
    text,      \* the input, one of Texts
    cancelled, \* ctx.Err() # nil
    pc,        \* "start", "loop", "matched", "returned"
    pos,       \* parseString's pos
    prevEnd,   \* parseString's prevEnd
    match,     \* what MatchTopLevel answered: body ends at, match ends at
    stmts,     \* the named result stmts: span and tokens of each statement
    outcome    \* how parseString returned: what the caller gets

vars == <<text, cancelled, pc, pos, prevEnd, match, stmts, outcome>>

toks == text.toks
Kinds(a, b) == {toks[k].kind : k \in a..b}

Returning(err, out) ==
    /\ outcome' = [err |-> err, stmts |-> out]
    /\ pc' = "returned"

(* After the loop the last span is stretched to the end of the input. *)
Stretched(s, len) ==
    IF s = <<>> THEN s
    ELSE [s EXCEPT ![Len(s)] = [first |-> s[Len(s)].first, last |-> s[Len(s)].last,
                                start |-> s[Len(s)].start,
                                end |-> IF s[Len(s)].end < len THEN len ELSE s[Len(s)].end]]

-----------------------------------------------------------------------------
(* The caller cancels the context. *)
Cancel ==
    /\ ~cancelled
    /\ cancelled' = TRUE
    /\ UNCHANGED <<text, pc, pos, prevEnd, match, stmts, outcome>>

(* Before the loop: the context, the engine, the UTF-8 check, the scanner. *)
Refuse(err) ==
    /\ pc = "start"
    /\ IF cancelled THEN err = "context" ELSE err \in {"grammar", "utf8", "lexer"}
    /\ Returning(err, <<>>)
    /\ UNCHANGED <<text, cancelled, pos, prevEnd, match, stmts>>

Tokenize ==
    /\ pc = "start" /\ ~cancelled
    /\ pc' = "loop"
    /\ UNCHANGED <<text, cancelled, pos, prevEnd, match, stmts, outcome>>

-----------------------------------------------------------------------------
(* TopLevelStatement <- Statement? (';'+ / EndOfInput): the statement, if  *)
(* any, is the tokens p+1..q and the match ends after token r.             *)
Body(p, q) ==
    /\ Kinds(p + 1, q) \subseteq {"Other"}
    /\ toks[q + 1].kind \in Terminators

Terminated(q, r) ==
    IF toks[q + 1].kind = "EndOfInput" THEN r = q + 1
    ELSE Kinds(q + 1, r) \subseteq {"Terminator"} /\ toks[r + 1].kind # "Terminator"

\* Mutant: cancellation ends the loop like the end of the input does.
ContextDoneBreaks ==
    /\ pc = "loop" /\ pos < Len(toks) /\ cancelled
    /\ Returning("none", Stretched(stmts, text.len))
    /\ UNCHANGED <<text, cancelled, pos, prevEnd, match, stmts>>

ContextDone ==
    /\ pc = "loop" /\ pos < Len(toks) /\ cancelled
    /\ Returning("context", <<>>)
    /\ UNCHANGED <<text, cancelled, pos, prevEnd, match, stmts>>

MatchTopLevel ==
    /\ pc = "loop" /\ pos < Len(toks) /\ ~cancelled
    /\ \E q \in pos..(Len(toks) - 1) : \E r \in (q + 1)..Len(toks) :
          /\ Body(pos, q) /\ Terminated(q, r)
          /\ match' = [body |-> q, to |-> r]
    /\ pc' = "matched"
    /\ UNCHANGED <<text, cancelled, pos, prevEnd, stmts, outcome>>

(* The engine refuses the statement (syntax error or MatchError). *)
MatchFails ==
    /\ pc = "loop" /\ pos < Len(toks) /\ ~cancelled
    /\ toks[pos + 1].kind \notin Terminators
    /\ Returning("syntax", <<>>)
    /\ UNCHANGED <<text, cancelled, pos, prevEnd, match, stmts>>

-----------------------------------------------------------------------------
(* The end of the last token consumed that is not the sentinel. *)
ConsumedEnd(p, r) ==
    LET last == IF toks[r].kind = "EndOfInput" THEN r - 1 ELSE r IN
    IF last = p THEN text.len
    ELSE IF toks[last].end < text.len THEN toks[last].end ELSE text.len

\* Mutant: an empty statement moves prevEnd.
EmptyStatementMovesEnd ==
    /\ pc = "matched" /\ match.body = pos
    /\ pos' = match.to
    /\ prevEnd' = ConsumedEnd(pos, match.to)
    /\ pc' = "loop"
    /\ UNCHANGED <<text, cancelled, match, stmts, outcome>>

\* Mutant: an empty statement goes on before pos is moved.
EmptyStatementStays ==
    /\ pc = "matched" /\ match.body = pos
    /\ pc' = "loop"
    /\ UNCHANGED <<text, cancelled, pos, prevEnd, match, stmts, outcome>>

(* An empty statement folds its extent into the next span. *)
EmptyStatement ==
    /\ pc = "matched" /\ match.body = pos
    /\ pos' = match.to
    /\ pc' = "loop"
    /\ UNCHANGED <<text, cancelled, prevEnd, match, stmts, outcome>>

TransformStatement ==
    /\ pc = "matched" /\ match.body # pos
    /\ LET end == ConsumedEnd(pos, match.to) IN
          /\ stmts' = Append(stmts, [first |-> pos + 1, last |-> match.body,
                                     start |-> prevEnd, end |-> end])
          /\ prevEnd' = end
    /\ pos' = match.to
    /\ pc' = "loop"
    /\ UNCHANGED <<text, cancelled, match, outcome>>

(* The transformer raises: catchInternal sets the error, and the named     *)
(* result stmts keeps the statements that were already there.              *)
TransformRaises ==
    /\ pc = "matched" /\ match.body # pos
    /\ Returning("raise", stmts)
    /\ pos' = match.to
    /\ UNCHANGED <<text, cancelled, prevEnd, match, stmts>>

-----------------------------------------------------------------------------
Finish ==
    /\ pc = "loop" /\ pos >= Len(toks)
    /\ stmts' = Stretched(stmts, text.len)
    /\ Returning("none", Stretched(stmts, text.len))
    /\ UNCHANGED <<text, cancelled, pos, prevEnd, match>>

(* What ParseStatement makes of parseString's answer. *)
StatementAnswer(o) ==
    IF o.err # "none" THEN [err |-> o.err, stmts |-> <<>>]
    ELSE IF Len(o.stmts) # 1 THEN [err |-> "count", stmts |-> <<>>]
    ELSE o

-----------------------------------------------------------------------------
Init ==
    /\ text \in Texts
    /\ cancelled = FALSE
    /\ pc = "start"
    /\ pos = 0 /\ prevEnd = 0
    /\ match = [body |-> 0, to |-> 0]
    /\ stmts = <<>>
    /\ outcome = [err |-> "none", stmts |-> <<>>]

Run ==
    \/ \E e \in {"context", "grammar", "utf8", "lexer"} : Refuse(e)
    \/ Tokenize \/ ContextDone \/ MatchTopLevel \/ MatchFails
    \/ EmptyStatement \/ TransformStatement \/ TransformRaises \/ Finish

Next == Run \/ Cancel \/ (pc = "returned" /\ UNCHANGED vars)

Spec == Init /\ [][Next]_vars

\* One goroutine runs the loop and never blocks; nobody has to cancel.
FairSpec == Spec /\ WF_vars(Run)

-----------------------------------------------------------------------------
(* What Parse and ParseStatement promise about statements ("Statement      *)
(* spans tile the input", parser.go).                                      *)

StatementType == [first : Nat, last : Nat, start : Nat, end : Nat]
Errors == {"none", "context", "grammar", "utf8", "lexer", "syntax", "raise"}

\* The type invariant: pos and the match stay inside the token stream and
\* prevEnd inside the text.
TypeOK ==
    /\ cancelled \in BOOLEAN
    /\ pc \in {"start", "loop", "matched", "returned"}
    /\ pos \in 0..Len(toks)
    /\ prevEnd \in 0..text.len
    /\ match \in [body : 0..Len(toks), to : 0..Len(toks)]
    /\ pc = "matched" => pos <= match.body /\ match.body < match.to
    /\ stmts \in Seq(StatementType)
    /\ outcome \in [err : Errors, stmts : Seq(StatementType)]

\* The spans of s follow each other without gap or overlap from offset 0.
Contiguous(s) ==
    \A k \in 1..Len(s) :
        /\ s[k].start = IF k = 1 THEN 0 ELSE s[k - 1].end
        /\ s[k].start <= s[k].end

LastEnd(s) == IF s = <<>> THEN 0 ELSE s[Len(s)].end

\* "Statement spans tile the input: statement i covers [prev end, own end),
\* the first starts at 0 and the last ends at len(input)" (parser.go): with
\* empty statements anywhere, and also of the statements that come with a
\* transformer error, whose spans tile the input up to the last of them.
SpansTile ==
    pc = "returned" =>
        /\ Contiguous(outcome.stmts)
        /\ outcome.err = "none" /\ outcome.stmts # <<>> => LastEnd(outcome.stmts) = text.len
        /\ LastEnd(outcome.stmts) <= text.len

\* "slicing the source by span recovers each statement's text": the source
\* bytes of every token of a statement are inside its own span, although
\* spans are cut at recorded token ends, which for a token directly after a
\* bare dollar are not where its text ends.
TokensInOwnSpan ==
    pc = "returned" =>
        \A j \in 1..Len(outcome.stmts) :
            LET s == outcome.stmts[j] IN
            \A k \in s.first..s.last : s.start <= toks[k].from /\ toks[k].to <= s.end

Covered(s, k) == \E j \in 1..Len(s) : k \in s[j].first..s[j].last

\* An answer without error is never a partial one: every token that is not
\* a terminator belongs to one returned statement, whatever was cancelled
\* and whenever.  Any error but the transformer's discards all statements.
AllOrError ==
    pc = "returned" =>
        /\ outcome.err = "none" =>
              \A k \in 1..Len(toks) : toks[k].kind = "Other" <=> Covered(outcome.stmts, k)
        /\ outcome.err \notin {"none", "raise"} => outcome.stmts = <<>>

\* ParseStatement answers with a statement only if the text has exactly one,
\* whose span is then the whole text.
OneStatement ==
    pc = "returned" =>
        LET answer == StatementAnswer(outcome) IN
        answer.err = "none" =>
            /\ answer.stmts[1].start = 0 /\ answer.stmts[1].end = text.len
            /\ \A k \in 1..Len(toks) :
                  toks[k].kind = "Other" <=> k \in answer.stmts[1].first..answer.stmts[1].last

\* parseString always comes back, cancelled or not.
Termination == <>(pc = "returned")

-----------------------------------------------------------------------------
(* The inductive invariants. *)

\* While the loop runs, prevEnd is the end of the last statement and no
\* token ahead of pos ends before it.
SpansSoFar ==
    /\ Contiguous(stmts)
    /\ pc # "returned" => prevEnd = LastEnd(stmts)
    /\ prevEnd <= text.len /\ LastEnd(stmts) <= text.len
    /\ \A k \in (pos + 1)..Len(toks) : prevEnd <= toks[k].from

\* While the loop runs, the statements so far have all the tokens consumed
\* that are not terminators, each in its own span; only the last token of
\* all may reach beyond its span, until the last span is stretched.
StatementsSoFar ==
    /\ pc = "matched" => Body(pos, match.body) /\ Terminated(match.body, match.to)
    /\ pc \in {"loop", "matched"} =>
          \A k \in 1..Len(toks) : Covered(stmts, k) <=> k <= pos /\ toks[k].kind = "Other"
    /\ pc = "start" => pos = 0 /\ stmts = <<>>
    /\ pc # "returned" =>
          \A j \in 1..Len(stmts) : \A k \in stmts[j].first..stmts[j].last :
              /\ k \in 1..Len(toks) /\ stmts[j].start <= toks[k].from
              /\ toks[k].to <= stmts[j].end \/ (j = Len(stmts) /\ pos = Len(toks))

\* parseString: an answer is all of the statements or an error, each with
\* its own tokens, and what is collected on the way tiles the text so far.
StatementsComplete ==
    TypeOK /\ SpansSoFar /\ StatementsSoFar /\ TokensInOwnSpan /\ AllOrError /\ OneStatement

IInv == text \in Texts /\ TypeOK /\ SpansSoFar /\ SpansTile
=============================================================================
