------------------------------- MODULE Oracle -------------------------------
(***************************************************************************)
(* Oracle.Run (internal/duckdbsrc): one batch of statements is given to    *)
(* the DuckDB command line, and a verdict is read off what it printed, how *)
(* it exited and whether its deadline passed.  The command line itself is  *)
(* external: it parses and executes the statements one after the other,    *)
(* prints an error and exits at the first failure, and may hang or die in  *)
(* either phase.                                                           *)
(***************************************************************************)
EXTENDS Naturals, Sequences, FiniteSets

\* What becomes of a statement in the parser and in execution.  A nested
\* failure is a parser error raised in execution, by query('...') say.
ParseResults == {"ok", "error", "hang", "crash"}
ExecResults  == {"ok", "error", "nested", "hang", "crash"}

CONSTANT Batches     \* the inputs: sequences of [parse : ParseResults, exec : ExecResults]

ASSUME BatchesAssumption == Batches \subseteq Seq([parse : ParseResults, exec : ExecResults])

VARIABLES
    batch,
    at,          \* the statement the command line is at, and the phase
    stderr,      \* the errors printed: "Parser Error" or "Other Error"
    process,     \* "running", "exit 0", "exit 1", "signalled", "not started"
    expired,     \* the context's deadline has passed
    verdict      \* NoVerdict until Run returns; RunFailed for its error

oracleVars == <<batch, at, stderr, process, expired, verdict>>

Verdict(reject, timedOut, crashed, postParseError) ==
    [reject |-> reject, timedOut |-> timedOut, crashed |-> crashed, postParseError |-> postParseError]
Rejected   == Verdict(TRUE, FALSE, FALSE, FALSE)
TimedOut   == Verdict(FALSE, TRUE, FALSE, FALSE)
Crashed    == Verdict(FALSE, FALSE, TRUE, FALSE)
NoVerdict  == [none |-> TRUE]
RunFailed  == [failed |-> TRUE]
Accepted(postParseError) == Verdict(FALSE, FALSE, FALSE, postParseError)

InitOracle == /\ batch \in Batches
        /\ at = [stmt |-> 1, phase |-> "parse"] /\ stderr = <<>>
        /\ process \in {"running", "not started"}
        /\ expired = FALSE /\ verdict = NoVerdict

-----------------------------------------------------------------------------
Fails(line) == process' = "exit 1" /\ stderr' = Append(stderr, line) /\ UNCHANGED at
Dies        == process' = "signalled" /\ UNCHANGED <<at, stderr>>

Parse ==
    /\ process = "running" /\ at.phase = "parse" /\ at.stmt <= Len(batch)
    /\ \/ batch[at.stmt].parse = "ok" /\ at' = [at EXCEPT !.phase = "exec"] /\ UNCHANGED <<process, stderr>>
       \/ batch[at.stmt].parse = "error" /\ Fails("Parser Error")
       \/ batch[at.stmt].parse = "crash" /\ Dies
    /\ UNCHANGED <<batch, expired, verdict>>

Execute ==
    /\ process = "running" /\ at.phase = "exec"
    /\ \/ /\ batch[at.stmt].exec = "ok"
          /\ at' = [stmt |-> at.stmt + 1, phase |-> "parse"] /\ UNCHANGED <<process, stderr>>
       \/ batch[at.stmt].exec = "error" /\ Fails("Other Error")
       \/ batch[at.stmt].exec = "nested" /\ Fails("Parser Error")
       \/ batch[at.stmt].exec = "crash" /\ Dies
    /\ UNCHANGED <<batch, expired, verdict>>

EndOfInput ==
    /\ process = "running" /\ at.stmt > Len(batch)
    /\ process' = "exit 0" /\ UNCHANGED <<batch, at, stderr, expired, verdict>>

\* Mutant: the deadline does not kill the process.
DeadlineNoKill == ~expired /\ verdict = NoVerdict /\ expired' = TRUE /\ UNCHANGED <<batch, at, stderr, process, verdict>>

\* exec.CommandContext kills what is still running.  The deadline may also
\* pass after the process has ended and before Run looks.
Deadline ==
    /\ ~expired /\ verdict = NoVerdict
    /\ expired' = TRUE
    /\ process' = IF process = "running" THEN "signalled" ELSE process
    /\ UNCHANGED <<batch, at, stderr, verdict>>

Printed(line) == \E k \in 1..Len(stderr) : stderr[k] = line

\* Mutant: the deadline is looked at before the output.
ReadDeadlineFirst ==
    IF expired THEN TimedOut ELSE IF Printed("Parser Error") THEN Rejected
    ELSE IF process = "signalled" THEN Crashed ELSE IF process = "not started" THEN RunFailed
    ELSE Accepted(Printed("Other Error"))
\* classify, the deadline, the exit status, in this order.
Read ==
    IF Printed("Parser Error") THEN Rejected
    ELSE IF expired THEN TimedOut
    ELSE IF process = "signalled" THEN Crashed
    ELSE IF process = "not started" THEN RunFailed
    ELSE Accepted(Printed("Other Error"))

Return ==
    /\ process # "running" /\ verdict = NoVerdict
    /\ verdict' = Read /\ UNCHANGED <<batch, at, stderr, process, expired>>

NextOracle == Parse \/ Execute \/ EndOfInput \/ Deadline \/ Return
\* Time passes and Run goes on; nothing is assumed of the command line.
SpecOracle == InitOracle /\ [][NextOracle]_oracleVars /\ WF_oracleVars(Deadline) /\ WF_oracleVars(Return)

-----------------------------------------------------------------------------
(* Correctness. *)
Returned == verdict \notin {NoVerdict, RunFailed}
IsAccept == Returned /\ ~verdict.reject /\ ~verdict.timedOut /\ ~verdict.crashed

\* The statements the parser has accepted, and whether it refused one.
ParsedUpTo == IF at.phase = "exec" THEN at.stmt ELSE at.stmt - 1
Refused    == /\ at.phase = "parse" /\ at.stmt <= Len(batch) /\ batch[at.stmt].parse = "error"
              /\ process = "exit 1"

\* The type invariant: a verdict is one thing only.
VerdictTypeOK == /\ at.stmt \in 1..(Len(batch) + 1) /\ Len(stderr) <= 1
          /\ Returned => /\ Cardinality({f \in {"reject", "timedOut", "crashed"} : verdict[f]}) <= 1
                         /\ verdict.postParseError => IsAccept

\* What was printed wins over the deadline and the exit status: a statement
\* the parser refused is rejected even if the deadline passes before Run looks.
RefusalWins == Refused /\ Returned => verdict.reject

\* An accepted batch had every statement parsed, or a first part of it if a
\* post-parse error is reported: hangs, deaths and timeouts in the parser are
\* never taken for acceptance.
AcceptMeansParsed ==
    IsAccept => IF verdict.postParseError THEN ParsedUpTo >= 1 ELSE ParsedUpTo = Len(batch)

\* Oracle.Run: a refusal that was printed is one, whatever the deadline
\* does, and nothing the parser has not accepted is called accepted.
VerdictsJustified == VerdictTypeOK /\ RefusalWins /\ AcceptMeansParsed

\* Run returns, whatever the command line does: the deadline bounds a hang.
Answers == <>(verdict # NoVerdict)
=============================================================================
