----------------------------- MODULE ToolsProofs -----------------------------
(***************************************************************************)
(* Proofs about the tools around the parser.                               *)
(*                                                                         *)
(* Oracle.Run: whatever the command line does, a verdict is justified by   *)
(* how far it came.                                                        *)
(*                                                                         *)
(* cmd/regenerate: for any tests and any number of runs, each of which may *)
(* be cut short, a run removes no file it has cases for, a partial one     *)
(* changes nothing outside of its subset, and a full one leaves a corpus   *)
(* in which no earlier run shows, which holds every statement with a       *)
(* verdict once.                                                           *)
(*                                                                         *)
(* cmd/difftest: the totals of a run are those of its mutants, for every   *)
(* number of mutants and of workers: every counter is the size of a set of *)
(* mutants, those of some kinds that no worker is still busy with.         *)
(***************************************************************************)
EXTENDS Difftest, Oracle, Regenerate, SequenceTheorems, FiniteSetTheorems, FunctionTheorems,
        WellFoundedInduction, TLAPS

-----------------------------------------------------------------------------
(* Oracle.Run: the inductive invariant.                                    *)

\* What the command line can have printed.
Silent     == stderr = <<>>
Refusal    == stderr = <<"Parser Error">>
OtherError == stderr = <<"Other Error">>

\* Where the command line is, and what it has printed by then.
PlaceInv ==
    /\ Len(batch) \in Nat /\ at.stmt \in 1..(Len(batch) + 1) /\ at.phase \in {"parse", "exec"}
    /\ at = [stmt |-> at.stmt, phase |-> at.phase]
    /\ at.phase = "exec" => at.stmt <= Len(batch)
    /\ process = "exit 0" => at.stmt = Len(batch) + 1

PrintedInv ==
    /\ process \in {"running", "exit 0", "exit 1", "signalled", "not started"}
    /\ process = "exit 1" => Refusal \/ (OtherError /\ at.phase = "exec")
    /\ process # "exit 1" => Silent

\* The verdict is what there was to read when Run returned; nothing changes
\* after that.
VerdictInv == verdict = NoVerdict \/ (verdict = Read /\ process # "running")

OracleInv == PlaceInv /\ PrintedInv /\ VerdictInv

\* What is on the error stream is one thing.
LEMMA OneLine ==
    ASSUME NEW line
    PROVE  Len(<<line>>) = 1 /\ <<line>>[1] = line /\ <<line>> # <<>> /\ DOMAIN <<line>> = 1..1
  OBVIOUS

LEMMA Streams ==
    /\ ~(Silent /\ Refusal) /\ ~(Silent /\ OtherError) /\ ~(Refusal /\ OtherError)
    /\ Silent => ~Printed("Parser Error") /\ ~Printed("Other Error") /\ Len(stderr) <= 1
    /\ Refusal => Printed("Parser Error") /\ Len(stderr) <= 1
    /\ OtherError => ~Printed("Parser Error") /\ Printed("Other Error") /\ Len(stderr) <= 1
  <1>1. ASSUME Silent PROVE Len(stderr) = 0
    BY <1>1 DEF Silent
  <1>2. ASSUME Refusal PROVE Len(stderr) = 1 /\ stderr[1] = "Parser Error"
    BY <1>2, OneLine, Zenon DEF Refusal
  <1>3. ASSUME OtherError PROVE Len(stderr) = 1 /\ stderr[1] = "Other Error"
    BY <1>3, OneLine, Zenon DEF OtherError
  <1>4. "Parser Error" # "Other Error"
    BY Zenon
  <1>5. ASSUME NEW line, Len(stderr) = 0 PROVE ~Printed(line)
    BY <1>5 DEF Printed
  <1>6. ASSUME NEW line, Len(stderr) = 1 PROVE Printed(line) <=> stderr[1] = line
    BY <1>6 DEF Printed
  <1>7. 0 <= 1 /\ 1 <= 1 /\ 0 # 1
    OBVIOUS
  <1>8. Silent => ~Printed("Parser Error") /\ ~Printed("Other Error") /\ Len(stderr) <= 1
    BY <1>1, <1>5, <1>7, Zenon
  <1>9. Refusal => Printed("Parser Error") /\ Len(stderr) <= 1
    BY <1>2, <1>6, <1>7, Zenon
  <1>10. OtherError => ~Printed("Parser Error") /\ Printed("Other Error") /\ Len(stderr) <= 1
    <2> SUFFICES ASSUME OtherError
                 PROVE  ~Printed("Parser Error") /\ Printed("Other Error") /\ Len(stderr) <= 1
      OBVIOUS
    <2>1. Len(stderr) = 1 /\ stderr[1] = "Other Error"
      BY <1>3
    <2>2. stderr[1] # "Parser Error"
      BY <1>4, <2>1, Zenon
    <2>3. ~Printed("Parser Error") /\ Printed("Other Error")
      BY <1>6, <2>1, <2>2, Zenon
    <2> QED BY <1>7, <2>1, <2>3, Zenon
  <1> QED BY <1>8, <1>9, <1>10, Zenon

LEMMA FailsPrints ==
    ASSUME Silent, NEW line, Fails(line)
    PROVE  /\ process' = "exit 1" /\ at' = at
           /\ line = "Parser Error" => Refusal'
           /\ line = "Other Error" => OtherError'
  <1>1. Append(<<>>, line) = <<line>>
    OBVIOUS
  <1> QED BY <1>1, Zenon DEF Fails, Silent, Refusal, OtherError

\* The command line goes on only until Run has its verdict.
LEMMA RunningStep ==
    ASSUME OracleInv, process = "running", PlaceInv', PrintedInv', UNCHANGED verdict
    PROVE  OracleInv'
  <1>1. verdict = NoVerdict
    BY DEF OracleInv, VerdictInv
  <1> QED BY <1>1, Zenon DEF OracleInv, VerdictInv

LEMMA ParseKeepsVerdict ==
    ASSUME OracleInv, Parse
    PROVE  OracleInv'
  <1>1. /\ process = "running" /\ at.phase = "parse" /\ at.stmt <= Len(batch) /\ Silent
        /\ UNCHANGED <<batch, verdict>>
    BY DEF Parse, OracleInv, PrintedInv
  <1>2. CASE batch[at.stmt].parse = "ok" /\ at' = [at EXCEPT !.phase = "exec"] /\ UNCHANGED <<process, stderr>>
    <2>1. at'.stmt = at.stmt /\ at'.phase = "exec" /\ at' = [stmt |-> at.stmt, phase |-> "exec"]
      BY <1>2 DEF OracleInv, PlaceInv
    <2>2. PlaceInv'
      BY <1>1, <1>2, <2>1 DEF OracleInv, PlaceInv
    <2>3. PrintedInv'
      BY <1>1, <1>2, Zenon DEF PrintedInv, Silent
    <2> QED BY <1>1, <2>2, <2>3, RunningStep
  <1>3. CASE Fails("Parser Error")
    <2>1. Refusal' /\ process' = "exit 1" /\ at' = at
      BY <1>1, <1>3, FailsPrints
    <2>2. PlaceInv' /\ PrintedInv'
      BY <1>1, <2>1 DEF OracleInv, PlaceInv, PrintedInv
    <2> QED BY <1>1, <2>2, RunningStep
  <1>4. CASE Dies
    <2>1. process' = "signalled" /\ at' = at /\ Silent'
      BY <1>1, <1>4, Zenon DEF Dies, Silent
    <2>2. PlaceInv' /\ PrintedInv'
      BY <1>1, <2>1 DEF OracleInv, PlaceInv, PrintedInv
    <2> QED BY <1>1, <2>2, RunningStep
  <1> QED BY <1>2, <1>3, <1>4, Zenon DEF Parse

LEMMA ExecuteKeepsVerdict ==
    ASSUME OracleInv, Execute
    PROVE  OracleInv'
  <1>1. /\ process = "running" /\ at.phase = "exec" /\ at.stmt <= Len(batch) /\ Silent
        /\ UNCHANGED <<batch, verdict>>
    BY DEF Execute, OracleInv, PrintedInv, PlaceInv
  <1>2. CASE at' = [stmt |-> at.stmt + 1, phase |-> "parse"] /\ UNCHANGED <<process, stderr>>
    <2>1. at'.stmt = at.stmt + 1 /\ at'.phase = "parse" /\ at' = [stmt |-> at.stmt + 1, phase |-> "parse"]
      BY <1>2
    <2>2. PlaceInv'
      BY <1>1, <1>2, <2>1 DEF OracleInv, PlaceInv
    <2>3. PrintedInv'
      BY <1>1, <1>2, Zenon DEF PrintedInv, Silent
    <2> QED BY <1>1, <2>2, <2>3, RunningStep
  <1>3. CASE Fails("Other Error") \/ Fails("Parser Error")
    <2>1. (Refusal' \/ OtherError') /\ process' = "exit 1" /\ at' = at
      BY <1>1, <1>3, FailsPrints
    <2>2. PlaceInv' /\ PrintedInv'
      BY <1>1, <2>1 DEF OracleInv, PlaceInv, PrintedInv
    <2> QED BY <1>1, <2>2, RunningStep
  <1>4. CASE Dies
    <2>1. process' = "signalled" /\ at' = at /\ Silent'
      BY <1>1, <1>4, Zenon DEF Dies, Silent
    <2>2. PlaceInv' /\ PrintedInv'
      BY <1>1, <2>1 DEF OracleInv, PlaceInv, PrintedInv
    <2> QED BY <1>1, <2>2, RunningStep
  <1> QED BY <1>2, <1>3, <1>4, Zenon DEF Execute

LEMMA EndOfInputKeepsVerdict ==
    ASSUME OracleInv, EndOfInput
    PROVE  OracleInv'
  <1>1. /\ process = "running" /\ process' = "exit 0" /\ at.stmt > Len(batch) /\ Silent /\ Silent'
        /\ UNCHANGED <<batch, at, verdict>>
    BY Zenon DEF EndOfInput, OracleInv, PrintedInv, Silent
  <1>2. at.stmt = Len(batch) + 1
    <2>1. Len(batch) \in Nat /\ at.stmt \in 1..(Len(batch) + 1) /\ at.stmt > Len(batch)
      BY <1>1, Zenon DEF OracleInv, PlaceInv
    <2> QED BY <2>1
  <1>3. PlaceInv' /\ PrintedInv'
    BY <1>1, <1>2, Zenon DEF OracleInv, PlaceInv, PrintedInv
  <1> QED BY <1>1, <1>3, RunningStep

LEMMA DeadlineKeepsVerdict ==
    ASSUME OracleInv, Deadline
    PROVE  OracleInv'
  <1>1. /\ verdict = NoVerdict /\ process' = IF process = "running" THEN "signalled" ELSE process
        /\ UNCHANGED <<batch, at, stderr, verdict>>
    BY DEF Deadline
  <1>2. (Silent' <=> Silent) /\ (Refusal' <=> Refusal) /\ (OtherError' <=> OtherError)
    BY <1>1, Zenon DEF Silent, Refusal, OtherError
  <1>3. PlaceInv' /\ PrintedInv'
    BY <1>1, <1>2 DEF OracleInv, PlaceInv, PrintedInv
  <1> QED BY <1>1, <1>3, Zenon DEF OracleInv, VerdictInv

\* Run's own step, and the steps of the others, leave the command line alone.
LEMMA RestKeepsVerdict ==
    ASSUME OracleInv, UNCHANGED <<batch, at, stderr, process, expired>>,
           verdict' = verdict \/ (process # "running" /\ verdict' = Read)
    PROVE  OracleInv'
  <1>1. Read' = Read
    BY Zenon DEF Read, Printed, RunFailed, Crashed, TimedOut, Rejected, Accepted
  <1>2. PlaceInv' /\ PrintedInv'
    BY Zenon DEF OracleInv, PlaceInv, PrintedInv, Silent, Refusal, OtherError
  <1> QED BY <1>1, <1>2, Zenon DEF OracleInv, VerdictInv

LEMMA StepKeepsVerdict ==
    ASSUME OracleInv, [NextOracle]_oracleVars
    PROVE  OracleInv'
  <1>1. CASE Parse \/ Execute \/ EndOfInput \/ Deadline
    BY <1>1, ParseKeepsVerdict, ExecuteKeepsVerdict, EndOfInputKeepsVerdict, DeadlineKeepsVerdict
  <1>2. CASE Return \/ UNCHANGED oracleVars
    BY <1>2, RestKeepsVerdict, Zenon DEF Return, oracleVars
  <1> QED BY <1>1, <1>2 DEF NextOracle

LEMMA InitKeepsVerdict ==
    ASSUME InitOracle
    PROVE  OracleInv
  <1>1. Len(batch) \in Nat
    <2> DEFINE Statements == [parse : ParseResults, exec : ExecResults]
    <2>1. batch \in Seq(Statements)
      BY BatchesAssumption, Zenon DEF InitOracle
    <2> HIDE DEF Statements
    <2> QED BY <2>1, LenProperties
  <1>2. at = [stmt |-> 1, phase |-> "parse"] /\ Silent /\ process \in {"running", "not started"}
    BY DEF InitOracle, Silent
  <1>3. PlaceInv
    <2>1. at.stmt = 1 /\ at.phase = "parse" /\ at = [stmt |-> at.stmt, phase |-> at.phase]
      BY <1>2
    <2>2. at.stmt \in 1..(Len(batch) + 1)
      BY <1>1, <2>1
    <2>3. process # "exit 0" /\ at.phase # "exec"
      BY <1>2, <2>1, Zenon
    <2> QED BY <1>1, <2>1, <2>2, <2>3, Zenon DEF PlaceInv
  <1>4. PrintedInv
    BY <1>2 DEF PrintedInv
  <1> QED BY <1>3, <1>4 DEF InitOracle, OracleInv, VerdictInv

\* What Run reads off, case by case.
LEMMA WhatIsRead ==
    ASSUME OracleInv, verdict # NoVerdict
    PROVE  \/ Refusal /\ verdict = Rejected
           \/ ~Refusal /\ verdict \in {TimedOut, Crashed, RunFailed}
           \/ OtherError /\ at.phase = "exec" /\ verdict = Accepted(TRUE)
           \/ Silent /\ process = "exit 0" /\ verdict = Accepted(FALSE)
  <1>1. verdict = Read /\ process # "running"
    BY DEF OracleInv, VerdictInv
  <1>2. CASE Refusal
    BY <1>1, <1>2, Streams, Zenon DEF Read
  <1>3. CASE ~Refusal
    <2>1. ~Printed("Parser Error")
      BY <1>3, Streams DEF OracleInv, PrintedInv
    <2>2. CASE expired \/ process = "signalled" \/ process = "not started"
      <3>1. verdict \in {TimedOut, Crashed, RunFailed}
        BY <1>1, <2>1, <2>2, Zenon DEF Read
      <3> QED BY <1>3, <3>1
    <2>3. CASE ~(expired \/ process = "signalled" \/ process = "not started")
      <3>1. verdict = Accepted(Printed("Other Error"))
        BY <1>1, <2>1, <2>3, Zenon DEF Read
      <3>2. (Silent /\ process = "exit 0") \/ (OtherError /\ at.phase = "exec")
        BY <1>1, <1>3, <2>3 DEF OracleInv, PrintedInv
      <3>3. CASE Silent /\ process = "exit 0"
        <4>1. Printed("Other Error") = FALSE
          BY <3>3, Streams DEF Printed
        <4> QED BY <3>1, <3>3, <4>1, Zenon
      <3>4. CASE OtherError /\ at.phase = "exec"
        <4>1. Printed("Other Error") = TRUE
          BY <3>4, Streams DEF Printed
        <4> QED BY <3>1, <3>4, <4>1, Zenon
      <3> QED BY <3>2, <3>3, <3>4
    <2> QED BY <2>2, <2>3
  <1> QED BY <1>2, <1>3

-----------------------------------------------------------------------------
(* What follows.                                                           *)

\* Each verdict sets at most one of the three flags.
LEMMA OneFlag ==
    ASSUME NEW v \in {Rejected, TimedOut, Crashed, Accepted(TRUE), Accepted(FALSE)}
    PROVE  Cardinality({f \in {"reject", "timedOut", "crashed"} : v[f]}) <= 1
  <1> DEFINE Set == {f \in {"reject", "timedOut", "crashed"} : v[f]}
  <1>1. Set = {} \/ \E x : Set = {x}
    <2>1. CASE v = Rejected
      <3>1. v["reject"] /\ ~v["timedOut"] /\ ~v["crashed"]
        BY <2>1 DEF Rejected, Verdict
      <3>2. Set = {"reject"}
        BY <3>1
      <3> QED BY <3>2
    <2>2. CASE v = TimedOut
      <3>1. ~v["reject"] /\ v["timedOut"] /\ ~v["crashed"]
        BY <2>2 DEF TimedOut, Verdict
      <3>2. Set = {"timedOut"}
        BY <3>1
      <3> QED BY <3>2
    <2>3. CASE v = Crashed
      <3>1. ~v["reject"] /\ ~v["timedOut"] /\ v["crashed"]
        BY <2>3 DEF Crashed, Verdict
      <3>2. Set = {"crashed"}
        BY <3>1
      <3> QED BY <3>2
    <2>4. CASE v = Accepted(TRUE) \/ v = Accepted(FALSE)
      <3>1. ~v["reject"] /\ ~v["timedOut"] /\ ~v["crashed"]
        BY <2>4 DEF Accepted, Verdict
      <3> QED BY <3>1
    <2> QED BY <2>1, <2>2, <2>3, <2>4
  <1> HIDE DEF Set
  <1>2. Cardinality(Set) = 0 \/ Cardinality(Set) = 1
    BY <1>1, FS_EmptySet, FS_Singleton
  <1> QED BY <1>2 DEF Set

\* Oracle.Run, for any statements: a refusal that was printed is one, whatever
\* the deadline does, and nothing the parser has not accepted, or not reached,
\* is called accepted.
THEOREM VerdictsAreJustified == SpecOracle => []VerdictsJustified
  <1>1. OracleInv => VerdictsJustified
    <2> SUFFICES ASSUME OracleInv PROVE VerdictsJustified
      OBVIOUS
    <2>1. at.stmt \in 1..(Len(batch) + 1) /\ Len(stderr) <= 1 /\ Len(batch) \in Nat
      BY Streams DEF OracleInv, PlaceInv, PrintedInv
    <2>2. Refused => Refusal
      BY DEF Refused, OracleInv, PrintedInv
    <2>3. CASE ~Returned
      BY <2>1, <2>3 DEF VerdictsJustified, VerdictTypeOK, RefusalWins, AcceptMeansParsed, IsAccept
    <2>4. CASE Returned
      <3>1. verdict # NoVerdict /\ verdict # RunFailed
        BY <2>4 DEF Returned
      <3>2. verdict \in {Rejected, TimedOut, Crashed, Accepted(TRUE), Accepted(FALSE)}
        BY <3>1, WhatIsRead
      <3>3. Cardinality({f \in {"reject", "timedOut", "crashed"} : verdict[f]}) <= 1
        BY <3>2, OneFlag
      <3>4. CASE Refusal /\ verdict = Rejected
        <4>1. verdict.reject /\ ~verdict.postParseError
          BY <3>4 DEF Rejected, Verdict
        <4> QED BY <2>1, <3>3, <4>1 DEF VerdictsJustified, VerdictTypeOK, RefusalWins, AcceptMeansParsed, IsAccept
      <3>5. CASE ~Refusal /\ verdict \in {TimedOut, Crashed}
        <4>1. ~verdict.postParseError /\ (verdict.timedOut \/ verdict.crashed)
          BY <3>5 DEF TimedOut, Crashed, Verdict
        <4> QED BY <2>1, <2>2, <3>3, <3>5, <4>1
              DEF VerdictsJustified, VerdictTypeOK, RefusalWins, AcceptMeansParsed, IsAccept
      <3>6. CASE OtherError /\ at.phase = "exec" /\ verdict = Accepted(TRUE)
        <4>1. verdict.postParseError /\ ~verdict.reject /\ ~verdict.timedOut /\ ~verdict.crashed
          BY <3>6 DEF Accepted, Verdict
        <4>2. ParsedUpTo >= 1 /\ ~Refused
          BY <2>1, <3>6 DEF ParsedUpTo, Refused
        <4> QED BY <2>1, <2>4, <3>3, <4>1, <4>2
              DEF VerdictsJustified, VerdictTypeOK, RefusalWins, AcceptMeansParsed, IsAccept
      <3>7. CASE Silent /\ process = "exit 0" /\ verdict = Accepted(FALSE)
        <4>1. ~verdict.postParseError /\ ~verdict.reject /\ ~verdict.timedOut /\ ~verdict.crashed
          BY <3>7 DEF Accepted, Verdict
        <4>2. ParsedUpTo = Len(batch) /\ ~Refused
          <5>0. process # "exit 1"
            BY <3>7, Zenon
          <5>1. at.stmt = Len(batch) + 1
            BY <3>7, Zenon DEF OracleInv, PlaceInv
          <5>2. at.phase # "exec"
            <6>1. at.phase = "exec" => at.stmt <= Len(batch)
              BY Zenon DEF OracleInv, PlaceInv
            <6> QED BY <2>1, <5>1, <6>1
          <5>3. ParsedUpTo = Len(batch)
            BY <2>1, <5>1, <5>2 DEF ParsedUpTo
          <5> QED BY <5>0, <5>3, Zenon DEF Refused
        <4> QED BY <2>1, <3>3, <4>1, <4>2
              DEF VerdictsJustified, VerdictTypeOK, RefusalWins, AcceptMeansParsed, IsAccept
      <3> QED BY <3>1, <3>4, <3>5, <3>6, <3>7, WhatIsRead
    <2> QED BY <2>3, <2>4
  <1> QED BY <1>1, InitKeepsVerdict, StepKeepsVerdict, PTL DEF SpecOracle

-----------------------------------------------------------------------------
(* cmd/regenerate: the inductive invariant. *)

CasesOf(f) == FileCases(perFile[f], verdicts)

Cleaning == {"walk", "stale", "staleSidecar", "orphans", "readme"}

CorpusTyped == CorpusTypeOK /\ only \in SUBSET FileSet /\ limit \in Nat

\* What a run has extracted stays what upstream's tests say until it is over.
Extracted == /\ pc # "idle" => perFile = Kept(tree, only, limit) /\ DOMAIN perFile = only
             /\ pc = "oracle" => written = {}
             /\ pc \in {"oracle", "write"} => stale = {} /\ orphans = {}

\* The files with cases are written or still to be written; those written
\* hold their cases.
Wrote ==
    pc \in Cleaning \cup {"write", "done"} =>
        /\ \A f \in only : CasesOf(f) # <<>> <=> f \in written \cup toWrite
        /\ written \subseteq only
        /\ \A f \in written : corpus[f] = CasesOf(f)
        /\ pc # "write" => toWrite = {}

\* How far the cleanup of a full run has come.
Cleaned ==
    /\ pc \in Cleaning => ~Partial
    /\ pc \in {"stale", "staleSidecar"} => DOMAIN corpus \subseteq written \cup stale
    /\ pc \in {"stale", "staleSidecar", "orphans"} => sidecars \subseteq written \cup orphans
    /\ pc \in {"orphans", "readme"} \/ FullRunDone => DOMAIN corpus = written
    /\ pc = "readme" \/ FullRunDone => sidecars \subseteq written

CorpusInv == CorpusTyped /\ Extracted /\ Wrote /\ Cleaned

-----------------------------------------------------------------------------
(* What the steps have in common. *)

\* Of a nonempty set of numbers, one is the least; of a nonempty set of tests,
\* one comes first.
LEMMA LeastOf ==
    ASSUME NEW S \in SUBSET Nat, S # {}
    PROVE  \E k \in S : \A j \in S : k <= j
  <1>1. PICK k \in S : \A j \in S : <<j, k>> \notin OpToRel(<, Nat)
    BY NatLessThanWellFounded, WFMin
  <1>2. \A j \in S : ~(j < k)
    BY <1>1 DEF OpToRel
  <1>3. \A j \in S : j \in Nat
    OBVIOUS
  <1> QED BY <1>2, <1>3

LEMMA FirstFile ==
    ASSUME NEW S \in SUBSET FileSet, S # {}
    PROVE  \E f \in S : \E k \in 1..Len(Files) :
              Files[k] = f /\ \A j \in 1..Len(Files) : Files[j] \in S => k <= j
  <1> DEFINE Occurs == {k \in 1..Len(Files) : Files[k] \in S}
  <1>1. Files \in Seq(FileSet) /\ Len(Files) \in Nat
    BY LenProperties, InputAssumption
  <1>2. Occurs \in SUBSET Nat /\ Occurs # {}
    <2>1. PICK f \in S : f \in ToSet(Files)
      BY DEF FileSet
    <2>2. PICK k \in DOMAIN Files : Files[k] = f
      BY <2>1 DEF ToSet
    <2>3. DOMAIN Files = 1..Len(Files)
      BY <1>1
    <2> QED BY <1>1, <2>2, <2>3
  <1> HIDE DEF Occurs
  <1>3. PICK k \in Occurs : \A j \in Occurs : k <= j
    BY <1>2, LeastOf
  <1>4. \A j \in 1..Len(Files) : Files[j] \in S => k <= j
    BY <1>3 DEF Occurs
  <1> QED BY <1>3, <1>4 DEF Occurs

\* So the next file to write is one of those to write.
LEMMA NextIsToWrite ==
    ASSUME toWrite \in SUBSET FileSet, toWrite # {}
    PROVE  NextToWrite \in toWrite
  BY FirstFile, Zenon DEF NextToWrite

\* What a run extracts, it extracts from the tests it was told to read.
LEMMA KeptNames ==
    ASSUME NEW t, NEW names, NEW max
    PROVE  DOMAIN Kept(t, names, max) = names
  BY Zenon DEF Kept

LEMMA SameCases ==
    ASSUME UNCHANGED <<perFile, verdicts>>
    PROVE  \A f : CasesOf(f)' = CasesOf(f)
  BY DEF CasesOf

\* The steps that write to no disk and take no decision about what to write.
LEMMA IdleKeeps ==
    ASSUME CorpusTyped, UNCHANGED <<corpus, written, stale, orphans, toWrite, only, limit>>,
           sidecars' \in SUBSET FileSet, pc' = "idle"
    PROVE  CorpusInv'
  <1>1. CorpusTyped'
    BY DEF CorpusTyped, CorpusTypeOK
  <1>2. Extracted' /\ Wrote' /\ Cleaned'
    BY DEF Extracted, Wrote, Cleaned, Cleaning, FullRunDone
  <1> QED BY <1>1, <1>2 DEF CorpusInv

-----------------------------------------------------------------------------
(* Each step keeps the invariant. *)

LEMMA BetweenRuns ==
    ASSUME CorpusInv, Upstream \/ Triage \/ Abort
    PROVE  CorpusInv'
  <1>1. /\ pc' = "idle" /\ sidecars' \in SUBSET FileSet
        /\ UNCHANGED <<corpus, written, stale, orphans, toWrite, only, limit>>
    <2>1. sidecars \in SUBSET FileSet /\ DOMAIN corpus \in SUBSET FileSet
      BY DEF CorpusInv, CorpusTyped, CorpusTypeOK
    <2>2. CASE Upstream
      BY <2>1, <2>2 DEF Upstream, mem
    <2>3. CASE Triage
      BY <2>1, <2>3 DEF Triage, mem
    <2>4. CASE Abort
      BY <2>1, <2>4 DEF Abort, mem, disk
    <2> QED BY <2>2, <2>3, <2>4
  <1> QED BY <1>1, IdleKeeps DEF CorpusInv

LEMMA StartKeeps ==
    ASSUME CorpusInv, Start
    PROVE  CorpusInv'
  <1>1. /\ only' \in SUBSET FileSet /\ limit' \in Nat /\ pc' = "oracle"
        /\ perFile' = Kept(tree, only', limit')
        /\ toWrite' = {} /\ written' = {} /\ stale' = {} /\ orphans' = {}
        /\ UNCHANGED <<tree, corpus, sidecars>>
    BY InputAssumption DEF Start, disk
  <1>2. CorpusTyped'
    BY <1>1 DEF CorpusInv, CorpusTyped, CorpusTypeOK
  <1>3. Extracted'
    BY <1>1, KeptNames, Zenon DEF Extracted
  <1>4. Wrote' /\ Cleaned'
    BY <1>1 DEF Wrote, Cleaned, Cleaning, FullRunDone
  <1> QED BY <1>2, <1>3, <1>4 DEF CorpusInv

LEMMA OracleKeeps ==
    ASSUME CorpusInv, Oracle
    PROVE  CorpusInv'
  <1>1. PICK v : /\ verdicts' = v /\ toWrite' = {f \in DOMAIN perFile : FileCases(perFile[f], v) # <<>>}
                 /\ pc = "oracle" /\ pc' = "write"
                 /\ UNCHANGED <<tree, corpus, sidecars, only, limit, perFile, written, stale, orphans>>
                 /\ written = {}
    BY DEF Oracle, disk, CorpusInv, Extracted
  <1>2. Extracted' /\ DOMAIN perFile = only
    BY <1>1 DEF CorpusInv, Extracted
  <1>3. \A f \in only : CasesOf(f)' # <<>> <=> f \in toWrite'
    BY <1>1, <1>2 DEF CasesOf
  <1>4. CorpusTyped'
    BY <1>1, <1>2 DEF CorpusInv, CorpusTyped, CorpusTypeOK
  <1>5. Wrote'
    BY <1>1, <1>3 DEF Wrote
  <1>6. Cleaned'
    BY <1>1 DEF Cleaned, Cleaning, FullRunDone
  <1> QED BY <1>2, <1>4, <1>5, <1>6 DEF CorpusInv

\* The steps of the cleanup, and the README: the run's memory of what it
\* extracted, learnt and wrote stays.
LEMMA WroteKept ==
    ASSUME CorpusInv, pc \in Cleaning \cup {"write"}, pc = "write" => toWrite = {},
           pc' \in Cleaning \cup {"done"},
           UNCHANGED <<tree, only, limit, perFile, verdicts, toWrite, written>>,
           \A f \in written : corpus'[f] = corpus[f]
    PROVE  Extracted' /\ Wrote'
  <1>1. \A f : CasesOf(f)' = CasesOf(f)
    BY SameCases
  <1>2. Extracted'
    BY DEF CorpusInv, Extracted, Cleaning
  <1>3. Wrote'
    BY <1>1 DEF CorpusInv, Wrote, Cleaning
  <1> QED BY <1>2, <1>3

LEMMA WriteFileKeeps ==
    ASSUME CorpusInv, WriteFile
    PROVE  CorpusInv'
  <1>1. PICK f : f = NextToWrite
    OBVIOUS
  <1>2. /\ pc = "write" /\ pc' = "write" /\ toWrite # {} /\ toWrite' = toWrite \ {f} /\ written' = written \cup {f}
        /\ corpus' = [g \in DOMAIN corpus \cup {f} |-> IF g = f THEN CasesOf(f) ELSE corpus[g]]
        /\ UNCHANGED <<tree, sidecars, only, limit, perFile, verdicts, stale, orphans>>
    BY <1>1 DEF WriteFile, Writing, CasesOf
  <1>3. f \in toWrite /\ f \in only /\ f \in FileSet
    BY <1>1, <1>2, NextIsToWrite DEF CorpusInv, CorpusTyped, CorpusTypeOK
  <1>4. \A g : CasesOf(g)' = CasesOf(g)
    BY <1>2, SameCases
  <1>5. CorpusTyped'
    BY <1>2, <1>3 DEF CorpusInv, CorpusTyped, CorpusTypeOK, Extracted
  <1>6. Extracted'
    BY <1>2 DEF CorpusInv, Extracted
  <1>7. Wrote'
    <2>1. written \subseteq DOMAIN corpus
      BY DEF CorpusInv, CorpusTyped, CorpusTypeOK
    <2>2. \A g \in written' : corpus'[g] = CasesOf(g)
      BY <1>2, <2>1 DEF CorpusInv, Wrote
    <2>3. \A g \in only : CasesOf(g) # <<>> <=> g \in written' \cup toWrite'
      BY <1>2, <1>3 DEF CorpusInv, Wrote
    <2>4. written' \subseteq only
      BY <1>2, <1>3 DEF CorpusInv, Wrote
    <2> QED BY <1>2, <1>4, <2>2, <2>3, <2>4 DEF Wrote
  <1>8. Cleaned'
    BY <1>2 DEF Cleaned, Cleaning, FullRunDone
  <1> QED BY <1>5, <1>6, <1>7, <1>8 DEF CorpusInv

LEMMA AbortInWriteKeeps ==
    ASSUME CorpusInv, AbortInWrite
    PROVE  CorpusInv'
  <1>1. PICK f : f = NextToWrite
    OBVIOUS
  <1>2. /\ toWrite # {} /\ DOMAIN corpus' = DOMAIN corpus \cup {f} /\ pc' = "idle"
        /\ UNCHANGED <<sidecars, only, limit, toWrite, written, stale, orphans>>
    <2>1. PICK cases : corpus' = [g \in DOMAIN corpus \cup {f} |-> IF g = f THEN cases ELSE corpus[g]]
      BY <1>1 DEF AbortInWrite, Writing
    <2> QED BY <2>1 DEF AbortInWrite, mem
  <1>3. f \in FileSet
    BY <1>1, <1>2, NextIsToWrite DEF CorpusInv, CorpusTyped, CorpusTypeOK
  <1>4. CorpusTyped'
    BY <1>2, <1>3 DEF CorpusInv, CorpusTyped, CorpusTypeOK
  <1>5. Extracted' /\ Wrote' /\ Cleaned'
    BY <1>2 DEF Extracted, Wrote, Cleaned, Cleaning, FullRunDone
  <1> QED BY <1>4, <1>5 DEF CorpusInv

LEMMA AllWrittenKeeps ==
    ASSUME CorpusInv, AllWritten
    PROVE  CorpusInv'
  <1>1. /\ pc = "write" /\ toWrite = {} /\ pc' = IF Partial THEN "done" ELSE "walk"
        /\ UNCHANGED <<tree, corpus, sidecars, readme, only, limit, perFile, verdicts, toWrite, written, stale, orphans>>
    BY DEF AllWritten, disk, mem
  <1>2. Extracted' /\ Wrote'
    BY <1>1, WroteKept DEF Cleaning
  <1>3. CorpusTyped'
    BY <1>1 DEF CorpusInv, CorpusTyped, CorpusTypeOK
  <1>4. Cleaned'
    BY <1>1 DEF Cleaned, Cleaning, FullRunDone, Partial
  <1> QED BY <1>2, <1>3, <1>4 DEF CorpusInv

LEMMA WalkKeeps ==
    ASSUME CorpusInv, Walk
    PROVE  CorpusInv'
  <1>1. /\ pc = "walk" /\ pc' = "stale" /\ stale' = DOMAIN corpus \ written /\ orphans' = sidecars \ written
        /\ UNCHANGED <<tree, corpus, sidecars, only, limit, perFile, verdicts, toWrite, written>>
    BY DEF Walk, disk
  <1>2. Extracted' /\ Wrote'
    BY <1>1, WroteKept DEF Cleaning
  <1>3. CorpusTyped'
    BY <1>1 DEF CorpusInv, CorpusTyped, CorpusTypeOK
  <1>4. Cleaned'
    BY <1>1 DEF CorpusInv, Cleaned, Cleaning, FullRunDone, Partial
  <1> QED BY <1>2, <1>3, <1>4 DEF CorpusInv

LEMMA RemoveFileKeeps ==
    ASSUME CorpusInv, RemoveFile
    PROVE  CorpusInv'
  <1>1. PICK f \in stale \cap DOMAIN corpus :
          /\ corpus' = [g \in DOMAIN corpus \ {f} |-> corpus[g]]
          /\ pc = "stale" /\ pc' = "staleSidecar"
          /\ UNCHANGED <<tree, sidecars, only, limit, perFile, verdicts, toWrite, written, stale, orphans>>
    BY DEF RemoveFile, mem
  <1>2. /\ written \subseteq DOMAIN corpus /\ stale \cap written = {}
        /\ \A g \in written : corpus'[g] = corpus[g]
    BY <1>1 DEF CorpusInv, CorpusTyped, CorpusTypeOK
  <1>3. Extracted' /\ Wrote'
    BY <1>1, <1>2, WroteKept DEF Cleaning
  <1>4. CorpusTyped'
    BY <1>1, <1>2 DEF CorpusInv, CorpusTyped, CorpusTypeOK
  <1>5. Cleaned'
    BY <1>1 DEF CorpusInv, Cleaned, Cleaning, FullRunDone, Partial
  <1> QED BY <1>3, <1>4, <1>5 DEF CorpusInv

LEMMA RemoveItsSidecarKeeps ==
    ASSUME CorpusInv, RemoveItsSidecar
    PROVE  CorpusInv'
  <1>1. PICK f \in stale \ DOMAIN corpus :
          /\ stale' = stale \ {f} /\ sidecars' = sidecars \ {f}
          /\ pc = "staleSidecar" /\ pc' = "stale"
          /\ UNCHANGED <<tree, corpus, only, limit, perFile, verdicts, toWrite, written, orphans>>
    BY DEF RemoveItsSidecar
  <1>2. Extracted' /\ Wrote'
    BY <1>1, WroteKept DEF Cleaning
  <1>3. CorpusTyped'
    BY <1>1 DEF CorpusInv, CorpusTyped, CorpusTypeOK
  <1>4. Cleaned'
    BY <1>1 DEF CorpusInv, Cleaned, Cleaning, FullRunDone, Partial
  <1> QED BY <1>2, <1>3, <1>4 DEF CorpusInv

LEMMA NoMoreStaleKeeps ==
    ASSUME CorpusInv, NoMoreStale
    PROVE  CorpusInv'
  <1>1. /\ pc = "stale" /\ stale = {} /\ pc' = "orphans"
        /\ UNCHANGED <<tree, corpus, sidecars, only, limit, perFile, verdicts, toWrite, written, stale, orphans>>
    BY DEF NoMoreStale, disk, mem
  <1>2. Extracted' /\ Wrote'
    BY <1>1, WroteKept DEF Cleaning
  <1>3. CorpusTyped'
    BY <1>1 DEF CorpusInv, CorpusTyped, CorpusTypeOK
  <1>4. Cleaned'
    BY <1>1 DEF CorpusInv, Cleaned, Cleaning, FullRunDone, Partial, CorpusTyped, CorpusTypeOK
  <1> QED BY <1>2, <1>3, <1>4 DEF CorpusInv

LEMMA RemoveOrphanKeeps ==
    ASSUME CorpusInv, RemoveOrphan
    PROVE  CorpusInv'
  <1>1. PICK f \in orphans :
          /\ orphans' = orphans \ {f} /\ sidecars' = sidecars \ {f} /\ pc = "orphans" /\ pc' = "orphans"
          /\ UNCHANGED <<tree, corpus, only, limit, perFile, verdicts, toWrite, written, stale>>
    BY DEF RemoveOrphan
  <1>2. Extracted' /\ Wrote'
    BY <1>1, WroteKept DEF Cleaning
  <1>3. CorpusTyped'
    BY <1>1 DEF CorpusInv, CorpusTyped, CorpusTypeOK
  <1>4. Cleaned'
    BY <1>1 DEF CorpusInv, Cleaned, Cleaning, FullRunDone, Partial
  <1> QED BY <1>2, <1>3, <1>4 DEF CorpusInv

LEMMA NoMoreOrphansKeeps ==
    ASSUME CorpusInv, NoMoreOrphans
    PROVE  CorpusInv'
  <1>1. /\ pc = "orphans" /\ orphans = {} /\ pc' = "readme"
        /\ UNCHANGED <<tree, corpus, sidecars, only, limit, perFile, verdicts, toWrite, written, stale, orphans>>
    BY DEF NoMoreOrphans, disk, mem
  <1>2. Extracted' /\ Wrote'
    BY <1>1, WroteKept DEF Cleaning
  <1>3. CorpusTyped'
    BY <1>1 DEF CorpusInv, CorpusTyped, CorpusTypeOK
  <1>4. Cleaned'
    BY <1>1 DEF CorpusInv, Cleaned, Cleaning, FullRunDone, Partial
  <1> QED BY <1>2, <1>3, <1>4 DEF CorpusInv

LEMMA WriteReadmeKeeps ==
    ASSUME CorpusInv, WriteReadme
    PROVE  CorpusInv'
  <1>1. /\ pc = "readme" /\ pc' = "done"
        /\ UNCHANGED <<tree, corpus, sidecars, only, limit, perFile, verdicts, toWrite, written, stale, orphans>>
    BY DEF WriteReadme, mem
  <1>2. Extracted' /\ Wrote'
    BY <1>1, WroteKept DEF Cleaning
  <1>3. CorpusTyped'
    BY <1>1 DEF CorpusInv, CorpusTyped, CorpusTypeOK
  <1>4. Cleaned'
    BY <1>1 DEF CorpusInv, Cleaned, Cleaning, FullRunDone, Partial
  <1> QED BY <1>2, <1>3, <1>4 DEF CorpusInv

-----------------------------------------------------------------------------
(* The invariant. *)

LEMMA InitKeeps ==
    ASSUME InitRegenerate
    PROVE  CorpusInv
  <1>1. /\ pc = "idle" /\ only = FileSet /\ limit = 0 /\ DOMAIN corpus = {} /\ sidecars = {}
        /\ toWrite = {} /\ written = {} /\ stale = {} /\ orphans = {}
    BY DEF InitRegenerate
  <1> QED
    BY <1>1 DEF CorpusInv, CorpusTyped, CorpusTypeOK, Extracted, Wrote, Cleaned, Cleaning, FullRunDone

LEMMA StepKeeps ==
    ASSUME CorpusInv, [NextRegenerate]_regenerateVars
    PROVE  CorpusInv'
  <1>1. CASE UNCHANGED regenerateVars
    <2>1. UNCHANGED <<tree, corpus, sidecars, pc, only, limit, perFile, verdicts, toWrite, written, stale, orphans>>
      BY <1>1 DEF regenerateVars, disk, mem
    <2>2. \A f : CasesOf(f)' = CasesOf(f)
      BY <2>1, SameCases
    <2> QED BY <2>1, <2>2 DEF CorpusInv, CorpusTyped, CorpusTypeOK, Extracted, Wrote, Cleaned, FullRunDone, Partial
  <1>2. CASE Upstream \/ Triage \/ Abort
    BY <1>2, BetweenRuns
  <1>3. CASE Start \/ Oracle \/ WriteFile \/ AbortInWrite
    BY <1>3, StartKeeps, OracleKeeps, WriteFileKeeps, AbortInWriteKeeps
  <1>4. CASE AllWritten \/ Walk \/ RemoveFile \/ RemoveItsSidecar
    BY <1>4, AllWrittenKeeps, WalkKeeps, RemoveFileKeeps, RemoveItsSidecarKeeps
  <1>5. CASE NoMoreStale \/ RemoveOrphan \/ NoMoreOrphans \/ WriteReadme
    BY <1>5, NoMoreStaleKeeps, RemoveOrphanKeeps, NoMoreOrphansKeeps, WriteReadmeKeeps
  <1> QED BY <1>1, <1>2, <1>3, <1>4, <1>5 DEF NextRegenerate

\* cmd/regenerate: in every state, of every run, the disk and what the run
\* remembers of it agree as CorpusInv says.
THEOREM CorpusInductive == SpecRegenerate => []CorpusInv
  <1>1. InitRegenerate => CorpusInv
    BY InitKeeps
  <1>2. CorpusInv /\ [NextRegenerate]_regenerateVars => CorpusInv'
    BY StepKeeps
  <1> QED BY <1>1, <1>2, PTL DEF SpecRegenerate

\* The corpus is a function from its files, whatever writes to it.
IsMap == corpus = [f \in DOMAIN corpus |-> corpus[f]]

LEMMA CorpusIsMap == SpecRegenerate => []IsMap
  <1>1. InitRegenerate => IsMap
    <2> SUFFICES ASSUME corpus = <<>>
                 PROVE  IsMap
      BY DEF InitRegenerate
    <2> QED BY DEF IsMap
  <1>2. IsMap /\ [NextRegenerate]_regenerateVars => IsMap'
    <2> SUFFICES ASSUME IsMap, [NextRegenerate]_regenerateVars
                 PROVE  IsMap'
      OBVIOUS
    <2>1. CASE corpus' = corpus
      BY <2>1, Zenon DEF IsMap
    <2>2. CASE RemoveFile
      BY <2>2, Zenon DEF RemoveFile, IsMap
    <2>3. CASE WriteFile \/ AbortInWrite
      <3>1. \E cases : Writing(cases)
        BY <2>3, Zenon DEF WriteFile, AbortInWrite
      <3> QED BY <3>1, Zenon DEF Writing, IsMap
    <2>4. corpus' = corpus \/ RemoveFile \/ WriteFile \/ AbortInWrite
      BY DEF NextRegenerate, regenerateVars, disk, Upstream, Triage, Start, Oracle, AllWritten, Walk, RemoveItsSidecar,
             NoMoreStale, RemoveOrphan, NoMoreOrphans, WriteReadme, Abort
    <2> QED BY <2>1, <2>2, <2>3, <2>4
  <1> QED BY <1>1, <1>2, PTL DEF SpecRegenerate

-----------------------------------------------------------------------------
(* What follows. *)

\* cmd/regenerate's writes and removeStale: whatever runs before it were cut
\* short or partial, a full run that ends leaves exactly the files the tests
\* and verdicts call for, with exactly their cases, and no sidecar without
\* its file.
THEOREM FullRunForgets == SpecRegenerate => [](CorpusIsTheRuns /\ NoOrphans)
  <1>1. CorpusInv /\ IsMap => CorpusIsTheRuns /\ NoOrphans
    <2> SUFFICES ASSUME CorpusInv, IsMap, FullRunDone
                 PROVE  /\ sidecars \subseteq DOMAIN corpus
                        /\ corpus = [f \in {g \in FileSet : FileCases(Kept(tree, FileSet, 0)[g], verdicts) # <<>>}
                                        |-> FileCases(Kept(tree, FileSet, 0)[f], verdicts)]
      BY DEF CorpusIsTheRuns, NoOrphans
    <2>1. pc = "done" /\ only = FileSet /\ limit = 0
      BY DEF FullRunDone, Partial, CorpusInv, CorpusTyped
    <2>2. perFile = Kept(tree, FileSet, 0)
      BY <2>1 DEF CorpusInv, Extracted
    <2>3. DOMAIN corpus = written /\ sidecars \subseteq written
      BY DEF CorpusInv, Cleaned
    <2>4. /\ \A f \in FileSet : CasesOf(f) # <<>> <=> f \in written
          /\ written \subseteq FileSet /\ \A f \in written : corpus[f] = CasesOf(f)
      BY <2>1 DEF CorpusInv, Wrote
    <2> DEFINE Here(g) == FileCases(Kept(tree, FileSet, 0)[g], verdicts)
    <2>5. \A g : CasesOf(g) = Here(g)
      BY <2>2, Zenon DEF CasesOf
    <2> HIDE DEF Here
    <2>6. written = {g \in FileSet : Here(g) # <<>>}
      <3>1. \A g \in FileSet : Here(g) # <<>> <=> g \in written
        BY <2>4, <2>5, Zenon
      <3> QED BY <2>4, <3>1
    <2>7. corpus = [f \in DOMAIN corpus |-> corpus[f]]
      BY DEF IsMap
    <2>8. corpus = [f \in written |-> Here(f)]
      BY <2>3, <2>4, <2>5, <2>7, Zenon
    <2> QED BY <2>3, <2>6, <2>8, Zenon DEF Here
  <1> QED BY <1>1, CorpusInductive, CorpusIsMap, PTL

LEMMA WritesKeepTheRest ==
    ASSUME CorpusInv, WriteFile \/ AbortInWrite
    PROVE  RemovesOnlyStale /\ PartialKeepsRest
  <1>1. NextToWrite \in toWrite /\ toWrite \subseteq only
    <2>1. toWrite # {} /\ toWrite \subseteq only /\ only \subseteq FileSet
      BY DEF WriteFile, AbortInWrite, CorpusInv, CorpusTyped, CorpusTypeOK
    <2> QED BY <2>1, NextIsToWrite
  <1>2. UNCHANGED <<sidecars, readme>>
    BY DEF WriteFile, AbortInWrite
  <1>3. PICK cases : Writing(cases)
    BY Zenon DEF WriteFile, AbortInWrite
  <1>4. /\ DOMAIN corpus \subseteq DOMAIN corpus'
        /\ \A f \in DOMAIN corpus : f # NextToWrite => corpus'[f] = corpus[f]
    BY <1>3 DEF Writing
  <1> QED BY <1>1, <1>2, <1>4 DEF RemovesOnlyStale, PartialKeepsRest

LEMMA CleanupKeepsWhatIsWritten ==
    ASSUME CorpusInv,
           RemoveFile \/ RemoveItsSidecar \/ NoMoreStale \/ RemoveOrphan \/ NoMoreOrphans \/ WriteReadme
    PROVE  RemovesOnlyStale /\ PartialKeepsRest
  <1>1. pc \in Cleaning
    BY DEF RemoveFile, RemoveItsSidecar, NoMoreStale, RemoveOrphan, NoMoreOrphans, WriteReadme, Cleaning
  <1>2. PartialKeepsRest
    BY <1>1 DEF PartialKeepsRest, CorpusInv, Cleaned
  <1>3. RemovesOnlyStale
    <2>1. CASE RemoveFile
      <3>1. /\ UNCHANGED <<perFile, verdicts>>
            /\ DOMAIN corpus \ DOMAIN corpus' \subseteq stale
        BY <2>1 DEF RemoveFile, mem
      <3>2. \A f \in only : CasesOf(f) # <<>> <=> f \in written
        BY <1>1 DEF CorpusInv, Wrote, Cleaning
      <3>3. stale \cap written = {} /\ DOMAIN perFile = only
        BY <1>1 DEF CorpusInv, CorpusTyped, CorpusTypeOK, Extracted, Cleaning
      <3> SUFFICES ASSUME NEW f \in DOMAIN corpus \ DOMAIN corpus', f \in DOMAIN perFile
                   PROVE  FileCases(perFile[f], verdicts') = <<>>
        BY DEF RemovesOnlyStale
      <3>4. f \notin written /\ f \in only
        BY <3>1, <3>3
      <3>5. FileCases(perFile[f], verdicts) = <<>>
        BY <3>2, <3>4, Zenon DEF CasesOf
      <3> QED BY <3>1, <3>5, Zenon
    <2>2. CASE ~RemoveFile
      <3>1. corpus' = corpus
        BY <2>2 DEF RemoveItsSidecar, NoMoreStale, RemoveOrphan, NoMoreOrphans, WriteReadme, disk
      <3> QED BY <3>1 DEF RemovesOnlyStale
    <2> QED BY <2>1, <2>2
  <1> QED BY <1>2, <1>3

\* cmd/regenerate's main: even a run that is cut short removes only files it
\* has no cases for, and a run with -only or -limit touches nothing but the
\* files it extracts from.
THEOREM RunsKeepWhatTheyShould == SpecRegenerate => RegenerateKeeps
  <1>1. CorpusInv /\ [NextRegenerate]_regenerateVars => [RemovesOnlyStale /\ PartialKeepsRest]_regenerateVars
    <2> SUFFICES ASSUME CorpusInv, NextRegenerate
                 PROVE  RemovesOnlyStale /\ PartialKeepsRest
      OBVIOUS
    <2>1. CASE WriteFile \/ AbortInWrite
      BY <2>1, WritesKeepTheRest
    <2>2. CASE Upstream \/ Triage \/ Start
      BY <2>2 DEF Upstream, Triage, Start, RemovesOnlyStale, PartialKeepsRest
    <2>3. CASE Oracle \/ AllWritten \/ Walk \/ Abort
      <3>1. UNCHANGED <<corpus, sidecars, readme>>
        BY <2>3 DEF Oracle, AllWritten, Walk, Abort, disk
      <3> QED BY <3>1 DEF RemovesOnlyStale, PartialKeepsRest
    <2>4. CASE RemoveFile \/ RemoveItsSidecar \/ NoMoreStale \/ RemoveOrphan \/ NoMoreOrphans \/ WriteReadme
      BY <2>4, CleanupKeepsWhatIsWritten
    <2> QED BY <2>1, <2>2, <2>3, <2>4 DEF NextRegenerate
  <1> QED BY <1>1, CorpusInductive, PTL DEF SpecRegenerate, RegenerateKeeps

-----------------------------------------------------------------------------
(* What is picked from a sequence. *)

UpTo(S, j) == {k \in S : k <= j}

\* The elements of a finite set of numbers are told apart by how many there
\* are up to each, and every count up to the set's occurs.
LEMMA Ranks ==
    ASSUME NEW S \in SUBSET Nat, IsFiniteSet(S)
    PROVE  /\ Cardinality(S) \in Nat
           /\ \A i \in 1..Cardinality(S) : \E j \in S : Cardinality(UpTo(S, j)) = i
           /\ \A j, k \in S : Cardinality(UpTo(S, j)) = Cardinality(UpTo(S, k)) => j = k
           /\ \A j \in S : Cardinality(UpTo(S, j)) \in 1..Cardinality(S)
  <1> DEFINE n == Cardinality(S)
             rank == [j \in S |-> Cardinality(UpTo(S, j))]
  <1>1. n \in Nat
    BY FS_CardinalityType
  <1>2. \A j \in S : IsFiniteSet(UpTo(S, j)) /\ Cardinality(UpTo(S, j)) \in 1..n
    <2> TAKE j \in S
    <2>1. UpTo(S, j) \in SUBSET S /\ j \in UpTo(S, j)
      BY DEF UpTo
    <2>2. IsFiniteSet(UpTo(S, j)) /\ Cardinality(UpTo(S, j)) <= n
      BY <2>1, FS_Subset
    <2>3. Cardinality(UpTo(S, j)) \in Nat /\ Cardinality(UpTo(S, j)) # 0
      BY <2>1, <2>2, FS_CardinalityType, FS_EmptySet
    <2> HIDE DEF n
    <2> QED BY <1>1, <2>2, <2>3
  <1>3. \A j, k \in S : j < k => Cardinality(UpTo(S, j)) # Cardinality(UpTo(S, k))
    <2> SUFFICES ASSUME NEW j \in S, NEW k \in S, j < k,
                        Cardinality(UpTo(S, j)) = Cardinality(UpTo(S, k))
                 PROVE  FALSE
      OBVIOUS
    <2>1. j \in Nat /\ k \in Nat
      OBVIOUS
    <2>2. UpTo(S, j) \in SUBSET UpTo(S, k)
      <3>1. \A x \in S : x <= j => x <= k
        BY <2>1
      <3> QED BY <3>1 DEF UpTo
    <2>3. UpTo(S, k) = UpTo(S, j)
      BY <1>2, <2>2, FS_Subset
    <2>4. k \in UpTo(S, k) /\ k \notin UpTo(S, j)
      BY <2>1 DEF UpTo
    <2> QED BY <2>3, <2>4
  <1>4. \A j, k \in S : Cardinality(UpTo(S, j)) = Cardinality(UpTo(S, k)) => j = k
    <2> TAKE j, k \in S
    <2>1. j \in Nat /\ k \in Nat
      OBVIOUS
    <2>2. j < k \/ k < j \/ j = k
      BY <2>1
    <2> QED BY <1>3, <2>2
  <1>5. rank \in Injection(S, 1..n)
    <2>1. rank \in [S -> 1..n]
      BY <1>2
    <2>2. \A j, k \in S : rank[j] = rank[k] => j = k
      BY <1>4
    <2> HIDE DEF rank, n
    <2> QED BY <2>1, <2>2, Fun_IsInj
  <1>6. IsFiniteSet(1..n) /\ Cardinality(1..n) = n
    <2> HIDE DEF n
    <2>1. 1 \in Int /\ n \in Int
      BY <1>1
    <2>2. IsFiniteSet(1..n) /\ Cardinality(1..n) = IF 1 > n THEN 0 ELSE n - 1 + 1
      BY <2>1, FS_Interval
    <2> QED BY <1>1, <2>2
  <1>7. rank \in Surjection(S, 1..n)
    <2> HIDE DEF rank
    <2> QED BY <1>5, <1>6, FS_Injection
  <1>8. \A i \in 1..n : \E j \in S : rank[j] = i
    <2> HIDE DEF rank, n
    <2> QED BY <1>7, Fun_SurjectionProperties
  <1> QED BY <1>1, <1>2, <1>4, <1>8

\* What is picked is what s holds at the indices, each once.
LEMMA PickedHolds ==
    ASSUME NEW s, NEW n \in Nat, NEW S \in SUBSET (1..n)
    PROVE  /\ Len(Picked(s, S)) \in Nat /\ DOMAIN Picked(s, S) = 1..Len(Picked(s, S))
           /\ \A i \in 1..Len(Picked(s, S)) : \E j \in S : Picked(s, S)[i] = s[j]
           /\ \A j \in S : \E i \in 1..Len(Picked(s, S)) : Picked(s, S)[i] = s[j]
           /\ (\A j, k \in S : s[j] = s[k] => j = k) =>
                 \A i, l \in 1..Len(Picked(s, S)) : Picked(s, S)[i] = Picked(s, S)[l] => i = l
  <1> DEFINE m == Cardinality(S)
             Place(i) == CHOOSE j \in S : Cardinality(UpTo(S, j)) = i
  <1>1. S \in SUBSET Nat /\ IsFiniteSet(S)
    <2>1. \A x \in S : x \in Nat /\ x <= n
      OBVIOUS
    <2>2. S \in SUBSET Nat
      BY <2>1
    <2> QED BY <2>1, <2>2, FS_BoundedSetOfNaturals
  <1>2. /\ m \in Nat
        /\ \A i \in 1..m : Place(i) \in S /\ Cardinality(UpTo(S, Place(i))) = i
        /\ \A j \in S : Cardinality(UpTo(S, j)) \in 1..m
        /\ \A j, k \in S : Cardinality(UpTo(S, j)) = Cardinality(UpTo(S, k)) => j = k
    <2>1. m \in Nat /\ \A i \in 1..m : \E j \in S : Cardinality(UpTo(S, j)) = i
      BY <1>1, Ranks
    <2>2. \A i \in 1..m : Place(i) \in S /\ Cardinality(UpTo(S, Place(i))) = i
      BY <2>1
    <2> QED BY <1>1, <2>1, <2>2, Ranks
  <1> HIDE DEF Place, m
  <1>3. Picked(s, S) = [i \in 1..m |-> s[Place(i)]]
    BY Zenon DEF Picked, Place, m, UpTo
  <1>4. Len(Picked(s, S)) = m /\ DOMAIN Picked(s, S) = 1..m
    BY <1>2, <1>3
  <1>5. \A i \in 1..m : Picked(s, S)[i] = s[Place(i)]
    BY <1>3
  <1>6. \A j \in S : Place(Cardinality(UpTo(S, j))) = j
    BY <1>2
  <1>7. \A j \in S : \E i \in 1..m : Picked(s, S)[i] = s[j]
    BY <1>2, <1>5, <1>6
  <1>8. ASSUME \A j, k \in S : s[j] = s[k] => j = k
        PROVE  \A i, l \in 1..m : Picked(s, S)[i] = Picked(s, S)[l] => i = l
    <2> TAKE i, l \in 1..m
    <2> SUFFICES ASSUME Picked(s, S)[i] = Picked(s, S)[l]
                 PROVE  i = l
      OBVIOUS
    <2>1. s[Place(i)] = s[Place(l)] /\ Place(i) \in S /\ Place(l) \in S
      BY <1>2, <1>5
    <2>2. Place(i) = Place(l)
      BY <1>8, <2>1
    <2> QED BY <1>2, <2>2
  <1> QED BY <1>2, <1>4, <1>5, <1>7, <1>8

-----------------------------------------------------------------------------
(* What a full run extracts. *)

AllNew(t) == New(t, FileSet)

\* The places of all statements.
LEMMA AllPlaces ==
    ASSUME NEW t \in Trees, NEW p
    PROVE  p \in Places(t, FileSet) <=>
              \E k \in 1..Len(Files) : \E j \in 1..Len(t[Files[k]]) : p = <<k, j>>
  <1>1. \A k \in 1..Len(Files) : Files[k] \in FileSet
    BY InputAssumption, LenProperties, ElementOfSeq
  <1> DEFINE Of(k) == {k} \X (1..Len(t[Files[k]]))
  <1>2. \A k, x : x \in Of(k) <=> \E j \in 1..Len(t[Files[k]]) : x = <<k, j>>
    OBVIOUS
  <1>3. Places(t, FileSet) = UNION {Of(k) : k \in {i \in 1..Len(Files) : Files[i] \in FileSet}}
    BY Zenon DEF Places
  <1> HIDE DEF Of
  <1>4. p \in Places(t, FileSet) <=> \E k \in {i \in 1..Len(Files) : Files[i] \in FileSet} : p \in Of(k)
    BY <1>3, Zenon
  <1>5. p \in Places(t, FileSet) <=> \E k \in 1..Len(Files) : p \in Of(k)
    BY <1>1, <1>4, Zenon
  <1> QED BY <1>2, <1>5, Zenon

LEMMA Sizes ==
    ASSUME NEW t \in Trees
    PROVE  /\ Len(Files) \in Nat /\ DOMAIN Files = 1..Len(Files)
           /\ \A f \in FileSet : /\ Len(t[f]) \in Nat /\ DOMAIN t[f] = 1..Len(t[f])
                                 /\ \A s : s \in ToSet(t[f]) <=> \E j \in 1..Len(t[f]) : t[f][j] = s
           /\ \A k \in 1..Len(Files) : Files[k] \in FileSet
           /\ \A f \in FileSet : \E k \in 1..Len(Files) : Files[k] = f
  <1>1. Len(Files) \in Nat /\ DOMAIN Files = 1..Len(Files)
    BY InputAssumption, LenProperties
  <1>2. \A f \in FileSet : Len(t[f]) \in Nat /\ DOMAIN t[f] = 1..Len(t[f])
    BY InputAssumption, LenProperties
  <1>3. \A f \in FileSet : \A s : s \in ToSet(t[f]) <=> \E j \in 1..Len(t[f]) : t[f][j] = s
    BY <1>2, Zenon DEF ToSet
  <1>4. \A f : f \in FileSet <=> \E k \in 1..Len(Files) : Files[k] = f
    BY <1>1, Zenon DEF FileSet, ToSet
  <1> QED BY <1>1, <1>2, <1>3, <1>4, Zenon

\* Two places are the same, or one precedes the other.
LEMMA PlacesOrdered ==
    ASSUME NEW t \in Trees, NEW p \in Places(t, FileSet), NEW q \in Places(t, FileSet)
    PROVE  p = q \/ Precedes(p, q) \/ Precedes(q, p)
  <1>1a. PICK k \in 1..Len(Files) : \E j \in 1..Len(t[Files[k]]) : p = <<k, j>>
    BY AllPlaces
  <1>1. PICK j \in 1..Len(t[Files[k]]) : p = <<k, j>>
    BY <1>1a
  <1>2a. PICK l \in 1..Len(Files) : \E i \in 1..Len(t[Files[l]]) : q = <<l, i>>
    BY AllPlaces
  <1>2. PICK i \in 1..Len(t[Files[l]]) : q = <<l, i>>
    BY <1>2a
  <1>3. Len(Files) \in Nat /\ Len(t[Files[k]]) \in Nat /\ Len(t[Files[l]]) \in Nat
    BY Sizes
  <1>4. (k = l /\ j = i) \/ (k < l \/ (k = l /\ j < i)) \/ (l < k \/ (l = k /\ i < j))
    BY <1>3
  <1>5. p[1] = k /\ p[2] = j /\ q[1] = l /\ q[2] = i
    BY <1>1, <1>2
  <1> QED BY <1>1, <1>2, <1>4, <1>5, Zenon DEF Precedes

\* A statement is new in one place only.
LEMMA NewOnce ==
    ASSUME NEW t \in Trees, NEW p \in AllNew(t), NEW q \in AllNew(t), Stmt(t, p) = Stmt(t, q)
    PROVE  p = q
  <1>1. p \in Places(t, FileSet) /\ q \in Places(t, FileSet)
    BY DEF AllNew, New
  <1>2. ~Precedes(p, q) /\ ~Precedes(q, p)
    BY <1>1 DEF AllNew, New
  <1> QED BY <1>1, <1>2, PlacesOrdered

StorableIn(t, f) == ToSet(t[f]) \ Unstorable

\* Where a statement is new: in the first file that has it.
LEMMA NewIsFirst ==
    ASSUME NEW t \in Trees, NEW p \in AllNew(t)
    PROVE  /\ p[1] \in 1..Len(Files) /\ p[2] \in 1..Len(t[Files[p[1]]]) /\ p = <<p[1], p[2]>>
           /\ Stmt(t, p) = t[Files[p[1]]][p[2]]
           /\ Stmt(t, p) \in StorableIn(t, Files[p[1]])
           /\ \A k \in 1..(p[1] - 1) : Stmt(t, p) \notin StorableIn(t, Files[k])
  <1>1. p \in Places(t, FileSet) /\ Stmt(t, p) \notin Unstorable
    BY DEF AllNew, New
  <1>2a. PICK k \in 1..Len(Files) : \E j \in 1..Len(t[Files[k]]) : p = <<k, j>>
    BY <1>1, AllPlaces
  <1>2. PICK j \in 1..Len(t[Files[k]]) : p = <<k, j>>
    BY <1>2a
  <1>3. p[1] = k /\ p[2] = j /\ Len(Files) \in Nat
    BY <1>2, Sizes
  <1>4. Stmt(t, p) = t[Files[p[1]]][p[2]]
    BY DEF Stmt
  <1>5. Stmt(t, p) \in StorableIn(t, Files[p[1]])
    <2>1. Files[k] \in FileSet
      BY Sizes
    <2>2. t[Files[k]][j] \in ToSet(t[Files[k]])
      BY <2>1, Sizes, Zenon
    <2> QED BY <1>1, <1>3, <1>4, <2>2, Zenon DEF StorableIn
  <1>6. ASSUME NEW l \in 1..(k - 1), Stmt(t, p) \in StorableIn(t, Files[l])
        PROVE  FALSE
    <2>1. l \in 1..Len(Files) /\ l < k
      BY <1>3
    <2>2. Files[l] \in FileSet
      BY <2>1, Sizes
    <2>2a. Stmt(t, p) \in ToSet(t[Files[l]])
      BY <1>6, Zenon DEF StorableIn
    <2>3. PICK i \in 1..Len(t[Files[l]]) : t[Files[l]][i] = Stmt(t, p)
      BY <2>2, <2>2a, Sizes, Zenon
    <2>4. <<l, i>> \in Places(t, FileSet)
      BY <2>1, AllPlaces
    <2>5. Stmt(t, <<l, i>>) = Stmt(t, p)
      BY <2>3 DEF Stmt
    <2>6. Precedes(<<l, i>>, p)
      BY <1>3, <2>1 DEF Precedes
    <2> QED BY <2>4, <2>5, <2>6 DEF AllNew, New
  <1> QED BY <1>2, <1>3, <1>4, <1>5, <1>6

\* Every storable statement is new somewhere.
LEMMA NewSomewhere ==
    ASSUME NEW t \in Trees, NEW f \in FileSet, NEW s \in StorableIn(t, f)
    PROVE  \E p \in AllNew(t) : Stmt(t, p) = s
  <1> DEFINE Ks    == {k \in 1..Len(Files) : s \in StorableIn(t, Files[k])}
             Js(k) == {j \in 1..Len(t[Files[k]]) : t[Files[k]][j] = s}
  <1>1. Ks \in SUBSET Nat /\ Ks # {}
    <2>1. PICK k \in 1..Len(Files) : Files[k] = f
      BY Sizes
    <2> QED BY <2>1
  <1>2. PICK k \in Ks : \A l \in Ks : k <= l
    <2> HIDE DEF Ks
    <2> QED BY <1>1, LeastOf
  <1>3. Files[k] \in FileSet /\ k \in 1..Len(Files) /\ s \notin Unstorable /\ s \in ToSet(t[Files[k]])
    BY <1>2, Sizes DEF StorableIn
  <1>4. Js(k) \in SUBSET Nat /\ Js(k) # {}
    <2>1. Files[k] \in FileSet /\ s \in ToSet(t[Files[k]])
      BY <1>3
    <2> HIDE DEF Ks, Js
    <2>1a. \A x \in FileSet : \A z : z \in ToSet(t[x]) <=> \E j \in 1..Len(t[x]) : t[x][j] = z
      BY Sizes
    <2>2. \E j \in 1..Len(t[Files[k]]) : t[Files[k]][j] = s
      BY <2>1, <2>1a, Zenon
    <2> QED BY <2>2 DEF Js
  <1>5. PICK j \in Js(k) : \A i \in Js(k) : j <= i
    <2> HIDE DEF Js
    <2> QED BY <1>4, LeastOf
  <1> DEFINE p == <<k, j>>
  <1>6. p \in Places(t, FileSet) /\ Stmt(t, p) = s
    <2>1. j \in 1..Len(t[Files[k]]) /\ t[Files[k]][j] = s
      BY <1>5
    <2> QED BY <1>3, <2>1, AllPlaces DEF Stmt
  <1>7. ASSUME NEW q \in Places(t, FileSet), Precedes(q, p), Stmt(t, q) = s
        PROVE  FALSE
    <2>1a. PICK l \in 1..Len(Files) : \E i \in 1..Len(t[Files[l]]) : q = <<l, i>>
      BY AllPlaces
    <2>1. PICK i \in 1..Len(t[Files[l]]) : q = <<l, i>>
      BY <2>1a
    <2>2. t[Files[l]][i] = s
      BY <1>7, <2>1 DEF Stmt
    <2>3. Files[l] \in FileSet /\ s \in ToSet(t[Files[l]])
      BY <2>1, <2>2, Sizes, Zenon
    <2>4. l \in Ks
      BY <1>3, <2>3 DEF StorableIn
    <2>5. k <= l
      BY <1>2, <2>4
    <2>6. l < k \/ (l = k /\ i < j)
      BY <1>7, <2>1 DEF Precedes
    <2>7. Len(Files) \in Nat /\ Len(t[Files[k]]) \in Nat
      BY <1>3, Sizes
    <2>8. l = k /\ i < j
      <3> HIDE DEF Ks, Js
      <3>1. k \in Nat /\ l \in Nat
        BY <1>3, <2>1, <2>7
      <3> QED BY <2>5, <2>6, <3>1
    <2>9. i \in Js(k)
      BY <2>1, <2>2, <2>8
    <2> QED BY <1>5, <2>7, <2>8, <2>9
  <1>8. p \in AllNew(t)
    BY <1>3, <1>6, <1>7 DEF AllNew, New
  <1> QED BY <1>6, <1>8

\* What a full run keeps of a file: the statements that are new in it, each
\* once.
LEMMA KeptHolds ==
    ASSUME NEW t \in Trees, NEW f \in FileSet
    PROVE  LET kept == Kept(t, FileSet, 0)[f]
           IN  /\ Len(kept) \in Nat /\ DOMAIN kept = 1..Len(kept)
               /\ \A s : (\E i \in 1..Len(kept) : kept[i] = s)
                            <=> \E p \in AllNew(t) : Files[p[1]] = f /\ Stmt(t, p) = s
               /\ \A i, l \in 1..Len(kept) : kept[i] = kept[l] => i = l
  <1> DEFINE n    == Len(t[f])
             here == {j \in 1..n : \E k \in 1..Len(Files) : Files[k] = f /\ <<k, j>> \in AllNew(t)}
             kept == Picked(t[f], here)
  <1>1. Kept(t, FileSet, 0)[f] = kept
    <2>1. KeptPlaces(t, FileSet, 0) = AllNew(t)
      BY DEF KeptPlaces, AllNew
    <2>2. Kept(t, FileSet, 0)[f] = Picked(t[f], {j \in 1..Len(t[f]) :
              \E k \in 1..Len(Files) : Files[k] = f /\ <<k, j>> \in KeptPlaces(t, FileSet, 0)})
      BY Zenon DEF Kept
    <2> QED BY <2>1, <2>2, Zenon
  <1>2. n \in Nat /\ here \in SUBSET (1..n)
    BY Sizes
  <1>3. \A j \in here : \E p \in AllNew(t) : Files[p[1]] = f /\ Stmt(t, p) = t[f][j] /\ p[2] = j
    <2> TAKE j \in here
    <2>1. PICK k \in 1..Len(Files) : Files[k] = f /\ <<k, j>> \in AllNew(t)
      OBVIOUS
    <2>2. Stmt(t, <<k, j>>) = t[f][j]
      BY <2>1 DEF Stmt
    <2> QED BY <2>1, <2>2
  <1>4. \A p \in AllNew(t) : Files[p[1]] = f => p[2] \in here /\ t[f][p[2]] = Stmt(t, p)
    <2> SUFFICES ASSUME NEW p \in AllNew(t), Files[p[1]] = f
                 PROVE  p[2] \in here /\ t[f][p[2]] = Stmt(t, p)
      OBVIOUS
    <2>1. p[1] \in 1..Len(Files) /\ p[2] \in 1..n /\ <<p[1], p[2]>> \in AllNew(t) /\ Stmt(t, p) = t[f][p[2]]
      BY NewIsFirst
    <2> QED BY <2>1
  <1> HIDE DEF n, here
  <1>5. /\ Len(kept) \in Nat /\ DOMAIN kept = 1..Len(kept)
        /\ \A i \in 1..Len(kept) : \E j \in here : kept[i] = t[f][j]
        /\ \A j \in here : \E i \in 1..Len(kept) : kept[i] = t[f][j]
        /\ (\A j, k \in here : t[f][j] = t[f][k] => j = k) =>
              \A i, l \in 1..Len(kept) : kept[i] = kept[l] => i = l
    BY <1>2, PickedHolds
  <1> HIDE DEF kept
  <1>6. \A j, k \in here : t[f][j] = t[f][k] => j = k
    <2> SUFFICES ASSUME NEW j \in here, NEW k \in here, t[f][j] = t[f][k]
                 PROVE  j = k
      OBVIOUS
    <2>1. PICK p \in AllNew(t) : Stmt(t, p) = t[f][j] /\ p[2] = j
      BY <1>3
    <2>2. PICK q \in AllNew(t) : Stmt(t, q) = t[f][k] /\ q[2] = k
      BY <1>3
    <2>3. p = q
      BY <2>1, <2>2, NewOnce
    <2> QED BY <2>1, <2>2, <2>3
  <1>7. ASSUME NEW s
        PROVE  (\E i \in 1..Len(kept) : kept[i] = s)
                  <=> \E p \in AllNew(t) : Files[p[1]] = f /\ Stmt(t, p) = s
    <2>1. ASSUME NEW i \in 1..Len(kept), kept[i] = s
          PROVE  \E p \in AllNew(t) : Files[p[1]] = f /\ Stmt(t, p) = s
      <3>1. PICK j \in here : kept[i] = t[f][j]
        BY <1>5
      <3> QED BY <1>3, <2>1, <3>1
    <2>2. ASSUME NEW p \in AllNew(t), Files[p[1]] = f, Stmt(t, p) = s
          PROVE  \E i \in 1..Len(kept) : kept[i] = s
      <3>1. p[2] \in here /\ t[f][p[2]] = s
        BY <1>4, <2>2
      <3> QED BY <1>5, <3>1
    <2> QED BY <2>1, <2>2
  <1> QED BY <1>1, <1>5, <1>6, <1>7, Zenon

\* The cases of a list of statements: those that have a verdict, with it.
CasesFit(cases, stmts, v) ==
    /\ Len(cases) \in Nat
    /\ cases # <<>> <=> 1 <= Len(cases)
    /\ \A k \in 1..Len(cases) : /\ \E i \in 1..Len(stmts) : stmts[i] = cases[k].sql
                                /\ v[cases[k].sql] # None /\ cases[k].verdict = v[cases[k].sql]
    /\ \A i \in 1..Len(stmts) : v[stmts[i]] # None => \E k \in 1..Len(cases) : cases[k].sql = stmts[i]
    /\ (\A i, j \in 1..Len(stmts) : stmts[i] = stmts[j] => i = j) =>
          \A k, l \in 1..Len(cases) : cases[k].sql = cases[l].sql => k = l

LEMMA CasesHold ==
    ASSUME NEW stmts, Len(stmts) \in Nat, NEW v
    PROVE  CasesFit(FileCases(stmts, v), stmts, v)
  <1> DEFINE known == {k \in 1..Len(stmts) : v[stmts[k]] # None}
             seen  == Picked(stmts, known)
             cases == FileCases(stmts, v)
  <1>1. known \in SUBSET (1..Len(stmts)) /\ \A j \in known : v[stmts[j]] # None
    OBVIOUS
  <1>2. cases = [k \in 1..Len(seen) |-> [sql |-> seen[k], verdict |-> v[seen[k]]]]
    BY Zenon DEF FileCases
  <1>3. \A i \in 1..Len(stmts) : v[stmts[i]] # None => i \in known
    OBVIOUS
  <1> HIDE DEF known
  <1>4. /\ Len(seen) \in Nat
        /\ \A i \in 1..Len(seen) : \E j \in known : seen[i] = stmts[j]
        /\ \A j \in known : \E i \in 1..Len(seen) : seen[i] = stmts[j]
        /\ (\A j, k \in known : stmts[j] = stmts[k] => j = k) =>
              \A i, l \in 1..Len(seen) : seen[i] = seen[l] => i = l
    BY <1>1, PickedHolds
  <1> HIDE DEF seen, cases
  <1>5. /\ Len(cases) = Len(seen) /\ (cases # <<>> <=> 1 <= Len(cases))
        /\ \A k \in 1..Len(seen) : cases[k].sql = seen[k] /\ cases[k].verdict = v[seen[k]]
    <2>1. Len(cases) = Len(seen) /\ \A k \in 1..Len(seen) : cases[k].sql = seen[k] /\ cases[k].verdict = v[seen[k]]
      BY <1>2, <1>4
    <2>2. cases \in Seq({cases[k] : k \in 1..Len(seen)})
      BY <1>2, <1>4
    <2>3. cases = <<>> <=> Len(cases) = 0
      BY <2>2, EmptySeq
    <2>4. Len(cases) = Len(seen)
      BY <2>1, Zenon
    <2>5. Len(cases) # 0 <=> 1 <= Len(cases)
      BY <1>4, <2>4
    <2> QED BY <2>1, <2>3, <2>5, Zenon
  <1>6. \A k \in 1..Len(cases) : /\ \E i \in 1..Len(stmts) : stmts[i] = cases[k].sql
                                 /\ v[cases[k].sql] # None /\ cases[k].verdict = v[cases[k].sql]
    <2> TAKE k \in 1..Len(cases)
    <2>1. k \in 1..Len(seen) /\ cases[k].sql = seen[k] /\ cases[k].verdict = v[seen[k]]
      BY <1>5
    <2>2. PICK j \in known : seen[k] = stmts[j]
      BY <1>4, <2>1, Zenon
    <2>3. j \in 1..Len(stmts) /\ v[stmts[j]] # None
      BY <1>1, Zenon
    <2> QED BY <2>1, <2>2, <2>3, Zenon
  <1>7. \A i \in 1..Len(stmts) : v[stmts[i]] # None => \E k \in 1..Len(cases) : cases[k].sql = stmts[i]
    <2> SUFFICES ASSUME NEW i \in 1..Len(stmts), v[stmts[i]] # None
                 PROVE  \E k \in 1..Len(cases) : cases[k].sql = stmts[i]
      OBVIOUS
    <2>1. PICK k \in 1..Len(seen) : seen[k] = stmts[i]
      BY <1>3, <1>4, Zenon
    <2> QED BY <1>5, <2>1, Zenon
  <1>8. ASSUME \A i, j \in 1..Len(stmts) : stmts[i] = stmts[j] => i = j
        PROVE  \A k, l \in 1..Len(cases) : cases[k].sql = cases[l].sql => k = l
    <2>1. \A j, k \in known : stmts[j] = stmts[k] => j = k
      BY <1>1, <1>8
    <2> QED BY <1>4, <1>5, <2>1
  <1> QED BY <1>4, <1>5, <1>6, <1>7, <1>8, Zenon DEF cases, CasesFit

-----------------------------------------------------------------------------
(* The corpus a full run leaves. *)

\* The README is the last a full run writes, of what it remembers.
ReadmeIsOf ==
    /\ tree \in Trees
    /\ FullRunDone => readme = Cardinality({s \in KeptStmts(perFile) : verdicts[s] # None})

LEMMA ReadmeIsWritten == SpecRegenerate => []ReadmeIsOf
  <1>1. InitRegenerate => ReadmeIsOf
    BY DEF InitRegenerate, ReadmeIsOf, FullRunDone
  <1>2. ReadmeIsOf /\ [NextRegenerate]_regenerateVars => ReadmeIsOf'
    <2> SUFFICES ASSUME ReadmeIsOf, [NextRegenerate]_regenerateVars
                 PROVE  ReadmeIsOf'
      OBVIOUS
    <2>1. tree' \in Trees
      BY DEF ReadmeIsOf, NextRegenerate, regenerateVars, disk, Upstream, Triage, Start, Oracle, WriteFile, AllWritten, Walk,
             RemoveFile, RemoveItsSidecar, NoMoreStale, RemoveOrphan, NoMoreOrphans, WriteReadme, Abort, AbortInWrite
    <2>2. CASE UNCHANGED regenerateVars
      <3>1. UNCHANGED <<readme, pc, only, limit, perFile, verdicts>>
        BY <2>2 DEF regenerateVars, disk, mem
      <3> QED BY <2>1, <3>1, Zenon DEF ReadmeIsOf, FullRunDone, Partial
    <2>3. CASE WriteReadme
      <3>1. /\ readme' = Cardinality({s \in KeptStmts(perFile) : verdicts[s] # None})
            /\ UNCHANGED <<perFile, verdicts>>
        BY <2>3, Zenon DEF WriteReadme, mem
      <3> QED BY <2>1, <3>1, Zenon DEF ReadmeIsOf, KeptStmts
    <2>4. CASE AllWritten
      <3>1. pc' = (IF Partial THEN "done" ELSE "walk") /\ UNCHANGED <<only, limit>>
        BY <2>4 DEF AllWritten, mem
      <3>2. ~FullRunDone'
        BY <3>1 DEF FullRunDone, Partial
      <3> QED BY <2>1, <3>2 DEF ReadmeIsOf
    <2>5. CASE Upstream \/ Triage \/ Start \/ Oracle \/ WriteFile \/ Walk \/ RemoveFile \/ RemoveItsSidecar
                 \/ NoMoreStale \/ RemoveOrphan \/ NoMoreOrphans \/ Abort \/ AbortInWrite
      <3>1. pc' # "done"
        BY <2>5 DEF Upstream, Triage, Start, Oracle, WriteFile, Walk, RemoveFile, RemoveItsSidecar,
                    NoMoreStale, RemoveOrphan, NoMoreOrphans, Abort, AbortInWrite
      <3> QED BY <2>1, <3>1 DEF ReadmeIsOf, FullRunDone
    <2> QED BY <2>2, <2>3, <2>4, <2>5, Zenon DEF NextRegenerate
  <1> QED BY <1>1, <1>2, PTL DEF SpecRegenerate

\* The file's cases in the corpus of a full run.
CasesThere(f) == FileCases(Kept(tree, FileSet, 0)[f], verdicts)

LEMMA CasesAreNew ==
    ASSUME tree \in Trees, NEW f \in FileSet
    PROVE  /\ Len(CasesThere(f)) \in Nat /\ (CasesThere(f) # <<>> <=> 1 <= Len(CasesThere(f)))
           /\ \A k \in 1..Len(CasesThere(f)) :
                 LET c == CasesThere(f)[k]
                 IN  /\ verdicts[c.sql] # None /\ c.verdict = verdicts[c.sql]
                     /\ \E p \in AllNew(tree) : Files[p[1]] = f /\ Stmt(tree, p) = c.sql
           /\ \A p \in AllNew(tree) : Files[p[1]] = f /\ verdicts[Stmt(tree, p)] # None =>
                 \E k \in 1..Len(CasesThere(f)) : CasesThere(f)[k].sql = Stmt(tree, p)
           /\ \A k, l \in 1..Len(CasesThere(f)) : CasesThere(f)[k].sql = CasesThere(f)[l].sql => k = l
  <1> DEFINE kept  == Kept(tree, FileSet, 0)[f]
             cases == FileCases(kept, verdicts)
  <1>1. /\ Len(kept) \in Nat
        /\ \A s : (\E i \in 1..Len(kept) : kept[i] = s) <=> \E p \in AllNew(tree) : Files[p[1]] = f /\ Stmt(tree, p) = s
        /\ \A i, l \in 1..Len(kept) : kept[i] = kept[l] => i = l
    BY KeptHolds, Zenon
  <1> HIDE DEF kept
  <1>2. /\ Len(cases) \in Nat
        /\ cases # <<>> <=> 1 <= Len(cases)
        /\ \A k \in 1..Len(cases) : /\ \E i \in 1..Len(kept) : kept[i] = cases[k].sql
                                    /\ verdicts[cases[k].sql] # None /\ cases[k].verdict = verdicts[cases[k].sql]
        /\ \A i \in 1..Len(kept) : verdicts[kept[i]] # None =>
              \E k \in 1..Len(cases) : cases[k].sql = kept[i]
        /\ \A k, l \in 1..Len(cases) : cases[k].sql = cases[l].sql => k = l
    <2>1. CasesFit(cases, kept, verdicts)
      BY <1>1, CasesHold, Zenon
    <2> HIDE DEF cases
    <2> QED BY <1>1, <2>1, Zenon DEF CasesFit
  <1>3. CasesThere(f) = cases
    BY Zenon DEF CasesThere, kept
  <1> HIDE DEF cases
  <1>4. ASSUME NEW p \in AllNew(tree), Files[p[1]] = f, verdicts[Stmt(tree, p)] # None
        PROVE  \E k \in 1..Len(cases) : cases[k].sql = Stmt(tree, p)
    <2>1. PICK i \in 1..Len(kept) : kept[i] = Stmt(tree, p)
      BY <1>1, <1>4, Zenon
    <2>2. verdicts[kept[i]] # None
      BY <1>4, <2>1, Zenon
    <2>3. PICK k \in 1..Len(cases) : cases[k].sql = kept[i]
      BY <1>2, <2>2, Zenon
    <2>4. cases[k].sql = Stmt(tree, p)
      BY <2>1, <2>3, Zenon
    <2> QED BY <2>4, Zenon
  <1>5. ASSUME NEW k \in 1..Len(cases)
        PROVE  /\ verdicts[cases[k].sql] # None /\ cases[k].verdict = verdicts[cases[k].sql]
               /\ \E p \in AllNew(tree) : Files[p[1]] = f /\ Stmt(tree, p) = cases[k].sql
    BY <1>1, <1>2, Zenon
  <1> QED BY <1>2, <1>3, <1>4, <1>5, Zenon

\* What is in the corpus once it is the function CorpusIsTheRuns says.
LEMMA CorpusThere ==
    ASSUME tree \in Trees, CorpusIsTheRuns, FullRunDone
    PROVE  /\ DOMAIN corpus = {f \in FileSet : 1 <= Len(CasesThere(f))}
           /\ \A f \in DOMAIN corpus : corpus[f] = CasesThere(f)
           /\ \A s : Holding(s) = {f \in FileSet : /\ verdicts[s] # None
                                                   /\ \E p \in AllNew(tree) : Files[p[1]] = f /\ Stmt(tree, p) = s}
  <1>1. corpus = [f \in {g \in FileSet : CasesThere(g) # <<>>} |-> CasesThere(f)]
    BY Zenon DEF CorpusIsTheRuns, CasesThere
  <1>2. DOMAIN corpus = {f \in FileSet : CasesThere(f) # <<>>} /\ \A f \in DOMAIN corpus : corpus[f] = CasesThere(f)
    BY <1>1, Zenon
  <1>3. DOMAIN corpus = {f \in FileSet : 1 <= Len(CasesThere(f))}
    BY <1>2, CasesAreNew, Zenon
  <1>4. ASSUME NEW s, NEW f \in Holding(s)
        PROVE  f \in FileSet /\ verdicts[s] # None /\ \E p \in AllNew(tree) : Files[p[1]] = f /\ Stmt(tree, p) = s
    <2>1. f \in DOMAIN corpus /\ f \in FileSet
      BY <1>2, <1>4, Zenon DEF Holding
    <2>2. PICK k \in 1..Len(CasesThere(f)) : CasesThere(f)[k].sql = s
      BY <1>2, <1>4, <2>1, Zenon DEF Holding
    <2> QED BY <2>1, <2>2, CasesAreNew
  <1>5. ASSUME NEW s, NEW f \in FileSet, verdicts[s] # None, NEW p \in AllNew(tree), Files[p[1]] = f, Stmt(tree, p) = s
        PROVE  f \in Holding(s)
    <2>1. PICK k \in 1..Len(CasesThere(f)) : CasesThere(f)[k].sql = s
      BY <1>5, CasesAreNew
    <2>2. 1 <= Len(CasesThere(f))
      BY CasesAreNew
    <2>3. f \in DOMAIN corpus
      BY <1>3, <2>2
    <2> QED BY <1>2, <2>1, <2>3, Zenon DEF Holding
  <1>6. ASSUME NEW s
        PROVE  Holding(s) = {f \in FileSet : /\ verdicts[s] # None
                                              /\ \E p \in AllNew(tree) : Files[p[1]] = f /\ Stmt(tree, p) = s}
    BY <1>4, <1>5
  <1> QED BY <1>2, <1>3, <1>6

LEMMA Converges ==
    ASSUME tree \in Trees, CorpusIsTheRuns, FullRunDone
    PROVE  FullRunConverges
  <1>1. ASSUME NEW f \in FileSet, NEW s \in Storable(f), verdicts[s] = None
        PROVE  Holding(s) = {}
    BY <1>1, CorpusThere, Zenon
  <1>2. ASSUME NEW f \in FileSet, NEW s \in Storable(f), verdicts[s] # None
        PROVE  Holding(s) = {Files[CHOOSE k \in 1..Len(Files) :
                       s \in Storable(Files[k]) /\ \A j \in 1..(k - 1) : s \notin Storable(Files[j])]}
    <2> DEFINE IsFirst(k) == s \in Storable(Files[k]) /\ \A j \in 1..(k - 1) : s \notin Storable(Files[j])
    <2>1. PICK p \in AllNew(tree) : Stmt(tree, p) = s
      BY NewSomewhere DEF Storable, StorableIn
    <2>2. p[1] \in 1..Len(Files) /\ IsFirst(p[1])
      BY <2>1, NewIsFirst DEF Storable, StorableIn
    <2>3. \A k \in 1..Len(Files) : IsFirst(k) => k = p[1]
      <3> SUFFICES ASSUME NEW k \in 1..Len(Files), IsFirst(k), k # p[1]
                   PROVE  FALSE
        OBVIOUS
      <3>1. Len(Files) \in Nat
        BY Sizes
      <3>2. k \in 1..(p[1] - 1) \/ p[1] \in 1..(k - 1)
        BY <2>2, <3>1
      <3> QED BY <2>2, <3>2
    <2>4. p[1] = CHOOSE k \in 1..Len(Files) : IsFirst(k)
      <3> HIDE DEF IsFirst
      <3> QED BY <2>2, <2>3
    <2>5. \A q \in AllNew(tree) : Stmt(tree, q) = s => q = p
      BY <2>1, NewOnce
    <2>6. Files[p[1]] \in FileSet
      BY <2>2, Sizes
    <2>7. Holding(s) = {Files[p[1]]}
      <3>1. Holding(s) = {g \in FileSet : /\ verdicts[s] # None
                                          /\ \E q \in AllNew(tree) : Files[q[1]] = g /\ Stmt(tree, q) = s}
        BY CorpusThere, Zenon
      <3> QED BY <1>2, <2>1, <2>5, <2>6, <3>1
    <2> QED BY <2>4, <2>7
  <1>3. ASSUME NEW f \in DOMAIN corpus, NEW k \in 1..Len(corpus[f])
        PROVE  corpus[f][k].sql \in Storable(f) /\ corpus[f][k].verdict = verdicts[corpus[f][k].sql]
    <2>1. f \in FileSet /\ corpus[f] = CasesThere(f)
      BY CorpusThere
    <2>2. PICK p \in AllNew(tree) : Files[p[1]] = f /\ Stmt(tree, p) = corpus[f][k].sql
      BY <2>1, CasesAreNew
    <2>3. corpus[f][k].sql \in Storable(f)
      BY <2>2, NewIsFirst DEF Storable, StorableIn
    <2>4. corpus[f][k].verdict = verdicts[corpus[f][k].sql]
      BY <2>1, CasesAreNew
    <2> QED BY <2>3, <2>4
  <1> QED BY <1>1, <1>2, <1>3, Zenon DEF FullRunConverges

\* The image of a finite set is finite.
LEMMA FiniteImage ==
    ASSUME NEW S, IsFiniteSet(S), NEW h
    PROVE  IsFiniteSet({h[x] : x \in S})
  <1> DEFINE T == {h[x] : x \in S}
             g == [x \in S |-> h[x]]
  <1>1. g \in [S -> T] /\ \A y \in T : \E x \in S : g[x] = y
    OBVIOUS
  <1> HIDE DEF g, T
  <1>2. g \in Surjection(S, T)
    BY <1>1, Fun_IsSurj
  <1>3. IsFiniteSet(T)
    BY <1>2, FS_Surjection
  <1> QED BY <1>3 DEF T

LEMMA FilesAreFinite ==
    ASSUME NEW t \in Trees
    PROVE  IsFiniteSet(FileSet)
  <1>1. Len(Files) \in Int /\ 1 \in Int
    BY Sizes
  <1>2. IsFiniteSet(1..Len(Files))
    BY <1>1, FS_Interval
  <1>3. FileSet = {Files[k] : k \in 1..Len(Files)}
    BY Sizes, Zenon DEF FileSet, ToSet
  <1> QED BY <1>2, <1>3, FiniteImage

LEMMA KeptAreNew ==
    ASSUME NEW t \in Trees, NEW s
    PROVE  s \in KeptStmts(Kept(t, FileSet, 0)) <=> \E p \in AllNew(t) : Stmt(t, p) = s
  <1> DEFINE kept == Kept(t, FileSet, 0)
  <1>1. DOMAIN kept = FileSet
    BY KeptNames
  <1>2. \A f \in FileSet : s \in ToSet(kept[f]) <=> \E p \in AllNew(t) : Files[p[1]] = f /\ Stmt(t, p) = s
    <2> TAKE f \in FileSet
    <2>1. /\ DOMAIN kept[f] = 1..Len(kept[f])
          /\ (\E i \in 1..Len(kept[f]) : kept[f][i] = s) <=> \E p \in AllNew(t) : Files[p[1]] = f /\ Stmt(t, p) = s
      BY KeptHolds
    <2> HIDE DEF kept
    <2>2. s \in ToSet(kept[f]) <=> \E i \in 1..Len(kept[f]) : kept[f][i] = s
      BY <2>1, Zenon DEF ToSet
    <2> QED BY <2>1, <2>2, Zenon
  <1>3. \A p \in AllNew(t) : Files[p[1]] \in FileSet
    BY NewIsFirst, Sizes
  <1>4. s \in KeptStmts(kept) <=> \E f \in FileSet : s \in ToSet(kept[f])
    <2> HIDE DEF kept
    <2> QED BY <1>1, Zenon DEF KeptStmts
  <1> HIDE DEF kept
  <1>5. s \in KeptStmts(kept) <=> \E p \in AllNew(t) : Stmt(t, p) = s
    BY <1>2, <1>3, <1>4
  <1> QED BY <1>5 DEF kept

LEMMA Counts ==
    ASSUME tree \in Trees, CorpusIsTheRuns, FullRunDone
    PROVE  Cardinality({s \in KeptStmts(Kept(tree, FileSet, 0)) : verdicts[s] # None}) = CountCases(corpus)
  <1> DEFINE known  == {s \in KeptStmts(Kept(tree, FileSet, 0)) : verdicts[s] # None}
             Row(f) == {<<f, k>> : k \in 1..Len(corpus[f])}
             rows   == {Row(f) : f \in DOMAIN corpus}
             cells  == UNION rows
             g      == [c \in cells |-> corpus[c[1]][c[2]].sql]
  <1>1. \A f \in DOMAIN corpus : f \in FileSet /\ corpus[f] = CasesThere(f) /\ Len(corpus[f]) \in Nat
    BY CorpusThere, CasesAreNew
  <1>2. IsFiniteSet(cells)
    <2>1. \A f \in DOMAIN corpus : IsFiniteSet(Row(f))
      <3> TAKE f \in DOMAIN corpus
      <3> DEFINE h == [k \in 1..Len(corpus[f]) |-> <<f, k>>]
      <3>1. IsFiniteSet(1..Len(corpus[f]))
        BY <1>1, FS_Interval
      <3>2. Row(f) = {h[k] : k \in 1..Len(corpus[f])}
        OBVIOUS
      <3> HIDE DEF h, Row
      <3> QED BY <3>1, <3>2, FiniteImage
    <2>2. IsFiniteSet(DOMAIN corpus)
      <3>1. DOMAIN corpus \in SUBSET FileSet /\ IsFiniteSet(FileSet)
        BY <1>1, FilesAreFinite
      <3> QED BY <3>1, FS_Subset
    <2>3. IsFiniteSet(rows)
      <3> DEFINE h == [f \in DOMAIN corpus |-> Row(f)]
      <3>1. rows = {h[f] : f \in DOMAIN corpus}
        OBVIOUS
      <3> HIDE DEF h, rows
      <3> QED BY <2>2, <3>1, FiniteImage
    <2>4. \A T \in rows : IsFiniteSet(T)
      <3> HIDE DEF Row
      <3> QED BY <2>1
    <2> HIDE DEF rows
    <2> QED BY <2>3, <2>4, FS_UNION
  <1>3. \A c : c \in cells <=> \E f \in DOMAIN corpus : \E k \in 1..Len(corpus[f]) : c = <<f, k>>
    <2>1. \A c : c \in cells <=> \E f \in DOMAIN corpus : c \in Row(f)
      <3> HIDE DEF Row
      <3> QED BY Zenon
    <2> QED BY <2>1, Zenon
  <1>4. \A f \in DOMAIN corpus : \A k \in 1..Len(corpus[f]) : <<f, k>> \in cells /\ g[<<f, k>>] = corpus[f][k].sql
    <2> HIDE DEF cells
    <2> QED BY <1>3
  <1>5. ASSUME NEW f \in DOMAIN corpus, NEW k \in 1..Len(corpus[f])
        PROVE  /\ verdicts[corpus[f][k].sql] # None
               /\ \E p \in AllNew(tree) : Files[p[1]] = f /\ Stmt(tree, p) = corpus[f][k].sql
    BY <1>1, CasesAreNew
  <1>6. ASSUME NEW f \in DOMAIN corpus, NEW k \in 1..Len(corpus[f])
        PROVE  corpus[f][k].sql \in known
    BY <1>5, KeptAreNew
  <1>7. ASSUME NEW s \in known
        PROVE  \E f \in DOMAIN corpus : \E k \in 1..Len(corpus[f]) : corpus[f][k].sql = s
    <2>1. verdicts[s] # None /\ \E p \in AllNew(tree) : Stmt(tree, p) = s
      BY KeptAreNew
    <2>2. PICK p \in AllNew(tree) : Stmt(tree, p) = s
      BY <2>1
    <2>3. Files[p[1]] \in FileSet
      BY NewIsFirst, Sizes
    <2>4. Files[p[1]] \in Holding(s)
      BY <2>1, <2>2, <2>3, CorpusThere
    <2> QED BY <2>4, Zenon DEF Holding
  <1>8. ASSUME NEW f \in DOMAIN corpus, NEW k \in 1..Len(corpus[f]),
               NEW e \in DOMAIN corpus, NEW l \in 1..Len(corpus[e]), corpus[f][k].sql = corpus[e][l].sql
        PROVE  f = e /\ k = l
    <2>1. PICK p \in AllNew(tree) : Files[p[1]] = f /\ Stmt(tree, p) = corpus[f][k].sql
      BY <1>5
    <2>2. PICK q \in AllNew(tree) : Files[q[1]] = e /\ Stmt(tree, q) = corpus[e][l].sql
      BY <1>5
    <2>3. p = q
      BY <1>8, <2>1, <2>2, NewOnce
    <2>4. f = e
      BY <2>1, <2>2, <2>3
    <2>5. k = l
      BY <1>1, <1>8, <2>4, CasesAreNew
    <2> QED BY <2>4, <2>5
  <1>9. g \in [cells -> known]
    <2>1. \A c \in cells : g[c] \in known
      <3> HIDE DEF cells, known, g
      <3> QED BY <1>3, <1>4, <1>6
    <2>2. DOMAIN g = cells /\ g = [c \in cells |-> g[c]]
      <3> HIDE DEF cells
      <3> QED OBVIOUS
    <2> HIDE DEF cells, known, g
    <2> QED BY <2>1, <2>2
  <1>10. \A c, d \in cells : g[c] = g[d] => c = d
    <2> HIDE DEF cells, known, g
    <2> SUFFICES ASSUME NEW c \in cells, NEW d \in cells, g[c] = g[d]
                 PROVE  c = d
      OBVIOUS
    <2>1. PICK f \in DOMAIN corpus : \E k \in 1..Len(corpus[f]) : c = <<f, k>>
      BY <1>3
    <2>2. PICK k \in 1..Len(corpus[f]) : c = <<f, k>>
      BY <2>1
    <2>3. PICK e \in DOMAIN corpus : \E l \in 1..Len(corpus[e]) : d = <<e, l>>
      BY <1>3
    <2>4. PICK l \in 1..Len(corpus[e]) : d = <<e, l>>
      BY <2>3
    <2>5. corpus[f][k].sql = corpus[e][l].sql
      BY <1>4, <2>2, <2>4
    <2> QED BY <1>8, <2>2, <2>4, <2>5
  <1>11. \A s \in known : \E c \in cells : g[c] = s
    <2> HIDE DEF cells, known, g
    <2> SUFFICES ASSUME NEW s \in known
                 PROVE  \E c \in cells : g[c] = s
      OBVIOUS
    <2>1. PICK f \in DOMAIN corpus : \E k \in 1..Len(corpus[f]) : corpus[f][k].sql = s
      BY <1>7
    <2>2. PICK k \in 1..Len(corpus[f]) : corpus[f][k].sql = s
      BY <2>1
    <2>3. <<f, k>> \in cells /\ g[<<f, k>>] = s
      BY <1>4, <2>2
    <2> QED BY <2>3
  <1> HIDE DEF g, known, cells
  <1>12. g \in Surjection(cells, known) /\ g \in Injection(cells, known)
    BY <1>9, <1>10, <1>11, Fun_IsSurj, Fun_IsInj
  <1>13. Cardinality(known) = Cardinality(cells)
    BY <1>2, <1>12, FS_Surjection
  <1>14. CountCases(corpus) = Cardinality(cells)
    BY Zenon DEF CountCases, cells
  <1> QED BY <1>13, <1>14 DEF known

\* cmd/regenerate, for any tests and verdicts and whatever runs before it
\* were cut short or partial: a full run leaves the corpus, the sidecars and
\* the README as they should be of upstream's tests.  Every statement with a
\* verdict is in it once, in the first test it occurs in, nothing else is, and
\* the README counts the cases there are.
THEOREM CorpusAlwaysConverges == SpecRegenerate => []CorpusConverges
  <1>1. CorpusInv /\ ReadmeIsOf /\ CorpusIsTheRuns /\ NoOrphans => CorpusConverges
    <2> SUFFICES ASSUME CorpusInv, ReadmeIsOf, CorpusIsTheRuns, NoOrphans
                 PROVE  CorpusConverges
      OBVIOUS
    <2>1. CorpusTypeOK
      BY DEF CorpusInv, CorpusTyped
    <2>2. tree \in Trees
      BY DEF ReadmeIsOf
    <2>3. FullRunConverges
      <3>1. FullRunDone => FullRunConverges
        BY <2>2, Converges
      <3> QED BY <3>1, Zenon DEF FullRunConverges
    <2>4. ReadmeCounts
      <3> SUFFICES ASSUME FullRunDone PROVE readme = CountCases(corpus)
        BY DEF ReadmeCounts
      <3>1. only = FileSet /\ limit = 0 /\ pc = "done"
        BY DEF FullRunDone, Partial, CorpusInv, CorpusTyped
      <3>2. perFile = Kept(tree, FileSet, 0)
        BY <3>1 DEF CorpusInv, Extracted
      <3>3. readme = Cardinality({s \in KeptStmts(Kept(tree, FileSet, 0)) : verdicts[s] # None})
        BY <3>2, Zenon DEF ReadmeIsOf
      <3> QED BY <2>2, <3>3, Counts
    <2> QED BY <2>1, <2>3, <2>4 DEF CorpusConverges
  <1> QED BY <1>1, CorpusInductive, ReadmeIsWritten, FullRunForgets, PTL

-----------------------------------------------------------------------------
(* cmd/difftest: the inductive invariant. *)

\* The mutants received so far are 1..Taken.
Taken == made - Len(mutants)

\* A worker between receiving a mutant and the next one.
Busy(w) == worker[w].at \notin {"receive", "done"}

\* No worker is at one of the places of S with mutant m.
Left(S, m) == \A w \in Workers : worker[w].at \in S => worker[w].mutant # m

\* The mutants received of the kinds K that have left the places of S.
Past(S, K) == {m \in 1..Taken : kind[m] \in K /\ Left(S, m)}

Num(S, K) == Cardinality(Past(S, K))

WorkerPlaces == {"receive", "done", "ask", "skip", "lock", "store", "unlock"}

WorkersTyped ==
    /\ kind \in [1..N -> Kinds] /\ made \in 0..N /\ Taken \in Nat
    /\ worker \in [Workers -> [at : WorkerPlaces, mutant : Nat, seen : Nat]]
    /\ tested \in Nat /\ unverified \in Nat /\ softSkipped \in Nat /\ disagreements \in Nat
    /\ printed \in Nat
    /\ holder \in Workers \cup {NoOne} /\ exit \in {"running", "0", "1"}

\* The channel holds the mutants made last, in order.
Channel ==
    /\ mutants \in Seq(Nat)
    /\ \A k \in 1..Len(mutants) : mutants[k] = Taken + k

\* No two workers are busy with the same mutant, and the mutant is of the
\* kind that brought the worker where it is.
Holdings ==
    \A w \in Workers :
        /\ Busy(w) => worker[w].mutant \in 1..Taken
        /\ \A v \in Workers : Busy(w) /\ Busy(v) /\ v # w => worker[v].mutant # worker[w].mutant
        /\ worker[w].at = "skip" => Kind(w) = "bind"
        /\ worker[w].at \in {"lock", "store", "unlock"} => Kind(w) = "disagree"

\* What the worker that holds the mutex has read is still the total.
Mutex ==
    \A w \in Workers :
        /\ worker[w].at \in {"store", "unlock"} => holder = w
        /\ worker[w].at = "store" => worker[w].seen = disagreements

Totals ==
    /\ tested = Num({"ask"}, {"agree", "disagree", "bind"})
    /\ unverified = Num({"ask"}, {"cut"})
    /\ softSkipped = Num({"ask", "skip"}, {"nested", "bind"})
    /\ disagreements = Num({"ask", "lock", "store"}, {"disagree"})
    /\ printed = IF disagreements < MaxPrint THEN disagreements ELSE MaxPrint

Ending ==
    /\ closed => made = N \/ duration
    /\ \A w \in Workers : worker[w].at = "done" => closed /\ mutants = <<>>
    /\ Running => Past({"ask"}, {"error"}) = {}
    /\ ~Running =>
          \/ \E m \in 1..made : kind[m] = "error"
          \/ /\ \A w \in Workers : worker[w].at = "done"
             /\ exit = IF disagreements > 0 THEN "1" ELSE "0"

TotalsInv == WorkersTyped /\ Channel /\ Holdings /\ Mutex /\ Totals /\ Ending

-----------------------------------------------------------------------------
(* The sets of mutants behind the counters. *)

Workplaces == [at : WorkerPlaces, mutant : Nat, seen : Nat]

LEMMA NumIsNat ==
    ASSUME Taken \in Nat, NEW S, NEW K
    PROVE  IsFiniteSet(Past(S, K)) /\ Num(S, K) \in Nat
  <1>1. IsFiniteSet(1..Taken) /\ Past(S, K) \in SUBSET (1..Taken)
    BY FS_Interval DEF Past
  <1>2. IsFiniteSet(Past(S, K))
    BY <1>1, FS_Subset
  <1> QED BY <1>2, FS_CardinalityType DEF Num

\* A worker that stays at the places of S, or outside of them, changes nothing.
LEMMA PastKept ==
    ASSUME worker \in [Workers -> Workplaces], NEW S, NEW K, NEW w \in Workers, NEW to,
           UNCHANGED <<kind, made, mutants>>, Goes(w, to),
           worker[w].at \in S <=> to.at \in S,
           to.at \in S => to.mutant = worker[w].mutant
    PROVE  Past(S, K)' = Past(S, K) /\ Num(S, K)' = Num(S, K)
  <1>1. Taken' = Taken
    BY DEF Taken
  <1>2. worker' = [worker EXCEPT ![w] = to]
    BY DEF Goes
  <1>3. worker'[w] = to /\ \A v \in Workers : v # w => worker'[v] = worker[v]
    BY <1>2
  <1>4. ASSUME NEW m PROVE Left(S, m)' <=> Left(S, m)
    BY <1>3 DEF Left
  <1>5. Past(S, K)' = Past(S, K)
    <2>1. ASSUME NEW m PROVE m \in Past(S, K)' <=> m \in Past(S, K)
      BY <1>1, <1>4 DEF Past
    <2> QED BY <2>1
  <1> QED BY <1>5 DEF Num

\* A worker that leaves the places of S: one more mutant of its kind is past.
LEMMA PastLeft ==
    ASSUME TotalsInv, NEW S, NEW K, NEW w \in Workers, NEW to,
           UNCHANGED <<kind, made, mutants>>, Goes(w, to),
           Busy(w), worker[w].at \in S, to.at \notin S, "receive" \notin S, "done" \notin S
    PROVE  /\ Kind(w) \in K => Num(S, K)' = Num(S, K) + 1
           /\ Kind(w) \notin K => Past(S, K)' = Past(S, K) /\ Num(S, K)' = Num(S, K)
  <1> DEFINE m == worker[w].mutant
  <1>1. Taken' = Taken /\ Taken \in Nat /\ m \in 1..Taken
    BY DEF Taken, TotalsInv, WorkersTyped, Holdings
  <1>2. worker' = [worker EXCEPT ![w] = to] /\ worker \in [Workers -> Workplaces]
    BY DEF Goes, TotalsInv, WorkersTyped, Workplaces
  <1>3. worker'[w] = to /\ \A v \in Workers : v # w => worker'[v] = worker[v]
    BY <1>2
  <1>4. \A v \in Workers : v # w /\ worker[v].at \in S => worker[v].mutant # m
    BY DEF TotalsInv, Holdings, Busy
  <1>5. ASSUME NEW x PROVE Left(S, x)' <=> (x = m \/ Left(S, x))
    BY <1>3, <1>4 DEF Left
  <1>6. m \notin Past(S, K)
    BY DEF Past, Left
  <1>9. Kind(w) = kind[m]
    BY DEF Kind
  <1> HIDE DEF m
  <1>10. ASSUME NEW x
         PROVE  /\ x \in Past(S, K) <=> x \in 1..Taken /\ kind[x] \in K /\ Left(S, x)
                /\ x \in Past(S, K)' <=> x \in 1..Taken /\ kind[x] \in K /\ (x = m \/ Left(S, x))
    BY <1>1, <1>5, Zenon DEF Past
  <1>7. CASE Kind(w) \in K
    <2>1. Past(S, K)' = Past(S, K) \cup {m}
      <3>1. ASSUME NEW x PROVE x \in Past(S, K)' <=> (x \in Past(S, K) \/ x = m)
        BY <1>1, <1>7, <1>9, <1>10, Zenon
      <3> QED BY <3>1
    <2>2. Num(S, K)' = Num(S, K) + 1
      BY <1>1, <1>6, <2>1, NumIsNat, FS_AddElement DEF Num
    <2> QED BY <1>7, <2>2
  <1>8. CASE Kind(w) \notin K
    <2>1. Past(S, K)' = Past(S, K)
      <3>1. ASSUME NEW x PROVE x \in Past(S, K)' <=> x \in Past(S, K)
        BY <1>8, <1>9, <1>10, Zenon
      <3> QED BY <3>1
    <2> QED BY <1>8, <2>1 DEF Num
  <1> QED BY <1>7, <1>8

-----------------------------------------------------------------------------
(* The steps. *)

\* What every step of a worker with its mutant keeps.
LEMMA WorkerGoes ==
    ASSUME TotalsInv, NEW w \in Workers, NEW to \in Workplaces, Goes(w, to),
           UNCHANGED <<kind, made, mutants>>,
           to.at \notin {"receive", "done"} => Busy(w) /\ to.mutant = worker[w].mutant,
           to.at = "skip" => Kind(w) = "bind",
           to.at \in {"lock", "store", "unlock"} => Kind(w) = "disagree"
    PROVE  /\ worker' \in [Workers -> Workplaces] /\ kind' \in [1..N -> Kinds] /\ made' \in 0..N
           /\ Taken' \in Nat /\ Channel' /\ Holdings'
           /\ worker'[w] = to /\ \A v \in Workers : v # w => worker'[v] = worker[v]
  <1>1. Taken' = Taken /\ Taken \in Nat
    BY DEF Taken, TotalsInv, WorkersTyped
  <1>2. worker' = [worker EXCEPT ![w] = to] /\ worker \in [Workers -> Workplaces]
    BY DEF Goes, TotalsInv, WorkersTyped, Workplaces
  <1>3. worker' \in [Workers -> Workplaces] /\ worker'[w] = to
        /\ \A v \in Workers : v # w => worker'[v] = worker[v]
    BY <1>2
  <1>4. Channel'
    BY <1>1 DEF TotalsInv, Channel
  <1>5. Holdings'
    BY <1>1, <1>3 DEF TotalsInv, Holdings, Busy, Kind
  <1> QED BY <1>1, <1>3, <1>4, <1>5 DEF TotalsInv, WorkersTyped

\* The numbers the counters are compared with, and the errors.
Numbers ==
    <<Num({"ask"}, {"agree", "disagree", "bind"}), Num({"ask"}, {"cut"}),
      Num({"ask", "skip"}, {"nested", "bind"}), Num({"ask", "lock", "store"}, {"disagree"}),
      Past({"ask"}, {"error"})>>

\* A mutant that stays where it is, or was done with already, changes no
\* number.
LEMMA NumbersKept ==
    ASSUME TotalsInv, NEW w \in Workers, NEW to, UNCHANGED <<kind, made, mutants>>, Goes(w, to),
           \A S \in {{"ask"}, {"ask", "skip"}, {"ask", "lock", "store"}} :
               worker[w].at \in S <=> to.at \in S,
           to.at \in {"ask", "skip", "lock", "store"} => to.mutant = worker[w].mutant
    PROVE  UNCHANGED Numbers
  <1>1. worker \in [Workers -> Workplaces]
    BY DEF TotalsInv, WorkersTyped, Workplaces
  <1>2. ASSUME NEW S \in {{"ask"}, {"ask", "skip"}, {"ask", "lock", "store"}}, NEW K
        PROVE  Past(S, K)' = Past(S, K) /\ Num(S, K)' = Num(S, K)
    <2>1. to.at \in S => to.mutant = worker[w].mutant
      OBVIOUS
    <2> QED BY <1>1, <2>1, PastKept
  <1>3. /\ Num({"ask"}, {"agree", "disagree", "bind"})' = Num({"ask"}, {"agree", "disagree", "bind"})
        /\ Num({"ask"}, {"cut"})' = Num({"ask"}, {"cut"})
        /\ Past({"ask"}, {"error"})' = Past({"ask"}, {"error"})
    BY <1>2
  <1>4. Num({"ask", "skip"}, {"nested", "bind"})' = Num({"ask", "skip"}, {"nested", "bind"})
    BY <1>2
  <1>5. Num({"ask", "lock", "store"}, {"disagree"})' = Num({"ask", "lock", "store"}, {"disagree"})
    BY <1>2
  <1> QED BY <1>3, <1>4, <1>5 DEF Numbers

LEMMA NumbersSame ==
    ASSUME UNCHANGED <<kind, made, mutants, worker>>
    PROVE  UNCHANGED Numbers /\ Taken' = Taken
  BY DEF Numbers, Num, Past, Left, Taken

\* The rest of the invariant when only workers, the mutex and counters move.
LEMMA EndingKept ==
    ASSUME TotalsInv, Running, UNCHANGED <<kind, duration, made, closed, mutants, exit>>,
           NEW w \in Workers, NEW to, Goes(w, to), to.at # "done",
           Past({"ask"}, {"error"})' = {}
    PROVE  Ending'
  <1>1. worker' = [worker EXCEPT ![w] = to] /\ worker \in [Workers -> Workplaces]
    BY DEF Goes, TotalsInv, WorkersTyped, Workplaces
  <1>2. \A v \in Workers : worker'[v].at = "done" => worker[v].at = "done"
    BY <1>1
  <1> QED BY <1>2 DEF TotalsInv, Ending, Running

-----------------------------------------------------------------------------
(* The steps of the generator and the end. *)

LEMMA GenerateKeeps ==
    ASSUME TotalsInv, Generate
    PROVE  TotalsInv'
  <1>1. /\ Running /\ ~closed /\ made < N /\ made' = made + 1
        /\ mutants' = Append(mutants, made + 1)
        /\ UNCHANGED <<kind, duration, closed, worker, holder, counters, exit>>
    BY DEF Generate
  <1>2. /\ mutants \in Seq(Nat) /\ made \in Nat /\ made \in 0..N /\ N \in Nat /\ Taken \in Nat
        /\ Len(mutants) \in Nat
        /\ \A k \in 1..Len(mutants) : mutants[k] = Taken + k
    BY RunAssumption, LenProperties DEF TotalsInv, WorkersTyped, Channel
  <1>3. /\ mutants' \in Seq(Nat) /\ Len(mutants') = Len(mutants) + 1
        /\ mutants'[Len(mutants')] = made + 1
        /\ \A k \in 1..Len(mutants) : mutants'[k] = mutants[k]
    BY <1>1, <1>2, AppendProperties
  <1>4. Taken' = Taken /\ made = Taken + Len(mutants) /\ made' \in 0..N
    BY <1>1, <1>2, <1>3 DEF Taken
  <1>5. Channel'
    <2>1. ASSUME NEW k \in 1..Len(mutants') PROVE mutants'[k] = Taken' + k
      <3>1. k = Len(mutants') \/ k \in 1..Len(mutants)
        BY <1>2, <1>3
      <3> QED BY <1>2, <1>3, <1>4, <3>1
    <2> QED BY <1>3, <2>1 DEF Channel
  <1>6. UNCHANGED Numbers
    BY <1>1, <1>4 DEF Numbers, Num, Past, Left
  <1>7. WorkersTyped' /\ Holdings' /\ Mutex' /\ Totals'
    <2>1. UNCHANGED <<tested, unverified, softSkipped, disagreements, printed>>
      BY <1>1 DEF counters
    <2>2. WorkersTyped'
      BY <1>1, <1>4, <2>1 DEF TotalsInv, WorkersTyped
    <2>3. Holdings' /\ Mutex'
      BY <1>1, <1>4, <2>1 DEF TotalsInv, Holdings, Mutex, Busy, Kind
    <2> QED BY <1>6, <2>1, <2>2, <2>3 DEF TotalsInv, Totals, Numbers
  <1>8. Ending'
    <2>1. \A w \in Workers : worker[w].at # "done"
      BY <1>1 DEF TotalsInv, Ending
    <2>2. Past({"ask"}, {"error"})' = {}
      BY <1>1, <1>6 DEF TotalsInv, Ending, Numbers
    <2> QED BY <1>1, <2>1, <2>2 DEF Ending, Running
  <1> QED BY <1>5, <1>7, <1>8 DEF TotalsInv

LEMMA CloseKeeps ==
    ASSUME TotalsInv, Close
    PROVE  TotalsInv'
  <1>1. /\ Running /\ (made = N \/ duration) /\ closed' = TRUE
        /\ UNCHANGED <<kind, duration, made, mutants, worker, holder, counters, exit>>
    BY DEF Close
  <1>2. UNCHANGED Numbers /\ Taken' = Taken
    BY <1>1, NumbersSame
  <1>3. UNCHANGED <<tested, unverified, softSkipped, disagreements, printed>>
    BY <1>1 DEF counters
  <1>4. WorkersTyped' /\ Channel' /\ Holdings' /\ Mutex' /\ Totals'
    BY <1>1, <1>2, <1>3
    DEF TotalsInv, WorkersTyped, Channel, Holdings, Mutex, Totals, Busy, Kind, Numbers
  <1>5. Ending'
    BY <1>1, <1>2, <1>3 DEF TotalsInv, Ending, Numbers, Running
  <1> QED BY <1>4, <1>5 DEF TotalsInv

LEMMA ReportKeeps ==
    ASSUME TotalsInv, Report
    PROVE  TotalsInv'
  <1>1. /\ Running /\ \A w \in Workers : worker[w] = Stopped
        /\ exit' = (IF disagreements > 0 THEN "1" ELSE "0")
        /\ UNCHANGED <<Generator, worker, holder, counters>>
    BY DEF Report
  <1>2. /\ UNCHANGED <<kind, duration, made, closed, mutants, worker, holder>>
        /\ UNCHANGED <<tested, unverified, softSkipped, disagreements, printed>>
    BY <1>1 DEF Generator, counters
  <1>3. UNCHANGED Numbers /\ Taken' = Taken
    BY <1>2, NumbersSame
  <1>4. exit' \in {"0", "1"}
    BY <1>1
  <1>5. WorkersTyped' /\ Channel' /\ Holdings' /\ Mutex' /\ Totals'
    BY <1>2, <1>3, <1>4
    DEF TotalsInv, WorkersTyped, Channel, Holdings, Mutex, Totals, Busy, Kind, Numbers
  <1>6. Ending'
    <2>1. \A w \in Workers : worker'[w].at = "done"
      BY <1>1, <1>2 DEF Stopped
    <2> QED BY <1>1, <1>2, <1>4, <2>1 DEF TotalsInv, Ending, Running
  <1> QED BY <1>5, <1>6 DEF TotalsInv

-----------------------------------------------------------------------------
(* The steps of a worker. *)

LEMMA FreeAndStopped ==
    /\ Free \in Workplaces /\ Free.at = "receive"
    /\ Stopped \in Workplaces /\ Stopped.at = "done"
  BY DEF Free, Stopped, Workplaces, WorkerPlaces

LEMMA ReceiveKeeps ==
    ASSUME TotalsInv, NEW w \in Workers, Receive(w)
    PROVE  TotalsInv'
  <1> DEFINE to == [at |-> "ask", mutant |-> Head(mutants), seen |-> 0]
  <1>1. /\ Running /\ worker[w].at = "receive" /\ mutants # <<>> /\ mutants' = Tail(mutants)
        /\ Goes(w, to) /\ UNCHANGED <<kind, duration, made, closed, holder, exit>>
        /\ UNCHANGED <<tested, unverified, softSkipped, disagreements, printed>>
    BY DEF Receive, At, counters
  <1>2. /\ mutants \in Seq(Nat) /\ Len(mutants) \in Nat /\ Len(mutants) > 0 /\ made \in Nat
        /\ Taken \in Nat /\ made \in 0..N
        /\ \A k \in 1..Len(mutants) : mutants[k] = Taken + k
    BY <1>1, LenProperties, EmptySeq DEF TotalsInv, WorkersTyped, Channel
  <1>3. /\ mutants' \in Seq(Nat) /\ Len(mutants') = Len(mutants) - 1
        /\ \A k \in 1..Len(mutants') : mutants'[k] = mutants[k + 1]
        /\ Head(mutants) = Taken + 1
    <2>1. /\ Head(mutants) = mutants[1] /\ Tail(mutants) \in Seq(Nat)
          /\ Len(Tail(mutants)) = Len(mutants) - 1
          /\ \A k \in 1..Len(Tail(mutants)) : Tail(mutants)[k] = mutants[k + 1]
      BY <1>1, <1>2, HeadTailProperties
    <2>2. 1 \in 1..Len(mutants)
      BY <1>2
    <2> QED BY <1>1, <1>2, <2>1, <2>2
  <1>4. Taken' = Taken + 1
    <2>1. made' - (Len(mutants) - 1) = (made - Len(mutants)) + 1
      BY <1>1, <1>2
    <2> QED BY <1>3, <2>1 DEF Taken
  <1>5. /\ to \in Workplaces /\ to.at = "ask" /\ to.mutant = Taken + 1
    <2>1. PICK h \in Nat : h = Head(mutants) /\ h = Taken + 1
      BY <1>2, <1>3
    <2>2. to = [at |-> "ask", mutant |-> h, seen |-> 0]
      BY <2>1
    <2> HIDE DEF to
    <2> QED BY <2>1, <2>2 DEF Workplaces, WorkerPlaces
  <1> HIDE DEF to
  <1>6. worker' = [worker EXCEPT ![w] = to] /\ worker \in [Workers -> Workplaces]
    BY <1>1 DEF Goes, TotalsInv, WorkersTyped, Workplaces
  <1>7. /\ worker' \in [Workers -> Workplaces] /\ worker'[w] = to
        /\ \A v \in Workers : v # w => worker'[v] = worker[v]
    BY <1>5, <1>6
  <1>8. ASSUME NEW S \in {{"ask"}, {"ask", "skip"}, {"ask", "lock", "store"}}, NEW K
        PROVE  Past(S, K)' = Past(S, K) /\ Num(S, K)' = Num(S, K)
    <2>1. ASSUME NEW m \in 1..Taken PROVE Left(S, m)' <=> Left(S, m)
      <3>1. to.mutant # m
        BY <1>2, <1>5
      <3>2. worker[w].at \notin S
        BY <1>1
      <3> QED BY <1>7, <3>1, <3>2 DEF Left
    <2>6. PICK t \in Nat : t = Taken + 1
      BY <1>2
    <2>2. ~Left(S, t)'
      <3>1. worker'[w].at \in S
        BY <1>5, <1>7
      <3>2. worker'[w].mutant = t
        BY <1>5, <1>7, <2>6
      <3> QED BY <3>1, <3>2 DEF Left
    <2>3. \A m : m \in 1..Taken' <=> m \in 1..Taken \/ m = t
      BY <1>2, <1>4, <2>6
    <2>4. ASSUME NEW m PROVE m \in Past(S, K)' <=> m \in Past(S, K)
      <3>1. /\ m \in Past(S, K) <=> m \in 1..Taken /\ kind[m] \in K /\ Left(S, m)
            /\ m \in Past(S, K)' <=> m \in 1..Taken' /\ kind[m] \in K /\ Left(S, m)'
        <4>1. kind' = kind
          BY <1>1
        <4> QED BY <4>1, Zenon DEF Past
      <3>2. m \in 1..Taken' <=> m \in 1..Taken \/ m = t
        BY <2>3
      <3>3. m = t => ~Left(S, m)'
        BY <2>2
      <3> QED BY <2>1, <3>1, <3>2, <3>3
    <2>5. Past(S, K)' = Past(S, K)
      BY <2>4
    <2> QED BY <2>5 DEF Num
  <1>9. UNCHANGED Numbers
    <2>1. /\ Num({"ask"}, {"agree", "disagree", "bind"})' = Num({"ask"}, {"agree", "disagree", "bind"})
          /\ Num({"ask"}, {"cut"})' = Num({"ask"}, {"cut"})
          /\ Past({"ask"}, {"error"})' = Past({"ask"}, {"error"})
      BY <1>8
    <2>2. Num({"ask", "skip"}, {"nested", "bind"})' = Num({"ask", "skip"}, {"nested", "bind"})
      BY <1>8
    <2>3. Num({"ask", "lock", "store"}, {"disagree"})' = Num({"ask", "lock", "store"}, {"disagree"})
      BY <1>8
    <2> QED BY <2>1, <2>2, <2>3 DEF Numbers
  <1>10. WorkersTyped'
    BY <1>1, <1>2, <1>4, <1>7 DEF TotalsInv, WorkersTyped, Workplaces
  <1>11. Channel'
    <2>1. ASSUME NEW k \in 1..Len(mutants') PROVE mutants'[k] = Taken' + k
      <3>1. k + 1 \in 1..Len(mutants) /\ Taken + (k + 1) = (Taken + 1) + k
        BY <1>2, <1>3
      <3> QED BY <1>2, <1>3, <1>4, <3>1
    <2> QED BY <1>3, <2>1 DEF Channel
  <1>12. Holdings'
    <2>1. \A v \in Workers : v # w /\ Busy(v) => worker[v].mutant \in 1..Taken
      BY DEF TotalsInv, Holdings
    <2>2. \A v \in Workers : v # w => Busy(v)' = Busy(v) /\ Kind(v)' = Kind(v)
      BY <1>1, <1>7 DEF Busy, Kind
    <2>3. \A v \in Workers : v # w /\ Busy(v) => worker[v].mutant # Taken + 1
      BY <1>2, <2>1
    <2>4. Taken + 1 \in 1..Taken' /\ \A m \in 1..Taken : m \in 1..Taken'
      BY <1>2, <1>4
    <2> QED BY <1>5, <1>7, <2>1, <2>2, <2>3, <2>4 DEF TotalsInv, Holdings
  <1>13. Mutex' /\ Totals'
    BY <1>1, <1>5, <1>7, <1>9 DEF TotalsInv, Mutex, Totals, Numbers
  <1>14. Ending'
    <2>1. \A v \in Workers : worker'[v].at = "done" => worker[v].at = "done"
      BY <1>5, <1>7
    <2>2. \A v \in Workers : worker[v].at # "done"
      BY <1>1 DEF TotalsInv, Ending
    <2>3. Past({"ask"}, {"error"})' = {}
      BY <1>1, <1>9 DEF TotalsInv, Ending, Numbers
    <2> QED BY <1>1, <2>1, <2>2, <2>3 DEF TotalsInv, Ending, Running
  <1> QED BY <1>10, <1>11, <1>12, <1>13, <1>14 DEF TotalsInv

LEMMA WorkerDoneKeeps ==
    ASSUME TotalsInv, NEW w \in Workers, WorkerDone(w)
    PROVE  TotalsInv'
  <1>1. /\ Running /\ worker[w].at = "receive" /\ closed /\ mutants = <<>> /\ Goes(w, Stopped)
        /\ UNCHANGED <<kind, duration, made, closed, mutants, holder, exit>>
        /\ UNCHANGED <<tested, unverified, softSkipped, disagreements, printed>>
    BY DEF WorkerDone, At, Generator, counters
  <1>2. UNCHANGED Numbers
    BY <1>1, NumbersKept, FreeAndStopped
  <1>3. /\ worker' \in [Workers -> Workplaces] /\ kind' \in [1..N -> Kinds] /\ made' \in 0..N
        /\ Taken' \in Nat /\ Channel' /\ Holdings'
        /\ worker'[w] = Stopped /\ \A v \in Workers : v # w => worker'[v] = worker[v]
    BY <1>1, FreeAndStopped, WorkerGoes
  <1>4. WorkersTyped' /\ Mutex' /\ Totals'
    BY <1>1, <1>2, <1>3, FreeAndStopped DEF TotalsInv, WorkersTyped, Mutex, Totals, Numbers, Workplaces
  <1>5. Ending'
    BY <1>1, <1>2, <1>3 DEF TotalsInv, Ending, Numbers, Running
  <1> QED BY <1>3, <1>4, <1>5 DEF TotalsInv

\* What a worker's step with its mutant leaves to show: the mutex and the
\* totals.
LEMMA WorkerKeeps ==
    ASSUME TotalsInv, Running, NEW w \in Workers, NEW to \in Workplaces, Goes(w, to), to.at # "done",
           UNCHANGED <<kind, duration, made, closed, mutants, exit>>,
           to.at # "receive" => Busy(w) /\ to.mutant = worker[w].mutant,
           to.at = "skip" => Kind(w) = "bind",
           to.at \in {"lock", "store", "unlock"} => Kind(w) = "disagree",
           holder' \in Workers \cup {NoOne},
           tested' \in Nat, unverified' \in Nat, softSkipped' \in Nat, disagreements' \in Nat,
           printed' \in Nat,
           Mutex', Totals', Past({"ask"}, {"error"})' = {}
    PROVE  TotalsInv'
  <1>1. /\ worker' \in [Workers -> Workplaces] /\ kind' \in [1..N -> Kinds] /\ made' \in 0..N
        /\ Taken' \in Nat /\ Channel' /\ Holdings'
    BY WorkerGoes
  <1>2. WorkersTyped'
    BY <1>1 DEF TotalsInv, WorkersTyped, Workplaces
  <1>3. Ending'
    BY EndingKept
  <1> QED BY <1>1, <1>2, <1>3 DEF TotalsInv

\* The mutex is as it was when no worker enters or leaves it.
LEMMA MutexKept ==
    ASSUME TotalsInv, NEW w \in Workers, NEW to, Goes(w, to), to.at \notin {"store", "unlock"},
           UNCHANGED <<holder, disagreements>>
    PROVE  Mutex'
  <1>1. worker' = [worker EXCEPT ![w] = to] /\ worker \in [Workers -> Workplaces]
    BY DEF Goes, TotalsInv, WorkersTyped, Workplaces
  <1>2. worker'[w] = to /\ \A v \in Workers : v # w => worker'[v] = worker[v]
    BY <1>1
  <1> QED BY <1>2 DEF TotalsInv, Mutex

LEMMA AskKeeps ==
    ASSUME TotalsInv, NEW w \in Workers, Ask(w)
    PROVE  TotalsInv'
  <1>1. /\ Running /\ worker[w].at = "ask" /\ Busy(w)
        /\ UNCHANGED <<kind, duration, made, closed, mutants, holder, disagreements, printed>>
    BY DEF Ask, At, Generator, Busy
  <1>2. /\ worker \in [Workers -> Workplaces] /\ worker[w].mutant \in 1..Taken
        /\ tested \in Nat /\ unverified \in Nat /\ softSkipped \in Nat /\ disagreements \in Nat
        /\ printed \in Nat /\ holder \in Workers \cup {NoOne}
    BY <1>1 DEF TotalsInv, WorkersTyped, Workplaces, Holdings
  <1>3. ASSUME Goes(w, Free)
        PROVE  /\ \A K : (Kind(w) \in K => Num({"ask"}, K)' = Num({"ask"}, K) + 1)
                            /\ (Kind(w) \notin K => /\ Past({"ask"}, K)' = Past({"ask"}, K)
                                                    /\ Num({"ask"}, K)' = Num({"ask"}, K))
               /\ \A K : (Kind(w) \in K => Num({"ask", "skip"}, K)' = Num({"ask", "skip"}, K) + 1)
                            /\ (Kind(w) \notin K => Num({"ask", "skip"}, K)' = Num({"ask", "skip"}, K))
               /\ \A K : Kind(w) \notin K =>
                            Num({"ask", "lock", "store"}, K)' = Num({"ask", "lock", "store"}, K)
    BY <1>1, <1>3, FreeAndStopped, PastLeft
  <1>4. Goes(w, Free) => Mutex'
    BY <1>1, FreeAndStopped, MutexKept
  <1>5. CASE Kind(w) = "nested" /\ softSkipped' = softSkipped + 1 /\ Goes(w, Free)
                /\ UNCHANGED <<tested, unverified, exit>>
    <2>1. Totals' /\ Past({"ask"}, {"error"})' = {}
      BY <1>1, <1>3, <1>5 DEF TotalsInv, Totals, Ending
    <2> QED BY <1>1, <1>2, <1>4, <1>5, <2>1, FreeAndStopped, WorkerKeeps
  <1>6. CASE Kind(w) = "error" /\ exit' = "1"
                /\ UNCHANGED <<worker, tested, unverified, softSkipped>>
    <2>1. UNCHANGED Numbers /\ Taken' = Taken
      BY <1>1, <1>6, NumbersSame
    <2>2. WorkersTyped' /\ Channel' /\ Holdings' /\ Mutex' /\ Totals'
      BY <1>1, <1>6, <2>1 DEF TotalsInv, WorkersTyped, Channel, Holdings, Mutex, Totals, Busy, Kind, Numbers
    <2>3. Ending'
      <3>1. worker[w].mutant \in 1..made
        BY <1>2, LenProperties DEF TotalsInv, WorkersTyped, Channel, Taken
      <3>2. kind[worker[w].mutant] = "error"
        BY <1>6 DEF Kind
      <3> QED BY <1>1, <1>6, <3>1, <3>2 DEF TotalsInv, Ending, Running
    <2> QED BY <2>2, <2>3 DEF TotalsInv
  <1>7. CASE Kind(w) = "cut" /\ unverified' = unverified + 1 /\ Goes(w, Free)
                /\ UNCHANGED <<tested, softSkipped, exit>>
    <2>1. Totals' /\ Past({"ask"}, {"error"})' = {}
      BY <1>1, <1>3, <1>7 DEF TotalsInv, Totals, Ending
    <2> QED BY <1>1, <1>2, <1>4, <1>7, <2>1, FreeAndStopped, WorkerKeeps
  <1>8. CASE Kind(w) = "agree" /\ tested' = tested + 1 /\ Goes(w, Free)
                /\ UNCHANGED <<unverified, softSkipped, exit>>
    <2>1. Totals' /\ Past({"ask"}, {"error"})' = {}
      BY <1>1, <1>3, <1>8 DEF TotalsInv, Totals, Ending
    <2> QED BY <1>1, <1>2, <1>4, <1>8, <2>1, FreeAndStopped, WorkerKeeps
  <1>9. CASE /\ Kind(w) \in {"disagree", "bind"} /\ tested' = tested + 1
             /\ Goes(w, [worker[w] EXCEPT !.at = IF Kind(w) = "bind" THEN "skip" ELSE "lock"])
             /\ UNCHANGED <<unverified, softSkipped, exit>>
    <2>1. PICK next \in {"skip", "lock"} : next = IF Kind(w) = "bind" THEN "skip" ELSE "lock"
      BY <1>9
    <2>2. PICK to : to = [worker[w] EXCEPT !.at = next]
      OBVIOUS
    <2>3. Goes(w, to) /\ to \in Workplaces /\ to.at = next /\ to.mutant = worker[w].mutant
      BY <1>2, <1>9, <2>1, <2>2 DEF Workplaces, WorkerPlaces
    <2>4. \A K : /\ Kind(w) \in K => Num({"ask"}, K)' = Num({"ask"}, K) + 1
                 /\ Kind(w) \notin K => /\ Past({"ask"}, K)' = Past({"ask"}, K)
                                        /\ Num({"ask"}, K)' = Num({"ask"}, K)
      BY <1>1, <2>1, <2>3, PastLeft
    <2>5. Mutex'
      BY <1>1, <2>1, <2>3, MutexKept
    <2>6. Num({"ask", "skip"}, {"nested", "bind"})' = Num({"ask", "skip"}, {"nested", "bind"})
      <3>1. CASE Kind(w) = "bind"
        BY <1>1, <1>2, <2>1, <2>3, <3>1, PastKept
      <3>2. CASE Kind(w) = "disagree"
        BY <1>1, <2>1, <2>3, <3>2, PastLeft
      <3> QED BY <1>9, <3>1, <3>2
    <2>7. Num({"ask", "lock", "store"}, {"disagree"})' = Num({"ask", "lock", "store"}, {"disagree"})
      <3>1. CASE Kind(w) = "disagree"
        BY <1>1, <1>2, <2>1, <2>3, <3>1, PastKept
      <3>2. CASE Kind(w) = "bind"
        BY <1>1, <2>1, <2>3, <3>2, PastLeft
      <3> QED BY <1>9, <3>1, <3>2
    <2>8. Totals' /\ Past({"ask"}, {"error"})' = {}
      BY <1>1, <1>9, <2>4, <2>6, <2>7 DEF TotalsInv, Totals, Ending
    <2> QED BY <1>1, <1>2, <1>9, <2>1, <2>3, <2>5, <2>8, WorkerKeeps
  <1> QED BY <1>5, <1>6, <1>7, <1>8, <1>9 DEF Ask

LEMMA SkipKeeps ==
    ASSUME TotalsInv, NEW w \in Workers, Skip(w)
    PROVE  TotalsInv'
  <1>1. /\ Running /\ worker[w].at = "skip" /\ Busy(w) /\ softSkipped' = softSkipped + 1
        /\ Goes(w, Free)
        /\ UNCHANGED <<kind, duration, made, closed, mutants, holder, exit>>
        /\ UNCHANGED <<tested, unverified, disagreements, printed>>
    BY DEF Skip, At, Generator, Busy
  <1>2. /\ worker \in [Workers -> Workplaces] /\ Kind(w) = "bind"
        /\ tested \in Nat /\ unverified \in Nat /\ softSkipped \in Nat /\ disagreements \in Nat
        /\ printed \in Nat /\ holder \in Workers \cup {NoOne}
    BY <1>1 DEF TotalsInv, WorkersTyped, Workplaces, Holdings
  <1>3. /\ \A K : Past({"ask"}, K)' = Past({"ask"}, K) /\ Num({"ask"}, K)' = Num({"ask"}, K)
        /\ \A K : Num({"ask", "lock", "store"}, K)' = Num({"ask", "lock", "store"}, K)
    BY <1>1, <1>2, FreeAndStopped, PastKept
  <1>4. Num({"ask", "skip"}, {"nested", "bind"})' = Num({"ask", "skip"}, {"nested", "bind"}) + 1
    BY <1>1, <1>2, FreeAndStopped, PastLeft
  <1>5. Mutex'
    BY <1>1, FreeAndStopped, MutexKept
  <1>6. Totals' /\ Past({"ask"}, {"error"})' = {}
    BY <1>1, <1>3, <1>4 DEF TotalsInv, Totals, Ending
  <1> QED BY <1>1, <1>2, <1>5, <1>6, FreeAndStopped, WorkerKeeps

LEMMA LockKeeps ==
    ASSUME TotalsInv, NEW w \in Workers, Lock(w)
    PROVE  TotalsInv'
  <1> DEFINE to == [worker[w] EXCEPT !.at = "store", !.seen = disagreements]
  <1>1. /\ Running /\ worker[w].at = "lock" /\ Busy(w) /\ holder = NoOne /\ holder' = w
        /\ UNCHANGED <<kind, duration, made, closed, mutants, exit>>
        /\ UNCHANGED <<tested, unverified, softSkipped, disagreements, printed>>
    BY DEF Lock, At, Generator, Busy, counters
  <1>2. /\ worker \in [Workers -> Workplaces] /\ Kind(w) = "disagree"
        /\ tested \in Nat /\ unverified \in Nat /\ softSkipped \in Nat /\ disagreements \in Nat
        /\ printed \in Nat
    BY <1>1 DEF TotalsInv, WorkersTyped, Workplaces, Holdings
  <1>3. PICK t \in Workplaces :
            /\ Goes(w, t) /\ t.at = "store" /\ t.mutant = worker[w].mutant
            /\ t.seen = disagreements
    <2>1. /\ to \in Workplaces /\ to.at = "store" /\ to.mutant = worker[w].mutant
          /\ to.seen = disagreements
      BY <1>2 DEF Workplaces, WorkerPlaces
    <2>2. Goes(w, to)
      BY DEF Lock
    <2> HIDE DEF to
    <2> QED BY <2>1, <2>2
  <1> HIDE DEF to
  <1>4. /\ worker'[w] = t /\ \A v \in Workers : v # w => worker'[v] = worker[v]
    BY <1>2, <1>3 DEF Goes
  <1>5. UNCHANGED Numbers
    BY <1>1, <1>3, NumbersKept
  <1>6. Mutex'
    <2>1. \A v \in Workers : worker[v].at \notin {"store", "unlock"}
      BY <1>1, RunAssumption DEF TotalsInv, Mutex, NoOne
    <2> QED BY <1>1, <1>3, <1>4, <2>1 DEF Mutex
  <1>7. Totals' /\ Past({"ask"}, {"error"})' = {}
    BY <1>1, <1>5 DEF TotalsInv, Totals, Ending, Numbers
  <1> QED BY <1>1, <1>2, <1>3, <1>6, <1>7, WorkerKeeps

LEMMA StoreKeeps ==
    ASSUME TotalsInv, NEW w \in Workers, Store(w)
    PROVE  TotalsInv'
  <1> DEFINE to == [worker[w] EXCEPT !.at = "unlock"]
  <1>1. /\ Running /\ worker[w].at = "store" /\ Busy(w) /\ holder' = holder
        /\ disagreements' = worker[w].seen + 1
        /\ printed' = IF disagreements' <= MaxPrint THEN printed + 1 ELSE printed
        /\ UNCHANGED <<kind, duration, made, closed, mutants, exit>>
        /\ UNCHANGED <<tested, unverified, softSkipped>>
    BY DEF Store, At, Generator, Busy
  <1>2. /\ worker \in [Workers -> Workplaces] /\ Kind(w) = "disagree" /\ holder = w
        /\ tested \in Nat /\ unverified \in Nat /\ softSkipped \in Nat /\ disagreements \in Nat
        /\ printed \in Nat /\ worker[w].seen = disagreements /\ MaxPrint \in Nat
    BY <1>1, RunAssumption DEF TotalsInv, WorkersTyped, Workplaces, Holdings, Mutex
  <1>3. disagreements' = disagreements + 1
    BY <1>1, <1>2
  <1>4. PICK t \in Workplaces : Goes(w, t) /\ t.at = "unlock" /\ t.mutant = worker[w].mutant
    <2>1. to \in Workplaces /\ to.at = "unlock" /\ to.mutant = worker[w].mutant
      BY <1>2 DEF Workplaces, WorkerPlaces
    <2>2. Goes(w, to)
      BY DEF Store
    <2> HIDE DEF to
    <2> QED BY <2>1, <2>2
  <1> HIDE DEF to
  <1>5. /\ worker'[w] = t /\ \A v \in Workers : v # w => worker'[v] = worker[v]
    BY <1>2, <1>4 DEF Goes
  <1>6. /\ \A K : Past({"ask"}, K)' = Past({"ask"}, K) /\ Num({"ask"}, K)' = Num({"ask"}, K)
        /\ \A K : Num({"ask", "skip"}, K)' = Num({"ask", "skip"}, K)
    BY <1>1, <1>2, <1>4, PastKept
  <1>7. Num({"ask", "lock", "store"}, {"disagree"})' = Num({"ask", "lock", "store"}, {"disagree"}) + 1
    BY <1>1, <1>2, <1>4, PastLeft
  <1>8. Mutex'
    <2>1. \A v \in Workers : v # w => worker[v].at \notin {"store", "unlock"}
      BY <1>2 DEF TotalsInv, Mutex
    <2> QED BY <1>1, <1>2, <1>4, <1>5, <2>1 DEF Mutex
  <1>9. printed' = IF disagreements' < MaxPrint THEN disagreements' ELSE MaxPrint
    <2>1. printed = IF disagreements < MaxPrint THEN disagreements ELSE MaxPrint
      BY DEF TotalsInv, Totals
    <2> QED BY <1>1, <1>2, <1>3, <2>1
  <1>10. Totals' /\ Past({"ask"}, {"error"})' = {}
    BY <1>1, <1>3, <1>6, <1>7, <1>9 DEF TotalsInv, Totals, Ending
  <1>11. disagreements' \in Nat /\ printed' \in Nat
    BY <1>1, <1>2, <1>3
  <1> QED BY <1>1, <1>2, <1>4, <1>8, <1>10, <1>11, WorkerKeeps

LEMMA UnlockKeeps ==
    ASSUME TotalsInv, NEW w \in Workers, Unlock(w)
    PROVE  TotalsInv'
  <1>1. /\ Running /\ worker[w].at = "unlock" /\ Busy(w) /\ holder' = NoOne /\ Goes(w, Free)
        /\ UNCHANGED <<kind, duration, made, closed, mutants, exit>>
        /\ UNCHANGED <<tested, unverified, softSkipped, disagreements, printed>>
    BY DEF Unlock, At, Generator, Busy, counters
  <1>2. /\ worker \in [Workers -> Workplaces] /\ holder = w
        /\ tested \in Nat /\ unverified \in Nat /\ softSkipped \in Nat /\ disagreements \in Nat
        /\ printed \in Nat
    BY <1>1 DEF TotalsInv, WorkersTyped, Workplaces, Mutex
  <1>3. UNCHANGED Numbers
    BY <1>1, NumbersKept, FreeAndStopped
  <1>4. /\ worker'[w] = Free /\ \A v \in Workers : v # w => worker'[v] = worker[v]
    BY <1>1, <1>2 DEF Goes
  <1>5. Mutex'
    <2>1. \A v \in Workers : v # w => worker[v].at \notin {"store", "unlock"}
      BY <1>2 DEF TotalsInv, Mutex
    <2> QED BY <1>4, <2>1, FreeAndStopped DEF Mutex
  <1>6. Totals' /\ Past({"ask"}, {"error"})' = {}
    BY <1>1, <1>3 DEF TotalsInv, Totals, Ending, Numbers
  <1> QED BY <1>1, <1>2, <1>5, <1>6, FreeAndStopped, WorkerKeeps

-----------------------------------------------------------------------------
(* The invariant, and what it says when the run is over. *)

LEMMA InitCounts ==
    ASSUME Init
    PROVE  TotalsInv
  <1>1. /\ kind \in [1..N -> Kinds] /\ duration \in BOOLEAN /\ made = 0 /\ ~closed /\ closed \in BOOLEAN
        /\ mutants = <<>> /\ worker = [w \in Workers |-> Free] /\ holder = NoOne
        /\ tested = 0 /\ unverified = 0 /\ softSkipped = 0 /\ disagreements = 0 /\ printed = 0
        /\ Running
    <2>1. Init
      OBVIOUS
    <2>2. kind \in [1..N -> Kinds] /\ duration \in BOOLEAN
      BY <2>1, Zenon DEF Init
    <2>3. made = 0 /\ ~closed /\ closed \in BOOLEAN /\ mutants = <<>>
      BY <2>1, Zenon DEF Init
    <2>4. worker = [w \in Workers |-> Free] /\ holder = NoOne
      BY <2>1, Zenon DEF Init
    <2>5. tested = 0 /\ unverified = 0 /\ softSkipped = 0 /\ disagreements = 0 /\ printed = 0
      BY <2>1, Zenon DEF Init
    <2>6. Running
      BY <2>1, Zenon DEF Init, Running
    <2> QED BY <2>2, <2>3, <2>4, <2>5, <2>6
  <1>2. Len(mutants) = 0 /\ Taken = 0 /\ N \in Nat /\ MaxPrint \in Nat
    <2>1. mutants = <<>> /\ made = 0
      BY <1>1, Zenon
    <2>2. Len(<<>>) = 0
      BY EmptySeq
    <2>3. N \in Nat /\ MaxPrint \in Nat
      BY RunAssumption, Zenon
    <2>4. Len(mutants) = 0
      BY <2>1, <2>2, Zenon
    <2>5. 0 - 0 = 0
      OBVIOUS
    <2> QED BY <2>1, <2>3, <2>4, <2>5, Zenon DEF Taken
  <1>3. worker \in [Workers -> Workplaces] /\ \A w \in Workers : worker[w].at = "receive"
    BY <1>1, FreeAndStopped
  <1>4. ASSUME NEW S, NEW K PROVE Past(S, K) = {} /\ Num(S, K) = 0
    <2>1. Past(S, K) = {}
      BY <1>2 DEF Past
    <2> QED BY <2>1, FS_EmptySet DEF Num
  <1>5. WorkersTyped
    BY <1>1, <1>2, <1>3 DEF WorkersTyped, Workplaces, Running
  <1>6. Channel /\ Holdings /\ Mutex
    BY <1>1, <1>2, <1>3 DEF Channel, Holdings, Mutex, Busy
  <1>7. Totals
    BY <1>1, <1>2, <1>4 DEF Totals
  <1>8. Ending
    BY <1>1, <1>3, <1>4 DEF Ending
  <1> QED BY <1>5, <1>6, <1>7, <1>8 DEF TotalsInv

LEMMA StutterKeeps ==
    ASSUME TotalsInv, UNCHANGED vars
    PROVE  TotalsInv'
  <1>1. /\ UNCHANGED <<kind, duration, made, closed, mutants, worker, holder, exit>>
        /\ UNCHANGED <<tested, unverified, softSkipped, disagreements, printed>>
    BY DEF vars, counters
  <1>2. UNCHANGED Numbers /\ Taken' = Taken
    BY <1>1, NumbersSame
  <1> QED BY <1>1, <1>2
      DEF TotalsInv, WorkersTyped, Channel, Holdings, Mutex, Totals, Ending, Busy, Kind, Numbers, Running

\* Every counter is the size of the set of mutants it stands for, at every
\* moment of a run and for every number of mutants and workers.
THEOREM TotalsInductive == Spec => []TotalsInv
  <1>1. Init => TotalsInv
    BY InitCounts
  <1>2. TotalsInv /\ [Next]_vars => TotalsInv'
    BY GenerateKeeps, CloseKeeps, ReportKeeps, ReceiveKeeps, WorkerDoneKeeps, AskKeeps,
       SkipKeeps, LockKeeps, StoreKeeps, UnlockKeeps, StutterKeeps DEF Next
  <1> QED BY <1>1, <1>2, PTL DEF Spec

\* For every number of mutants, workers and disagreements to print: once a
\* run without oracle errors is over, the totals, the disagreements printed
\* and the exit status are those of the mutants made, each counted once.
THEOREM TotalsAreExact == Spec => []TotalsExact
  <1>1. TotalsInv => TotalsExact
    <2> SUFFICES ASSUME TotalsInv PROVE TotalsExact
      OBVIOUS
    <2>1. TypeOK
      BY DEF TotalsInv, WorkersTyped, Mutex, TypeOK
    <2> SUFFICES ASSUME Clean PROVE TotalsAddUp /\ ExitTells
      BY <2>1 DEF TotalsExact, TotalsAddUp, ExitTells
    <2>2. made \in Nat /\ N \in Nat
      BY RunAssumption DEF TotalsInv, WorkersTyped
    <2>3. \A m \in 1..made : kind[m] # "error"
      <3>1. {m \in 1..made : kind[m] \in {"error"}} = {}
        <4>1. Cardinality({m \in 1..made : kind[m] \in {"error"}}) = 0
          BY DEF Clean, Count
        <4>2. IsFiniteSet({m \in 1..made : kind[m] \in {"error"}})
          <5>1. IsFiniteSet(1..made)
            BY <2>2, FS_Interval
          <5> QED BY <5>1, FS_Subset
        <4> QED BY <4>1, <4>2, FS_EmptySet
      <3> QED BY <3>1
    <2>4. ~Running
      BY DEF Clean, Finished, Running
    <2>5. /\ \A w \in Workers : worker[w].at = "done"
          /\ exit = IF disagreements > 0 THEN "1" ELSE "0"
      BY <2>3, <2>4 DEF TotalsInv, Ending
    <2>6. closed /\ mutants = <<>>
      BY <2>5, RunAssumption DEF TotalsInv, Ending
    <2>7. made = N \/ duration
      BY <2>6 DEF TotalsInv, Ending
    <2>8. Taken = made
      BY <2>2, <2>6 DEF Taken
    <2>9. ASSUME NEW S \in {{"ask"}, {"ask", "skip"}, {"ask", "lock", "store"}}, NEW K
          PROVE  Num(S, K) = Count(K, made)
      <3>1. \A m : Left(S, m)
        BY <2>5 DEF Left
      <3>2. Past(S, K) = {m \in 1..made : kind[m] \in K}
        BY <2>8, <3>1 DEF Past
      <3> QED BY <3>2 DEF Num, Count
    <2>10. /\ tested = Count({"agree", "disagree", "bind"}, made)
           /\ unverified = Count({"cut"}, made)
           /\ softSkipped = Count({"nested", "bind"}, made)
           /\ disagreements = Count({"disagree"}, made)
           /\ printed = IF disagreements < MaxPrint THEN disagreements ELSE MaxPrint
      <3>1. /\ Num({"ask"}, {"agree", "disagree", "bind"}) = Count({"agree", "disagree", "bind"}, made)
            /\ Num({"ask"}, {"cut"}) = Count({"cut"}, made)
        BY <2>9
      <3>2. Num({"ask", "skip"}, {"nested", "bind"}) = Count({"nested", "bind"}, made)
        BY <2>9
      <3>3. Num({"ask", "lock", "store"}, {"disagree"}) = Count({"disagree"}, made)
        BY <2>9
      <3> QED BY <3>1, <3>2, <3>3 DEF TotalsInv, Totals
    <2>11. TotalsAddUp
      BY <2>7, <2>10 DEF TotalsAddUp
    <2>12. ExitTells
      BY <2>5, <2>10 DEF ExitTells
    <2> QED BY <2>11, <2>12
  <1> QED BY <1>1, TotalsInductive, PTL
=============================================================================
