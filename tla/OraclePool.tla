----------------------------- MODULE OraclePool -----------------------------
(***************************************************************************)
(* runOracle (cmd/regenerate): a feeder, the workers and a collector, the  *)
(* caller itself, exchange jobs and results over unbuffered channels.  The *)
(* first error returns and leaves the others where they are, blocked on    *)
(* the channels nobody serves any more.                                    *)
(***************************************************************************)
EXTENDS Naturals, Sequences

CONSTANTS
    Work,        \* the statements, in the order they are fed
    Workers,
    Verdicts,    \* what Oracle.Run gives, see Oracle
    Failed       \* its error

\* With no worker at all (-j 0) the feeder waits for ever.
ASSUME WorkersAssumption == Workers # {}
Stmts == {Work[k] : k \in 1..Len(Work)}

\* regenerate keeps each text once, in the first file that has it.
ASSUME WorkAssumption ==
    /\ Failed \notin Verdicts
    /\ Work \in Seq(Stmts)
    /\ \A j, k \in 1..Len(Work) : Work[j] = Work[k] => j = k

VARIABLES
    next,          \* the feeder's place in Work
    jobsClosed,
    resultsClosed,
    worker,        \* what each worker does, and on which statement
    answered,      \* the answers Oracle.Run gave
    verdicts,      \* the collector's map
    collector      \* "ranging", "ok", "error"

vars == <<next, jobsClosed, resultsClosed, worker, answered, verdicts, collector>>

None    == [at |-> "done", stmt |-> "none"]
Waiting == [at |-> "receive", stmt |-> "none"]

\* An assignment to a map.
Put(map, key, value) ==
    [k \in DOMAIN map \cup {key} |-> IF k = key THEN value ELSE map[k]]

Init == /\ next = 1 /\ jobsClosed = FALSE /\ resultsClosed = FALSE
        /\ worker = [w \in Workers |-> Waiting]
        /\ answered = <<>> /\ verdicts = <<>> /\ collector = "ranging"

-----------------------------------------------------------------------------
\* jobs <- sql meets a worker's receive: the channel holds nothing itself.
Hand(w) ==
    /\ next <= Len(Work) /\ worker[w] = Waiting
    /\ worker' = [worker EXCEPT ![w] = [at |-> "run", stmt |-> Work[next]]]
    /\ next' = next + 1
    /\ UNCHANGED <<jobsClosed, resultsClosed, answered, verdicts, collector>>

CloseJobs ==
    /\ next > Len(Work) /\ ~jobsClosed /\ jobsClosed' = TRUE
    /\ UNCHANGED <<next, resultsClosed, worker, answered, verdicts, collector>>

\* Oracle.Run: bounded by its deadline.
Answer(w) ==
    /\ worker[w].at = "run"
    /\ \E a \in Verdicts \cup {Failed} : answered' = Put(answered, worker[w].stmt, a)
    /\ worker' = [worker EXCEPT ![w].at = "send"]
    /\ UNCHANGED <<next, jobsClosed, resultsClosed, verdicts, collector>>

\* Mutant: a failed result is collected like any other.
CollectFailed(w) ==
    /\ worker[w].at = "send" /\ collector = "ranging"
    /\ verdicts' = Put(verdicts, worker[w].stmt, answered[worker[w].stmt])
    /\ worker' = [worker EXCEPT ![w] = Waiting]
    /\ UNCHANGED <<next, jobsClosed, resultsClosed, answered, collector>>

\* results <- result meets the collector's range.
Collect(w) ==
    /\ worker[w].at = "send" /\ collector = "ranging"
    /\ LET answer == answered[worker[w].stmt]
       IN  IF answer = Failed THEN collector' = "error" /\ UNCHANGED verdicts
           ELSE verdicts' = Put(verdicts, worker[w].stmt, answer) /\ UNCHANGED collector
    /\ worker' = [worker EXCEPT ![w] = Waiting]
    /\ UNCHANGED <<next, jobsClosed, resultsClosed, answered>>

WorkerDone(w) ==
    /\ worker[w] = Waiting /\ jobsClosed
    /\ worker' = [worker EXCEPT ![w] = None]
    /\ UNCHANGED <<next, jobsClosed, resultsClosed, answered, verdicts, collector>>

\* Mutant: the feeder does not wait for the workers.
CloseResultsEarly ==
    /\ jobsClosed /\ ~resultsClosed /\ resultsClosed' = TRUE
    /\ UNCHANGED <<next, jobsClosed, worker, answered, verdicts, collector>>

\* wg.Wait(), then close(results).
CloseResults ==
    /\ jobsClosed /\ ~resultsClosed
    /\ \A w \in Workers : worker[w] = None
    /\ resultsClosed' = TRUE
    /\ UNCHANGED <<next, jobsClosed, worker, answered, verdicts, collector>>

RangeEnds ==
    /\ resultsClosed /\ collector = "ranging" /\ collector' = "ok"
    /\ UNCHANGED <<next, jobsClosed, resultsClosed, worker, answered, verdicts>>

Next == \/ CloseJobs \/ CloseResults \/ RangeEnds
        \/ \E w \in Workers : Hand(w) \/ Answer(w) \/ Collect(w) \/ WorkerDone(w)

\* Every goroutine that can run does: the feeder, the collector, each worker;
\* a rendezvous happens when both of its sides are there.
Spec == /\ Init /\ [][Next]_vars
        /\ WF_vars(CloseJobs) /\ WF_vars(CloseResults) /\ WF_vars(RangeEnds)
        /\ \A w \in Workers : WF_vars(Hand(w)) /\ WF_vars(Answer(w)) /\ WF_vars(Collect(w)) /\ WF_vars(WorkerDone(w))

-----------------------------------------------------------------------------
(* Correctness. *)
Abstract == INSTANCE Batch
    WITH outcome  <- IF collector = "ranging" THEN "running" ELSE collector,
         verdicts <- IF collector = "ok" THEN verdicts ELSE <<>>

\* The type invariant.
TypeOK ==
    /\ next \in 1..(Len(Work) + 1) /\ jobsClosed \in BOOLEAN /\ resultsClosed \in BOOLEAN
    /\ worker \in [Workers -> [at : {"receive", "run", "send", "done"}, stmt : Stmts \cup {"none"}]]
    /\ \A w \in Workers : /\ worker[w].at = "receive" => worker[w] = Waiting
                          /\ worker[w].at = "done" => worker[w] = None
    /\ answered \in [DOMAIN answered -> Verdicts \cup {Failed}]
    /\ verdicts \in [DOMAIN verdicts -> Verdicts]
    /\ collector \in {"ranging", "ok", "error"}

Handed  == {Work[k] : k \in 1..(next - 1)}
Has(w, s) == worker[w].at \in {"run", "send"} /\ worker[w].stmt = s

\* Every statement handed out is on its way with one worker, or its answer
\* has been collected, until an error ends the collecting.
Accounted ==
    /\ DOMAIN verdicts \subseteq DOMAIN answered /\ DOMAIN answered \subseteq Handed
    /\ \A s \in DOMAIN verdicts : verdicts[s] = answered[s]
    /\ \A w \in Workers : /\ worker[w].at = "run" => worker[w].stmt \in Handed \ DOMAIN answered
                          /\ worker[w].at = "send" => worker[w].stmt \in DOMAIN answered \ DOMAIN verdicts
    /\ \A s \in Handed, v, w \in Workers : Has(v, s) /\ Has(w, s) => v = w
    /\ \A s \in Handed : s \in DOMAIN verdicts \/ collector = "error" \/ \E w \in Workers : Has(w, s)
    /\ collector = "error" => \E s \in DOMAIN answered : answered[s] = Failed

\* The feeder closes jobs after the last statement, results after the last
\* worker, and the collector's range ends after that.
ClosedInOrder ==
    /\ jobsClosed => next = Len(Work) + 1
    /\ \A w \in Workers : worker[w] = None => jobsClosed
    /\ resultsClosed => jobsClosed /\ \A w \in Workers : worker[w] = None
    /\ collector = "ok" => resultsClosed

\* A channel is closed only once its senders are done, so that no one sends
\* on a closed one; and a batch that succeeds leaves nothing behind, no
\* goroutine blocked and no answer undelivered.
PoolDrains ==
    /\ TypeOK /\ Accounted /\ ClosedInOrder
    /\ resultsClosed => \A w \in Workers : worker[w].at \notin {"run", "send"}
    /\ collector = "ok" => /\ \A w \in Workers : worker[w] = None
                           /\ DOMAIN verdicts = DOMAIN answered

\* runOracle returns every statement's own verdict or an error, and always
\* returns: it implements Batch.
ImplementsBatch == Abstract!Spec

-----------------------------------------------------------------------------
\* The statements of the run.
MCWork == <<"s1", "s2", "s3">>
=============================================================================
