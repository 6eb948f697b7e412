------------------------------ MODULE Difftest ------------------------------
(***************************************************************************)
(* cmd/difftest: one generator sends mutants over a buffered channel to    *)
(* the workers; each asks the oracle (see Oracle) and the parser, compares *)
(* and counts.  The mutants are the seed's: what each of them will turn    *)
(* out to be does not depend on who takes it when.                         *)
(***************************************************************************)
EXTENDS Naturals, Sequences, FiniteSets

CONSTANTS
    N,           \* the mutants of a run, -n; with -duration as many as time allows
    Workers,
    MaxPrint     \* the disagreements printed in detail

\* -jobs is the number of CPUs unless it is given; with no job at all nothing
\* is tested.
ASSUME RunAssumption ==
    /\ N \in Nat /\ MaxPrint \in Nat
    /\ IsFiniteSet(Workers) /\ Workers # {} /\ "none" \notin Workers

\* "nested": skipped before the oracle is asked; "error": the oracle cannot
\* be run; "cut": no verdict, or one that does not cover the mutant; "bind":
\* refused by the oracle for no syntax error, accepted by the parser.
Kinds == {"nested", "error", "cut", "agree", "disagree", "bind"}

VARIABLES
    kind,        \* what every mutant is
    duration,    \* a run bounded by time
    made,        \* the mutants generated
    closed, mutants,
    worker,      \* where each worker is, and with which mutant
    holder,      \* who holds mu
    tested, unverified, softSkipped, disagreements,
    printed,     \* the disagreements printed
    exit         \* the process's exit status, "running" until it has one

counters == <<tested, unverified, softSkipped, disagreements, printed>>
vars == <<kind, duration, made, closed, mutants, worker, holder, counters, exit>>

NoOne   == "none"
Free    == [at |-> "receive", mutant |-> 0, seen |-> 0]
Stopped == [at |-> "done", mutant |-> 0, seen |-> 0]

Init == /\ kind \in [1..N -> Kinds] /\ duration \in BOOLEAN
        /\ made = 0 /\ closed = FALSE /\ mutants = <<>>
        /\ worker = [w \in Workers |-> Free] /\ holder = NoOne
        /\ tested = 0 /\ unverified = 0 /\ softSkipped = 0 /\ disagreements = 0 /\ printed = 0
        /\ exit = "running"

Running == exit = "running"
Goes(w, to) == worker' = [worker EXCEPT ![w] = to]
At(w, pc)   == Running /\ worker[w].at = pc
Kind(w)     == kind[worker[w].mutant]
Generator   == <<kind, duration, made, closed, mutants>>

-----------------------------------------------------------------------------
\* The channel holds as many mutants as there are jobs; n mutants are made,
\* or as many as there is time for (at most N here).
Generate ==
    /\ Running /\ ~closed /\ made < N /\ Len(mutants) < Cardinality(Workers)
    /\ made' = made + 1 /\ mutants' = Append(mutants, made + 1)
    /\ UNCHANGED <<kind, duration, closed, worker, holder, counters, exit>>

\* Mutant: the channel is closed only when the time is up.
CloseOnTime ==
    /\ Running /\ ~closed /\ duration
    /\ closed' = TRUE /\ UNCHANGED <<kind, duration, made, mutants, worker, holder, counters, exit>>

\* The generator returns, at the end or when it sees that time is up.
Close ==
    /\ Running /\ ~closed /\ (made = N \/ duration)
    /\ closed' = TRUE /\ UNCHANGED <<kind, duration, made, mutants, worker, holder, counters, exit>>

Receive(w) ==
    /\ At(w, "receive") /\ mutants # <<>>
    /\ mutants' = Tail(mutants)
    /\ Goes(w, [at |-> "ask", mutant |-> Head(mutants), seen |-> 0])
    /\ UNCHANGED <<kind, duration, made, closed, holder, counters, exit>>

WorkerDone(w) ==
    /\ At(w, "receive") /\ closed /\ mutants = <<>> /\ Goes(w, Stopped)
    /\ UNCHANGED <<Generator, holder, counters, exit>>

\* The filters, the oracle and the parser, up to the count.
Ask(w) ==
    /\ At(w, "ask")
    /\ \/ /\ Kind(w) = "nested" /\ softSkipped' = softSkipped + 1 /\ Goes(w, Free)
          /\ UNCHANGED <<tested, unverified, exit>>
       \/ /\ Kind(w) = "error" /\ exit' = "1"
          /\ UNCHANGED <<worker, tested, unverified, softSkipped>>
       \/ /\ Kind(w) = "cut" /\ unverified' = unverified + 1 /\ Goes(w, Free)
          /\ UNCHANGED <<tested, softSkipped, exit>>
       \/ /\ Kind(w) = "agree" /\ tested' = tested + 1 /\ Goes(w, Free)
          /\ UNCHANGED <<unverified, softSkipped, exit>>
       \/ /\ Kind(w) \in {"disagree", "bind"} /\ tested' = tested + 1
          /\ Goes(w, [worker[w] EXCEPT !.at = IF Kind(w) = "bind" THEN "skip" ELSE "lock"])
          /\ UNCHANGED <<unverified, softSkipped, exit>>
    /\ UNCHANGED <<Generator, holder, disagreements, printed>>

\* A mutant counted as tested turns out to be a bind-time refusal.
Skip(w) ==
    /\ At(w, "skip") /\ softSkipped' = softSkipped + 1 /\ Goes(w, Free)
    /\ UNCHANGED <<Generator, holder, tested, unverified, disagreements, printed, exit>>

\* Mutant: the mutex is not taken.
LockNothing(w) ==
    /\ At(w, "lock") /\ Goes(w, [worker[w] EXCEPT !.at = "store", !.seen = disagreements])
    /\ UNCHANGED <<Generator, holder, counters, exit>>

\* mu.Lock(); disagreements++ reads and writes.
Lock(w) ==
    /\ At(w, "lock") /\ holder = NoOne /\ holder' = w
    /\ Goes(w, [worker[w] EXCEPT !.at = "store", !.seen = disagreements])
    /\ UNCHANGED <<Generator, counters, exit>>

Store(w) ==
    /\ At(w, "store")
    /\ disagreements' = worker[w].seen + 1
    /\ printed' = IF disagreements' <= MaxPrint THEN printed + 1 ELSE printed
    /\ Goes(w, [worker[w] EXCEPT !.at = "unlock"])
    /\ UNCHANGED <<Generator, holder, tested, unverified, softSkipped, exit>>

Unlock(w) ==
    /\ At(w, "unlock") /\ holder' = NoOne /\ Goes(w, Free)
    /\ UNCHANGED <<Generator, counters, exit>>

\* wg.Wait(), then the totals and the exit status.
Report ==
    /\ Running /\ \A w \in Workers : worker[w] = Stopped
    /\ exit' = (IF disagreements > 0 THEN "1" ELSE "0")
    /\ UNCHANGED <<Generator, worker, holder, counters>>

Next == \/ Generate \/ Close \/ Report
        \/ \E w \in Workers : \/ Receive(w) \/ WorkerDone(w) \/ Ask(w)
                              \/ Skip(w) \/ Lock(w) \/ Store(w) \/ Unlock(w)

\* The generator goes on and the time runs out; every worker goes on, the
\* oracle answering within its deadline; mu is handed on fairly.
Spec == /\ Init /\ [][Next]_vars
        /\ WF_vars(Generate) /\ WF_vars(Close) /\ WF_vars(Report)
        /\ \A w \in Workers : /\ WF_vars(Receive(w) \/ WorkerDone(w)) /\ WF_vars(Ask(w)) /\ WF_vars(Skip(w))
                              /\ SF_vars(Lock(w)) /\ WF_vars(Store(w)) /\ WF_vars(Unlock(w))

-----------------------------------------------------------------------------
(* Correctness. *)
Count(S, upTo) == Cardinality({m \in 1..upTo : kind[m] \in S})
Finished == exit # "running"
Clean    == Finished /\ Count({"error"}, made) = 0

\* The type invariant; the mutex keeps who stores and unlocks alone.
TypeOK == /\ made \in 0..N /\ exit \in {"running", "0", "1"}
          /\ holder \in Workers \cup {NoOne}
          /\ \A w \in Workers : worker[w].at \in {"store", "unlock"} => holder = w

\* "Deterministic for a given -seed": whatever the interleaving, the totals
\* printed are those of the mutants made, each counted once; a bind-time
\* refusal is counted both as tested and as skipped.
TotalsAddUp ==
    Clean =>
        /\ disagreements = Count({"disagree"}, made)
        /\ tested = Count({"agree", "disagree", "bind"}, made)
        /\ unverified = Count({"cut"}, made)
        /\ softSkipped = Count({"nested", "bind"}, made)
        /\ duration \/ made = N

\* The exit status is 1 exactly when there is something to look at, and all
\* disagreements are printed in detail up to the maximum.
ExitTells ==
    Clean => /\ exit = "1" <=> Count({"disagree"}, made) > 0
             /\ printed = IF Count({"disagree"}, made) < MaxPrint THEN Count({"disagree"}, made) ELSE MaxPrint

\* Whatever the interleaving of the workers, the totals, what is printed and
\* the exit status are those of the mutants made.
TotalsExact == TypeOK /\ TotalsAddUp /\ ExitTells

\* A run ends, one bounded by time as well.
Ends == <>Finished
=============================================================================
