----------------------------- MODULE Regenerate -----------------------------
(***************************************************************************)
(* cmd/regenerate: a run extracts the statements of the upstream tests,    *)
(* keeps each once, asks the oracle about them (see OraclePool) and writes *)
(* the corpus, file by file; a full run then removes the stale files with  *)
(* their sidecars and rewrites the README.  A run can fail or be killed    *)
(* between any two changes of the disk, and upstream moves between runs.   *)
(*                                                                         *)
(* A test file is the sequence of its statements; Unstorable stands for    *)
(* those that are too long, cannot be stored or look like a dot command.   *)
(***************************************************************************)
EXTENDS Naturals, Sequences, FiniteSets, SequencesExt

CONSTANTS
    Files,       \* the tests' paths, in the order they are read
    Trees,       \* the upstream trees: from files to their statements
    Unstorable,  \* the statements the corpus cannot hold
    Subsets,     \* the sets of files that -only can name
    Limits,      \* the values of -limit; 0 for none
    MaxRuns      \* bound: runs of the command

VARIABLES
    tree,        \* upstream's tests
    corpus,      \* from the corpus files there are to their cases
    sidecars,    \* the files that have a sidecar
    readme,      \* how many cases the README speaks of
    pc,          \* "idle", "oracle", "write", "walk", "stale", "staleSidecar", "orphans", "readme", "done"
    only, limit, \* the run's options
    perFile,     \* what it has extracted
    verdicts,    \* what the oracle said
    toWrite,     \* the files still to write
    written,     \* those written
    stale, orphans,
    runs

disk == <<tree, corpus, sidecars, readme>>
mem  == <<only, limit, perFile, verdicts, toWrite, written, stale, orphans>>
regenerateVars == <<disk, pc, mem, runs>>

FileSet == ToSet(Files)
\* The tests are a list of paths, each with a list of statements; -only
\* selects among them, -limit is a number.
ASSUME InputAssumption ==
    /\ Files \in Seq(FileSet) /\ Subsets \subseteq SUBSET FileSet /\ Limits \subseteq Nat
    /\ \A t \in Trees : \A f \in FileSet : t[f] \in Seq(ToSet(t[f]))

Partial == only # FileSet \/ limit > 0
Accept  == "accept"
Reject  == "reject"
None    == "none"      \* a timeout or a crash: no verdict

-----------------------------------------------------------------------------
(* Extraction: every statement is kept where it is first seen, up to the   *)
(* limit.                                                                  *)

\* What s holds at the indices in S, in order.
Picked(s, S) == [i \in 1..Cardinality(S) |-> s[CHOOSE j \in S : Cardinality({k \in S : k <= j}) = i]]

\* The statements of the files named, each a file's place in the list and its
\* own in the file, in the order they are read.
Places(t, names) ==
    UNION {{k} \X (1..Len(t[Files[k]])) : k \in {i \in 1..Len(Files) : Files[i] \in names}}
Stmt(t, p)     == t[Files[p[1]]][p[2]]
Precedes(p, q) == p[1] < q[1] \/ (p[1] = q[1] /\ p[2] < q[2])

\* The storable statements that nothing equal precedes.
New(t, names) ==
    {p \in Places(t, names) : /\ Stmt(t, p) \notin Unstorable
                              /\ \A q \in Places(t, names) : Precedes(q, p) => Stmt(t, q) # Stmt(t, p)}

\* Of these the first max are kept, all of them if max is 0.
KeptPlaces(t, names, max) ==
    {p \in New(t, names) : max = 0 \/ Cardinality({q \in New(t, names) : Precedes(q, p)}) < max}

Kept(t, names, max) ==
    [f \in names |-> Picked(t[f], {j \in 1..Len(t[f]) :
        \E k \in 1..Len(Files) : Files[k] = f /\ <<k, j>> \in KeptPlaces(t, names, max)})]

KeptStmts(kept) == UNION {ToSet(kept[f]) : f \in DOMAIN kept}

\* The cases of a file: its statements that have a verdict.
FileCases(stmts, v) ==
    LET seen == Picked(stmts, {k \in 1..Len(stmts) : v[stmts[k]] # None})
    IN  [k \in 1..Len(seen) |-> [sql |-> seen[k], verdict |-> v[seen[k]]]]

CountCases(files) == Cardinality(UNION {{<<f, k>> : k \in 1..Len(files[f])} : f \in DOMAIN files})

-----------------------------------------------------------------------------
InitRegenerate == /\ tree \in Trees /\ corpus = <<>> /\ sidecars = {} /\ readme = 0
        /\ pc = "idle" /\ only = FileSet /\ limit = 0 /\ perFile = <<>> /\ verdicts = <<>>
        /\ toWrite = {} /\ written = {} /\ stale = {} /\ orphans = {} /\ runs = 0

\* Between runs upstream moves, and a person writes a sidecar for a file.
Upstream == /\ pc \in {"idle", "done"} /\ runs < MaxRuns
            /\ tree' \in Trees \ {tree} /\ pc' = "idle"
            /\ UNCHANGED <<corpus, sidecars, readme, mem, runs>>

Triage == /\ pc \in {"idle", "done"} /\ runs < MaxRuns
          /\ \E f \in DOMAIN corpus \ sidecars : sidecars' = sidecars \cup {f}
          /\ pc' = "idle"
          /\ UNCHANGED <<tree, corpus, readme, mem, runs>>

Start ==
    /\ pc \in {"idle", "done"} /\ runs < MaxRuns
    /\ only' \in Subsets /\ limit' \in Limits
    /\ perFile' = Kept(tree, only', limit')
    /\ pc' = "oracle" /\ runs' = runs + 1
    /\ verdicts' = <<>> /\ toWrite' = {} /\ written' = {} /\ stale' = {} /\ orphans' = {}
    /\ UNCHANGED disk

\* runOracle: the verdict of every statement, see Batch; or an error.
Oracle ==
    /\ pc = "oracle"
    /\ \E v \in [KeptStmts(perFile) -> {Accept, Reject, None}] :
         /\ verdicts' = v
         /\ toWrite' = {f \in DOMAIN perFile : FileCases(perFile[f], v) # <<>>}
    /\ pc' = "write"
    /\ UNCHANGED <<disk, only, limit, perFile, written, stale, orphans, runs>>

NextToWrite == CHOOSE f \in toWrite :
    \E k \in 1..Len(Files) : /\ Files[k] = f
                             /\ \A j \in 1..Len(Files) : Files[j] \in toWrite => k <= j
Writing(cases) ==
    corpus' = [g \in DOMAIN corpus \cup {NextToWrite} |-> IF g = NextToWrite THEN cases ELSE corpus[g]]

WriteFile ==
    /\ pc = "write" /\ toWrite # {}
    /\ Writing(FileCases(perFile[NextToWrite], verdicts))
    /\ toWrite' = toWrite \ {NextToWrite} /\ written' = written \cup {NextToWrite}
    /\ UNCHANGED <<tree, sidecars, readme, pc, only, limit, perFile, verdicts, stale, orphans, runs>>

\* Mutant: a partial run cleans up as well.
AllWrittenAlways ==
    /\ pc = "write" /\ toWrite = {} /\ pc' = "walk" /\ UNCHANGED <<disk, mem, runs>>

AllWritten ==
    /\ pc = "write" /\ toWrite = {}
    /\ pc' = IF Partial THEN "done" ELSE "walk"
    /\ UNCHANGED <<disk, mem, runs>>

\* Mutant: only the sidecars of stale files are looked for.
WalkStaleOnly ==
    /\ pc = "walk"
    /\ stale' = DOMAIN corpus \ written /\ orphans' = {}
    /\ pc' = "stale" /\ UNCHANGED <<disk, only, limit, perFile, verdicts, toWrite, written, runs>>

\* removeStale: the walk finds what this run has not written.
Walk ==
    /\ pc = "walk"
    /\ stale' = DOMAIN corpus \ written /\ orphans' = sidecars \ written
    /\ pc' = "stale"
    /\ UNCHANGED <<disk, only, limit, perFile, verdicts, toWrite, written, runs>>

RemoveFile ==
    /\ pc = "stale" /\ \E f \in stale \cap DOMAIN corpus :
         corpus' = [g \in DOMAIN corpus \ {f} |-> corpus[g]]
    /\ pc' = "staleSidecar"
    /\ UNCHANGED <<tree, sidecars, readme, mem, runs>>

\* The sidecar of the file just removed; there may be none.
RemoveItsSidecar ==
    /\ pc = "staleSidecar"
    /\ \E f \in stale \ DOMAIN corpus : stale' = stale \ {f} /\ sidecars' = sidecars \ {f}
    /\ pc' = "stale"
    /\ UNCHANGED <<tree, corpus, readme, only, limit, perFile, verdicts, toWrite, written, orphans, runs>>

NoMoreStale == /\ pc = "stale" /\ stale = {}
               /\ pc' = "orphans" /\ UNCHANGED <<disk, mem, runs>>

\* The walk has also found the stale files' sidecars, which are gone by now.
RemoveOrphan ==
    /\ pc = "orphans"
    /\ \E f \in orphans : orphans' = orphans \ {f} /\ sidecars' = sidecars \ {f}
    /\ UNCHANGED <<tree, corpus, readme, pc, only, limit, perFile, verdicts, toWrite, written, stale, runs>>

NoMoreOrphans == /\ pc = "orphans" /\ orphans = {}
                 /\ pc' = "readme" /\ UNCHANGED <<disk, mem, runs>>

WriteReadme ==
    /\ pc = "readme"
    /\ readme' = Cardinality({s \in KeptStmts(perFile) : verdicts[s] # None})
    /\ pc' = "done"
    /\ UNCHANGED <<tree, corpus, sidecars, mem, runs>>

\* The oracle's error, a failing system call or the end of the process.
Abort == /\ pc \notin {"idle", "done"}
         /\ pc' = "idle" /\ UNCHANGED <<disk, mem, runs>>

\* os.WriteFile truncates the file first: cut short, it leaves a prefix.
AbortInWrite ==
    /\ pc = "write" /\ toWrite # {}
    /\ LET cases == FileCases(perFile[NextToWrite], verdicts)
       IN  \E k \in 0..(Len(cases) - 1) : Writing(SubSeq(cases, 1, k))
    /\ pc' = "idle" /\ UNCHANGED <<tree, sidecars, readme, mem, runs>>

NextRegenerate == \/ Upstream \/ Triage \/ Start \/ Oracle \/ WriteFile \/ AllWritten \/ Walk
        \/ RemoveFile \/ RemoveItsSidecar \/ NoMoreStale \/ RemoveOrphan \/ NoMoreOrphans
        \/ WriteReadme \/ Abort \/ AbortInWrite
SpecRegenerate == InitRegenerate /\ [][NextRegenerate]_regenerateVars

-----------------------------------------------------------------------------
(* Correctness. *)
FullRunDone == pc = "done" /\ ~Partial
Storable(f) == ToSet(tree[f]) \ Unstorable
Holding(s)  == {f \in DOMAIN corpus : \E k \in 1..Len(corpus[f]) : corpus[f][k].sql = s}

\* The type invariant; what is written is on disk.
CorpusTypeOK ==
    /\ DOMAIN corpus \subseteq FileSet /\ sidecars \subseteq FileSet
    /\ written \subseteq DOMAIN corpus /\ toWrite \subseteq only
    /\ stale \cap written = {} /\ orphans \cap written = {}
    /\ pc \in {"idle", "oracle", "write", "walk", "stale", "staleSidecar", "orphans", "readme", "done"}

\* After a full run, whatever earlier runs were cut short or partial, the
\* corpus holds every statement with a verdict once, in the first of the
\* tests it occurs in, and nothing else.
FullRunConverges ==
    FullRunDone =>
        /\ \A f \in FileSet : \A s \in Storable(f) :
              IF verdicts[s] = None THEN Holding(s) = {}
              ELSE Holding(s) = {Files[CHOOSE k \in 1..Len(Files) :
                       s \in Storable(Files[k]) /\ \A j \in 1..(k - 1) : s \notin Storable(Files[j])]}
        /\ \A f \in DOMAIN corpus : \A k \in 1..Len(corpus[f]) :
              corpus[f][k].sql \in Storable(f) /\ corpus[f][k].verdict = verdicts[corpus[f][k].sql]

\* Nothing an earlier run left shows in what a full run leaves: the corpus is
\* a function of upstream's tests and the oracle's verdicts.
CorpusIsTheRuns ==
    FullRunDone =>
        LET kept == Kept(tree, FileSet, 0)
        IN  corpus = [f \in {g \in FileSet : FileCases(kept[g], verdicts) # <<>>} |-> FileCases(kept[f], verdicts)]

\* The README a full run leaves counts the cases there are.
ReadmeCounts == FullRunDone => readme = CountCases(corpus)

\* A full run leaves no sidecar without its corpus file, those that a run
\* cut short between the two removals has left included.
NoOrphans == FullRunDone => sidecars \subseteq DOMAIN corpus

\* Even when cut short a run removes no file it has cases for: the cleanup
\* comes after the last file is written.
RemovesOnlyStale ==
    pc \notin {"idle", "done"} =>
        \A f \in DOMAIN corpus \ DOMAIN corpus' :
            f \in DOMAIN perFile => FileCases(perFile[f], verdicts') = <<>>

\* A partial run changes neither the files outside of its subset nor any
\* sidecar nor the README.
PartialKeepsRest ==
    pc \notin {"idle", "done"} /\ Partial =>
        /\ sidecars' = sidecars /\ readme' = readme
        /\ DOMAIN corpus \subseteq DOMAIN corpus'
        /\ \A f \in DOMAIN corpus \ only : corpus'[f] = corpus[f]

\* cmd/regenerate: whatever runs before it were cut short or partial, a
\* full run leaves the corpus, the sidecars and the README as they should
\* be of upstream's tests.
CorpusConverges == CorpusTypeOK /\ FullRunConverges /\ CorpusIsTheRuns /\ ReadmeCounts /\ NoOrphans

\* cmd/regenerate: no run, cut short or not, removes a file it has cases
\* for, and a partial one changes nothing outside of its subset.
RegenerateKeeps == [][RemovesOnlyStale /\ PartialKeepsRest]_regenerateVars
=============================================================================
