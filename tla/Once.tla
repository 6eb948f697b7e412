--------------------------------- MODULE Once ---------------------------------
(***************************************************************************)
(* First use of the parser: Default's sync.Once around the compilation of  *)
(* the grammar, grammar.Load's sync.Once inside it, and the keyword        *)
(* table's, called by any number of goroutines at the same time.  A parse  *)
(* calls Default and then, in the scanner, keywords; Load is also called   *)
(* directly.                                                               *)
(*                                                                         *)
(* A goroutine's stack holds the Do calls it is in, each with the point it *)
(* is at.                                                                  *)
(***************************************************************************)
EXTENDS Integers, Sequences

CONSTANTS
    Parsers,  \* goroutines that call parser.Parse
    Loaders   \* goroutines that call grammar.Load

Goroutines == Parsers \cup Loaders

Onces  == {"default", "load", "keyword"}
NoOne  == "no one"
ASSUME OnceAssumption == NoOne \notin Goroutines

Nil    == "nil"

\* "value" for what was built, "error", and nothing before Do has run.
Pair(value, err) == [value |-> value, err |-> err]
Unset   == Pair(Nil, Nil)
Built   == Pair("built", Nil)
Failure == Pair(Nil, "error")
Absent  == Pair("no answer", "no answer")

VARIABLES
    done,     \* Once.done
    holder,   \* who holds Once.m
    result,   \* the package variables each Do sets
    runs,     \* how often each Do's function has run
    stack,
    got       \* what Default (or Load, or the parse) returned to its caller

vars == <<done, holder, result, runs, stack, got>>

Call(o) == [once |-> o, at |-> "fast"]

Top(p)    == stack[p][Len(stack[p])]
At(p, at) == stack[p] # <<>> /\ Top(p).at = at
Which(p)  == Top(p).once

Go(p, at) ==
    stack' = [stack EXCEPT ![p] = [@ EXCEPT ![Len(@)] = [once |-> Which(p), at |-> at]]]

-----------------------------------------------------------------------------
(* sync.Once.Do *)

\* Mutant: only the first caller runs Do, the others do not wait for it.
FastPathSkipsWait(p) ==
    /\ At(p, "fast")
    /\ Go(p, IF done[Which(p)] \/ holder[Which(p)] # NoOne THEN "return" ELSE "lock")
    /\ UNCHANGED <<done, holder, result, runs, got>>

FastPath(p) ==
    /\ At(p, "fast")
    /\ Go(p, IF done[Which(p)] THEN "return" ELSE "lock")
    /\ UNCHANGED <<done, holder, result, runs, got>>

Lock(p) ==
    /\ At(p, "lock") /\ holder[Which(p)] = NoOne
    /\ holder' = [holder EXCEPT ![Which(p)] = p]
    /\ Go(p, "check")
    /\ UNCHANGED <<done, result, runs, got>>

\* Mutant: done is not looked at again under the mutex.
CheckTrusting(p) ==
    /\ At(p, "check")
    /\ Go(p, "body")
    /\ UNCHANGED <<done, holder, result, runs, got>>

Check(p) ==
    /\ At(p, "check")
    /\ Go(p, IF done[Which(p)] THEN "unlock" ELSE "body")
    /\ UNCHANGED <<done, holder, result, runs, got>>

MarkDone(p) ==
    /\ At(p, "store")
    /\ done' = [done EXCEPT ![Which(p)] = TRUE]
    /\ Go(p, "unlock")
    /\ UNCHANGED <<holder, result, runs, got>>

Unlock(p) ==
    /\ At(p, "unlock")
    /\ holder' = [holder EXCEPT ![Which(p)] = NoOne]
    /\ Go(p, "return")
    /\ UNCHANGED <<done, result, runs, got>>

-----------------------------------------------------------------------------
(* What the three Do calls run. *)

Sets(p, o, r) ==
    /\ result' = [result EXCEPT ![o] = r]
    /\ runs' = [runs EXCEPT ![o] = @ + 1]
    /\ Go(p, "store")
    /\ UNCHANGED <<done, holder, got>>

\* Load: assembling or parsing the embedded text fails, or does not.
LoadGrammar(p) ==
    /\ At(p, "body") /\ Which(p) = "load"
    /\ \E r \in {Built, Failure} : Sets(p, "load", r)

\* keywords: a list is missing or inconsistent, or not.
BuildKeywords(p) ==
    /\ At(p, "body") /\ Which(p) = "keyword"
    /\ \E r \in {Built, Failure} : Sets(p, "keyword", r)

\* Default calls Load first ...
CallLoad(p) ==
    /\ At(p, "body") /\ Which(p) = "default"
    /\ stack' = [stack EXCEPT ![p] =
                    [@ EXCEPT ![Len(@)] = [once |-> "default", at |-> "loaded"]] \o <<Call("load")>>]
    /\ UNCHANGED <<done, holder, result, runs, got>>

\* Mutant: Load is tried again until it succeeds.
CompileRetries(p) ==
    /\ At(p, "loaded")
    /\ IF result["load"].err # Nil THEN Go(p, "body") /\ UNCHANGED <<done, holder, result, runs, got>>
       ELSE Sets(p, "default", Built)

\* ... hands on its error, compiles the grammar, and fails if that fails or
\* leaves no TopLevelStatement.
Compile(p) ==
    /\ At(p, "loaded")
    /\ \E r \in (IF result["load"].err # Nil THEN {Failure} ELSE {Built, Failure}) :
          Sets(p, "default", r)

-----------------------------------------------------------------------------
(* Callers. *)

\* Load returns into Default.
ReturnToDefault(p) ==
    /\ At(p, "return") /\ Len(stack[p]) > 1
    /\ stack' = [stack EXCEPT ![p] = SubSeq(@, 1, Len(@) - 1)]
    /\ UNCHANGED <<done, holder, result, runs, got>>

Answer(p, o) ==
    /\ At(p, "return") /\ Len(stack[p]) = 1 /\ Which(p) = o
    /\ got' = [got EXCEPT ![p][o] = result[o]]

\* parseString returns Default's error, and goes on to the scanner otherwise.
DefaultReturns(p) ==
    /\ Answer(p, "default")
    /\ stack' = [stack EXCEPT ![p] = IF result["default"].err # Nil THEN <<>> ELSE <<Call("keyword")>>]
    /\ UNCHANGED <<done, holder, result, runs>>

\* Load's caller has its grammar; keywords panics with keywordErr or hands
\* out the map.
OthersReturn(p) ==
    /\ Answer(p, "load") \/ Answer(p, "keyword")
    /\ stack' = [stack EXCEPT ![p] = <<>>]
    /\ UNCHANGED <<done, holder, result, runs>>

-----------------------------------------------------------------------------
Init ==
    /\ done = [o \in Onces |-> FALSE]
    /\ holder = [o \in Onces |-> NoOne]
    /\ result = [o \in Onces |-> Unset]
    /\ runs = [o \in Onces |-> 0]
    /\ stack = [p \in Goroutines |-> <<Call(IF p \in Parsers THEN "default" ELSE "load")>>]
    /\ got = [p \in Goroutines |-> [o \in Onces |-> Absent]]

Run(p) ==
    \/ FastPath(p) \/ Lock(p) \/ Check(p) \/ MarkDone(p) \/ Unlock(p)
    \/ LoadGrammar(p) \/ BuildKeywords(p) \/ CallLoad(p) \/ Compile(p)
    \/ ReturnToDefault(p) \/ DefaultReturns(p) \/ OthersReturn(p)

Quiet == \A p \in Goroutines : stack[p] = <<>>

Next == (\E p \in Goroutines : Run(p)) \/ (Quiet /\ UNCHANGED vars)

Spec == Init /\ [][Next]_vars

\* Go runs every goroutine that can run.
FairSpec == Spec /\ \A p \in Goroutines : WF_vars(Run(p))

-----------------------------------------------------------------------------
(* What the callers of Default, Load and keywords may rely on.             *)
Points == {"fast", "lock", "check", "body", "loaded", "store", "unlock", "return"}
Answers == {Built, Failure}

\* The type invariant: a mutex is held by a goroutine exactly while that
\* goroutine is between Lock and Unlock of the same Once.
TypeOK ==
    /\ done \in [Onces -> BOOLEAN]
    /\ holder \in [Onces -> Goroutines \cup {NoOne}]
    /\ result \in [Onces -> {Unset} \cup Answers]
    /\ runs \in [Onces -> Nat]
    /\ stack \in [Goroutines -> Seq([once : Onces, at : Points])]
    /\ got \in [Goroutines -> [Onces -> {Absent, Unset} \cup Answers]]

\* Goroutine p is inside the mutex of o.
Inside(p, o) ==
    \E k \in 1..Len(stack[p]) :
        stack[p][k].once = o /\ stack[p][k].at \in {"check", "body", "loaded", "store", "unlock"}

\* The mutex of a Once is held exactly by the goroutine inside it, and Load's
\* is only ever waited for by the goroutine that holds Default's: the two
\* nest in one order.
HolderIsInside ==
    \A o \in Onces, p \in Goroutines : holder[o] = p <=> Inside(p, o)

\* The grammar is loaded, compiled and the keyword table built at most once
\* per process, however many goroutines parse first.
BuiltOnce == \A o \in Onces : runs[o] <= 1

\* No goroutine sees what Do builds before it is built: nobody ever gets a
\* nil engine (grammar, keyword map) with a nil error, nor both.
NothingUnset ==
    \A p \in Goroutines, o \in Onces : got[p][o] \in {Absent, Failure, Built}

\* Default, Load and keywords: whatever is asked for is built once, by the
\* goroutine that holds its mutex, and nobody sees it before it is.
Initialised == TypeOK /\ HolderIsInside /\ BuiltOnce /\ NothingUnset

\* "returns the shared immutable engine" (engine.go): all callers of Default
\* get one answer, decided once, the grammar's error included.
DefaultSpec ==
    INSTANCE SharedEngine WITH
        Callers <- Parsers, Answers <- Answers, None <- Unset,
        value  <- result["default"],
        answer <- [p \in Parsers |-> IF got[p]["default"] = Absent THEN Unset ELSE got[p]["default"]]

OneAnswerForAll == DefaultSpec!Spec

\* No goroutine waits for ever, for a mutex or for an answer, though Default
\* calls Load while it holds its own mutex; and every parse has been answered.
AllReturn == <>Quiet /\ DefaultSpec!AllAnswered
=============================================================================
