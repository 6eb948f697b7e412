-------------------------- MODULE TransformContext --------------------------
(***************************************************************************)
(* transformContext, the state that the transform functions of package     *)
(* parser share while one statement's parse tree is walked: prepared       *)
(* parameter numbering, named-window scopes, the inWindowDefinition flag   *)
(* and the PIVOT bookkeeping.                                              *)
(*                                                                         *)
(* The parse tree is left open: frames is the stack of the constructs the  *)
(* walk is inside, and the steps enter and leave them in every order that  *)
(* the grammar allows.  A raise is a panic that ends the walk.             *)
(***************************************************************************)
EXTENDS Integers, Sequences, FiniteSets, TLC

CONSTANTS
    Names,       \* names of $name parameters
    MaxNumber,   \* the largest N of a ?N or $N parameter
    MaxInt,      \* the largest value of a Go int
    WindowNames, \* names of the WINDOW clause
    MaxFrames,   \* bound on the nesting of constructs
    MaxEvents    \* bound on the parameters and pivot columns of a statement

ASSUME BoundAssumption ==
    /\ MaxNumber \in Nat /\ MaxFrames \in Nat /\ MaxEvents \in Nat
    /\ MaxInt \in Nat \ {0} /\ MaxNumber <= MaxInt

VARIABLES
    paramCount, paramSeen, paramOrder, hasNamed, hasPosition,
    windows,             \* stack of the names defined per SELECT
    inWindowDefinition,
    pivotEntries, pivotEntryHasParams,
    frames,              \* constructs being transformed, innermost last
    log,                 \* parameters, pivot columns and ClearParameters, in order
    status,              \* "running", "raised" or "done"
    namedParams          \* what finishStatement attached to the statement

paramVars  == <<paramCount, paramSeen, paramOrder, hasNamed, hasPosition>>
windowVars == <<windows, inWindowDefinition>>
pivotVars  == <<pivotEntries, pivotEntryHasParams>>
vars == <<paramVars, windowVars, pivotVars, frames, log, status, namedParams>>

Running == status = "running"
Inside  == frames # <<>>
Top     == frames[Len(frames)].what
Pop(s)  == SubSeq(s, 1, Len(s) - 1)
Construct(what, name) == [what |-> what, name |-> name]

Enter(what, name) == frames' = Append(frames, Construct(what, name))
Room   == Running /\ Len(frames) < MaxFrames
Become(what) == frames' = Append(Pop(frames), Construct(what, ""))
Leave  == frames' = Pop(frames)
Keep   == UNCHANGED <<status, namedParams>>

Raise ==
    /\ status' = "raised"
    /\ UNCHANGED <<paramVars, windowVars, pivotVars, frames, log, namedParams>>

\* The statements: "query" stands for those without bookkeeping of their own
\* (SELECT, INSERT, SET, ...), "create" for the CREATEs that call
\* pivotEntryCheck; PREPARE and EXPLAIN hold a statement.
Explains   == {"explain", "explainSql"}
Holders    == {"prepare"} \cup Explains
Statements == {"query", "create"} \cup Holders

\* The statement a holder's walk has met, "" before; the name of a window.
NameOf(k) == frames[k].name
TopName   == NameOf(Len(frames))

\* Places an expression or a query is transformed at.
InExpression ==
    /\ Inside
    /\ \/ Top \in {"query", "create", "select", "definition", "over", "pivotSource", "pivotUsing"}
       \/ Top \in Explains /\ TopName = ""

-----------------------------------------------------------------------------
(* registerParam *)

\* A Go int wraps around.
Increment(x) == IF x = MaxInt THEN -MaxInt - 1 ELSE x + 1

Event(event, id, number) == [event |-> event, id |-> id, number |-> number]

Identifier(kind, name, number) == IF kind = "named" THEN name ELSE ToString(number)

\* The parameter's Number, from the one written (0 if none is).
NumberOf(kind, name, written) ==
    IF kind = "numbered" THEN written
    ELSE IF kind = "named" /\ name \in DOMAIN paramSeen THEN paramSeen[name]
    ELSE Increment(paramCount)

CountAfter(kind, name, number) ==
    IF kind = "named" /\ name \in DOMAIN paramSeen THEN paramCount
    ELSE IF kind = "numbered" /\ number <= paramCount THEN paramCount
    ELSE number

RegisterParam(kind, name, written) ==
    /\ Running /\ InExpression /\ Len(log) < MaxEvents
    /\ LET number == NumberOf(kind, name, written)
           id     == Identifier(kind, name, number)
       IN  /\ paramCount' = CountAfter(kind, name, number)
           /\ IF id \in DOMAIN paramSeen THEN UNCHANGED <<paramSeen, paramOrder>>
              ELSE /\ paramSeen' = [other \in DOMAIN paramSeen \cup {id} |->
                                        IF other = id THEN number ELSE paramSeen[other]]
                     /\ paramOrder' = Append(paramOrder, id)
           /\ log' = Append(log, Event(kind, id, number))
    /\ hasNamed' = (hasNamed \/ kind = "named")
    /\ hasPosition' = (hasPosition \/ kind # "named")
    /\ UNCHANGED <<windowVars, pivotVars, frames>> /\ Keep

Anonymous   == RegisterParam("anonymous", "", 0)
Numbered    == \E k \in 1..MaxNumber : RegisterParam("numbered", "", k)
NamedParam  == \E name \in Names : RegisterParam("named", name, 0)

(* atoiOrRaise: a parameter number of zero. *)
ZeroParam == Running /\ InExpression /\ Raise

-----------------------------------------------------------------------------
(* transformSimpleSelect: the WINDOW clause comes before everything else.  *)
EnterSelect ==
    /\ Room /\ InExpression
    /\ windows' = Append(windows, {})
    /\ Enter("windowClause", "")
    /\ UNCHANGED <<paramVars, inWindowDefinition, pivotVars, log>> /\ Keep

EnterDefinition(name) ==
    /\ Room /\ Inside /\ Top = "windowClause"
    /\ inWindowDefinition' = TRUE
    /\ Enter("definition", name)
    /\ UNCHANGED <<paramVars, windows, pivotVars, log>> /\ Keep

\* The innermost scope; outside any SELECT there are no named windows.
Scope == IF windows = <<>> THEN {} ELSE windows[Len(windows)]

LeaveDefinition ==
    /\ Running /\ Inside /\ Top = "definition"
    /\ LET name == frames[Len(frames)].name IN
          /\ name \notin Scope
          /\ windows' = Append(Pop(windows), Scope \cup {name})
    /\ inWindowDefinition' = FALSE
    /\ Leave
    /\ UNCHANGED <<paramVars, pivotVars, log>> /\ Keep

(* defineWindow raises for a name its scope already has. *)
DuplicateWindow ==
    /\ Running /\ Inside /\ Top = "definition"
    /\ frames[Len(frames)].name \in Scope
    /\ Raise

SelectBody ==
    /\ Running /\ Inside /\ Top = "windowClause"
    /\ Become("select")
    /\ UNCHANGED <<paramVars, windowVars, pivotVars, log>> /\ Keep

\* Mutant: the scope of the SELECT stays on the stack.
LeaveSelectKeepsScope ==
    /\ Running /\ Inside /\ Top = "select"
    /\ Leave
    /\ UNCHANGED <<paramVars, windowVars, pivotVars, log>> /\ Keep

LeaveSelect ==
    /\ Running /\ Inside /\ Top = "select"
    /\ windows' = Pop(windows)
    /\ Leave
    /\ UNCHANGED <<paramVars, inWindowDefinition, pivotVars, log>> /\ Keep

-----------------------------------------------------------------------------
(* transformOver: a window function call with its own frame definition. *)
EnterOver ==
    /\ Room /\ InExpression /\ ~inWindowDefinition
    /\ inWindowDefinition' = TRUE
    /\ Enter("over", "")
    /\ UNCHANGED <<paramVars, windows, pivotVars, log>> /\ Keep

OverInDefinition == Running /\ InExpression /\ inWindowDefinition /\ Raise

LeaveOver ==
    /\ Running /\ Inside /\ Top = "over"
    /\ inWindowDefinition' = FALSE
    /\ Leave
    /\ UNCHANGED <<paramVars, windows, pivotVars, log>> /\ Keep

(* applyNamedWindow: the name of an OVER or of a base window is looked up  *)
(* in the innermost scope only.                                            *)
MissingWindow ==
    /\ Running /\ InExpression
    /\ \E name \in WindowNames : name \notin Scope
    /\ Raise

-----------------------------------------------------------------------------
(* transformPivotStatement: the source and the ON expressions are walked   *)
(* first, then the columns are counted, then USING is walked.              *)
EnterPivot ==
    /\ Room /\ InExpression
    /\ Enter("pivotSource", "")
    /\ UNCHANGED <<paramVars, windowVars, pivotVars, log>> /\ Keep

PivotColumns ==
    /\ Running /\ Inside /\ Top = "pivotSource"
    /\ Become("pivotColumns")
    /\ UNCHANGED <<paramVars, windowVars, pivotVars, log>> /\ Keep

(* No ON, USING or GROUP BY; a constant or a subquery to pivot on. *)
PivotRefused == Running /\ Inside /\ Top = "pivotSource" /\ Raise

(* A pivot column without an IN list or an enum. *)
PivotFromData ==
    /\ Running /\ Inside /\ Top = "pivotColumns" /\ Len(log) < MaxEvents
    /\ pivotEntries' = pivotEntries + 1
    /\ pivotEntryHasParams' =
          (pivotEntryHasParams \/ paramCount > 0 \/ hasNamed \/ hasPosition)
    /\ log' = Append(log, Event("pivot", "", 0))
    /\ UNCHANGED <<paramVars, windowVars, frames>> /\ Keep

PivotUsing ==
    /\ Running /\ Inside /\ Top = "pivotColumns"
    /\ Become("pivotUsing")
    /\ UNCHANGED <<paramVars, windowVars, pivotVars, log>> /\ Keep

LeavePivot ==
    /\ Running /\ Inside /\ Top = "pivotUsing"
    /\ Leave
    /\ UNCHANGED <<paramVars, windowVars, pivotVars, log>> /\ Keep

-----------------------------------------------------------------------------
(* The statements: transformPrepare and transformExplain walk the one they *)
(* hold, whichever the grammar allows there.                               *)
EnterStatement(what) ==
    /\ Room /\ Inside /\ Top \in Holders /\ TopName = ""
    /\ Top \in Explains => what \notin Explains
    /\ what \in Holders => Len(frames) + 1 < MaxFrames
    /\ frames' = Append([frames EXCEPT ![Len(frames)].name = what], Construct(what, ""))
    /\ UNCHANGED <<paramVars, windowVars, pivotVars, log>> /\ Keep

LeaveQuery ==
    /\ Running /\ Inside /\ Top = "query"
    /\ Leave
    /\ UNCHANGED <<paramVars, windowVars, pivotVars, log>> /\ Keep

(* CREATE VIEW, CREATE MACRO: pivotEntryCheck *)
LeaveCreate ==
    /\ Running /\ Inside /\ Top = "create"
    /\ IF pivotEntries > 0 THEN Raise
       ELSE Leave /\ UNCHANGED <<paramVars, windowVars, pivotVars, log>> /\ Keep

(* EXPLAIN (SQL) makes the check too. *)
LeaveExplain ==
    /\ Running /\ Inside /\ Top \in Explains /\ TopName # ""
    /\ IF Top = "explainSql" /\ pivotEntries > 0 THEN Raise
       ELSE Leave /\ UNCHANGED <<paramVars, windowVars, pivotVars, log>> /\ Keep

ClearParameters ==
    /\ paramCount' = 0 /\ paramSeen' = <<>> /\ paramOrder' = <<>>
    /\ hasNamed' = FALSE /\ hasPosition' = FALSE
    /\ log' = Append(log, Event("clear", "", 0))

(* The parameters of a prepared statement belong to EXECUTE. *)
LeavePrepare ==
    /\ Running /\ Inside /\ Top = "prepare" /\ TopName = "query"
    /\ ClearParameters
    /\ Leave
    /\ UNCHANGED <<windowVars, pivotVars>> /\ Keep

(* preparableStatement: only some of the "query" statements are. *)
NotPreparable == Running /\ Inside /\ Top = "prepare" /\ TopName # "" /\ Raise

\* Mutant: the index is the place in the list instead of the number.
FinishStatementByPlace ==
    /\ Running /\ frames = <<>>
    /\ IF pivotEntries > 0 /\ pivotEntryHasParams THEN Raise
       ELSE /\ namedParams' = [k \in 1..Len(paramOrder) |-> [name |-> paramOrder[k], index |-> k]]
            /\ status' = "done"
            /\ UNCHANGED <<paramVars, windowVars, pivotVars, frames, log>>

(* Back in parseString: the parameter check, then finishStatement. *)
FinishStatement ==
    /\ Running /\ frames = <<>>
    /\ IF pivotEntries > 0 /\ pivotEntryHasParams THEN Raise
       ELSE /\ namedParams' = [k \in 1..Len(paramOrder) |->
                                  [name |-> paramOrder[k], index |-> paramSeen[paramOrder[k]]]]
            /\ status' = "done"
            /\ UNCHANGED <<paramVars, windowVars, pivotVars, frames, log>>

-----------------------------------------------------------------------------
(* newTransformContext, with the statement about to be transformed *)
Init ==
    /\ paramCount = 0 /\ paramSeen = <<>> /\ paramOrder = <<>>
    /\ hasNamed = FALSE /\ hasPosition = FALSE
    /\ windows = <<>> /\ inWindowDefinition = FALSE
    /\ pivotEntries = 0 /\ pivotEntryHasParams = FALSE
    /\ \E what \in Statements : frames = <<Construct(what, "")>>
    /\ log = <<>>
    /\ status = "running"
    /\ namedParams = <<>>

Next ==
    \/ Anonymous \/ Numbered \/ NamedParam \/ ZeroParam
    \/ EnterSelect \/ SelectBody \/ LeaveSelect
    \/ \E name \in WindowNames : EnterDefinition(name)
    \/ LeaveDefinition \/ DuplicateWindow
    \/ EnterOver \/ OverInDefinition \/ LeaveOver \/ MissingWindow
    \/ EnterPivot \/ PivotColumns \/ PivotRefused \/ PivotFromData \/ PivotUsing \/ LeavePivot
    \/ \E what \in Statements : EnterStatement(what)
    \/ LeaveQuery \/ LeaveCreate \/ LeaveExplain \/ LeavePrepare \/ NotPreparable
    \/ FinishStatement
    \/ (~Running /\ UNCHANGED vars)

Spec == Init /\ [][Next]_vars

-----------------------------------------------------------------------------
(* The properties of transformContext.                                     *)
Places(what) == {k \in 1..Len(frames) : frames[k].what \in what}
Selects      == Places({"windowClause", "select"})
Definitions  == Places({"definition", "over"})

\* The type invariant; the numbering functions stay in step.
TypeOK ==
    /\ paramCount \in Int
    /\ DOMAIN paramSeen = {paramOrder[k] : k \in 1..Len(paramOrder)}
    /\ \A k \in 1..Len(windows) : windows[k] \subseteq WindowNames
    /\ inWindowDefinition \in BOOLEAN
    /\ pivotEntries \in 0..MaxEvents
    /\ Len(frames) <= MaxFrames /\ Len(log) <= MaxEvents + 1
    /\ status \in {"running", "raised", "done"}

\* Whether a PREPARE has ended.
Cleared == \E k \in 1..Len(log) : log[k].event = "clear"

IsParam(k)      == log[k].event \notin {"pivot", "clear"}
Occurrence(id)  == {k \in 1..Len(log) : IsParam(k) /\ log[k].id = id}
FirstUse(k)     == IsParam(k) /\ \A j \in Occurrence(log[k].id) : k <= j
FirstUses       == {k \in 1..Len(log) : FirstUse(k)}

\* The list has the parameters that were used, each once and in the order of
\* first use, with the number it got there: at[i] is where the i-th of the
\* list was first used.
InOrderOfUse(list) ==
    \E at \in [1..Len(list) -> FirstUses] :
        /\ \A i, j \in 1..Len(list) : i < j => at[i] < at[j]
        /\ \A k \in FirstUses : \E i \in 1..Len(list) : at[i] = k
        /\ \A i \in 1..Len(list) :
              log[at[i]].id = list[i].name /\ log[at[i]].number = list[i].index

\* `?` takes a number nothing before it has, however explicit numbers, named
\* parameters and earlier ? are mixed: the high-water mark covers them all.
AnonymousIsFresh ==
    \A k \in 1..Len(log) :
        log[k].event = "anonymous" =>
            \A j \in 1..(k - 1) : IsParam(j) => log[j].number < log[k].number

\* A $name has the number of its first use wherever it occurs, in whichever
\* subquery, window definition or pivot.
NamedNumberedByFirstUse ==
    \A j, k \in 1..Len(log) :
        log[j].event = "named" /\ log[k].event = "named" /\ log[j].id = log[k].id =>
            log[j].number = log[k].number

\* What finishStatement attaches lists every parameter identifier of the
\* statement once, in the order of first use and with the number it got
\* there; a PREPARE attaches none.
NamedParamsComplete ==
    status = "done" => IF Cleared THEN namedParams = <<>> ELSE InOrderOfUse(namedParams)

\* One window scope per SELECT being transformed: a definition lands in, and
\* a name is looked up in, the scope of the innermost enclosing SELECT.
ScopePerSelect == Running => Len(windows) = Cardinality(Selects)

\* inWindowDefinition never outlives the definitions being transformed, so
\* no window function outside one is refused.
FlagOnlyInDefinition == Running /\ inWindowDefinition => Definitions # {}

\* "data-extracted pivot values cannot mix with prepared parameters"
\* (parser.go): no statement passes in which a parameter comes before a
\* pivot column whose values are extracted from the data, also when PREPARE
\* has forgotten its parameters since.
PivotNeverAfterParam ==
    status = "done" =>
        \A k \in 1..Len(log) :
            log[k].event = "pivot" => \A j \in 1..(k - 1) : ~IsParam(j)

\* registerParam: parameters are numbered as they were used, and a statement
\* gets them all, or none if it prepares another; none comes with a pivot
\* over data.
ParametersNumbered ==
    TypeOK /\ AnonymousIsFresh /\ NamedNumberedByFirstUse /\ NamedParamsComplete /\ PivotNeverAfterParam

\* Windows: a scope for each SELECT being transformed, and the flag that
\* refuses window functions only inside of a definition.
WindowsScoped == ScopePerSelect /\ FlagOnlyInDefinition
=============================================================================
