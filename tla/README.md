# A TLA+ model of darkwing

darkwing is a Go port of DuckDB's PEG-based SQL parser. This directory holds
TLA+ modules for the parts of it that keep state or decide something, the TLC
configurations that check them on small instances, and TLAPS proofs of what
matters most. Paths below are relative to the repository root; line numbers of
every definition are in `PROJECT.json` under `map`.

## 1. The system

`PLAN.md` names four components: tokenizer, grammar loader, matcher and
transformer. One call of `parser.Parse` runs on one goroutine:

    text --UTF-8 check--> --lexer.Tokenize--> tokens --Engine.MatchTopLevel-->
    parse tree --depth check, transform*--> ast statement, one after the other

The `Engine` (grammar loaded and compiled to a tree of matchers) is built once
per process behind nested `sync.Once`s and is shared by all calls.

| component | source | state | operations | interacts with |
|---|---|---|---|---|
| UTF-8 check | `parser/utf8.go` | index | analyzeUTF8 | parser.go, errorAt |
| lexer | `lexer/lexer.go` | state of the scanning loop, start of the token, escape mode, delimiter, dollar tag, comment depth, last block comment, tokens | one case per byte and state; push, pushRange, pushOperator; end of input | keyword table; its flags and spans are read by the matcher and by Parse |
| tokens, keyword table | `token/` | keyword categories behind a `sync.Once` | IsKeyword, categories | lexer, leaf matchers |
| grammar loader | `internal/grammar/` | the rule being read, rules by name; behind a `sync.Once` | parseRules, expression parser, Load | factory |
| matcher factory | `internal/matcher/factory.go` | rule cache, keyword cache, ids | compile rules, macros, overrides, memoization | engine |
| matcher engine | `internal/matcher/{matcher,packrat,engine}.go` | position, furthest index, packrat cache, the Go call stack | match, list/choice/optional/repeat, packrat lookup and store, runMatch, MatchAll, MatchTopLevel | lexer's tokens; transformer reads its results |
| leaf matchers | `internal/matcher/special.go`, `matcher.go` | none | keyword, end of input, identifier, number, string, operator | tokens |
| parse results | `internal/matcher/result.go` | a result's extent while it grows | encloseChild, dumps | transformer |
| public API | `parser/parser.go` | position, end of the previous statement, statements | Parse, ParseStatement, ParseExpr, error positions | everything above; the caller's context |
| transform context | `parser/transform.go` and its users | parameter numbering, window scopes, window flag, pivot bookkeeping | registerParam, defineWindow, pivotEntryCheck, clearParameters, finishStatement | every transform function |
| depth limit | `parser/transform_depth.go` | none | maxDepthWeight, stackCheck | transform |
| transformers of expressions, queries, DDL | `parser/transform_*.go`, `tree.go` | what a clause has collected so far | parse tree to ast | context |
| ast, serializer, comparison | `ast/`, `internal/serialize/` | none | data types, JSON, Equal, FirstDiff | tools and tests |
| corpus files, extraction | `internal/testfile/`, `internal/sqltest/` | files | Read, Write, Extract | regenerate |
| oracle | `internal/duckdbsrc/` | a child process per query | run, classify, time out | regenerate, difftest |
| regenerate, difftest | `cmd/` | worker pools, counters, corpus directory | feed, collect, write, remove stale | oracle, parser |
| debug commands | `cmd/` | none | print | parser |

What is hard here. The matcher's answers must not depend on the cache, on
backtracking or on a panic half way; the scanner's index moves backwards and its
flags depend on where the last token is believed to end; Parse cuts the text
with those offsets while its caller may cancel; the transform context is one
mutable record that a recursive walk enters and leaves in every order. The
transformers rewrite: negations and quantifiers change places, UNIONs that look
alike are joined in place, windows take over parts of others, and each rewriting
has a check somewhere that must refuse just what has no meaning. Outside the
parser, nested initialisation, the two worker pools, the removal of stale corpus
files and the oracle's timeout are the concurrent and failing parts.
`PROJECT.json` lists each hazard at its line with the properties that watch over
it.

What makes each part correct: the engine computes the PEG of its grammar and
reports the furthest token, whatever is memoized; the scanner loses no byte,
ends each literal where it ends and comes back; Parse's spans tile the text, and
a nil error means everything was parsed; parameters are numbered by first use
and window scopes follow the nesting of SELECTs; a transformed expression or
query means what was written; everybody who asks for the engine gets the same
one; what a tool wrote, counted or concluded is so under every interleaving and
after every crash.

## 2. Modules

Most modules are of one of two kinds: a component (its state, one action per
operation or loop turn, and its correctness at the end), or an `MC` module that
gives it a bounded instance. A component's properties stand at the end of its
module; the proofs about it are in a `...Proofs` module that extends it.

| modules | what they model |
|---|---|
| `Matcher`, `Leaves`, `MatcherProofs`, `MCMatcher` | the engine, its leaves, the PEG equations, the proofs, a slice of the DuckDB grammar |
| `Lexer`, `LexerProofs`, `MCLexer` | the scanner |
| `ParseLoop`, `ParseLoopProofs`, `MCParseLoop` | Parse and ParseStatement |
| `TransformContext`, `TransformContextProofs` | the transform context |
| `Once`, `SharedEngine`, `OnceProofs` | first use: the detailed Onces, what Default promises, and the refinement |
| `GrammarLoader`, `Factory`, `MCGrammar` | from the grammar's text to the tree of matchers |
| `AstNodes`, `TransformExpr`, `ExprMeaning` | the precedence ladder and the special forms, and what expressions mean |
| `NumberLiteral`, `FunctionCall`, `Indirection`, `WindowFrames`, `ArraySubquery`, `Depth` | the other parts of the expression transformers |
| `MCExpressions` | the run of the previous two rows |
| `SetOperations`, `GroupBy`, `SequenceOptions`, `Utf8`, `Locations`, `MCQueries` | transformers of queries, the text's check, the results' extents |
| `TransformerProofs` | the proofs about `SequenceOptions` and `WindowFrames` |
| `CorpusFile`, `SqlTest`, `TreeCompare`, `Oracle`, `Regenerate`, `Difftest`, `MCTools` | the tools |
| `ToolsProofs` | the proofs about `Oracle`, `Difftest` and `Regenerate` |
| `OraclePool`, `Batch`, `OraclePoolProofs` | regenerate's worker pool, what it promises, and the refinement |

`MCGrammar`, `MCExpressions`, `MCQueries` and `MCTools` each hold several
components that do not interact in the code. A behaviour of such a module is a
behaviour of one of them: `task` says which, its variables are the shared cells
`c1`, `c2`, ..., and the component is an INSTANCE over them. A property of the
module is `task = "x" =>` the conjunction of x's properties. The components about
which there are proofs are extended instead (`Difftest`, `Oracle` and `Regenerate`
by `MCTools`, `SequenceOptions` by `MCQueries`, `WindowFrames` by `MCExpressions`):
their variables are their own and stay at their initial values while another
component runs.

A definition introduced by "Mutant:" is a faulty variant of the definition that
follows it. No specification uses it; `PROJECT.json` names, for each property,
a variant that the property refutes.

### Matcher

The Go recursion is a stack of frames, one per composite `matchInternal` in
progress; `ctl` says whether `match()` is about to be called or has answered.
`LeafAccept/Refuse/Panic`, `EnterComposite`, `List*`, `Choice*`, `Optional*` and
`Repeat*` are the iterations of the four composite loops, and each step that
ends a `matchInternal` performs packrat's store with it. `PackratHit` is the
lookup. `BeginStatement`, `StatementMatched`, `NoProgress`, `StatementFailed`
and `Consumed` are `MatchAll` around `runMatch`. A parse result is the list of
decisions taken in preorder, which determines the tree; names, texts and
locations of results are left out. Positions are the code's, so the furthest
index may be `len(tokens)` when the operator matcher consumed the sentinel.

The properties of `Matcher` say what an answer should be without a cache or a stack:
`Sem(t, m, p)` is any function that satisfies the PEG equations `PegAssumption`.
TLC checks the assumption for the recursive-descent evaluator of `MCMatcher`; the
proofs use nothing else about it.

### Lexer

One step is one iteration of `run()`, that is one case of its switch on the
state. A byte is a member of a set (the character, or its code above 7F). A
token carries both the Span the code records (`start`, `end`) and where its Text
was taken from (`from`, `to`), because the two differ after a bare dollar
(`lexer.go:455`). Error messages are left out; where an error points to is kept.
The properties describe comments, literals and trivia as stretches of the text,
independently of how the scanner looks for their ends.

### ParseLoop

`Refuse` and `Tokenize` stand for what precedes the loop, `ContextDone` for the
check at its head, `MatchTopLevel`/`MatchFails` for the engine's verdict, which
is left open, `EmptyStatement`, `TransformStatement` and `TransformRaises` for
the three things that can follow, `Finish` for the stretch of the last span.
`Cancel` is the caller and may happen between any two steps. A panic in the
transformer is recovered by parseString's deferred function: the named result
keeps the statements so far, and the caller gets them with the error; every
other error comes with nil. The "no progress" and nil-statement branches are not
modelled: no input reaches them.

### TransformContext

The walk over the parse tree is left open: `frames` is the stack of constructs
the walk is in, and every order of entering and leaving the grammar permits is a
behaviour. A raise is a panic that ends the walk. `RegisterParam` is
registerParam with a Go int that wraps; `EnterSelect`, `EnterDefinition`,
`LeaveDefinition`, `DuplicateWindow`, `EnterOver`, `MissingWindow` and
`LeaveSelect` are the window scopes and the flag; `EnterPivot`, `PivotColumns`,
`PivotRefused`, `PivotFromData`, `PivotUsing` and `LeavePivot` the stages of a
PIVOT; `EnterStatement` and the `Leave*` of statements the nesting of EXPLAIN,
PREPARE and CREATE with pivotEntryCheck and clearParameters; `FinishStatement`
attaches the parameter map. `log` records, for the properties only, what
happened in which order.

### Once, SharedEngine

`engine.go`'s Default, `grammar.Load` and the keyword table each sit behind a
`sync.Once`, and Default calls Load inside its own. A goroutine's `stack` holds
the Do calls it is in, each at a point of `sync.Once`: the fast path on `done`,
the mutex, the second look, the function, the store of `done`, the unlock.
`sync.Once` is external and modelled from its contract; the functions it runs
(`LoadGrammar`, `CallLoad`, `Compile`, `BuildKeywords`) are the code's, and each
can fail where the code's can. `SharedEngine` says what callers are promised:
one answer, decided once, which everybody gets.

### GrammarLoader, Factory

`GrammarLoader` is `parseRules`, one turn of its loop per action over the
characters of the text, the expression parser as operators on a rule's tokens,
`Expression.String` (`Write`), and the assembly of the text from grammar files and
keyword lists (`AssembledText`). `Factory` is `matcher.New`: createMatcher and
createExpression call each other, here on an explicit `stack`, so that a rule that
is looked up while it is being compiled is met half-built. Rule and keyword
caches, macro parameters, overrides, memoized rules and every error are kept; a
matcher is its place in `nodes`.

### AstNodes, TransformExpr, ExprMeaning

`TransformExpr` has one operator per rule of the precedence ladder; each folds
operands that are already transformed, as the code's loops do, or raises.
`AstNodes` are the nodes, the small builders and the desugared special forms.
`ExprMeaning` gives parse trees a meaning of their own (`Means`, in three-valued
logic, from what SQL says of each construct) and AST nodes another (`Eval`); the
properties compare the two in every environment, and say which trees are
refused and in what form results come.

### The other expression transformers

`NumberLiteral` is `numberValue` with the 128-bit accumulation of `parseHugeint`
in two words of W bits, one digit per step, and the rendering back.
`FunctionCall` is `transformFunction` and the method call of `transformDot` as
operators: the checks of the modifiers in the code's order, the rewritten names,
casts; `ModifiersKept` says which modifiers each kind of node may lose: a
function or a window none, a cast the ones checked after it, a rewritten plain
call all but OVER, a rewritten method none. `Indirection` is `transformBase`, one item of the chain per step, with the
names that may still become a qualified column. `WindowFrames` builds a WINDOW
clause definition by definition and then an OVER. `ArraySubquery` treats one
ORDER BY key per step, over lists of expressions with their aliases, so that what
a reference to an appended copy stands for can be looked up. `Depth` runs the pass over the statement and then the
checks of the folds.

### SetOperations, GroupBy, SequenceOptions, Utf8, Locations

`SetOperations` transforms a WITH clause entry by entry, then a chain of set
operations tail by tail, then the modifiers; `buildSetOp` joins a UNION with
its left side in place, and a recursive CTE takes the result apart. `GroupBy` treats one entry per
step, peekBareStar's first look included, and multiplies the grouping sets.
`SequenceOptions` takes options in any order, evaluates them and checks ranges.
`Utf8` looks at one sequence per step and reports line and column as `errorAt`.
`Locations` makes results in the order matching makes them and grows their
extents with `encloseChild`.

### The tools

`CorpusFile` is CanStore, Write and Read, one line per step. `SqlTest` is
`Extract` over the lines of records. `TreeCompare` is the Script that marshals the
statement, then Equal and FirstDiff with their sorting and the float64s that
`json.Unmarshal` makes. `Oracle` is `Run` over an external command line that
parses and executes a batch and may fail, hang or die in either phase; `Deadline`
kills it, `Return` reads the verdict in the code's order. `Regenerate` is the
whole command over a disk: extraction, the oracle, one write per file, removal of
stale files and orphaned sidecars, README; `Abort` and `AbortInWrite` end it
between or within any two of these, `Upstream` changes the tests and `Triage`
puts a hand-written sidecar beside a file. `Difftest` is the generator, its
bounded channel, the workers with their atomic and mutex-guarded counters, and
the exit status. `OraclePool` is `runOracle`: the feeder, which also
closes the results once the workers are done, the workers and the collector,
over unbuffered channels; `Batch` is what it promises.

## 3. Runs

| run | instance | shows |
|---|---|---|
| `matcher` | every stream of at most 2 tokens, SELECT and 2 more, 6 longer ones | each answer of `match()`, the cache, the furthest index, the results and the error of MatchAll are the PEG's; max and cache only grow within a statement |
| `matcher_nullable` | the same streams, a top-level rule that may be empty | MatchAll returns, with its no-progress error if need be |
| `lexer` | every text of at most 3 bytes over 20 bytes (`MaxMixed`), of at most 5 over each of 5 small alphabets (`MaxFocused`), and five pieces of comments and literals in a row | nothing lost or read twice, spans, flags, ends of literals and numbers, termination |
| `parse_loop` | every text of at most 5 pieces (word, semicolon, blank, dollar-bracket; `MaxPieces`) | spans tile the text, a nil error means all of it, ParseStatement's verdict, termination |
| `transform_context` | `MaxFrames` 5, `MaxEvents` 3, names `a` and `2`, `MaxNumber` 2, one window name | numbering, the parameter list, PIVOT against parameters, one scope per SELECT, the flag never outlives a definition |
| `once` | 3 goroutines that parse, 1 that loads | built once, seen only when built, one answer for all, nobody waits for ever |
| `grammar` | grammars in several layouts, assembled texts, every text of at most 3 pieces after `R <-` (`MaxPieces`); compiled: thousands of grammars of four rules | what is written is read back, nothing accepted is lost; matchers are the grammar, shared and memoized as they should, refused exactly for a broken rule that is needed |
| `expressions` | some 1300 expression trees, numbers over words of 8 bits, calls with every set of modifiers, paths of 6 names and 4 indirections, 3 windows, 3 order keys, trees around a depth limit of 3 | rewritings keep meaning, what is refused is what should be, numbers have the value written, a call's node has exactly the modifiers written and a rewritten or cast call drops only those the order of the checks lets pass, every ARRAY key stands for what it means but for the three kinds of section 6 |
| `queries` | chains of 3 operands with nested queries and WITH; 3 GROUP BY entries, at most 7 sets; 4 options over int64s from -2 to 2; texts of 4 bytes; 6 results over 3 tokens | set operations mean what is written, grouping sets multiply out, sequences have a range, valid text is code points, results enclose their children |
| `tools` | statements of 3 lines in files of one case and of 2 lines in files of two, files of 5 lines nobody wrote (`MaxLines`); 1 or 2 records; pairs of documents, numbers up to 14 where float64 is exact up to 8; batches of 2; 3 regenerations over 2 tests; 2 workers on 3 mutants | files are read back but for carriage returns, one cut short is refused or read as far as it has verdicts, records are found, trees compared and their first difference found, verdicts justified, the corpus converges after any aborts, totals exact, everything ends |
| `oracle_pool` | 3 statements, 2 workers | `OraclePool` implements `Batch`, liveness included; success leaves no goroutine behind |
| `number_wrap` | the number literals of `expressions` | a counterexample, see section 6 |

Why the bounds are enough.

- The grammar slice of `MCMatcher` has a shared prefix for hits on successes
  (`(` Expression in Row and Parens), one for hits on failures (ColId under
  FunctionExpression and alone), optional, repeated and nullable rules, string
  continuation, the operator that swallows the sentinel, and a number whose second
  exponent panics; the longer streams put hits inside hits, the panic under a
  half-filled cache, and several statements in a stream.
- In the lexer, a case looks at most two bytes ahead and, in its states, at one
  delimiter or depth; five bytes of an alphabet start, fill and end any two
  adjacent tokens of it, and the rows of pieces give two literals with comments
  between them. In Parse the statements interact through prevEnd and pos only;
  five pieces hold two statements with an empty one around or between them.
- In the transform context five frames hold a window definition in a SELECT in a
  definition; three events are needed for two uses of a name with another
  parameter between. The name `2` collides with the parameter number 2. `MaxInt`
  is out of reach here; the proofs carry it as an assumption.
- Three parsers and a loader give a goroutine that runs a function, one that
  waits for its mutex, one on the fast path, and Load called from outside while
  Default is inside it.
- A rule ends at a newline by two flags (brackets, choice); three pieces put a
  newline after each of them and before the next rule. The compiled grammars
  have self- and mutual recursion, a macro inside a macro, a missing rule that
  is needed and one that is not, and literals in two spellings.
- Expression trees put each rule over and under each other rule it can meet;
  words of 8 bits have the same carries as words of 64, and literals are taken
  from around every limit. Around the depth limit a chain and a nesting are
  combined in every order.
- A UNION is joined with its left or right neighbour only, so three operands,
  each possibly a nested UNION with or without modifiers, meet all cases;
  GROUP BY's limit of 7 lies between products that three entries reach; a code
  point has at most four bytes, tried at each boundary of length and value.
- A corpus line matters by its kind and the last one or two before it; the lines
  with a carriage return are those that become text, a separator or blank without
  it. Numbers from 7 to 14 are exact, next to an exact one on either side, and
  halfway between two. Objects of three keys differ in any of them, and in two
  at once. In
  `regenerate` one run must leave something behind, a second be cut short and
  a third put it right. With two workers each counter can be raced for, and
  `MaxPrint` 1 is reached by one of two disagreements.
- In the pool, three statements and two workers have one worker blocked on
  sending, one on receiving and a statement not yet fed when the collector
  leaves on the first error.

No run uses symmetry: most inputs are told apart by the code, and the instances
without it are small enough.

**Fairness.** `Matcher`, `Lexer` and `ParseLoop` have weak fairness on the next
step of the one goroutine that parses: Go runs a runnable goroutine, and no step
blocks. There is none on `Cancel`: a caller need never cancel. `Once` has it
for each goroutine. `OraclePool` has it for each goroutine and for each
rendezvous of two, and needs a worker (`WorkersAssumption`; with `-j 0` the
feeder waits for ever). `Oracle` has it only for the deadline and for Run's
return, none for the command line, which may hang. In `Difftest` the generator
and workers go on and the oracle answers; the mutex has strong fairness, since
`sync.Mutex` hands over to a waiter that starves. `Batch`'s own fairness is
part of what the pool is shown to implement.

**Deadlock** is checked in `matcher`, `matcher_nullable`, `lexer`, `parse_loop`,
`transform_context`, `once` and `grammar`, whose machines end in an explicit
stuttering step once they have returned. It is off in the others because their
components really stop: a transformed expression has no next step, and
`oracle_pool` leaves goroutines blocked when it returns an error.

**Refinement.** `Once` implements `SharedEngine` (checked, and proved);
`OraclePool` implements `Batch` (checked with liveness, its safety
part proved). The properties of `Matcher` relate the engine to the PEG equations
state by state.

## 4. Proofs

**MatcherProofs** holds for every grammar (any tree of the four composites over
any leaves, left-recursive or not), every set of streams, every choice of
memoized rules, and every `Sem` and `Rest` that satisfy the PEG equations. The
constants' assumptions are `GrammarAssumption`, `InputAssumption` (the sentinel
is last, a leaf that accepts advances) and `PegAssumption`.

The properties are not inductive alone: that an answer is right depends on the
frame that asked for it, and that a cached entry is right depends on the answer
that was stored. The invariant

    IInv == TypeOK /\ StackOnTrack /\ AnswersAreSem /\ CacheIsSound
            /\ HitNeverRaisesMax /\ EntryReach /\ StatementsTile /\ ErrorIsSem

adds `StackOnTrack`, which says of each frame that what it has collected,
followed by `Rest` of what is left to try, is the meaning of its matcher where
it was called; and `EntryReach`, which says that an entry's maxTokenSeen covers
all that finding its outcome reached. Its proof has one lemma per action. From it follow

- `TypeCorrect`: positions stay inside the stream and indices inside a matcher;
- `EngineComputesSem`: each `match()` answers as the PEG and restores pos on failure;
- `PackratTransparent`: the cache holds only the PEG's outcomes, a hit never raises max;
- `FurthestCorrect`: the furthest index does not depend on memoization;
- `MatchAllCorrect`: results tile the stream, and the error is the one called for;
- `MaxAndCacheOnlyGrow`: the action property.

Since `Sem` mentions no cache, the second and third together say that packrat
memoization is invisible, with any list of memoized rules.

**ParseLoopProofs** holds for every set of texts that satisfies `TextAssumption`
(tokens end in order and inside the text, the sentinel is last). The invariant
is `text \in Texts /\ TypeOK /\ SpansSoFar /\ SpansTile`: `SpansSoFar` says that the
statements appended so far tile the text up to prevEnd, and that no token ahead
ends before prevEnd, which `SpansTile`, a statement about what was
returned, needs. `TypeCorrect` and `ParseTilesInput` follow. For
`ParseIsComplete` (`StatementsComplete`: the answer holds every token of the text
or comes with an error) the invariant grows by `StatementsSoFar`, which says
which tokens the statements so far hold, and `TokensInOwnSpan`, that a token
held lies inside its statement's span.

**LexerProofs** holds for every text and every keyword table; its one assumption,
`SourcesAssumption`, says that texts are sequences. `TokensAreTheText` states
`TokensAreText`. The invariant `IInv` says of each state of the scan what the loop
knows without writing it down: in `StandardInv` that the tokens so far cover the
text up to the index, and that lastPos is the index but for one byte after a bare
dollar; in `TokenInv` which bytes the token in progress may
hold, so that no comment starts in it; in `CommentInv` that the depth counter and
the index say where the comment ends that was opened at lastPos. Where a comment ends
and what is trivia are recursive functions of the text, defined without the
scanner (`BlockEnds`, `TriviaEnds`); that they satisfy their equations is proved by
induction on a set of naturals (`NatInduct`), which the provers can do, instead of
the library's induction on a predicate. There is one lemma for each way a step can leave
(`ToStandard`, `ToToken`, `ToComment`, `ToFinish`, `ToError`) and one for each group of
cases of the switch.

`LiteralsAreWellFormed` states `LiteralsWellFormed`, which speaks of whole tokens: where a
literal ends, which flags a token carries, where comments and literals were left
open. The invariant for it, `LInv`, is inductive given `IInv`. `LiteralInv` says of the
open literal what the loop knows from what it skipped: up to the index the quotes
are odd in number, and wherever they were even another followed (`Opened`); the
escape mode is the literal's own, and before the index stands an even number of
backslashes.
`SeenInv` says that after a string or a quoted identifier the last block comment is
still remembered if and only if it lies behind it, which is what the comment flags
of the next token depend on; `ErrorInv`, that what an error calls unterminated starts
at its offset and never ends. The flags are stated over all ways trivia could lead from one token to the
next; that there is one only (`OneWayOn`), and that a way through an offset
divides there (`TriviaSplits`), is proved by induction again.

**OnceProofs** holds for every set of goroutines. Its invariant adds to the
properties of `Once` that a stack is Default's call with at most Load's
above it (`Nested`), that a Once's run count, `done` and result change together
(`Counted`), what a goroutine inside a mutex knows of them (`Knows`), and that
what a goroutine got is the stored result (`Handed`). `MutexesNest`, `RunsOnce`,
`NobodyGetsUnset`, their conjunction `EngineInitialised`, and
`ImplementsSharedEngine` follow.

**TransformContextProofs** holds for every set of names, every bound on nesting
and on events. Three invariants:

- `WInv` for `WindowsAreScoped`. That scopes are counted by the SELECTs on the
  stack is inductive only with `Clauses`: LeaveDefinition replaces the topmost
  scope, so what lies under a definition must be a WINDOW clause, and the flag
  is cleared only when it ends.
- `FInv`, the nesting. When a PREPARE ends it forgets its parameters, and only
  closed holders (EXPLAIN, CREATE around it) are left on the stack; nothing more
  is logged, so the log has at most one entry more than events.
- `DInv` with it for `ParametersAreNumbered`: paramCount is the largest number
  given (a high-water mark), an identifier keeps its number, paramOrder is the
  order of first uses in the log, and the pivot fields agree with the log.

`ParametersAreNumbered` assumes `MaxNumber + MaxEvents <= MaxInt`, that is, that a
Go int holds every number: a `?` after the largest explicit number wraps around,
which section 6 lists. `BoundAssumption` only says that the bounds are numbers.

**OraclePoolProofs** holds for every list of distinct statements, every nonempty set
of workers and every set of verdicts. The invariant is `PoolDrains`' first three
parts: `Accounted` follows each statement from the feeder's hand through one
worker to the collector's map, `ClosedInOrder` says what a closed channel implies
of those who send on it. `PoolIsDrained` follows. `PoolImplementsBatch` maps
every step to a step of `Batch` or to none: an answer is `Ask`, the collector's
first failed result `Fail`, and the end of its range `Succeed`, where
`RangeEndsComplete` (all statements handed out, all workers gone, so all answers
collected) is what makes the returned map complete.

**ToolsProofs** is about three tools. Of a single question, `Oracle`, it proves
`VerdictsAreJustified` for every set of batches, the empty batch included
(`BatchesAssumption` says what a statement is). That a verdict is justified depends on how far the command line
had come when it ended, so `OracleInv` relates the two: `PlaceInv` bounds the place
it is at and puts a regular exit behind the last statement; `PrintedInv` says that
there is a line on stderr just when the process failed, and that one that is no
parser error comes from execution; `VerdictInv`, that a verdict is what `Read`
makes of a process that has ended. The deadline may pass before the end or
after it; that it cannot change what is read from a printed refusal is where the
order in `Read` is used.

Of `Difftest` it proves `TotalsAreExact`, for every number of mutants, every nonempty finite set of
workers and every maximum to print (`RunAssumption`). `TotalsExact` speaks of the
end of a run; the invariant, `TotalsInv`, makes each counter at each moment the size of a set of
mutants (`Totals`): those taken from the channel, of the kinds it counts, that no
worker still holds at a place before the increment. `Holdings` (no two workers
hold the same mutant) makes a step change one such set by one element, and
`Mutex` (what the holder has read is still the total) lets the guarded increment
lose nothing. When all workers are done nobody holds anything, and the sets are
all mutants of their kinds.

Of `Regenerate` its theorems hold for every list of tests, all upstream trees and verdicts, and
any number of runs, each of which may be full or partial and may end before any
change of the disk or within a write. `InputAssumption` says that the tests are a
list of paths with a list of statements each, that -only selects among them and
that -limit is a number. The invariant, `CorpusInv`, says what a run may rely on: `Extracted` (what it extracted is
still what upstream's tests say), `Wrote` (each file with cases is written or to
be written, and one written holds its cases) and `Cleaned` (how far the removals
have come, only ever in a full run). Of the disk at the start of a run it says
nothing but that its files are among the tests', which is why it survives an
abort. `FullRunForgets` follows: the corpus after a full run is the
function of upstream's tests and the verdicts that `CorpusIsTheRuns` names, and
no sidecar is an orphan; and `RunsKeepWhatTheyShould`, the action property
`RegenerateKeeps`.

`CorpusAlwaysConverges` adds what that function is: after a full run each storable
statement with a verdict is in the corpus once, in the first test it occurs in, with
its verdict and nothing else beside it (`FullRunConverges`), and the README counts the
cases (`ReadmeCounts`). It rests on lemmas about extraction. `Picked`, what a
sequence holds at given indices, in order, is shown by way of the indices' ranks
(`Ranks`) to hold each of them once and no more (`PickedHolds`). A storable statement is
new at one place (`NewOnce`), at some place (`NewSomewhere`: its first file and first
index there, by `LeastOf`), and that place is in the first test that has it
(`NewIsFirst`). The count is a bijection between the cases in the corpus and the
statements with a verdict (`Counts`).

**TransformerProofs** is about two transformers. `SequencesAreAlwaysRanges` holds for
every set of options and statements of any length (`OptionsAssumption`: int64 literals
lie between MinInt and MaxInt, and no literal is "absent", which is how the reference
says that there is none). `SequencesAreRanges` looks at the options
as a set, while the code takes them in the order written; the invariant `SequenceInv`
says what each stage has let through: the options looked at fit (`Checked`), those
evaluated are the values set, and no key twice makes the value of a key the one
option that has it (`ValueOf`), so that the loop's last word on the range is what
the set of options says (`RangeChecked`).

`WindowsAreNeverOverridden` holds for every set of contents and any number of windows,
each over any earlier one (`ContentsAssumption` says what a frame clause is). The definitions a
window goes back to are the least set closed under taking the base (`Bases`).
The invariant says of every window that it is `Sound`: it has its own frame, which
runs forwards, and the partition and the order of the only definition under it that has one, and no
definition under it has a frame. One more definition changes nothing for those before
it (`BasesStay`), and what a window goes back to is its own definition and what
its base goes back to (`BasesUnfold`), so an extension that is not refused is
sound again (`ExtendIsSound`). `BackwardsAre` compares the bounds
transformFrameClause refuses with the order of the bounds.

## 5. Only model-checked

Liveness is checked by TLC alone, it is outside the prover: `Termination` of the
engine, the scanner and Parse, `AllReturn` of the Onces, `ToolsEnd`, and the
liveness part of `ImplementsBatch`. So are what recursive definitions compute:
`SetOperations`, `GroupBy`, `Depth`, `GrammarLoader`, `TreeCompare`, `ExprMeaning`
and others walk trees with recursive operators, which keep a module out of the
prover's reach, and their properties are statements about whole trees. The
properties of `Factory`, of the other transformers, of results' extents and of
corpus files are checked by TLC and could be proved in part; see the plan. That
the recursive-descent evaluator of `MCMatcher` solves the PEG equations is checked
for the streams of the runs, by the evaluation of `PegAssumption`.

## 6. Where code and documentation differ

One of these is a run that ends in a counterexample:

- `number_wrap` (`parser/transform_single.go:431`): parseHugeint takes the upper
  word for overflowed only if the wrapped sum is below the carry, which misses
  most wraps. 1 followed by 40 zeros becomes the HUGEINT
  131811359292784559562136384478721867776, though `transform_single.go:318` says
  that what fits no integer type is a DOUBLE.

The others were met while modelling. The models have the code's behaviour, and
their properties are stated so that they hold of it; none of these is a run.

| where | the code | the text |
|---|---|---|
| `lexer/lexer.go:463` | an operator directly after a bare dollar is pushed with the dollar's offset; its Span does not delimit its Text. `SpanDriftOnlyAfterDollar` shows it goes no further | `token/token.go:64`, `:70` |
| `lexer/lexer.go:562` | a string or quoted identifier that ends the input can carry the trivia flags | `token/token.go:83` |
| `parser/transform_select.go:338` | a WINDOW clause inside a window definition clears inWindowDefinition for the rest of the outer one | `transform.go:30` |
| `parser/transform.go:167` | `$"2"` and `$2` share an entry of the parameter map, which gives the wrong number for one | `ast/stmt.go:11` |
| `parser/transform.go:147` | a `?` after `$9223372036854775807` gets a negative number | `ast/expr.go:98` |
| `parser/transform.go:139` | mixing named and positional parameters is accepted | the comment says it raises |
| `internal/matcher/factory.go:119` | rules are looked up as referred to but cached as defined: in another case a rule is compiled again, without end if it is recursive (the vendored grammar has no such reference) | `internal/grammar/upstream_test.go:20` |
| `parser/transform_expr.go:1041` | a UHUGEINT is rendered from a signed upper word, as a negative number | `transform_expr.go:1009` |
| `parser/transform_func.go:459` | a window whose only frame clause is an EXCLUDE on the default bounds may be copied, and its EXCLUDE is dropped | `transform_func.go:451` |
| `parser/transform_func.go:1115` | cloneWithAlias returns a conjunction without the alias: `ARRAY(SELECT a FROM t ORDER BY a OR b)` orders by a name no item has; `OrdersMirrored` says exactly which keys lose their link, this one, the next, and one whose internal alias the user wrote as well | `transform_func.go:1003` |
| `parser/transform_func.go:1020` | `ORDER BY 1.5` in an ARRAY query is taken for the position 15 | `transform_func.go:1002` |
| `parser/transform_ddl.go:737` | digits only that do not fit 128 bits are refused as no integer | `transform_ddl.go:733` |
| `parser/transform_select.go:508` | peekBareStar transforms a sole GROUP BY entry twice: the parameter of `GROUP BY ?` is number 2, and the statement lists a number 1 that no node has | `ast/expr.go:99` |
| `parser/transform_select.go:142` | the base of a recursive UNION of three keeps the span of the whole | `ast/ast.go:24` |
| `internal/serialize/compare.go:21` | numbers are compared as float64: integers above 2^53 that differ can be equal; up to 2^54, as far as the model goes, `EqualUpToOrder` says that they differ by 2 at most and one of them is odd | `compare.go:10` |
| `internal/serialize/serialize.go:810` | an infinite constant makes json.Marshal refuse the document instead of being written bare, and Equal cannot parse an oracle's document that has one; `NotFiniteRefused` says when | `serialize.go:807` |
| `internal/testfile/testfile.go:72` | Read drops a carriage return at a line's end, CanStore lets it in; `RoundTrip` says a file is read back exactly if no line of it ends in one. `Extract` removes them, so regenerate writes none | `testfile.go:61` |
| `internal/sqltest/sqltest.go:98` | carriage returns are removed within literals too | `sqltest.go:66` |
| `internal/duckdbsrc/duckdbsrc.go:151` | a timeout is taken for execution, a hang in the parser gives one too | the comment says parsing succeeded |
| `cmd/regenerate/main.go:233` | a test that has no cases any more, though upstream still has it, loses its hand-written sidecar | `main.go:208` |

Also noticed. A corpus file cut short between two cases, or within its last
separator, is read without an error as the cases before the cut, and an error
message may be read cut; only a cut within a case, before its verdict, is refused
(`CutsAreRead`). A plain call of `unpack`, `try`, `construct_array`, `ifnull` or
`date` drops DISTINCT, ORDER BY, FILTER, RESPECT NULLS and EXPORT_STATE without a
word, while the same method refuses the first two. A PREPARE inside an EXPLAIN clears the parameters of the EXPLAIN's
own options. A partial regeneration can leave a statement in two corpus files
until the next full run. `difftest -jobs 0` tests nothing and exits with 0; a
transformer panic on a mutant that the oracle refuses with an error other than a
syntax error is counted as skipped. In the depth check the weight may equal the
limit while a chain of NOTs may not (`>` against `>=`), and a NOT's own frame does not
contain its operand, so a chain of NOTs does not add up with what is nested under
it; `DepthLimitExact` states what the two checks come to.

## 7. Not modelled, and the plan

Not modelled:

- the statement transformers other than the calls to the transform context, set
  operations, grouping, and sequence options: they map a parse tree to a node
  field by field, without state or choice; the ast, plain data; the field layout
  of the serializer, a table;
- the vendored grammar and keyword lists, which are data (a slice is the
  matcher's instance), and the printing of results, errors and matchers;
- `MatchExpression` and `ParseExpr`, which run one rule over the machinery
  modelled (ParseExpr with the folds' depth check only);
- `parseString`'s "no progress" and nil-statement branches, which no input
  reaches; macros of several parameters, which the grammar's parser cannot
  produce;
- an `-only` that matches every file, which still leaves the README and the stale
  files alone (`Regenerate` takes a run over all files for a full one), and the
  control bytes that may be in a dollar tag;
- the cutting of mutants and the comparison of messages in difftest, the search
  for the oracle's binary, flags, logging, and the debug commands.

Next, in this order:

1. **Proofs.** The extents of results; of `Factory`, that the tree it compiles has
   the grammar's structure; the non-recursive parts of the other transformers.
2. **Composition.** An abstract specification of Parse (a text is a sequence of
   statements, each accepted or not) that Lexer, Matcher and ParseLoop together
   refine.
3. **Transformers.** FROM clauses and PIVOT (`transform_tableref.go`), where
   joins nest and columns are expanded, as rewritings that keep meaning; then the
   DDL constraints.
