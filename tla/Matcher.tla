------------------------------- MODULE Matcher -------------------------------
(***************************************************************************)
(* The PEG engine of internal/matcher: a compiled tree of matchers run     *)
(* against a token stream, one statement at a time, with a packrat cache.  *)
(*                                                                         *)
(* The Go code is recursive; here the recursion is an explicit stack of    *)
(* frames, one frame per composite matchInternal call in progress, so that *)
(* every call and every return of match() is one step.  A step that ends a *)
(* matchInternal call also performs what its caller match()/packrat.match  *)
(* does before handing the result on (the cache store).                    *)
(*                                                                         *)
(* Token positions are the code's 0-based ones: the current token is       *)
(* tokens[pos + 1].                                                        *)
(***************************************************************************)
EXTENDS Integers, Sequences

CONSTANTS
    Matchers,        \* the matcher-tree nodes (matcherMeta.id identifies one)
    Kind,            \* [Matchers -> {"list","choice","optional","repeat","leaf"}]
    Children,        \* [Matchers -> Seq(Matchers)], <<>> for a leaf
    Memoized,        \* the matchers with matcherMeta.memoized set
    TopLevel,        \* Engine.topLevel, the TopLevelStatement rule
    Tokens,          \* token values, records with at least a field kind
    Inputs,          \* the token streams considered
    LeafMatch(_,_,_) \* what leaf m does on stream t at position p

Composite == {"list", "choice", "optional", "repeat"}

\* What matchInternal of a leaf answers: it advances to end, refuses, or
\* panics with a MatchError.
LeafOutcome(t, p) ==
    [kind : {"ok"}, end : (p+1)..Len(t)] \cup [kind : {"fail", "abort"}, end : {p}]

ASSUME GrammarAssumption ==
    /\ Kind \in [Matchers -> Composite \cup {"leaf"}]
    /\ Children \in [Matchers -> Seq(Matchers)]
    /\ \A m \in Matchers : Kind[m] \in Composite => Len(Children[m]) >= 1
    /\ \A m \in Matchers : Kind[m] \in {"optional", "repeat"} => Len(Children[m]) = 1
    /\ Memoized \subseteq Matchers
    /\ TopLevel \in Matchers

ASSUME InputAssumption ==
    /\ Inputs \subseteq Seq(Tokens)
    /\ \A t \in Inputs : \A i \in 1..Len(t) : t[i].kind = "EndOfInput" => i = Len(t)
    /\ \A t \in Inputs, m \in Matchers :
          Kind[m] = "leaf" => \A p \in 0..Len(t) : LeafMatch(t, m, p) \in LeafOutcome(t, p)

VARIABLES
    tokens,   \* state.tokens
    pos,      \* state.pos
    max,      \* state.max, the furthest token index reached
    packrat,  \* packratCache.entries: (matcher, position) -> entry
    stack,    \* the composite matchInternal calls in progress, innermost last
    ctl,      \* "idle": between statements; "call": about to run match();
              \* "return": match() has answered ret; "stop": MatchAll returned
    ret,      \* the answer of the match() call that just returned
    begin,    \* MatchAll's pos: where the statement being matched begins
    results,  \* MatchAll's results
    err       \* MatchAll's error

vars == <<tokens, pos, max, packrat, stack, ctl, ret, begin, results, err>>

(***************************************************************************)
(* Parse results are flattened: a result is the preorder list of the       *)
(* decisions taken, <<m, i>> for child i of composite m (i = 0: an empty   *)
(* optional) and <<m, p>> for leaf m matched at token p.  The decisions    *)
(* determine the tree.                                                     *)
(***************************************************************************)
Decision == Matchers \X Nat
Item(m, i, res) == <<<<m, i>>>> \o res

Max2(a, b) == IF a >= b THEN a ELSE b

NoAnswer  == [ok |-> FALSE, res |-> <<>>]
NoError   == [type |-> "none", at |-> 0]
NoEntries == [k \in {} |-> NoAnswer]

Top == stack[Len(stack)]

\* Which child the frame f is waiting for; a repeat always runs its element.
ChildOf(f) == Children[f.m][IF Kind[f.m] = "repeat" THEN 1 ELSE f.i]

\* The matcher whose match() call is outstanding.
Pending == IF stack = <<>> THEN TopLevel ELSE ChildOf(Top)

\* A frame of matchInternal.  start is pos at entry (listMatcher's start and
\* the packrat key's tokenIndex), i the loop index, res the results so far.
\* at records where child i was called: nothing in the code reads it, it is
\* there for the properties.
Frame(m, p) == [m |-> m, start |-> p, i |-> 1, at |-> p, res |-> <<>>]

-----------------------------------------------------------------------------

\* Mutant: advance lets state.max follow pos back after a failed sequence.
MaxFollows(end) == end

(* state.advance up to position end, one token at a time. *)
MaxAfter(end) == Max2(max, end)

(* packratCache.match: look up before, store after.  The entry's           *)
(* maxTokenSeen is the larger of state.max before and after the call;      *)
(* nothing lowers state.max, so it is state.max after the call.            *)
Hit(m) == m \in Memoized /\ <<m, pos>> \in DOMAIN packrat

Entry(ok, posAfter, maxSeen, res) ==
    [success |-> ok, posAfter |-> posAfter, maxTokenSeen |-> maxSeen, result |-> res]

\* Mutant: the entry is keyed by the position after the match.
StoreAfter(m, start, entry) ==
    packrat' = IF m \in Memoized
               THEN [k \in DOMAIN packrat \cup {<<m, entry.posAfter>>} |->
                        IF k = <<m, entry.posAfter>> THEN entry ELSE packrat[k]]
               ELSE packrat

Store(m, start, entry) ==
    packrat' = IF m \in Memoized
               THEN [k \in DOMAIN packrat \cup {<<m, start>>} |->
                        IF k = <<m, start>> THEN entry ELSE packrat[k]]
               ELSE packrat

\* match() answers: matcher m, called at start, leaves pos at end.
Answer(m, start, ok, end, maxSeen, res) ==
    /\ pos' = end
    /\ max' = maxSeen
    /\ Store(m, start, Entry(ok, end, maxSeen, res))
    /\ ret' = [ok |-> ok, res |-> res]
    /\ ctl' = "return"

Loop == UNCHANGED <<tokens, begin, results, err>>

-----------------------------------------------------------------------------

(* match(): a memoized matcher already run at this position. *)
PackratHit ==
    /\ ctl = "call"
    /\ Hit(Pending)
    /\ LET e == packrat[<<Pending, pos>>] IN
          /\ pos' = e.posAfter
          /\ max' = Max2(max, e.maxTokenSeen)
          /\ ret' = [ok |-> e.success, res |-> IF e.success THEN e.result ELSE <<>>]
    /\ ctl' = "return"
    /\ UNCHANGED <<packrat, stack>> /\ Loop

(* match() of a leaf that accepts the current token(s). *)
LeafAccept ==
    /\ ctl = "call"
    /\ Kind[Pending] = "leaf" /\ ~Hit(Pending)
    /\ LET o == LeafMatch(tokens, Pending, pos) IN
          /\ o.kind = "ok"
          /\ Answer(Pending, pos, TRUE, o.end, MaxAfter(o.end), <<<<Pending, pos>>>>)
    /\ UNCHANGED stack /\ Loop

(* match() of a leaf that refuses the current token. *)
LeafRefuse ==
    /\ ctl = "call"
    /\ Kind[Pending] = "leaf" /\ ~Hit(Pending)
    /\ LeafMatch(tokens, Pending, pos).kind = "fail"
    /\ Answer(Pending, pos, FALSE, pos, max, <<>>)
    /\ UNCHANGED stack /\ Loop

(* A leaf panics with a MatchError: runMatch recovers it, the whole parse  *)
(* ends and every frame is abandoned without a cache store.                *)
LeafPanic ==
    /\ ctl = "call"
    /\ Kind[Pending] = "leaf" /\ ~Hit(Pending)
    /\ LeafMatch(tokens, Pending, pos).kind = "abort"
    /\ err' = [type |-> "match", at |-> 0]
    /\ ctl' = "stop"
    /\ stack' = <<>>
    /\ UNCHANGED <<tokens, pos, max, packrat, ret, begin, results>>

(* matchInternal of a composite is entered and calls its first child. *)
EnterComposite ==
    /\ ctl = "call"
    /\ Kind[Pending] \in Composite /\ ~Hit(Pending)
    /\ stack' = Append(stack, Frame(Pending, pos))
    /\ UNCHANGED <<pos, max, packrat, ctl, ret>> /\ Loop

-----------------------------------------------------------------------------
(* The frames' reactions to the answer of the child they called. *)

InFrame(kind, ok) ==
    /\ ctl = "return"
    /\ stack # <<>>
    /\ Kind[Top.m] = kind
    /\ ret.ok = ok

LastChild == Top.i = Len(Children[Top.m])

\* Results of the frame once child i has succeeded.
Collected == Top.res \o Item(Top.m, Top.i, ret.res)

\* The frame goes on with child i at the current position.
CallNext(i, res) ==
    /\ stack' = [stack EXCEPT ![Len(stack)] =
                    [m |-> Top.m, start |-> Top.start, i |-> i, at |-> pos, res |-> res]]
    /\ ctl' = "call"
    /\ UNCHANGED <<pos, max, packrat, ret>> /\ Loop

\* matchInternal of the innermost frame returns; pos is left at end.
Leave(ok, end, res) ==
    /\ Answer(Top.m, Top.start, ok, end, max, res)
    /\ stack' = SubSeq(stack, 1, Len(stack) - 1)
    /\ Loop

ListNext    == InFrame("list", TRUE) /\ ~LastChild /\ CallNext(Top.i + 1, Collected)
ListSucceed == InFrame("list", TRUE) /\ LastChild /\ Leave(TRUE, pos, Collected)

\* Mutant: a failed sequence does not restore pos.
ListFailKeepsPos == InFrame("list", FALSE) /\ Leave(FALSE, pos, <<>>)

ListFail    == InFrame("list", FALSE) /\ Leave(FALSE, Top.start, <<>>)

\* A choice keeps no start position: it relies on a failed alternative
\* having left pos where it was.
ChoiceSucceed == InFrame("choice", TRUE) /\ Leave(TRUE, pos, Collected)

ChoiceNext    == InFrame("choice", FALSE) /\ ~LastChild /\ CallNext(Top.i + 1, <<>>)
ChoiceFail    == InFrame("choice", FALSE) /\ LastChild /\ Leave(FALSE, pos, <<>>)

OptionalPresent == InFrame("optional", TRUE) /\ Leave(TRUE, pos, Collected)

OptionalAbsent  == InFrame("optional", FALSE) /\ Leave(TRUE, pos, Item(Top.m, 0, <<>>))

\* i = 1: the mandatory first element; i = 2: the loop over further ones.
RepeatNext    == InFrame("repeat", TRUE) /\ CallNext(2, Collected)
RepeatFail    == InFrame("repeat", FALSE) /\ Top.i = 1 /\ Leave(FALSE, pos, <<>>)
RepeatSucceed == InFrame("repeat", FALSE) /\ Top.i = 2 /\ Leave(TRUE, pos, Top.res)

-----------------------------------------------------------------------------
(* MatchAll and runMatch. *)

(* The furthest-failure token index, past the end-of-input sentinel. *)
SyntaxErrorIndex(t, maxTokenIndex) ==
    LET last == Len(t) - 1
        idx  == IF maxTokenIndex > last THEN last ELSE maxTokenIndex
    IN  IF idx > 0 /\ t[idx + 1].kind = "EndOfInput" THEN idx - 1 ELSE idx

(* runMatch starts the next statement with a fresh state and cache. *)
BeginStatement ==
    /\ ctl = "idle"
    /\ begin < Len(tokens)
    /\ pos' = begin
    /\ max' = begin
    /\ packrat' = NoEntries
    /\ stack' = <<>>
    /\ ctl' = "call"
    /\ ret' = NoAnswer
    /\ UNCHANGED <<tokens, begin, results, err>>

\* Mutant: an empty match is skipped instead of refused.
StatementMatchedEmpty ==
    /\ ctl = "return" /\ stack = <<>>
    /\ ret.ok
    /\ results' = IF pos = begin THEN results
                  ELSE Append(results, [from |-> begin, to |-> pos, res |-> ret.res])
    /\ begin' = pos
    /\ ctl' = "idle"
    /\ UNCHANGED <<tokens, pos, max, packrat, stack, ret, err>>

StatementMatched ==
    /\ ctl = "return" /\ stack = <<>>
    /\ ret.ok /\ pos # begin
    /\ results' = Append(results, [from |-> begin, to |-> pos, res |-> ret.res])
    /\ begin' = pos
    /\ ctl' = "idle"
    /\ UNCHANGED <<tokens, pos, max, packrat, stack, ret, err>>

(* "matcher made no progress" *)
NoProgress ==
    /\ ctl = "return" /\ stack = <<>>
    /\ ret.ok /\ pos = begin
    /\ err' = [type |-> "progress", at |-> begin]
    /\ ctl' = "stop"
    /\ UNCHANGED <<tokens, pos, max, packrat, stack, ret, begin, results>>

StatementFailed ==
    /\ ctl = "return" /\ stack = <<>>
    /\ ~ret.ok
    /\ err' = [type |-> "syntax", at |-> SyntaxErrorIndex(tokens, max)]
    /\ ctl' = "stop"
    /\ UNCHANGED <<tokens, pos, max, packrat, stack, ret, begin, results>>

\* Mutant: MatchAll stops before the end-of-input token.
ConsumedEarly ==
    /\ ctl = "idle"
    /\ begin >= Len(tokens) - 1
    /\ ctl' = "stop"
    /\ UNCHANGED <<tokens, pos, max, packrat, stack, ret, begin, results, err>>

Consumed ==
    /\ ctl = "idle"
    /\ begin >= Len(tokens)
    /\ ctl' = "stop"
    /\ UNCHANGED <<tokens, pos, max, packrat, stack, ret, begin, results, err>>

-----------------------------------------------------------------------------
Init ==
    /\ tokens \in Inputs
    /\ pos = 0 /\ max = 0 /\ begin = 0
    /\ packrat = NoEntries
    /\ stack = <<>>
    /\ ctl = "idle"
    /\ ret = NoAnswer
    /\ results = <<>>
    /\ err = NoError

Stopped == ctl = "stop" /\ UNCHANGED vars

Step ==
    \/ BeginStatement \/ StatementMatched \/ NoProgress \/ StatementFailed \/ Consumed
    \/ PackratHit \/ LeafAccept \/ LeafRefuse \/ LeafPanic \/ EnterComposite
    \/ ListNext \/ ListSucceed \/ ListFail
    \/ ChoiceSucceed \/ ChoiceNext \/ ChoiceFail
    \/ OptionalPresent \/ OptionalAbsent
    \/ RepeatNext \/ RepeatFail \/ RepeatSucceed

Next == Step \/ Stopped

Spec == Init /\ [][Next]_vars

\* The engine is one goroutine that never blocks: it keeps taking steps.
FairSpec == Spec /\ WF_vars(Step)
-----------------------------------------------------------------------------
(***************************************************************************)
(* What the engine promises, stated against the meaning of a PEG.          *)
(* Sem(t, m, p) is the outcome of matcher m on stream t at position p, and *)
(* Rest(t, m, i, p) the outcome of what remains of composite m once it is  *)
(* about to try child i at p.  Both are parameters, constrained only by    *)
(* the PEG equations below: the properties hold of every solution of the   *)
(* equations, and of the cache nothing is assumed at all.                  *)
(***************************************************************************)
CONSTANTS Sem(_,_,_), Rest(_,_,_,_)

\* end is 0 and res empty unless kind is "ok"; far is the furthest token
\* index reached while finding the outcome out.
Ok(end, far, res) == [kind |-> "ok", end |-> end, far |-> far, res |-> res]
Fail(far)  == [kind |-> "fail",  end |-> 0, far |-> far, res |-> <<>>]
Abort(far) == [kind |-> "abort", end |-> 0, far |-> far, res |-> <<>>]

Outcome(t, p) == [kind : {"ok", "fail", "abort"}, end : 0..Len(t), far : p..Len(t),
                  res : Seq(Decision)]

\* Child i of m succeeded with o, and r is the outcome of the rest of m.
Extend(m, i, o, r) ==
    [kind |-> r.kind, end |-> r.end, far |-> Max2(o.far, r.far),
     res |-> IF r.kind = "ok" THEN Item(m, i, o.res) \o r.res ELSE <<>>]

\* Alternative i failed with o, and r is the outcome of the later ones.
Later(o, r) == [kind |-> r.kind, end |-> r.end, far |-> Max2(o.far, r.far), res |-> r.res]

\* The loop indices a composite can be at.
Index(m) == IF Kind[m] = "repeat" THEN {1, 2} ELSE 1..Len(Children[m])

Child(m, i) == Children[m][IF Kind[m] = "repeat" THEN 1 ELSE i]

\* Outcome of composite m from child i on, given that child i, tried at p,
\* had outcome o.
ListRest(t, m, i, p, o) ==
    IF o.kind = "fail" THEN Fail(o.far)
    ELSE IF i = Len(Children[m]) THEN Ok(o.end, o.far, Item(m, i, o.res))
    ELSE Extend(m, i, o, Rest(t, m, i + 1, o.end))

ChoiceRest(t, m, i, p, o) ==
    IF o.kind = "ok" THEN Ok(o.end, o.far, Item(m, i, o.res))
    ELSE IF i = Len(Children[m]) THEN Fail(o.far)
    ELSE Later(o, Rest(t, m, i + 1, p))

OptionalRest(t, m, i, p, o) ==
    IF o.kind = "ok" THEN Ok(o.end, o.far, Item(m, i, o.res))
    ELSE Ok(p, o.far, Item(m, 0, <<>>))

RepeatRest(t, m, i, p, o) ==
    IF o.kind = "ok" THEN Extend(m, i, o, Rest(t, m, 2, o.end))
    ELSE IF i = 1 THEN Fail(o.far)
    ELSE Ok(p, o.far, <<>>)

CompositeRest(t, m, i, p, o) ==
    IF o.kind = "abort" THEN Abort(o.far)
    ELSE IF Kind[m] = "list" THEN ListRest(t, m, i, p, o)
    ELSE IF Kind[m] = "choice" THEN ChoiceRest(t, m, i, p, o)
    ELSE IF Kind[m] = "optional" THEN OptionalRest(t, m, i, p, o)
    ELSE RepeatRest(t, m, i, p, o)

LeafSem(t, m, p) ==
    LET o == LeafMatch(t, m, p) IN
    IF o.kind = "ok" THEN Ok(o.end, o.end, <<<<m, p>>>>)
    ELSE IF o.kind = "fail" THEN Fail(p)
    ELSE Abort(p)

ASSUME PegAssumption ==
    \A t \in Inputs : \A m \in Matchers : \A p \in 0..Len(t) :
        /\ Sem(t, m, p) \in Outcome(t, p)
        /\ Sem(t, m, p).kind = "ok" => p <= Sem(t, m, p).end
        /\ Sem(t, m, p) = IF Kind[m] = "leaf" THEN LeafSem(t, m, p) ELSE Rest(t, m, 1, p)
        /\ Kind[m] # "leaf" =>
              \A i \in Index(m) :
                  /\ Rest(t, m, i, p) \in Outcome(t, p)
                  /\ Rest(t, m, i, p) = CompositeRest(t, m, i, p, Sem(t, Child(m, i), p))

-----------------------------------------------------------------------------
(* Types. *)

Positions == 0..Len(tokens)

EntryType == [success : BOOLEAN, posAfter : Positions, maxTokenSeen : Positions,
              result : Seq(Decision)]

FrameType == [m : {m \in Matchers : Kind[m] # "leaf"}, start : Positions, i : Nat,
              at : Positions, res : Seq(Decision)]

ResultType == [from : Positions, to : Positions, res : Seq(Decision)]

ErrorType == [type : {"none", "match", "syntax", "progress"}, at : Positions]

CacheType ==
    /\ DOMAIN packrat \subseteq Memoized \X Positions
    /\ \A k \in DOMAIN packrat : packrat[k] \in EntryType

\* The type invariant: every position stays inside the token stream, also
\* after operatorMatcher has consumed the end-of-input sentinel, and every
\* frame is at a loop index its matcher has.
TypeOK ==
    /\ tokens \in Inputs
    /\ pos \in Positions /\ max \in Positions /\ begin \in Positions
    /\ CacheType
    /\ stack \in Seq(FrameType)
    /\ \A k \in 1..Len(stack) : stack[k].i \in Index(stack[k].m)
    /\ ctl \in {"idle", "call", "return", "stop"}
    /\ ret \in [ok : BOOLEAN, res : Seq(Decision)]
    /\ results \in Seq(ResultType)
    /\ err \in ErrorType

-----------------------------------------------------------------------------
(* Safety. *)

\* What a match() call that was made at p on matcher m and answered ok/res,
\* leaving pos at end, must have found.
Agrees(m, p, ok, end, res) ==
    LET o == Sem(tokens, m, p) IN
    IF ok THEN o.kind = "ok" /\ end = o.end /\ res = o.res
          ELSE o.kind = "fail" /\ end = p /\ res = <<>>

\* A statement is being matched.
Running == ctl \in {"call", "return"}

\* Where the outstanding match() call was made.
CalledAt == IF stack = <<>> THEN begin ELSE Top.at

\* Every answer of match(), memoized or not, is the PEG's: same verdict,
\* same result, same end position, and on failure pos is back where the call
\* was made (the contract of matchInternal in matcher.go, which listMatcher
\* keeps by hand and choiceMatcher and repeatMatcher only rely on).
AnswersAreSem ==
    ctl = "return" => Agrees(Pending, CalledAt, ret.ok, pos, ret.res)

\* The packrat cache never holds anything but the PEG's own outcomes, so a
\* hit is indistinguishable from running the matcher again (packrat.go).
CacheIsSound ==
    \A k \in DOMAIN packrat :
        Agrees(k[1], k[2], packrat[k].success, packrat[k].posAfter, packrat[k].result)

\* state.max, the basis of the syntax error message, is independent of
\* memoization: when a statement has been tried it is exactly the furthest
\* index the PEG reaches from its first token, hits included.
FurthestIsSem ==
    ctl = "return" /\ stack = <<>> => max = Sem(tokens, TopLevel, begin).far

EntriesWithinMax == \A k \in DOMAIN packrat : packrat[k].maxTokenSeen <= max

\* A cache entry's maxTokenSeen is never beyond state.max of its own run:
\* the raise of state.max on a hit in packratCache.match changes nothing.
HitNeverRaisesMax == Running => EntriesWithinMax

\* MatchAll's results are the PEG's results of consecutive, non-empty
\* statements starting at token 0; they cover the whole stream exactly when
\* there is no error.
StatementsTile ==
    /\ \A k \in 1..Len(results) :
          /\ Agrees(TopLevel, results[k].from, TRUE, results[k].to, results[k].res)
          /\ results[k].from < results[k].to
          /\ results[k].from = IF k = 1 THEN 0 ELSE results[k-1].to
    /\ begin = IF results = <<>> THEN 0 ELSE results[Len(results)].to
    /\ ctl = "stop" => (err = NoError <=> begin = Len(tokens))

\* The error MatchAll ends with is the one the PEG's outcome calls for, and
\* a syntax error names the end-of-input sentinel only when no real token
\* precedes it ("never the end-of-input sentinel when a real token precedes
\* it", engine.go:14).
ErrorIsSem ==
    ctl = "stop" /\ err # NoError =>
        LET o == Sem(tokens, TopLevel, begin) IN
        /\ begin < Len(tokens)
        /\ err.type = "match"    <=> o.kind = "abort"
        /\ err.type = "syntax"   <=> o.kind = "fail"
        /\ err.type = "progress" <=> o.kind = "ok" /\ o.end = begin
        /\ err.type = "syntax" =>
              /\ err.at = SyntaxErrorIndex(tokens, o.far)
              /\ tokens[err.at + 1].kind = "EndOfInput" => err.at = 0

-----------------------------------------------------------------------------
(* Action properties and liveness. *)

CacheGrows ==
    /\ DOMAIN packrat \subseteq DOMAIN packrat'
    /\ \A k \in DOMAIN packrat :
          /\ packrat'[k].success = packrat[k].success
          /\ packrat'[k].posAfter = packrat[k].posAfter
          /\ packrat'[k].result = packrat[k].result

GrowStep == Running /\ Running' => max' >= max /\ CacheGrows

\* Within a statement state.max only grows, and no (matcher, position)
\* outcome in the cache is ever dropped or overwritten by another one.
MaxAndCacheGrow == [][GrowStep]_vars

\* MatchAll always comes back: on a grammar without left recursion and
\* without a nullable repeat element, matching every statement ends.
Termination == <>(ctl = "stop")

-----------------------------------------------------------------------------
(* The inductive invariant behind the safety properties. *)

\* A frame that is trying child i at position at is on the way to the
\* outcome of its matcher at start: the rest of it decides that outcome, and
\* whatever it reached so far is accounted for in reach (state.max).
FrameOnTrack(t, reach, f) ==
    LET s == Sem(t, f.m, f.start)
        r == Rest(t, f.m, f.i, f.at)
    IN  /\ s.kind = r.kind
        /\ s.kind = "ok" => s.end = r.end /\ s.res = f.res \o r.res
        /\ r.far <= s.far
        /\ s.far <= reach \/ s.far = r.far
        /\ Kind[f.m] \in {"choice", "optional"} => f.res = <<>> /\ f.at = f.start
        /\ Kind[f.m] = "repeat" /\ f.i = 1 => f.res = <<>> /\ f.at = f.start

\* Each frame was called by the frame below it, the lowest by runMatch at b.
CalledBy(s, b, k) ==
    IF k = 1 THEN s[1].m = TopLevel /\ s[1].start = b
    ELSE s[k].m = ChildOf(s[k-1]) /\ s[k].start = s[k-1].at

\* What a call of m at p reaches, the statement that begins at b reaches; and
\* if the call ends in a MatchError, so does the statement.
WithinStatement(t, b, m, p) ==
    /\ Sem(t, m, p).far <= Sem(t, TopLevel, b).far
    /\ Sem(t, m, p).kind = "abort" => Sem(t, TopLevel, b).kind = "abort"

FramesOnTrack(t, reach, b, s) ==
    \A k \in 1..Len(s) :
        /\ FrameOnTrack(t, reach, s[k])
        /\ CalledBy(s, b, k)
        /\ WithinStatement(t, b, s[k].m, s[k].start)

StackOnTrack ==
    /\ Running =>
          /\ begin < Len(tokens)
          /\ pos <= max /\ max <= Sem(tokens, TopLevel, begin).far
          /\ FramesOnTrack(tokens, max, begin, stack)
    /\ ~Running => stack = <<>>
    /\ ctl = "call" => pos = CalledAt
    /\ ctl = "return" => Sem(tokens, Pending, CalledAt).far <= max
    /\ ctl # "stop" => err = NoError

\* MatchAll: what it returns, and the token its error is built from, are the
\* PEG's, whatever was memoized; and at every step in between the frames are
\* on the way there.
MatchAllIsSem ==
    TypeOK /\ StackOnTrack /\ HitNeverRaisesMax /\ FurthestIsSem /\ StatementsTile /\ ErrorIsSem

\* A cached outcome reached no further than the entry says.
EntryReach ==
    \A k \in DOMAIN packrat :
        /\ packrat[k].posAfter <= packrat[k].maxTokenSeen
        /\ Sem(tokens, k[1], k[2]).far <= packrat[k].maxTokenSeen

\* Everything that a step preserves together.
IInv ==
    /\ TypeOK
    /\ StackOnTrack
    /\ AnswersAreSem
    /\ CacheIsSound /\ HitNeverRaisesMax /\ EntryReach
    /\ StatementsTile
    /\ ErrorIsSem
=============================================================================
