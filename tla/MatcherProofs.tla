---------------------------- MODULE MatcherProofs ----------------------------
(***************************************************************************)
(* Proofs that the engine of Matcher, cache included, computes the meaning *)
(* of its PEG: for every grammar, every set of memoized matchers, every    *)
(* token stream and every solution Sem, Rest of the PEG equations.         *)
(***************************************************************************)
EXTENDS Matcher, TLAPS, SequenceTheorems

-----------------------------------------------------------------------------
(* Lemmas about grammars and results. *)

\* A composite has at least the loop index 1, and every loop index names a
\* child.
LEMMA IndexChild ==
    ASSUME NEW m \in Matchers, Kind[m] # "leaf"
    PROVE  /\ 1 \in Index(m)
           /\ Index(m) \subseteq Nat
           /\ \A i \in Index(m) : Child(m, i) \in Matchers
<1>1. Kind[m] \in Composite /\ Children[m] \in Seq(Matchers) /\ Len(Children[m]) \in Nat
  BY GrammarAssumption DEF Composite
<1>2. Len(Children[m]) >= 1
  BY <1>1, GrammarAssumption
<1>3. \A j \in 1..Len(Children[m]) : Children[m][j] \in Matchers
  BY <1>1
<1>4. Kind[m] = "optional" => Len(Children[m]) = 1
  BY GrammarAssumption
<1> QED
  BY <1>1, <1>2, <1>3, <1>4 DEF Index, Child, Composite

\* The child a frame waits for is the child of its loop index.
LEMMA ChildOfFrame ==
    ASSUME NEW f
    PROVE  ChildOf(f) = Child(f.m, f.i)
BY DEF ChildOf, Child

\* Results are sequences of decisions.
LEMMA ItemType ==
    ASSUME NEW m \in Matchers, NEW i \in Nat, NEW res \in Seq(Decision)
    PROVE  Item(m, i, res) \in Seq(Decision)
<1>1. <<<<m, i>>>> \in Seq(Decision)
  BY DEF Decision
<1> QED
  BY <1>1, ConcatProperties DEF Item

\* Concatenating results is associative.
LEMMA ResultsAssociative ==
    ASSUME NEW a \in Seq(Decision), NEW b \in Seq(Decision), NEW c \in Seq(Decision)
    PROVE  a \o (b \o c) = (a \o b) \o c
BY ConcatAssociative

-----------------------------------------------------------------------------
(* The PEG equations, one kind of matcher at a time. *)

LEMMA SemType ==
    ASSUME NEW t \in Inputs, NEW m \in Matchers, NEW p \in 0..Len(t)
    PROVE  /\ Sem(t, m, p) \in Outcome(t, p)
           /\ Sem(t, m, p).kind = "ok" => p <= Sem(t, m, p).end
           /\ Kind[m] # "leaf" => Sem(t, m, p) = Rest(t, m, 1, p)
BY PegAssumption

LEMMA RestType ==
    ASSUME NEW t \in Inputs, NEW m \in Matchers, NEW p \in 0..Len(t), Kind[m] # "leaf",
           NEW i \in Index(m)
    PROVE  /\ Rest(t, m, i, p) \in Outcome(t, p)
           /\ Rest(t, m, i, p) = CompositeRest(t, m, i, p, Sem(t, Child(m, i), p))
BY PegAssumption

\* The outcome of a leaf is its matchInternal's.
LEMMA LeafEquation ==
    ASSUME NEW t \in Inputs, NEW m \in Matchers, NEW p \in 0..Len(t), Kind[m] = "leaf"
    PROVE  /\ LeafMatch(t, m, p).kind \in {"ok", "fail", "abort"}
           /\ LeafMatch(t, m, p).kind = "ok" =>
                 /\ LeafMatch(t, m, p).end \in (p+1)..Len(t)
                 /\ Sem(t, m, p) = Ok(LeafMatch(t, m, p).end, LeafMatch(t, m, p).end, <<<<m, p>>>>)
           /\ LeafMatch(t, m, p).kind = "fail" => Sem(t, m, p) = Fail(p)
           /\ LeafMatch(t, m, p).kind = "abort" => Sem(t, m, p) = Abort(p)
<1>1. LeafMatch(t, m, p) \in LeafOutcome(t, p)
  BY InputAssumption
<1>2. Sem(t, m, p) = LeafSem(t, m, p)
  BY PegAssumption
<1>3. /\ LeafMatch(t, m, p).kind \in {"ok", "fail", "abort"}
      /\ LeafMatch(t, m, p).kind = "ok" => LeafMatch(t, m, p).end \in (p+1)..Len(t)
  BY <1>1 DEF LeafOutcome
<1> QED
  BY <1>2, <1>3 DEF LeafSem

\* A composite reaches at least as far as its child does, and does not
\* survive a panic of it.
LEMMA RestDominatesChild ==
    ASSUME NEW t \in Inputs, NEW m \in Matchers, NEW p \in 0..Len(t), Kind[m] # "leaf",
           NEW i \in Index(m)
    PROVE  /\ Sem(t, Child(m, i), p).far <= Rest(t, m, i, p).far
           /\ Sem(t, Child(m, i), p).kind = "abort" => Rest(t, m, i, p).kind = "abort"
<1> DEFINE o == Sem(t, Child(m, i), p)
           r == Rest(t, m, i, p)
<1>1. o \in Outcome(t, p) /\ o.far \in Int
  <2>1. o \in Outcome(t, p)
    BY IndexChild, SemType
  <2> QED
    BY <2>1 DEF Outcome
<1>2. r = CompositeRest(t, m, i, p, o) /\ r.far \in Int
  BY RestType DEF Outcome
<1>3. ASSUME NEW x PROVE Fail(x).far = x /\ Abort(x).far = x /\ Abort(x).kind = "abort"
  BY DEF Fail, Abort
<1>4. ASSUME NEW x, NEW y, NEW z PROVE Ok(x, y, z).far = y
  BY DEF Ok
<1>5. ASSUME NEW x PROVE Extend(m, i, o, x).far = Max2(o.far, x.far)
  BY DEF Extend
<1>6. ASSUME NEW q \in 0..Len(t), NEW j \in Index(m)
      PROVE  /\ Rest(t, m, j, q).far \in Int
             /\ Later(o, Rest(t, m, j, q)).far = Max2(o.far, Rest(t, m, j, q).far)
  <2>1. Rest(t, m, j, q) \in Outcome(t, q)
    BY RestType
  <2> QED
    BY <2>1 DEF Later, Outcome
<1>7. o.end \in 0..Len(t)
  BY <1>1 DEF Outcome
<1>8. \A a \in Int, b \in Int : a <= Max2(a, b)
  BY DEF Max2
<1>9. Kind[m] \in {"list", "choice"} /\ i # Len(Children[m]) => i + 1 \in Index(m)
  <2>1. Len(Children[m]) \in Nat
    BY GrammarAssumption
  <2> QED BY <2>1 DEF Index
<1>10. Kind[m] = "repeat" => 2 \in Index(m)
  BY DEF Index
<1>11. Kind[m] \in Composite
  BY GrammarAssumption DEF Composite
<1> QED
  <2>0. CASE o.kind = "abort"
    BY <2>0, <1>1, <1>2, <1>3 DEF CompositeRest
  <2>1. CASE o.kind # "abort" /\ Kind[m] = "list"
    BY <2>1, <1>1, <1>2, <1>3, <1>4, <1>5, <1>6, <1>7, <1>8, <1>9 DEF CompositeRest, ListRest
  <2>2. CASE o.kind # "abort" /\ Kind[m] = "choice"
    BY <2>2, <1>1, <1>2, <1>3, <1>4, <1>6, <1>8, <1>9 DEF CompositeRest, ChoiceRest
  <2>3. CASE o.kind # "abort" /\ Kind[m] = "optional"
    BY <2>3, <1>1, <1>2, <1>3, <1>4 DEF CompositeRest, OptionalRest
  <2>4. CASE o.kind # "abort" /\ Kind[m] = "repeat"
    BY <2>4, <1>1, <1>2, <1>3, <1>4, <1>5, <1>6, <1>7, <1>8, <1>10 DEF CompositeRest, RepeatRest
  <2> QED
    BY <2>0, <2>1, <2>2, <2>3, <2>4, <1>11 DEF Composite

-----------------------------------------------------------------------------
(* Storing an outcome of the PEG keeps the cache sound. *)

LEMMA StoreKeepsCache ==
    ASSUME TypeOK, CacheIsSound, EntriesWithinMax, EntryReach,
           NEW m \in Matchers, NEW start \in Positions, NEW ok \in BOOLEAN,
           NEW end \in Positions, NEW res \in Seq(Decision),
           Agrees(m, start, ok, end, res),
           Store(m, start, Entry(ok, end, max', res)),
           tokens' = tokens, max' \in Positions, max' >= max, end <= max',
           Sem(tokens, m, start).far <= max'
    PROVE  CacheType' /\ CacheIsSound' /\ EntriesWithinMax' /\ EntryReach' /\ CacheGrows
<1> DEFINE e == Entry(ok, end, max', res)
<1>1. e \in EntryType /\ EntryType' = EntryType /\ Positions' = Positions
  BY DEF Entry, EntryType, Positions
<1>2. max \in Int /\ max' \in Int
  BY DEF TypeOK, Positions
<1>3. CASE m \notin Memoized
  <2>1. packrat' = packrat
    BY <1>3 DEF Store
  <2>2. CacheType' /\ CacheIsSound' /\ EntryReach'
    BY <2>1, <1>1 DEF TypeOK, CacheType, CacheIsSound, Agrees, EntryReach
  <2>3. \A k \in DOMAIN packrat : packrat[k].maxTokenSeen \in Int
    BY DEF TypeOK, CacheType, EntryType, Positions
  <2>4. EntriesWithinMax'
    BY <2>1, <2>3, <1>2 DEF EntriesWithinMax
  <2> QED
    BY <2>1, <2>2, <2>4 DEF CacheGrows
<1>4. CASE m \in Memoized
  <2>1. /\ DOMAIN packrat' = DOMAIN packrat \cup {<<m, start>>}
        /\ \A k \in DOMAIN packrat' :
              packrat'[k] = IF k = <<m, start>> THEN e ELSE packrat[k]
    BY <1>4 DEF Store
  <2>2. CacheType'
    BY <2>1, <1>1, <1>4 DEF TypeOK, CacheType
  <2>3. e.success = ok /\ e.posAfter = end /\ e.result = res /\ e.maxTokenSeen = max'
    BY DEF Entry
  <2>4. CacheIsSound'
    BY <2>1, <2>3 DEF CacheIsSound, Agrees
  <2>5. \A k \in DOMAIN packrat : packrat[k].maxTokenSeen \in Int
    BY DEF TypeOK, CacheType, EntryType, Positions
  <2>6. EntriesWithinMax'
    BY <2>1, <2>3, <2>5, <1>2 DEF EntriesWithinMax
  <2>7. EntryReach'
    BY <2>1, <2>3 DEF EntryReach
  <2>8. CacheGrows
    <3>1. ASSUME <<m, start>> \in DOMAIN packrat
          PROVE  /\ packrat[<<m, start>>].success = ok
                 /\ packrat[<<m, start>>].posAfter = end
                 /\ packrat[<<m, start>>].result = res
      <4> DEFINE c == packrat[<<m, start>>]
      <4>1. Agrees(m, start, c.success, c.posAfter, c.result)
        BY <3>1 DEF CacheIsSound
      <4>2. c.success \in BOOLEAN
        BY <3>1 DEF TypeOK, CacheType, EntryType
      <4> QED
        BY <4>1, <4>2 DEF Agrees
    <3> QED
      BY <2>1, <2>3, <3>1 DEF CacheGrows
  <2> QED
    BY <2>2, <2>4, <2>6, <2>7, <2>8
<1> QED
  BY <1>3, <1>4

-----------------------------------------------------------------------------
(* Lemmas about the stack of frames. *)

\* Raising state.max takes no frame off its track.
LEMMA OnTrackMonotone ==
    ASSUME NEW t \in Inputs, NEW a \in Int, NEW b \in Int, a <= b, NEW f,
           Sem(t, f.m, f.start).far \in Int, FrameOnTrack(t, a, f)
    PROVE  FrameOnTrack(t, b, f)
<1> DEFINE far == Sem(t, f.m, f.start).far
<1>1. far <= a => far <= b
  OBVIOUS
<1> QED
  BY <1>1, Zenon DEF FrameOnTrack

\* The frame type says what the PEG equations need to know of a frame.
LEMMA FrameFacts ==
    ASSUME TypeOK, NEW k \in 1..Len(stack)
    PROVE  /\ stack[k] \in FrameType
           /\ stack[k].m \in Matchers /\ Kind[stack[k].m] # "leaf"
           /\ stack[k].i \in Index(stack[k].m)
           /\ stack[k].start \in Positions /\ stack[k].at \in Positions
           /\ stack[k].res \in Seq(Decision)
           /\ Sem(tokens, stack[k].m, stack[k].start) \in Outcome(tokens, stack[k].start)
           /\ Sem(tokens, stack[k].m, stack[k].start).far \in Int
           /\ ChildOf(stack[k]) \in Matchers
           /\ Sem(tokens, ChildOf(stack[k]), stack[k].at) \in Outcome(tokens, stack[k].at)
           /\ Sem(tokens, ChildOf(stack[k]), stack[k].at).far \in Int
<1>1. tokens \in Inputs /\ stack \in Seq(FrameType)
  BY DEF TypeOK
<1>2. Len(tokens) \in Nat
  BY <1>1, InputAssumption
<1>3. stack[k] \in FrameType /\ stack[k].i \in Index(stack[k].m)
  BY <1>1 DEF TypeOK
<1>4. /\ stack[k].m \in Matchers /\ Kind[stack[k].m] # "leaf"
      /\ stack[k].start \in 0..Len(tokens) /\ stack[k].at \in 0..Len(tokens)
      /\ stack[k].res \in Seq(Decision)
  BY <1>3 DEF FrameType, Positions
<1>5. ChildOf(stack[k]) \in Matchers
  BY <1>3, <1>4, IndexChild, ChildOfFrame
<1>6. Sem(tokens, stack[k].m, stack[k].start) \in Outcome(tokens, stack[k].start)
  BY <1>1, <1>4, SemType
<1>7. Sem(tokens, ChildOf(stack[k]), stack[k].at) \in Outcome(tokens, stack[k].at)
  BY <1>1, <1>4, <1>5, SemType
<1> QED
  BY <1>2, <1>3, <1>4, <1>5, <1>6, <1>7 DEF Positions, Outcome

\* The innermost frame, when there is one.
LEMMA TopFacts ==
    ASSUME TypeOK, stack # <<>>
    PROVE  /\ Len(stack) \in Nat /\ Len(stack) >= 1
           /\ Top = stack[Len(stack)] /\ Len(stack) \in 1..Len(stack)
           /\ Pending = ChildOf(Top) /\ CalledAt = Top.at
           /\ Pending = Child(Top.m, Top.i)
<1>1. stack \in Seq(FrameType)
  BY DEF TypeOK
<1>2. Len(stack) \in Nat /\ Len(stack) >= 1
  BY <1>1, EmptySeq
<1> QED
  BY <1>2, ChildOfFrame DEF Top, Pending, CalledAt

\* A sequence without its last element.
LEMMA PopProperties ==
    ASSUME NEW S, NEW s \in Seq(S), NEW n \in Nat, Len(s) = n + 1
    PROVE  /\ SubSeq(s, 1, n) \in Seq(S)
           /\ Len(SubSeq(s, 1, n)) = n
           /\ \A k \in 1..n : SubSeq(s, 1, n)[k] = s[k]
OBVIOUS

\* MatchAll's part of the invariant concerns no step inside a statement.
LEMMA LoopKeeps ==
    ASSUME StatementsTile, ErrorIsSem, Loop, Running'
    PROVE  StatementsTile' /\ ErrorIsSem'
BY DEF StatementsTile, ErrorIsSem, Loop, Running, Agrees, NoError

-----------------------------------------------------------------------------
(* A matcher answers, a frame leaves, a frame goes on: what each of these  *)
(* parts of an action needs in order to preserve the invariant.            *)

\* match() answers with the PEG's outcome, no frame having changed since the
\* call was made.
LEMMA AnswerStep ==
    ASSUME IInv, ctl = "call", NEW ok \in BOOLEAN, NEW end \in Positions,
           NEW reach \in Positions, NEW res \in Seq(Decision),
           Answer(Pending, pos, ok, end, reach, res), UNCHANGED stack, Loop,
           Agrees(Pending, pos, ok, end, res), Pending \in Matchers,
           max <= reach, end <= reach, Sem(tokens, Pending, pos).far <= reach,
           reach <= Sem(tokens, TopLevel, begin).far
    PROVE  IInv' /\ GrowStep
<1> USE DEF IInv
<1>1. /\ pos' = end /\ max' = reach /\ ctl' = "return" /\ ret' = [ok |-> ok, res |-> res]
      /\ tokens' = tokens /\ begin' = begin /\ results' = results /\ err' = err
      /\ stack' = stack
      /\ Store(Pending, pos, Entry(ok, end, max', res))
  BY DEF Answer, Loop
<1>2. /\ Positions' = Positions /\ FrameType' = FrameType /\ ResultType' = ResultType
      /\ ErrorType' = ErrorType
  BY <1>1 DEF Positions, FrameType, ResultType, ErrorType
<1>3. Pending' = Pending /\ CalledAt' = CalledAt /\ pos = CalledAt /\ pos \in Positions
  BY <1>1 DEF Pending, CalledAt, Top, ChildOf, StackOnTrack, TypeOK
<1>4. EntriesWithinMax
  BY DEF HitNeverRaisesMax, Running
<1>5. CacheType' /\ CacheIsSound' /\ EntriesWithinMax' /\ EntryReach' /\ CacheGrows
  <2>1. max' \in Positions /\ max' >= max /\ end <= max'
    BY <1>1 DEF TypeOK, Positions
  <2> QED
    BY <1>1, <1>3, <1>4, <2>1, StoreKeepsCache
<1>6. TypeOK'
  BY <1>1, <1>2, <1>5 DEF TypeOK
<1>7. AnswersAreSem'
  <2>1. Agrees(Pending, CalledAt, ok, end, res)
    BY <1>3
  <2> QED
    BY <2>1, <1>1, <1>3 DEF AnswersAreSem, Agrees
<1>8. StackOnTrack'
  <2>1. FramesOnTrack(tokens, max, begin, stack) /\ begin < Len(tokens)
    BY DEF StackOnTrack, Running
  <2>2. max \in Int /\ reach \in Int /\ tokens \in Inputs
    BY DEF TypeOK, Positions
  <2>3. FramesOnTrack(tokens, reach, begin, stack)
    <3> SUFFICES ASSUME NEW k \in 1..Len(stack)
                 PROVE  FrameOnTrack(tokens, reach, stack[k])
      BY <2>1 DEF FramesOnTrack
    <3> QED
      BY <2>1, <2>2, FrameFacts, OnTrackMonotone DEF FramesOnTrack
  <2>4. err = NoError
    BY DEF StackOnTrack
  <2> QED
    BY <1>1, <1>3, <2>1, <2>3, <2>4 DEF StackOnTrack, Running
<1>9. StatementsTile' /\ ErrorIsSem'
  BY <1>1, LoopKeeps DEF Running
<1>10. max' >= max
  BY <1>1 DEF TypeOK, Positions
<1> QED
  BY <1>5, <1>6, <1>7, <1>8, <1>9, <1>10 DEF HitNeverRaisesMax, GrowStep

\* The innermost frame leaves with the PEG's outcome of its matcher.
LEMMA LeaveStep ==
    ASSUME IInv, ctl = "return", stack # <<>>, NEW ok \in BOOLEAN, NEW end \in Positions,
           NEW res \in Seq(Decision), Leave(ok, end, res),
           Agrees(Top.m, Top.start, ok, end, res), end = pos \/ end = Top.start,
           Sem(tokens, Top.m, Top.start).far <= max
    PROVE  IInv' /\ GrowStep
<1> USE DEF IInv
<1> DEFINE n == Len(stack)
<1>1. /\ pos' = end /\ max' = max /\ ctl' = "return" /\ ret' = [ok |-> ok, res |-> res]
      /\ tokens' = tokens /\ begin' = begin /\ results' = results /\ err' = err
      /\ stack' = SubSeq(stack, 1, n - 1)
      /\ Store(Top.m, Top.start, Entry(ok, end, max', res))
  BY DEF Leave, Answer, Loop
<1>2. /\ Positions' = Positions /\ FrameType' = FrameType /\ ResultType' = ResultType
      /\ ErrorType' = ErrorType
  BY <1>1 DEF Positions, FrameType, ResultType, ErrorType
<1>3. n \in Nat /\ n >= 1 /\ Top = stack[n] /\ n \in 1..Len(stack)
  BY TopFacts
<1>4. Top.m \in Matchers /\ Top.start \in Positions
  BY <1>3, FrameFacts
<1> end <= max
  <2>1. Sem(tokens, Top.m, Top.start) \in Outcome(tokens, Top.start)
    BY <1>3, FrameFacts
  <2>2. Top.start <= Sem(tokens, Top.m, Top.start).far /\ Sem(tokens, Top.m, Top.start).far \in Int
    BY <1>4, <2>1 DEF Outcome, Positions
  <2>3. pos <= max /\ pos \in Int /\ max \in Int
    BY DEF StackOnTrack, Running, TypeOK, Positions
  <2>4. Top.start \in Int
    BY <1>4 DEF Positions
  <2> QED
    BY <2>2, <2>3, <2>4
<1>5. /\ stack' \in Seq(FrameType) /\ Len(stack') = n - 1
      /\ \A k \in 1..(n - 1) : stack'[k] = stack[k]
  <2>1. n - 1 \in Nat /\ Len(stack) = (n - 1) + 1 /\ stack \in Seq(FrameType)
    BY <1>3 DEF TypeOK
  <2> QED
    BY <1>1, <2>1, PopProperties
<1>6. CacheType' /\ CacheIsSound' /\ EntriesWithinMax' /\ EntryReach' /\ CacheGrows
  <2>1. EntriesWithinMax
    BY DEF HitNeverRaisesMax, Running
  <2>2. max' \in Positions /\ max' >= max /\ end <= max'
    BY <1>1 DEF TypeOK, Positions
  <2> QED
    BY <1>1, <1>4, <2>1, <2>2, StoreKeepsCache
<1>7. TypeOK'
  BY <1>1, <1>2, <1>3, <1>5, <1>6 DEF TypeOK
<1>8. FramesOnTrack(tokens, max, begin, stack) /\ begin < Len(tokens)
  BY DEF StackOnTrack, Running
<1>9. Pending' = Top.m /\ CalledAt' = Top.start
  <2>1. CalledBy(stack, begin, n)
    BY <1>3, <1>8 DEF FramesOnTrack
  <2>2. CASE n = 1
    <3>1. stack' = <<>>
      BY <1>5, <2>2, EmptySeq
    <3> QED
      BY <1>1, <1>3, <2>1, <2>2, <3>1 DEF CalledBy, Pending, CalledAt
  <2>3. CASE n # 1
    <3>1. stack' # <<>> /\ Top' = stack[n - 1]
      BY <1>3, <1>5, <2>3, EmptySeq DEF Top
    <3> QED
      BY <1>3, <2>1, <2>3, <3>1 DEF CalledBy, Pending, CalledAt, ChildOf
  <2> QED
    BY <2>2, <2>3
<1>10. AnswersAreSem'
  BY <1>1, <1>9 DEF AnswersAreSem, Agrees
<1>11. StackOnTrack'
  <2>1. FramesOnTrack(tokens, max, begin, stack')
    <3> SUFFICES ASSUME NEW k \in 1..(n - 1)
                 PROVE  /\ FrameOnTrack(tokens, max, stack'[k])
                        /\ CalledBy(stack', begin, k)
                        /\ WithinStatement(tokens, begin, stack'[k].m, stack'[k].start)
      BY <1>5 DEF FramesOnTrack
    <3>1. k \in 1..n /\ stack'[k] = stack[k] /\ stack'[1] = stack[1]
      BY <1>3, <1>5
    <3>2. k # 1 => stack'[k - 1] = stack[k - 1]
      BY <1>3, <1>5
    <3> QED
      BY <1>8, <3>1, <3>2 DEF FramesOnTrack, CalledBy
  <2>2. err = NoError
    BY DEF StackOnTrack
  <2>3. max <= Sem(tokens, TopLevel, begin).far
    BY DEF StackOnTrack, Running
  <2> QED
    BY <1>1, <1>8, <1>9, <2>1, <2>2, <2>3 DEF StackOnTrack, Running
<1>12. StatementsTile' /\ ErrorIsSem'
  BY <1>1, LoopKeeps DEF Running, Leave
<1>13. max' >= max
  BY <1>1 DEF TypeOK, Positions
<1> QED
  BY <1>6, <1>7, <1>10, <1>11, <1>12, <1>13 DEF HitNeverRaisesMax, GrowStep

\* The innermost frame, still on its track, goes on with another child.
LEMMA CallNextStep ==
    ASSUME IInv, ctl = "return", stack # <<>>, NEW i \in Index(Top.m),
           NEW res \in Seq(Decision), CallNext(i, res),
           FrameOnTrack(tokens, max, [m |-> Top.m, start |-> Top.start, i |-> i, at |-> pos,
                                      res |-> res])
    PROVE  IInv' /\ GrowStep
<1> USE DEF IInv
<1> DEFINE n == Len(stack)
           f == [m |-> Top.m, start |-> Top.start, i |-> i, at |-> pos, res |-> res]
<1>1. /\ pos' = pos /\ max' = max /\ ctl' = "call" /\ ret' = ret /\ packrat' = packrat
      /\ tokens' = tokens /\ begin' = begin /\ results' = results /\ err' = err
      /\ stack' = [stack EXCEPT ![n] = f]
  BY DEF CallNext, Loop
<1>2. /\ Positions' = Positions /\ FrameType' = FrameType /\ ResultType' = ResultType
      /\ ErrorType' = ErrorType /\ CacheType' = CacheType
  BY <1>1 DEF Positions, FrameType, ResultType, ErrorType, CacheType, EntryType
<1>3. n \in Nat /\ n >= 1 /\ Top = stack[n] /\ n \in 1..Len(stack)
  BY TopFacts
<1>4. Top \in FrameType /\ Top.m \in Matchers /\ Kind[Top.m] # "leaf" /\ Top.start \in Positions
  BY <1>3, FrameFacts
<1>5. f \in FrameType
  <2>1. i \in Nat /\ pos \in Positions
    BY <1>4, IndexChild DEF TypeOK
  <2> QED
    BY <2>1, <1>4 DEF FrameType
<1>6. /\ stack' \in Seq(FrameType) /\ Len(stack') = n /\ stack'[n] = f
      /\ \A k \in 1..n : k # n => stack'[k] = stack[k]
  BY <1>1, <1>3, <1>5, ExceptSeq DEF TypeOK
<1>7. TypeOK'
  <2>1. ASSUME NEW k \in 1..n PROVE stack'[k].i \in Index(stack'[k].m)
    <3>1. CASE k = n
      <4>1. stack'[k].i = i /\ stack'[k].m = Top.m
        BY <1>6, <3>1
      <4> QED
        BY <4>1
    <3>2. CASE k # n
      BY <1>6, <3>2 DEF TypeOK
    <3> QED
      BY <3>1, <3>2
  <2> QED
    BY <1>1, <1>2, <1>6, <2>1 DEF TypeOK
<1>8. FramesOnTrack(tokens, max, begin, stack) /\ begin < Len(tokens) /\ pos <= max
  BY DEF StackOnTrack, Running
<1>9. FramesOnTrack(tokens, max, begin, stack')
  <2> SUFFICES ASSUME NEW k \in 1..n
               PROVE  /\ FrameOnTrack(tokens, max, stack'[k])
                      /\ CalledBy(stack', begin, k)
                      /\ WithinStatement(tokens, begin, stack'[k].m, stack'[k].start)
    BY <1>6 DEF FramesOnTrack
  <2>1. stack'[k].m = stack[k].m /\ stack'[k].start = stack[k].start
    BY <1>3, <1>6
  <2>2. stack'[1].m = stack[1].m /\ stack'[1].start = stack[1].start
    BY <1>3, <1>6
  <2>3. k # 1 => stack'[k - 1] = stack[k - 1]
    BY <1>3, <1>6
  <2>4. CalledBy(stack', begin, k)
    BY <1>8, <2>1, <2>2, <2>3 DEF FramesOnTrack, CalledBy
  <2>5. FrameOnTrack(tokens, max, stack'[k])
    BY <1>6, <1>8 DEF FramesOnTrack
  <2> QED
    BY <1>8, <2>1, <2>4, <2>5 DEF FramesOnTrack
<1>10. stack' # <<>> /\ Top' = f
  BY <1>3, <1>6, EmptySeq DEF Top
<1>11. CalledAt' = pos
  BY <1>10 DEF CalledAt
<1>12. StackOnTrack'
  BY <1>1, <1>8, <1>9, <1>11 DEF StackOnTrack, Running
<1>13. CacheIsSound' /\ EntriesWithinMax' /\ EntryReach' /\ CacheGrows
  BY <1>1 DEF CacheIsSound, Agrees, EntriesWithinMax, EntryReach, CacheGrows,
              HitNeverRaisesMax, Running
<1>14. StatementsTile' /\ ErrorIsSem'
  BY <1>1, LoopKeeps DEF Running, Loop
<1>15. max' >= max
  BY <1>1 DEF TypeOK, Positions
<1> QED
  BY <1>1, <1>7, <1>12, <1>13, <1>14, <1>15 DEF HitNeverRaisesMax, GrowStep, AnswersAreSem

\* What holds of the outstanding call when it is about to be made.
LEMMA PendingFacts ==
    ASSUME IInv, Running
    PROVE  /\ Pending \in Matchers
           /\ CalledAt \in Positions
           /\ WithinStatement(tokens, begin, Pending, CalledAt)
           /\ Sem(tokens, Pending, CalledAt) \in Outcome(tokens, CalledAt)
           /\ Sem(tokens, Pending, CalledAt).far \in Int
<1> USE DEF IInv
<1>1. tokens \in Inputs /\ Len(tokens) \in Nat /\ begin \in Positions /\ TopLevel \in Matchers
  BY InputAssumption, GrammarAssumption DEF TypeOK
<1>2. Sem(tokens, TopLevel, begin) \in Outcome(tokens, begin)
  BY <1>1, SemType DEF Positions
<1>3. Sem(tokens, TopLevel, begin).far \in Int
  BY <1>1, <1>2 DEF Outcome, Positions
<1>4. CASE stack = <<>>
  BY <1>1, <1>2, <1>3, <1>4 DEF Pending, CalledAt, WithinStatement
<1>5. CASE stack # <<>>
  <2> DEFINE n == Len(stack)
  <2>1. n \in 1..Len(stack) /\ Top = stack[n] /\ Pending = ChildOf(Top) /\ CalledAt = Top.at
    BY <1>5, TopFacts
  <2>2. /\ Pending \in Matchers /\ Pending = Child(Top.m, Top.i) /\ CalledAt \in Positions
        /\ Top.m \in Matchers /\ Kind[Top.m] # "leaf" /\ Top.i \in Index(Top.m)
        /\ Sem(tokens, Pending, CalledAt) \in Outcome(tokens, CalledAt)
        /\ Sem(tokens, Pending, CalledAt).far \in Int
        /\ Sem(tokens, Top.m, Top.start).far \in Int
    BY <2>1, FrameFacts, ChildOfFrame
  <2>3. FrameOnTrack(tokens, max, Top) /\ WithinStatement(tokens, begin, Top.m, Top.start)
    BY <2>1 DEF StackOnTrack, Running, FramesOnTrack
  <2> DEFINE o == Sem(tokens, Pending, CalledAt)
             r == Rest(tokens, Top.m, Top.i, CalledAt)
  <2>4. o.far <= r.far /\ (o.kind = "abort" => r.kind = "abort")
    BY <1>1, <2>2, RestDominatesChild DEF Positions
  <2>5. r.far \in Int
    <3>1. r \in Outcome(tokens, CalledAt)
      BY <1>1, <2>2, RestType DEF Positions
    <3> QED
      BY <3>1, <2>2 DEF Outcome, Positions
  <2>6. r.far <= Sem(tokens, Top.m, Top.start).far /\ r.kind = Sem(tokens, Top.m, Top.start).kind
    BY <2>1, <2>3 DEF FrameOnTrack
  <2>7. WithinStatement(tokens, begin, Pending, CalledAt)
    BY <1>3, <2>2, <2>3, <2>4, <2>5, <2>6 DEF WithinStatement
  <2> QED
    BY <2>2, <2>7
<1> QED
  BY <1>4, <1>5

-----------------------------------------------------------------------------
(* The reactions of a frame to its child's answer. *)

\* A child succeeded and there is more of the frame to match.
LEMMA ExtendOnTrack ==
    ASSUME NEW t, NEW reach \in Int, NEW f, NEW o, NEW j, NEW q,
           FrameOnTrack(t, reach, f),
           f.m \in Matchers, f.i \in Nat, f.res \in Seq(Decision),
           Kind[f.m] \in {"list", "repeat"}, j # 1,
           o.res \in Seq(Decision), o.far \in Int, o.far <= reach,
           Rest(t, f.m, j, q).res \in Seq(Decision), Rest(t, f.m, j, q).far \in Int,
           Sem(t, f.m, f.start).far \in Int,
           Rest(t, f.m, f.i, f.at) = Extend(f.m, f.i, o, Rest(t, f.m, j, q))
    PROVE  FrameOnTrack(t, reach, [m |-> f.m, start |-> f.start, i |-> j, at |-> q,
                                   res |-> f.res \o Item(f.m, f.i, o.res)])
<1> DEFINE s == Sem(t, f.m, f.start)
           r == Rest(t, f.m, f.i, f.at)
           x == Rest(t, f.m, j, q)
           item == Item(f.m, f.i, o.res)
<1>1. /\ r.kind = x.kind /\ r.end = x.end /\ r.far = Max2(o.far, x.far)
      /\ x.kind = "ok" => r.res = item \o x.res
  <2> DEFINE y == IF x.kind = "ok" THEN item \o x.res ELSE <<>>
  <2>1. r = [kind |-> x.kind, end |-> x.end, far |-> Max2(o.far, x.far), res |-> y]
    BY Zenon DEF Extend
  <2>2. x.kind = "ok" => y = item \o x.res
    OBVIOUS
  <2> HIDE DEF y, x, r, item
  <2>3. r.kind = x.kind /\ r.end = x.end /\ r.far = Max2(o.far, x.far) /\ r.res = y
    BY <2>1
  <2> QED
    BY <2>2, <2>3, Zenon
<1>2. item \in Seq(Decision)
  BY ItemType
<1>3. f.res \o (item \o x.res) = (f.res \o item) \o x.res
  <2> HIDE DEF item, x
  <2>1. x.res \in Seq(Decision)
    BY DEF x
  <2> QED
    BY <1>2, <2>1, ResultsAssociative, Zenon
<1>4. /\ s.kind = r.kind /\ r.far <= s.far /\ (s.far <= reach \/ s.far = r.far)
      /\ s.kind = "ok" => s.end = r.end /\ s.res = f.res \o r.res
  BY Zenon DEF FrameOnTrack
<1>5. s.kind = x.kind /\ (s.kind = "ok" => s.end = x.end /\ s.res = (f.res \o item) \o x.res)
  BY <1>1, <1>3, <1>4
<1>6. x.far <= s.far /\ (s.far <= reach \/ s.far = x.far)
  BY <1>1, <1>4 DEF Max2
<1> DEFINE g == [m |-> f.m, start |-> f.start, i |-> j, at |-> q, res |-> f.res \o item]
<1>7. g.m = f.m /\ g.start = f.start /\ g.i = j /\ g.at = q /\ g.res = f.res \o item
  OBVIOUS
<1>8. Kind[f.m] \notin {"choice", "optional"}
  OBVIOUS
<1> HIDE DEF g
<1>9. FrameOnTrack(t, reach, g)
  BY <1>5, <1>6, <1>7, <1>8, Zenon DEF FrameOnTrack
<1> QED
  BY <1>9 DEF g

\* What is known when a frame gets an answer.
LEMMA ReturnFacts ==
    ASSUME IInv, ctl = "return", stack # <<>>
    PROVE  LET o == Sem(tokens, Child(Top.m, Top.i), Top.at)
               r == Rest(tokens, Top.m, Top.i, Top.at)
               s == Sem(tokens, Top.m, Top.start)
           IN  /\ tokens \in Inputs /\ Len(tokens) \in Nat
               /\ Top.m \in Matchers /\ Kind[Top.m] \in Composite /\ Kind[Top.m] # "leaf"
               /\ Top.i \in Index(Top.m) /\ Top.i \in Nat
               /\ Top.at \in Positions /\ Top.start \in Positions /\ pos \in Positions
               /\ Top.res \in Seq(Decision) /\ ret.res \in Seq(Decision)
               /\ Collected \in Seq(Decision)
               /\ max \in Int /\ o.far \in Int /\ o.far <= max /\ s.far \in Int /\ r.far \in Int
               /\ o.end \in Positions /\ o.res \in Seq(Decision)
               /\ ret.ok \in BOOLEAN
               /\ ret.ok => o.kind = "ok" /\ pos = o.end /\ ret.res = o.res
               /\ ~ret.ok => o.kind = "fail" /\ pos = Top.at
               /\ r = CompositeRest(tokens, Top.m, Top.i, Top.at, o)
               /\ FrameOnTrack(tokens, max, Top)
<1> USE DEF IInv
<1> DEFINE n == Len(stack)
           o == Sem(tokens, Child(Top.m, Top.i), Top.at)
           r == Rest(tokens, Top.m, Top.i, Top.at)
<1>1. /\ n \in 1..Len(stack) /\ Top = stack[n] /\ Pending = Child(Top.m, Top.i)
      /\ CalledAt = Top.at /\ Pending = ChildOf(Top)
  BY TopFacts
<1>2. /\ tokens \in Inputs /\ Len(tokens) \in Nat /\ pos \in Positions /\ max \in Int
      /\ ret.res \in Seq(Decision) /\ ret.ok \in BOOLEAN
  BY InputAssumption DEF TypeOK, Positions
<1>3. /\ Top.m \in Matchers /\ Kind[Top.m] # "leaf" /\ Top.i \in Index(Top.m)
      /\ Top.at \in Positions /\ Top.start \in Positions /\ Top.res \in Seq(Decision)
      /\ o \in Outcome(tokens, Top.at) /\ o.far \in Int
      /\ Sem(tokens, Top.m, Top.start).far \in Int
  BY <1>1, FrameFacts
<1>4. Top.i \in Nat /\ Kind[Top.m] \in Composite
  BY <1>3, IndexChild, GrammarAssumption DEF Composite
<1>5. o.far <= max /\ Agrees(Pending, Top.at, ret.ok, pos, ret.res)
  BY <1>1 DEF StackOnTrack, AnswersAreSem
<1>6. /\ ret.ok => o.kind = "ok" /\ pos = o.end /\ ret.res = o.res
      /\ ~ret.ok => o.kind = "fail" /\ pos = Top.at
  BY <1>1, <1>2, <1>5 DEF Agrees
<1>7. r \in Outcome(tokens, Top.at) /\ r = CompositeRest(tokens, Top.m, Top.i, Top.at, o)
  BY <1>2, <1>3, RestType DEF Positions
<1>8. r.far \in Int /\ o.end \in Positions /\ o.res \in Seq(Decision)
  BY <1>2, <1>3, <1>7 DEF Outcome, Positions
<1>9. Collected \in Seq(Decision)
  BY <1>2, <1>3, <1>4, ItemType, ConcatProperties DEF Collected
<1>10. FrameOnTrack(tokens, max, Top)
  BY <1>1 DEF StackOnTrack, Running, FramesOnTrack
<1> QED
  BY <1>2, <1>3, <1>4, <1>5, <1>6, <1>7, <1>8, <1>9, <1>10

\* A frame whose rest has succeeded leaves with the outcome of its matcher.
LEMMA SucceedOnTrack ==
    ASSUME IInv, ctl = "return", stack # <<>>, NEW end, NEW res,
           Rest(tokens, Top.m, Top.i, Top.at) =
               Ok(end, Sem(tokens, Child(Top.m, Top.i), Top.at).far, res)
    PROVE  /\ Agrees(Top.m, Top.start, TRUE, end, Top.res \o res)
           /\ Sem(tokens, Top.m, Top.start).far <= max
<1> DEFINE o == Sem(tokens, Child(Top.m, Top.i), Top.at)
           r == Rest(tokens, Top.m, Top.i, Top.at)
           s == Sem(tokens, Top.m, Top.start)
<1>1. o.far \in Int /\ o.far <= max /\ max \in Int /\ s.far \in Int
  BY ReturnFacts
<1>2. FrameOnTrack(tokens, max, Top)
  BY ReturnFacts
<1>3. r.kind = "ok" /\ r.end = end /\ r.far = o.far /\ r.res = res
  BY DEF Ok
<1>4. /\ s.kind = r.kind /\ (s.far <= max \/ s.far = r.far)
      /\ s.kind = "ok" => s.end = r.end /\ s.res = Top.res \o r.res
  BY <1>2, Zenon DEF FrameOnTrack
<1>5. s.far <= max
  BY <1>1, <1>3, <1>4
<1> QED
  BY <1>3, <1>4, <1>5, Zenon DEF Agrees

\* A frame whose rest has failed leaves with the failure of its matcher.
LEMMA FailOnTrack ==
    ASSUME IInv, ctl = "return", stack # <<>>,
           Rest(tokens, Top.m, Top.i, Top.at) =
               Fail(Sem(tokens, Child(Top.m, Top.i), Top.at).far)
    PROVE  /\ Agrees(Top.m, Top.start, FALSE, Top.start, <<>>)
           /\ Sem(tokens, Top.m, Top.start).far <= max
<1> DEFINE o == Sem(tokens, Child(Top.m, Top.i), Top.at)
           r == Rest(tokens, Top.m, Top.i, Top.at)
           s == Sem(tokens, Top.m, Top.start)
<1>1. o.far \in Int /\ o.far <= max /\ max \in Int /\ s.far \in Int
  BY ReturnFacts
<1>2. FrameOnTrack(tokens, max, Top)
  BY ReturnFacts
<1>3. r.kind = "fail" /\ r.far = o.far
  BY DEF Fail
<1>4. s.kind = r.kind /\ (s.far <= max \/ s.far = r.far)
  BY <1>2, Zenon DEF FrameOnTrack
<1>5. s.far <= max
  BY <1>1, <1>3, <1>4
<1> QED
  BY <1>3, <1>4, <1>5, Zenon DEF Agrees

\* listMatcher.
LEMMA ListStep ==
    ASSUME IInv, ListNext \/ ListSucceed \/ ListFail
    PROVE  IInv' /\ GrowStep
<1> DEFINE o == Sem(tokens, Child(Top.m, Top.i), Top.at)
           r == Rest(tokens, Top.m, Top.i, Top.at)
<1>1. ctl = "return" /\ stack # <<>> /\ Kind[Top.m] = "list"
  BY DEF ListNext, ListSucceed, ListFail, InFrame
<1>2. o.kind # "abort" => r = ListRest(tokens, Top.m, Top.i, Top.at, o)
  BY <1>1, ReturnFacts DEF CompositeRest
<1>3. CASE ListNext
  <2>1. ret.ok /\ Top.i # Len(Children[Top.m]) /\ CallNext(Top.i + 1, Collected)
    BY <1>3 DEF ListNext, InFrame, LastChild
  <2>2. o.kind = "ok" /\ pos = o.end /\ Collected = Top.res \o Item(Top.m, Top.i, o.res)
    BY <1>1, <2>1, ReturnFacts DEF Collected
  <2>3. Top.i + 1 \in Index(Top.m) /\ Top.i + 1 # 1
    <3>1. Top.m \in Matchers /\ Top.i \in Index(Top.m)
      BY <1>1, ReturnFacts
    <3>2. Len(Children[Top.m]) \in Nat
      BY <3>1, GrammarAssumption
    <3> QED
      BY <1>1, <2>1, <3>1, <3>2 DEF Index
  <2>4. r = Extend(Top.m, Top.i, o, Rest(tokens, Top.m, Top.i + 1, pos))
    BY <1>2, <2>1, <2>2 DEF ListRest
  <2>5. /\ Rest(tokens, Top.m, Top.i + 1, pos).res \in Seq(Decision)
        /\ Rest(tokens, Top.m, Top.i + 1, pos).far \in Int
    <3>1. Rest(tokens, Top.m, Top.i + 1, pos) \in Outcome(tokens, pos)
      BY <1>1, <2>3, ReturnFacts, RestType DEF Positions
    <3> QED
      BY <1>1, <3>1, ReturnFacts DEF Positions, Outcome
  <2>6. FrameOnTrack(tokens, max, [m |-> Top.m, start |-> Top.start, i |-> Top.i + 1,
                                   at |-> pos, res |-> Collected])
    BY <1>1, <2>2, <2>3, <2>4, <2>5, ReturnFacts, ExtendOnTrack
  <2> QED
    BY <1>1, <2>1, <2>3, <2>6, ReturnFacts, CallNextStep
<1>4. CASE ListSucceed
  <2>1. ret.ok /\ Top.i = Len(Children[Top.m]) /\ Leave(TRUE, pos, Collected)
    BY <1>4 DEF ListSucceed, InFrame, LastChild
  <2>2. o.kind = "ok" /\ pos = o.end /\ Collected = Top.res \o Item(Top.m, Top.i, o.res)
    BY <1>1, <2>1, ReturnFacts DEF Collected
  <2>3. r = Ok(pos, o.far, Item(Top.m, Top.i, o.res))
    BY <1>2, <2>1, <2>2 DEF ListRest
  <2>4. Agrees(Top.m, Top.start, TRUE, pos, Collected) /\ Sem(tokens, Top.m, Top.start).far <= max
    BY <1>1, <2>2, <2>3, SucceedOnTrack
  <2> QED
    BY <1>1, <2>1, <2>4, ReturnFacts, LeaveStep
<1>5. CASE ListFail
  <2>1. ~ret.ok /\ Leave(FALSE, Top.start, <<>>)
    BY <1>5 DEF ListFail, InFrame
  <2>2. o.kind = "fail"
    BY <1>1, <2>1, ReturnFacts
  <2>3. r = Fail(o.far)
    BY <1>2, <2>2 DEF ListRest
  <2>4. Agrees(Top.m, Top.start, FALSE, Top.start, <<>>) /\ Sem(tokens, Top.m, Top.start).far <= max
    BY <1>1, <2>3, FailOnTrack
  <2>5. <<>> \in Seq(Decision)
    OBVIOUS
  <2> QED
    BY <1>1, <2>1, <2>4, <2>5, ReturnFacts, LeaveStep
<1> QED
  BY <1>3, <1>4, <1>5

\* A frame that has collected nothing is still where it started.
LEMMA FreshFrame ==
    ASSUME IInv, ctl = "return", stack # <<>>,
           \/ Kind[Top.m] \in {"choice", "optional"}
           \/ Kind[Top.m] = "repeat" /\ Top.i = 1
    PROVE  Top.res = <<>> /\ Top.at = Top.start
BY ReturnFacts, Zenon DEF FrameOnTrack

\* choiceMatcher.
LEMMA ChoiceStep ==
    ASSUME IInv, ChoiceNext \/ ChoiceSucceed \/ ChoiceFail
    PROVE  IInv' /\ GrowStep
<1> DEFINE o == Sem(tokens, Child(Top.m, Top.i), Top.at)
           r == Rest(tokens, Top.m, Top.i, Top.at)
           s == Sem(tokens, Top.m, Top.start)
<1>1. ctl = "return" /\ stack # <<>> /\ Kind[Top.m] = "choice"
  BY DEF ChoiceNext, ChoiceSucceed, ChoiceFail, InFrame
<1>2. o.kind # "abort" => r = ChoiceRest(tokens, Top.m, Top.i, Top.at, o)
  BY <1>1, ReturnFacts DEF CompositeRest
<1>3. Top.res = <<>> /\ Top.at = Top.start
  BY <1>1, FreshFrame
<1>4. CASE ChoiceNext
  <2>1. ~ret.ok /\ Top.i # Len(Children[Top.m]) /\ CallNext(Top.i + 1, <<>>)
    BY <1>4 DEF ChoiceNext, InFrame, LastChild
  <2>2. o.kind = "fail" /\ pos = Top.at
    BY <1>1, <2>1, ReturnFacts
  <2>3. Top.i + 1 \in Index(Top.m)
    <3>1. Top.m \in Matchers /\ Top.i \in Index(Top.m)
      BY <1>1, ReturnFacts
    <3>2. Len(Children[Top.m]) \in Nat
      BY <3>1, GrammarAssumption
    <3> QED
      BY <1>1, <2>1, <3>1, <3>2 DEF Index
  <2> DEFINE x == Rest(tokens, Top.m, Top.i + 1, pos)
             g == [m |-> Top.m, start |-> Top.start, i |-> Top.i + 1, at |-> pos, res |-> <<>>]
  <2>4. r = Later(o, x)
    BY <1>2, <2>1, <2>2 DEF ChoiceRest
  <2>5. r.kind = x.kind /\ r.end = x.end /\ r.res = x.res /\ r.far = Max2(o.far, x.far)
    BY <2>4 DEF Later
  <2>6. x \in Outcome(tokens, pos)
    BY <1>1, <2>3, ReturnFacts, RestType DEF Positions
  <2>7. x.far \in Int /\ x.res \in Seq(Decision)
    BY <1>1, <2>6, ReturnFacts DEF Positions, Outcome
  <2>8. /\ s.kind = r.kind /\ r.far <= s.far /\ (s.far <= max \/ s.far = r.far)
        /\ s.kind = "ok" => s.end = r.end /\ s.res = <<>> \o r.res
    BY <1>1, <1>3, ReturnFacts, Zenon DEF FrameOnTrack
  <2>9. x.far <= s.far /\ (s.far <= max \/ s.far = x.far)
    BY <1>1, <2>5, <2>7, <2>8, ReturnFacts DEF Max2
  <2>10. /\ g.m = Top.m /\ g.start = Top.start /\ g.i = Top.i + 1 /\ g.at = pos /\ g.res = <<>>
    OBVIOUS
  <2>11. Kind[Top.m] # "repeat"
    BY <1>1
  <2> HIDE DEF g
  <2>12. FrameOnTrack(tokens, max, g)
    BY <1>3, <2>2, <2>5, <2>8, <2>9, <2>10, <2>11, Zenon DEF FrameOnTrack
  <2>13. <<>> \in Seq(Decision)
    OBVIOUS
  <2> QED
    BY <1>1, <2>1, <2>3, <2>12, <2>13, CallNextStep DEF g
<1>5. CASE ChoiceSucceed
  <2>1. ret.ok /\ Leave(TRUE, pos, Collected)
    BY <1>5 DEF ChoiceSucceed, InFrame
  <2>2. o.kind = "ok" /\ pos = o.end /\ Collected = Top.res \o Item(Top.m, Top.i, o.res)
    BY <1>1, <2>1, ReturnFacts DEF Collected
  <2>3. r = Ok(pos, o.far, Item(Top.m, Top.i, o.res))
    BY <1>2, <2>2 DEF ChoiceRest
  <2>4. Agrees(Top.m, Top.start, TRUE, pos, Collected) /\ s.far <= max
    BY <1>1, <2>2, <2>3, SucceedOnTrack
  <2> QED
    BY <1>1, <2>1, <2>4, ReturnFacts, LeaveStep
<1>6. CASE ChoiceFail
  <2>1. ~ret.ok /\ Top.i = Len(Children[Top.m]) /\ Leave(FALSE, pos, <<>>)
    BY <1>6 DEF ChoiceFail, InFrame, LastChild
  <2>2. o.kind = "fail" /\ pos = Top.start
    BY <1>1, <1>3, <2>1, ReturnFacts
  <2>3. r = Fail(o.far)
    BY <1>2, <2>1, <2>2 DEF ChoiceRest
  <2>4. Agrees(Top.m, Top.start, FALSE, pos, <<>>) /\ s.far <= max
    BY <1>1, <2>2, <2>3, FailOnTrack
  <2>5. <<>> \in Seq(Decision)
    OBVIOUS
  <2> QED
    BY <1>1, <2>1, <2>4, <2>5, ReturnFacts, LeaveStep
<1> QED
  BY <1>4, <1>5, <1>6

\* optionalMatcher.
LEMMA OptionalStep ==
    ASSUME IInv, OptionalPresent \/ OptionalAbsent
    PROVE  IInv' /\ GrowStep
<1> DEFINE o == Sem(tokens, Child(Top.m, Top.i), Top.at)
           r == Rest(tokens, Top.m, Top.i, Top.at)
           s == Sem(tokens, Top.m, Top.start)
<1>1. ctl = "return" /\ stack # <<>> /\ Kind[Top.m] = "optional"
  BY DEF OptionalPresent, OptionalAbsent, InFrame
<1>2. o.kind # "abort" => r = OptionalRest(tokens, Top.m, Top.i, Top.at, o)
  BY <1>1, ReturnFacts DEF CompositeRest
<1>3. Top.res = <<>> /\ Top.at = Top.start
  BY <1>1, FreshFrame
<1>4. CASE OptionalPresent
  <2>1. ret.ok /\ Leave(TRUE, pos, Collected)
    BY <1>4 DEF OptionalPresent, InFrame
  <2>2. o.kind = "ok" /\ pos = o.end /\ Collected = Top.res \o Item(Top.m, Top.i, o.res)
    BY <1>1, <2>1, ReturnFacts DEF Collected
  <2>3. r = Ok(pos, o.far, Item(Top.m, Top.i, o.res))
    BY <1>2, <2>2 DEF OptionalRest
  <2>4. Agrees(Top.m, Top.start, TRUE, pos, Collected) /\ s.far <= max
    BY <1>1, <2>2, <2>3, SucceedOnTrack
  <2> QED
    BY <1>1, <2>1, <2>4, ReturnFacts, LeaveStep
<1>5. CASE OptionalAbsent
  <2> DEFINE item == Item(Top.m, 0, <<>>)
  <2>1. ~ret.ok /\ Leave(TRUE, pos, item)
    BY <1>5 DEF OptionalAbsent, InFrame
  <2>2. o.kind = "fail" /\ pos = Top.at
    BY <1>1, <2>1, ReturnFacts
  <2>3. r = Ok(pos, o.far, item)
    BY <1>2, <2>2 DEF OptionalRest
  <2>4. item \in Seq(Decision)
    <3>1. Top.m \in Matchers
      BY <1>1, ReturnFacts
    <3>2. 0 \in Nat /\ <<>> \in Seq(Decision)
      OBVIOUS
    <3> QED
      BY <3>1, <3>2, ItemType
  <2>5. Top.res \o item = item
    BY <1>3, <2>4, ConcatEmptySeq
  <2> HIDE DEF item
  <2>6. Agrees(Top.m, Top.start, TRUE, pos, item) /\ s.far <= max
    BY <1>1, <2>3, <2>5, SucceedOnTrack
  <2> QED
    BY <1>1, <2>1, <2>4, <2>6, ReturnFacts, LeaveStep
<1> QED
  BY <1>4, <1>5

\* repeatMatcher.
LEMMA RepeatStep ==
    ASSUME IInv, RepeatNext \/ RepeatSucceed \/ RepeatFail
    PROVE  IInv' /\ GrowStep
<1> DEFINE o == Sem(tokens, Child(Top.m, Top.i), Top.at)
           r == Rest(tokens, Top.m, Top.i, Top.at)
           s == Sem(tokens, Top.m, Top.start)
<1>1. ctl = "return" /\ stack # <<>> /\ Kind[Top.m] = "repeat"
  BY DEF RepeatNext, RepeatSucceed, RepeatFail, InFrame
<1>2. o.kind # "abort" => r = RepeatRest(tokens, Top.m, Top.i, Top.at, o)
  BY <1>1, ReturnFacts DEF CompositeRest
<1>3. CASE RepeatNext
  <2>1. ret.ok /\ CallNext(2, Collected)
    BY <1>3 DEF RepeatNext, InFrame
  <2>2. o.kind = "ok" /\ pos = o.end /\ Collected = Top.res \o Item(Top.m, Top.i, o.res)
    BY <1>1, <2>1, ReturnFacts DEF Collected
  <2>3. 2 \in Index(Top.m) /\ 2 # 1
    BY <1>1 DEF Index
  <2>4. r = Extend(Top.m, Top.i, o, Rest(tokens, Top.m, 2, pos))
    BY <1>2, <2>2 DEF RepeatRest
  <2>5. /\ Rest(tokens, Top.m, 2, pos).res \in Seq(Decision)
        /\ Rest(tokens, Top.m, 2, pos).far \in Int
    <3>1. Rest(tokens, Top.m, 2, pos) \in Outcome(tokens, pos)
      BY <1>1, <2>3, ReturnFacts, RestType DEF Positions
    <3> QED
      BY <1>1, <3>1, ReturnFacts DEF Positions, Outcome
  <2>6. FrameOnTrack(tokens, max, [m |-> Top.m, start |-> Top.start, i |-> 2,
                                   at |-> pos, res |-> Collected])
    BY <1>1, <2>2, <2>3, <2>4, <2>5, ReturnFacts, ExtendOnTrack
  <2> QED
    BY <1>1, <2>1, <2>3, <2>6, ReturnFacts, CallNextStep
<1>4. CASE RepeatSucceed
  <2>1. ~ret.ok /\ Top.i = 2 /\ Leave(TRUE, pos, Top.res)
    BY <1>4 DEF RepeatSucceed, InFrame
  <2>2. o.kind = "fail" /\ pos = Top.at
    BY <1>1, <2>1, ReturnFacts
  <2>3. r = Ok(pos, o.far, <<>>)
    BY <1>2, <2>1, <2>2 DEF RepeatRest
  <2>4. Top.res \o <<>> = Top.res
    BY <1>1, ReturnFacts, ConcatEmptySeq
  <2>5. Agrees(Top.m, Top.start, TRUE, pos, Top.res) /\ s.far <= max
    BY <1>1, <2>3, <2>4, SucceedOnTrack
  <2> QED
    BY <1>1, <2>1, <2>5, ReturnFacts, LeaveStep
<1>5. CASE RepeatFail
  <2>1. ~ret.ok /\ Top.i = 1 /\ Leave(FALSE, pos, <<>>)
    BY <1>5 DEF RepeatFail, InFrame
  <2>2. o.kind = "fail" /\ pos = Top.start
    BY <1>1, <2>1, ReturnFacts, FreshFrame
  <2>3. r = Fail(o.far)
    BY <1>2, <2>1, <2>2 DEF RepeatRest
  <2>4. Agrees(Top.m, Top.start, FALSE, pos, <<>>) /\ s.far <= max
    BY <1>1, <2>2, <2>3, FailOnTrack
  <2>5. <<>> \in Seq(Decision)
    OBVIOUS
  <2> QED
    BY <1>1, <2>1, <2>4, <2>5, ReturnFacts, LeaveStep
<1> QED
  BY <1>3, <1>4, <1>5

-----------------------------------------------------------------------------
(* The steps that make a call. *)

\* The facts a call of match() starts from.
LEMMA CallFacts ==
    ASSUME IInv, ctl = "call"
    PROVE  /\ tokens \in Inputs /\ Len(tokens) \in Nat /\ pos \in 0..Len(tokens)
           /\ Pending \in Matchers /\ pos = CalledAt
           /\ max \in Int /\ max \in Positions /\ max <= Sem(tokens, TopLevel, begin).far
           /\ WithinStatement(tokens, begin, Pending, pos)
           /\ begin \in Positions /\ begin < Len(tokens) /\ err = NoError
           /\ Sem(tokens, TopLevel, begin).far \in Int
           /\ EntriesWithinMax
<1>1. Running
  BY DEF Running
<1>2. /\ tokens \in Inputs /\ Len(tokens) \in Nat /\ pos \in 0..Len(tokens)
      /\ max \in Int /\ max \in Positions /\ begin \in Positions
  BY InputAssumption DEF IInv, TypeOK, Positions
<1>3. pos = CalledAt /\ err = NoError
  BY DEF IInv, StackOnTrack
<1>4. max <= Sem(tokens, TopLevel, begin).far /\ begin < Len(tokens)
  BY <1>1 DEF IInv, StackOnTrack
<1>5. Sem(tokens, TopLevel, begin) \in Outcome(tokens, begin)
  BY <1>2, SemType, GrammarAssumption DEF Positions
<1>6. Sem(tokens, TopLevel, begin).far \in Int
  BY <1>2, <1>5 DEF Outcome, Positions
<1>7. Pending \in Matchers /\ WithinStatement(tokens, begin, Pending, pos)
  BY <1>1, <1>3, PendingFacts
<1>8. EntriesWithinMax
  BY <1>1 DEF IInv, HitNeverRaisesMax
<1> QED
  BY <1>2, <1>3, <1>4, <1>6, <1>7, <1>8

\* A leaf accepts or refuses.
LEMMA LeafStep ==
    ASSUME IInv, LeafAccept \/ LeafRefuse
    PROVE  IInv' /\ GrowStep
<1> DEFINE o == LeafMatch(tokens, Pending, pos)
<1>1. ctl = "call" /\ Kind[Pending] = "leaf"
  BY DEF LeafAccept, LeafRefuse
<1>2. /\ tokens \in Inputs /\ Len(tokens) \in Nat /\ pos \in 0..Len(tokens)
      /\ Pending \in Matchers /\ max \in Positions /\ max \in Int
      /\ max <= Sem(tokens, TopLevel, begin).far /\ Sem(tokens, TopLevel, begin).far \in Int
  BY <1>1, CallFacts
<1>3. Sem(tokens, Pending, pos).far <= Sem(tokens, TopLevel, begin).far
  BY <1>1, CallFacts DEF WithinStatement
<1>4. CASE LeafAccept
  <2> DEFINE reach == Max2(max, o.end)
             res == <<<<Pending, pos>>>>
  <2>1. /\ o.kind = "ok" /\ UNCHANGED stack /\ Loop
        /\ Answer(Pending, pos, TRUE, o.end, reach, res)
    BY <1>4 DEF LeafAccept, MaxAfter
  <2>2. o.end \in (pos + 1)..Len(tokens) /\ Sem(tokens, Pending, pos) = Ok(o.end, o.end, res)
    BY <1>1, <1>2, <2>1, LeafEquation
  <2>3. /\ Sem(tokens, Pending, pos).kind = "ok" /\ Sem(tokens, Pending, pos).end = o.end
        /\ Sem(tokens, Pending, pos).res = res /\ Sem(tokens, Pending, pos).far = o.end
    BY <2>2 DEF Ok
  <2>4. Agrees(Pending, pos, TRUE, o.end, res)
    BY <2>3, Zenon DEF Agrees
  <2>5. o.end \in Positions /\ reach \in Positions
    BY <1>2, <2>2 DEF Positions, Max2
  <2>6. res \in Seq(Decision)
    BY <1>2 DEF Decision
  <2>7. max <= reach /\ o.end <= reach /\ reach <= Sem(tokens, TopLevel, begin).far
    BY <1>2, <1>3, <2>2, <2>3 DEF Max2
  <2> HIDE DEF reach, res
  <2> QED
    BY <1>1, <1>2, <2>1, <2>3, <2>4, <2>5, <2>6, <2>7, AnswerStep
<1>5. CASE LeafRefuse
  <2>1. /\ o.kind = "fail" /\ UNCHANGED stack /\ Loop
        /\ Answer(Pending, pos, FALSE, pos, max, <<>>)
    BY <1>5 DEF LeafRefuse
  <2>2. Sem(tokens, Pending, pos) = Fail(pos)
    BY <1>1, <1>2, <2>1, LeafEquation
  <2>3. Sem(tokens, Pending, pos).kind = "fail" /\ Sem(tokens, Pending, pos).far = pos
    BY <2>2 DEF Fail
  <2>4. Agrees(Pending, pos, FALSE, pos, <<>>)
    BY <2>3, Zenon DEF Agrees
  <2>5. pos \in Positions /\ <<>> \in Seq(Decision) /\ max <= max
    BY <1>2 DEF Positions
  <2>6. pos <= max
    BY <1>1 DEF IInv, StackOnTrack, Running
  <2> QED
    BY <1>1, <1>2, <2>1, <2>3, <2>4, <2>5, <2>6, AnswerStep
<1> QED
  BY <1>4, <1>5

\* A leaf panics: the statement's outcome is a MatchError too.
LEMMA PanicStep ==
    ASSUME IInv, LeafPanic
    PROVE  IInv' /\ GrowStep
<1> USE DEF IInv
<1>1. /\ ctl = "call" /\ Kind[Pending] = "leaf"
      /\ LeafMatch(tokens, Pending, pos).kind = "abort"
      /\ err' = [type |-> "match", at |-> 0] /\ ctl' = "stop" /\ stack' = <<>>
      /\ tokens' = tokens /\ pos' = pos /\ max' = max /\ packrat' = packrat /\ ret' = ret
      /\ begin' = begin /\ results' = results
  BY DEF LeafPanic
<1>2. /\ Positions' = Positions /\ FrameType' = FrameType /\ ResultType' = ResultType
      /\ ErrorType' = ErrorType /\ CacheType' = CacheType
  BY <1>1 DEF Positions, FrameType, ResultType, ErrorType, CacheType, EntryType
<1>3. /\ tokens \in Inputs /\ Len(tokens) \in Nat /\ pos \in 0..Len(tokens)
      /\ Pending \in Matchers /\ begin < Len(tokens) /\ begin \in Nat
  BY <1>1, CallFacts DEF Positions
<1>4. Sem(tokens, TopLevel, begin).kind = "abort"
  <2>1. Sem(tokens, Pending, pos) = Abort(pos)
    BY <1>1, <1>3, LeafEquation
  <2>2. WithinStatement(tokens, begin, Pending, pos)
    BY <1>1, CallFacts
  <2> QED
    BY <2>1, <2>2 DEF Abort, WithinStatement
<1>5. err'.type = "match" /\ err' # NoError /\ err' \in ErrorType
  BY <1>1, <1>3 DEF NoError, ErrorType, Positions
<1>6. TypeOK'
  BY <1>1, <1>2, <1>5 DEF TypeOK
<1>7. StackOnTrack' /\ AnswersAreSem' /\ HitNeverRaisesMax' /\ GrowStep
  BY <1>1 DEF StackOnTrack, AnswersAreSem, HitNeverRaisesMax, GrowStep, Running
<1>8. CacheIsSound' /\ EntryReach'
  BY <1>1 DEF CacheIsSound, Agrees, EntryReach
<1>9. StatementsTile'
  BY <1>1, <1>3, <1>5 DEF StatementsTile, Agrees
<1>10. ErrorIsSem'
  BY <1>1, <1>3, <1>4, <1>5 DEF ErrorIsSem
<1> QED
  BY <1>6, <1>7, <1>8, <1>9, <1>10

\* A packrat hit answers what running the matcher would.
LEMMA HitStep ==
    ASSUME IInv, PackratHit
    PROVE  IInv' /\ GrowStep
<1> USE DEF IInv
<1> DEFINE k == <<Pending, pos>>
           e == packrat[k]
<1>1. /\ ctl = "call" /\ Hit(Pending) /\ pos' = e.posAfter /\ max' = Max2(max, e.maxTokenSeen)
      /\ ret' = [ok |-> e.success, res |-> IF e.success THEN e.result ELSE <<>>]
      /\ ctl' = "return" /\ packrat' = packrat /\ stack' = stack /\ tokens' = tokens
      /\ begin' = begin /\ results' = results /\ err' = err /\ Loop
  BY DEF PackratHit, Loop
<1>2. k \in DOMAIN packrat
  BY <1>1 DEF Hit
<1>3. e \in EntryType
  BY <1>2 DEF TypeOK, CacheType
<1>4. /\ e.success \in BOOLEAN /\ e.posAfter \in Positions /\ e.maxTokenSeen \in Positions
      /\ e.result \in Seq(Decision)
  BY <1>3 DEF EntryType
<1>5. Agrees(Pending, pos, e.success, e.posAfter, e.result)
  BY <1>2 DEF CacheIsSound
<1>6. /\ e.maxTokenSeen <= max /\ e.posAfter <= e.maxTokenSeen
      /\ Sem(tokens, Pending, pos).far <= e.maxTokenSeen
  BY <1>1, <1>2, CallFacts DEF EntriesWithinMax, EntryReach
<1>7. pos = CalledAt /\ max \in Int /\ e.maxTokenSeen \in Int /\ e.posAfter \in Int
  BY <1>1, <1>4, CallFacts DEF Positions
<1>8. max' = max
  BY <1>1, <1>6, <1>7 DEF Max2
<1>9. ret'.ok = e.success /\ ret'.res = e.result /\ ret' \in [ok : BOOLEAN, res : Seq(Decision)]
  <2>1. ~e.success => e.result = <<>>
    BY <1>4, <1>5 DEF Agrees
  <2>2. ret' = [ok |-> e.success, res |-> e.result]
    BY <1>1, <1>4, <2>1
  <2> QED
    BY <1>4, <2>2
<1>10. /\ Positions' = Positions /\ FrameType' = FrameType /\ ResultType' = ResultType
       /\ ErrorType' = ErrorType /\ CacheType' = CacheType
  BY <1>1 DEF Positions, FrameType, ResultType, ErrorType, CacheType, EntryType
<1>11. TypeOK'
  BY <1>1, <1>4, <1>8, <1>9, <1>10 DEF TypeOK
<1>12. Pending' = Pending /\ CalledAt' = CalledAt
  BY <1>1 DEF Pending, CalledAt, Top, ChildOf
<1>13. AnswersAreSem'
  BY <1>1, <1>5, <1>7, <1>9, <1>12 DEF AnswersAreSem, Agrees
<1>14. Sem(tokens, Pending, pos).far <= max /\ e.posAfter <= max
  <2>1. Running
    BY <1>1 DEF Running
  <2>2. Sem(tokens, Pending, pos).far \in Int
    BY <1>7, <2>1, PendingFacts
  <2> QED
    BY <1>6, <1>7, <2>2
<1>15. StackOnTrack'
  BY <1>1, <1>7, <1>8, <1>12, <1>14 DEF StackOnTrack, Running
<1>16. CacheIsSound' /\ EntryReach' /\ HitNeverRaisesMax' /\ GrowStep
  BY <1>1, <1>7, <1>8, CallFacts
     DEF CacheIsSound, Agrees, EntryReach, HitNeverRaisesMax, EntriesWithinMax, GrowStep, CacheGrows
<1>17. StatementsTile' /\ ErrorIsSem'
  BY <1>1, LoopKeeps DEF Running
<1> QED
  BY <1>11, <1>13, <1>15, <1>16, <1>17

\* A composite is entered: the rest of it, from child 1 on, is all of it.
LEMMA EnterStep ==
    ASSUME IInv, EnterComposite
    PROVE  IInv' /\ GrowStep
<1> USE DEF IInv
<1> DEFINE n == Len(stack)
           f == Frame(Pending, pos)
<1>1. /\ ctl = "call" /\ Kind[Pending] \in Composite /\ stack' = Append(stack, f)
      /\ pos' = pos /\ max' = max /\ packrat' = packrat /\ ctl' = ctl /\ ret' = ret
      /\ tokens' = tokens /\ begin' = begin /\ results' = results /\ err' = err /\ Loop
  BY DEF EnterComposite, Loop
<1>2. /\ Positions' = Positions /\ FrameType' = FrameType /\ ResultType' = ResultType
      /\ ErrorType' = ErrorType /\ CacheType' = CacheType
  BY <1>1 DEF Positions, FrameType, ResultType, ErrorType, CacheType, EntryType
<1>3. /\ tokens \in Inputs /\ Len(tokens) \in Nat /\ pos \in 0..Len(tokens) /\ pos \in Positions
      /\ Pending \in Matchers /\ pos = CalledAt /\ begin < Len(tokens)
      /\ WithinStatement(tokens, begin, Pending, pos)
  BY <1>1, CallFacts DEF Positions
<1>4. Kind[Pending] # "leaf"
  BY <1>1 DEF Composite
<1>5. f.m = Pending /\ f.start = pos /\ f.i = 1 /\ f.at = pos /\ f.res = <<>>
  BY DEF Frame
<1>6. f \in FrameType
  BY <1>3, <1>4 DEF FrameType, Frame
<1>7. /\ stack' \in Seq(FrameType) /\ stack' # <<>> /\ Len(stack') = n + 1 /\ stack'[n + 1] = f
      /\ \A k \in 1..n : stack'[k] = stack[k]
      /\ n \in Nat
  BY <1>1, <1>6, AppendProperties, LenProperties DEF TypeOK
<1> HIDE DEF f
<1>8. TypeOK'
  <2>1. ASSUME NEW k \in 1..(n + 1) PROVE stack'[k].i \in Index(stack'[k].m)
    <3>1. CASE k = n + 1
      BY <1>3, <1>4, <1>5, <1>7, <3>1, IndexChild
    <3>2. CASE k # n + 1
      BY <1>7, <3>2 DEF TypeOK
    <3> QED
      BY <3>1, <3>2
  <2> QED
    BY <1>1, <1>2, <1>7, <2>1 DEF TypeOK
<1>9. FrameOnTrack(tokens, max, f)
  <2> DEFINE s == Sem(tokens, f.m, f.start)
             r == Rest(tokens, f.m, f.i, f.at)
  <2>1. s = r /\ s \in Outcome(tokens, pos)
    BY <1>3, <1>4, <1>5, SemType
  <2>2. s.far \in Int /\ s.res \in Seq(Decision)
    BY <1>3, <2>1 DEF Outcome
  <2>3. r.far <= s.far
    BY <2>1, <2>2
  <2>4. s.res = f.res \o r.res
    BY <1>5, <2>1, <2>2, ConcatEmptySeq
  <2> QED
    BY <1>5, <2>1, <2>3, <2>4, Zenon DEF FrameOnTrack
<1>10. FramesOnTrack(tokens, max, begin, stack)
  BY <1>1 DEF StackOnTrack, Running
<1>11. FramesOnTrack(tokens, max, begin, stack')
  <2> SUFFICES ASSUME NEW k \in 1..(n + 1)
               PROVE  /\ FrameOnTrack(tokens, max, stack'[k])
                      /\ CalledBy(stack', begin, k)
                      /\ WithinStatement(tokens, begin, stack'[k].m, stack'[k].start)
    BY <1>7 DEF FramesOnTrack
  <2>1. CASE k # n + 1
    <3>1. k \in 1..n /\ stack'[k] = stack[k] /\ stack'[1] = stack[1]
      BY <1>7, <2>1
    <3>2. k # 1 => stack'[k - 1] = stack[k - 1]
      BY <1>7, <3>1
    <3> QED
      BY <1>10, <3>1, <3>2 DEF FramesOnTrack, CalledBy
  <2>2. CASE k = n + 1
    <3>1. stack'[k] = f
      BY <1>7, <2>2
    <3>2. CASE stack = <<>>
      <4>1. n = 0 /\ Pending = TopLevel /\ pos = begin
        BY <1>3, <3>2 DEF Pending, CalledAt
      <4>2. k = 1
        BY <2>2, <4>1
      <4> QED
        BY <1>3, <1>5, <1>9, <3>1, <4>1, <4>2 DEF CalledBy
    <3>3. CASE stack # <<>>
      <4>1. n >= 1 /\ Pending = ChildOf(stack[n]) /\ pos = stack[n].at
        BY <1>3, <3>3, TopFacts
      <4>2. k # 1 /\ stack'[k - 1] = stack[n]
        BY <1>7, <2>2, <4>1
      <4> QED
        BY <1>3, <1>5, <1>9, <3>1, <4>1, <4>2 DEF CalledBy
    <3> QED
      BY <3>2, <3>3
  <2> QED
    BY <2>1, <2>2
<1>12. CalledAt' = pos
  BY <1>5, <1>7 DEF CalledAt, Top
<1>13. StackOnTrack'
  BY <1>1, <1>11, <1>12 DEF StackOnTrack, Running
<1>14. CacheIsSound' /\ EntryReach' /\ HitNeverRaisesMax' /\ GrowStep
  <2>1. max' >= max
    BY <1>1, CallFacts
  <2> QED
    BY <1>1, <2>1 DEF CacheIsSound, Agrees, EntryReach, HitNeverRaisesMax, EntriesWithinMax,
                      GrowStep, CacheGrows, Running
<1>15. StatementsTile' /\ ErrorIsSem'
  BY <1>1, LoopKeeps DEF Running
<1> QED
  BY <1>1, <1>8, <1>13, <1>14, <1>15 DEF AnswersAreSem

-----------------------------------------------------------------------------
(* The steps of MatchAll and runMatch. *)

\* The error index is a token of the stream, the sentinel only if nothing
\* precedes it.
LEMMA ErrorIndex ==
    ASSUME NEW t \in Inputs, Len(t) \in Nat, Len(t) >= 1, NEW x \in 0..Len(t)
    PROVE  /\ SyntaxErrorIndex(t, x) \in 0..(Len(t) - 1)
           /\ t[SyntaxErrorIndex(t, x) + 1].kind = "EndOfInput" => SyntaxErrorIndex(t, x) = 0
<1> DEFINE last == Len(t) - 1
           idx  == IF x > last THEN last ELSE x
<1>1. idx \in 0..last
  OBVIOUS
<1>2. \A i \in 1..Len(t) : t[i].kind = "EndOfInput" => i = Len(t)
  BY InputAssumption
<1>3. SyntaxErrorIndex(t, x) = IF idx > 0 /\ t[idx + 1].kind = "EndOfInput" THEN idx - 1 ELSE idx
  BY DEF SyntaxErrorIndex
<1> HIDE DEF idx
<1>4. CASE idx > 0 /\ t[idx + 1].kind = "EndOfInput"
  <2>1. idx + 1 \in 1..Len(t) /\ idx \in 1..Len(t)
    BY <1>1, <1>4
  <2>2. idx + 1 = Len(t)
    BY <1>2, <1>4, <2>1
  <2>3. t[idx].kind # "EndOfInput"
    BY <1>1, <1>2, <2>1, <2>2
  <2>4. SyntaxErrorIndex(t, x) = idx - 1 /\ (idx - 1) + 1 = idx
    BY <1>1, <1>3, <1>4
  <2> QED
    BY <1>1, <1>4, <2>3, <2>4
<1>5. CASE ~(idx > 0 /\ t[idx + 1].kind = "EndOfInput")
  BY <1>1, <1>3, <1>5
<1> QED
  BY <1>4, <1>5

\* What is known when the statement's own match() call has answered.
LEMMA StatementFacts ==
    ASSUME IInv, ctl = "return", stack = <<>>
    PROVE  LET s == Sem(tokens, TopLevel, begin) IN
           /\ tokens \in Inputs /\ Len(tokens) \in Nat
           /\ begin \in 0..Len(tokens) /\ begin < Len(tokens)
           /\ pos \in 0..Len(tokens) /\ max \in 0..Len(tokens)
           /\ Agrees(TopLevel, begin, ret.ok, pos, ret.res) /\ ret.ok \in BOOLEAN
           /\ ret.ok => s.kind = "ok" /\ pos = s.end /\ begin <= pos
           /\ ~ret.ok => s.kind = "fail"
           /\ s.far = max
           /\ err = NoError
<1> USE DEF IInv
<1>1. /\ tokens \in Inputs /\ Len(tokens) \in Nat /\ begin \in 0..Len(tokens)
      /\ pos \in 0..Len(tokens) /\ max \in 0..Len(tokens) /\ ret.ok \in BOOLEAN
  BY InputAssumption DEF TypeOK, Positions
<1>2. Pending = TopLevel /\ CalledAt = begin /\ Running
  BY DEF Pending, CalledAt, Running
<1>3. Agrees(TopLevel, begin, ret.ok, pos, ret.res)
  BY <1>2 DEF AnswersAreSem
<1>4. /\ Sem(tokens, TopLevel, begin).far <= max /\ max <= Sem(tokens, TopLevel, begin).far
      /\ begin < Len(tokens) /\ err = NoError
  BY <1>2 DEF StackOnTrack
<1>5. /\ Sem(tokens, TopLevel, begin) \in Outcome(tokens, begin)
      /\ Sem(tokens, TopLevel, begin).kind = "ok" => begin <= Sem(tokens, TopLevel, begin).end
  BY <1>1, SemType, GrammarAssumption
<1>6. Sem(tokens, TopLevel, begin).far \in Int
  BY <1>1, <1>5 DEF Outcome
<1>7. Sem(tokens, TopLevel, begin).far = max
  BY <1>1, <1>4, <1>6
<1>8. /\ ret.ok => Sem(tokens, TopLevel, begin).kind = "ok" /\ pos = Sem(tokens, TopLevel, begin).end
      /\ ~ret.ok => Sem(tokens, TopLevel, begin).kind = "fail"
  BY <1>1, <1>3 DEF Agrees
<1> QED
  BY <1>1, <1>3, <1>4, <1>5, <1>7, <1>8

\* A statement begins with an empty cache.
LEMMA BeginStep ==
    ASSUME IInv, BeginStatement
    PROVE  IInv' /\ GrowStep
<1> USE DEF IInv
<1>1. /\ ctl = "idle" /\ begin < Len(tokens) /\ pos' = begin /\ max' = begin
      /\ packrat' = NoEntries /\ stack' = <<>> /\ ctl' = "call" /\ ret' = NoAnswer
      /\ tokens' = tokens /\ begin' = begin /\ results' = results /\ err' = err
  BY DEF BeginStatement
<1>2. /\ Positions' = Positions /\ FrameType' = FrameType /\ ResultType' = ResultType
      /\ ErrorType' = ErrorType
  BY <1>1 DEF Positions, FrameType, ResultType, ErrorType
<1>3. DOMAIN packrat' = {}
  BY <1>1 DEF NoEntries
<1>4. CacheType' /\ CacheIsSound' /\ EntryReach' /\ HitNeverRaisesMax'
  BY <1>3 DEF CacheType, CacheIsSound, EntryReach, HitNeverRaisesMax, EntriesWithinMax
<1>5. NoAnswer \in [ok : BOOLEAN, res : Seq(Decision)] /\ stack' \in Seq(FrameType)
  BY <1>1 DEF NoAnswer
<1>6. TypeOK'
  BY <1>1, <1>2, <1>4, <1>5 DEF TypeOK
<1>7. begin <= Sem(tokens, TopLevel, begin).far /\ begin <= begin
  <2>1. tokens \in Inputs /\ Len(tokens) \in Nat /\ begin \in 0..Len(tokens)
    BY InputAssumption DEF TypeOK, Positions
  <2>2. Sem(tokens, TopLevel, begin) \in Outcome(tokens, begin)
    BY <2>1, SemType, GrammarAssumption
  <2> QED
    BY <2>1, <2>2 DEF Outcome
<1>8. FramesOnTrack(tokens', max', begin', stack') /\ CalledAt' = begin
  BY <1>1 DEF FramesOnTrack, CalledAt
<1>9. StackOnTrack'
  BY <1>1, <1>7, <1>8 DEF StackOnTrack, Running
<1>10. StatementsTile' /\ ErrorIsSem' /\ AnswersAreSem' /\ GrowStep
  BY <1>1 DEF StatementsTile, ErrorIsSem, AnswersAreSem, GrowStep, Running, Agrees
<1> QED
  BY <1>4, <1>6, <1>9, <1>10

\* A statement is peeled off the stream.
LEMMA MatchedStep ==
    ASSUME IInv, StatementMatched
    PROVE  IInv' /\ GrowStep
<1> USE DEF IInv
<1> DEFINE x == [from |-> begin, to |-> pos, res |-> ret.res]
           n == Len(results)
<1>1. /\ ctl = "return" /\ stack = <<>> /\ ret.ok /\ pos # begin
      /\ results' = Append(results, x) /\ begin' = pos /\ ctl' = "idle"
      /\ tokens' = tokens /\ pos' = pos /\ max' = max /\ packrat' = packrat /\ stack' = stack
      /\ ret' = ret /\ err' = err
  BY DEF StatementMatched
<1>2. /\ Positions' = Positions /\ FrameType' = FrameType /\ ResultType' = ResultType
      /\ ErrorType' = ErrorType /\ CacheType' = CacheType
  BY <1>1 DEF Positions, FrameType, ResultType, ErrorType, CacheType, EntryType
<1>3. /\ begin \in 0..Len(tokens) /\ pos \in 0..Len(tokens) /\ begin <= pos /\ begin < pos
      /\ Agrees(TopLevel, begin, TRUE, pos, ret.res) /\ err = NoError
  <2>1. /\ begin \in 0..Len(tokens) /\ pos \in 0..Len(tokens) /\ begin <= pos
        /\ Agrees(TopLevel, begin, ret.ok, pos, ret.res) /\ err = NoError /\ ret.ok = TRUE
    BY <1>1, StatementFacts
  <2>2. begin < pos
    BY <1>1, <2>1
  <2>3. Agrees(TopLevel, begin, TRUE, pos, ret.res)
    BY <2>1, Zenon
  <2> QED
    BY <2>1, <2>2, <2>3
<1>4. x \in ResultType /\ x.from = begin /\ x.to = pos /\ x.res = ret.res
  BY <1>3 DEF ResultType, TypeOK, Positions
<1> HIDE DEF x
<1>5. /\ results' \in Seq(ResultType) /\ results' # <<>> /\ Len(results') = n + 1
      /\ results'[n + 1] = x /\ \A k \in 1..n : results'[k] = results[k]
      /\ n \in Nat /\ (n = 0 <=> results = <<>>)
  BY <1>1, <1>4, AppendProperties, LenProperties, EmptySeq DEF TypeOK
<1>6. TypeOK'
  BY <1>1, <1>2, <1>3, <1>5 DEF TypeOK, Positions
<1>7. StatementsTile'
  <2>1. ASSUME NEW k \in 1..(n + 1)
        PROVE  /\ Agrees(TopLevel, results'[k].from, TRUE, results'[k].to, results'[k].res)
               /\ results'[k].from < results'[k].to
               /\ results'[k].from = IF k = 1 THEN 0 ELSE results'[k-1].to
    <3>1. CASE k = n + 1
      <4>1. n # 0 => results'[k - 1] = results[n]
        BY <1>5, <3>1
      <4>2. begin = IF n = 0 THEN 0 ELSE results[n].to
        BY <1>5 DEF StatementsTile
      <4>3. results'[k] = x /\ (k = 1 <=> n = 0)
        BY <1>5, <3>1
      <4>4. /\ results'[k].from = begin /\ results'[k].to = pos /\ results'[k].res = ret.res
        BY <1>4, <4>3
      <4>5. results'[k].from = IF k = 1 THEN 0 ELSE results'[k-1].to
        BY <4>1, <4>2, <4>3, <4>4
      <4> QED
        BY <1>3, <4>4, <4>5
    <3>2. CASE k # n + 1
      <4>1. k \in 1..n /\ results'[k] = results[k] /\ (k # 1 => results'[k - 1] = results[k - 1])
        BY <1>5, <3>2
      <4> QED
        BY <4>1 DEF StatementsTile
    <3> QED
      BY <3>1, <3>2
  <2>2. begin' = results'[Len(results')].to
    BY <1>1, <1>4, <1>5
  <2> QED
    BY <1>1, <1>5, <2>1, <2>2 DEF StatementsTile, Agrees
<1>8. StackOnTrack' /\ AnswersAreSem' /\ HitNeverRaisesMax' /\ GrowStep /\ ErrorIsSem'
  BY <1>1, <1>3 DEF StackOnTrack, AnswersAreSem, HitNeverRaisesMax, GrowStep, ErrorIsSem, Running
<1>9. CacheIsSound' /\ EntryReach'
  BY <1>1 DEF CacheIsSound, Agrees, EntryReach
<1> QED
  BY <1>6, <1>7, <1>8, <1>9

\* MatchAll returns, with or without an error.
LEMMA StopStep ==
    ASSUME IInv, NoProgress \/ StatementFailed \/ Consumed
    PROVE  IInv' /\ GrowStep
<1> USE DEF IInv
<1>1. /\ ctl' = "stop" /\ tokens' = tokens /\ pos' = pos /\ max' = max /\ packrat' = packrat
      /\ stack' = stack /\ ret' = ret /\ begin' = begin /\ results' = results
  BY DEF NoProgress, StatementFailed, Consumed
<1>2. stack = <<>>
  BY DEF NoProgress, StatementFailed, Consumed, StackOnTrack, Running
<1>3. /\ Positions' = Positions /\ FrameType' = FrameType /\ ResultType' = ResultType
      /\ ErrorType' = ErrorType /\ CacheType' = CacheType
  BY <1>1 DEF Positions, FrameType, ResultType, ErrorType, CacheType, EntryType
<1>4. /\ err' \in ErrorType
      /\ err' = NoError <=> begin = Len(tokens)
      /\ ErrorIsSem'
  <2>1. CASE NoProgress
    <3>1. /\ ctl = "return" /\ stack = <<>> /\ ret.ok /\ pos = begin
          /\ err' = [type |-> "progress", at |-> begin]
      BY <2>1 DEF NoProgress
    <3>2. /\ Sem(tokens, TopLevel, begin).kind = "ok" /\ Sem(tokens, TopLevel, begin).end = begin
          /\ begin \in 0..Len(tokens) /\ begin < Len(tokens) /\ Len(tokens) \in Nat
      BY <3>1, StatementFacts
    <3>3. err'.type = "progress" /\ err' # NoError /\ err' \in ErrorType
      BY <3>1, <3>2 DEF NoError, ErrorType, Positions
    <3> QED
      BY <1>1, <3>2, <3>3 DEF ErrorIsSem
  <2>2. CASE StatementFailed
    <3> DEFINE at == SyntaxErrorIndex(tokens, max)
    <3>1. /\ ctl = "return" /\ stack = <<>> /\ ~ret.ok /\ err' = [type |-> "syntax", at |-> at]
      BY <2>2 DEF StatementFailed
    <3>2. /\ Sem(tokens, TopLevel, begin).kind = "fail" /\ Sem(tokens, TopLevel, begin).far = max
          /\ begin \in 0..Len(tokens) /\ begin < Len(tokens) /\ Len(tokens) \in Nat
          /\ tokens \in Inputs /\ max \in 0..Len(tokens)
      BY <3>1, StatementFacts
    <3>3. at \in 0..(Len(tokens) - 1) /\ (tokens[at + 1].kind = "EndOfInput" => at = 0)
      BY <3>2, ErrorIndex
    <3> HIDE DEF at
    <3>4. err'.type = "syntax" /\ err'.at = at /\ err' # NoError /\ err' \in ErrorType
      BY <3>1, <3>2, <3>3 DEF NoError, ErrorType, Positions
    <3>5. err'.at = SyntaxErrorIndex(tokens, Sem(tokens, TopLevel, begin).far)
      BY <3>2, <3>4 DEF at
    <3> QED
      BY <1>1, <3>2, <3>3, <3>4, <3>5 DEF ErrorIsSem
  <2>3. CASE Consumed
    <3>1. ctl = "idle" /\ begin >= Len(tokens) /\ err' = err
      BY <2>3 DEF Consumed
    <3>2. err = NoError /\ err \in ErrorType
      BY <3>1 DEF StackOnTrack, TypeOK
    <3>3. begin = Len(tokens)
      BY <3>1, InputAssumption DEF TypeOK, Positions
    <3> QED
      BY <3>1, <3>2, <3>3 DEF ErrorIsSem
  <2> QED
    BY <2>1, <2>2, <2>3
<1>5. TypeOK'
  BY <1>1, <1>3, <1>4 DEF TypeOK
<1>6. StatementsTile'
  BY <1>1, <1>4 DEF StatementsTile, Agrees
<1>7. StackOnTrack' /\ AnswersAreSem' /\ HitNeverRaisesMax' /\ GrowStep
  BY <1>1, <1>2 DEF StackOnTrack, AnswersAreSem, HitNeverRaisesMax, GrowStep, Running
<1>8. CacheIsSound' /\ EntryReach'
  BY <1>1 DEF CacheIsSound, Agrees, EntryReach
<1> QED
  BY <1>4, <1>5, <1>6, <1>7, <1>8

-----------------------------------------------------------------------------
(* The theorems. *)

LEMMA InitStep ==
    ASSUME Init
    PROVE  IInv
<1>1. /\ tokens \in Inputs /\ pos = 0 /\ max = 0 /\ begin = 0 /\ packrat = NoEntries
      /\ stack = <<>> /\ ctl = "idle" /\ ret = NoAnswer /\ results = <<>> /\ err = NoError
  BY DEF Init
<1>2. DOMAIN packrat = {}
  BY <1>1 DEF NoEntries
<1>3. CacheType /\ CacheIsSound /\ EntryReach
  BY <1>2 DEF CacheType, CacheIsSound, EntryReach
<1>4. 0 \in Positions
  BY <1>1, InputAssumption DEF Positions
<1>5. NoAnswer \in [ok : BOOLEAN, res : Seq(Decision)] /\ NoError \in ErrorType
  BY <1>4 DEF NoAnswer, NoError, ErrorType
<1>6. stack \in Seq(FrameType) /\ results \in Seq(ResultType) /\ Len(stack) = 0 /\ Len(results) = 0
  BY <1>1
<1>7. TypeOK
  BY <1>1, <1>3, <1>4, <1>5, <1>6 DEF TypeOK
<1>8. StackOnTrack /\ AnswersAreSem /\ HitNeverRaisesMax /\ ErrorIsSem
  BY <1>1 DEF StackOnTrack, AnswersAreSem, HitNeverRaisesMax, ErrorIsSem, Running
<1>9. StatementsTile
  BY <1>1, <1>6 DEF StatementsTile
<1> QED
  BY <1>3, <1>7, <1>8, <1>9 DEF IInv

\* Every step of the engine preserves the inductive invariant and never
\* lowers state.max or loses a cached outcome.
LEMMA NextStep ==
    ASSUME IInv, [Next]_vars
    PROVE  IInv' /\ (Next => GrowStep)
<1>1. CASE Step
  <2>1. CASE BeginStatement
    BY <2>1, BeginStep
  <2>2. CASE StatementMatched
    BY <2>2, MatchedStep
  <2>3. CASE NoProgress \/ StatementFailed \/ Consumed
    BY <2>3, StopStep
  <2>4. CASE PackratHit
    BY <2>4, HitStep
  <2>5. CASE LeafAccept \/ LeafRefuse
    BY <2>5, LeafStep
  <2>6. CASE LeafPanic
    BY <2>6, PanicStep
  <2>7. CASE EnterComposite
    BY <2>7, EnterStep
  <2>8. CASE ListNext \/ ListSucceed \/ ListFail
    BY <2>8, ListStep
  <2>9. CASE ChoiceSucceed \/ ChoiceNext \/ ChoiceFail
    BY <2>9, ChoiceStep
  <2>10. CASE OptionalPresent \/ OptionalAbsent
    BY <2>10, OptionalStep
  <2>11. CASE RepeatNext \/ RepeatFail \/ RepeatSucceed
    BY <2>11, RepeatStep
  <2> QED
    BY <1>1, <2>1, <2>2, <2>3, <2>4, <2>5, <2>6, <2>7, <2>8, <2>9, <2>10, <2>11 DEF Step
<1>2. CASE UNCHANGED vars
  <2>1. /\ tokens' = tokens /\ pos' = pos /\ max' = max /\ packrat' = packrat /\ stack' = stack
        /\ ctl' = ctl /\ ret' = ret /\ begin' = begin /\ results' = results /\ err' = err
    BY <1>2 DEF vars
  <2>2. Pending' = Pending /\ CalledAt' = CalledAt /\ Running' = Running
    BY <2>1 DEF Pending, CalledAt, Top, ChildOf, Running
  <2>3. TypeOK'
    BY <2>1 DEF IInv, TypeOK, Positions, CacheType, EntryType, FrameType, ResultType, ErrorType
  <2>4. StackOnTrack'
    BY <2>1, <2>2 DEF IInv, StackOnTrack
  <2>5. AnswersAreSem' /\ CacheIsSound' /\ HitNeverRaisesMax' /\ EntryReach'
    BY <2>1, <2>2 DEF IInv, AnswersAreSem, CacheIsSound, Agrees, HitNeverRaisesMax,
                      EntriesWithinMax, EntryReach
  <2>6. StatementsTile' /\ ErrorIsSem'
    BY <2>1 DEF IInv, StatementsTile, ErrorIsSem, Agrees
  <2>7. GrowStep
    <3>1. max' >= max
      BY <2>1 DEF IInv, TypeOK, Positions
    <3> QED
      BY <2>1, <3>1 DEF GrowStep, CacheGrows
  <2> QED
    BY <2>3, <2>4, <2>5, <2>6, <2>7 DEF IInv
<1> QED
  BY <1>1, <1>2 DEF Next, Stopped

\* The inductive invariant holds of every reachable state.
THEOREM InductiveInvariant == Spec => []IInv
<1>1. Init => IInv
  BY InitStep
<1>2. IInv /\ [Next]_vars => IInv'
  BY NextStep
<1> QED
  BY <1>1, <1>2, PTL DEF Spec

\* Type correctness: no position ever leaves the token stream, no frame is
\* at a loop index its matcher does not have.
THEOREM TypeCorrect == Spec => []TypeOK
<1>1. IInv => TypeOK
  BY DEF IInv
<1> QED
  BY <1>1, InductiveInvariant, PTL

\* The engine computes the meaning of the PEG: each answer of match(),
\* memoized or not, is Sem's, and a failed call leaves pos where it was.
THEOREM EngineComputesSem == Spec => []AnswersAreSem
<1>1. IInv => AnswersAreSem
  BY DEF IInv
<1> QED
  BY <1>1, InductiveInvariant, PTL

\* Memoization is transparent: the cache holds outcomes of the PEG only.
THEOREM PackratTransparent == Spec => [](CacheIsSound /\ HitNeverRaisesMax)
<1>1. IInv => CacheIsSound /\ HitNeverRaisesMax
  BY DEF IInv
<1> QED
  BY <1>1, InductiveInvariant, PTL

\* The furthest token reported is the PEG's, whatever was memoized.
THEOREM FurthestCorrect == Spec => []FurthestIsSem
<1>1. IInv => FurthestIsSem
  BY StatementFacts DEF FurthestIsSem
<1> QED
  BY <1>1, InductiveInvariant, PTL

\* MatchAll peels consecutive statements and ends with the right error, its
\* frames on track and the furthest token the PEG's at every step.
THEOREM MatchAllCorrect == Spec => []MatchAllIsSem
<1>1. IInv => FurthestIsSem
  BY StatementFacts DEF FurthestIsSem
<1>2. IInv => MatchAllIsSem
  BY <1>1 DEF IInv, MatchAllIsSem
<1> QED
  BY <1>2, InductiveInvariant, PTL

\* state.max and the cache only grow while a statement is matched.
THEOREM MaxAndCacheOnlyGrow == Spec => MaxAndCacheGrow
<1>1. IInv /\ [Next]_vars => [GrowStep]_vars
  BY NextStep
<1> QED
  BY <1>1, InductiveInvariant, PTL DEF Spec, MaxAndCacheGrow
=============================================================================
