----------------------------- MODULE LexerProofs -----------------------------
(***************************************************************************)
(* What the scanner promises, for every set of texts and every keyword     *)
(* table.  Its tokens are the text (TokensAreText): the inductive          *)
(* invariant IInv says, per state of the loop, how far the tokens cover    *)
(* the text and what the bytes of the token being scanned are like.  Its   *)
(* literals end where they end and their flags are right                   *)
(* (LiteralsWellFormed): LInv, inductive given IInv, counts the quotes of  *)
(* the open literal and says when a block comment is remembered.           *)
(***************************************************************************)
EXTENDS Lexer, TLAPS, SequenceTheorems, FiniteSetTheorems, WellFoundedInduction

-----------------------------------------------------------------------------
(* The inductive invariant. *)

\* What is said of finished tokens of a text.
Good(t, toks) ==
    /\ InOrder(t, toks) /\ SpansDrift(t, toks)
    /\ CommentsOutside(t, toks) /\ Trimmed(t, toks)
    /\ \A k \in 1..Len(toks) : toks[k].kind # "EndOfInput"

\* The tokens cover t up to a, but for white space and comments.
Covered(t, toks, a) ==
    EndOf(toks, Len(toks)) <= a /\ Trivia(t, EndOf(toks, Len(toks)), a)

\* The last token is the dollar before a, and no dollar follows: the state in
\* which the next operator's span is one byte early.
AfterDollar(t, toks, a) ==
    /\ Len(toks) > 0 /\ a < Len(t) /\ t[a] = "$" /\ t[a + 1] # "$"
    /\ toks[Len(toks)].kind = "Operator"
    /\ toks[Len(toks)].from = a - 1 /\ toks[Len(toks)].to = a

\* Where the comment being scanned starts: lastPos, or one byte later after a
\* bare dollar.
CommentFrom(t, p) == p + IF t[p + 1] = "$" THEN 1 ELSE 0

StandardInv ==
    state = "Standard" =>
        \/ lastPos = i /\ Covered(sql, tokens, i)
        \/ lastPos = i - 1 /\ AfterDollar(sql, tokens, i) /\ Covered(sql, tokens, i)
        \/ lastPos = i - 1 /\ i = n /\ At(lastPos) = "$" /\ Covered(sql, tokens, lastPos)

TokenInv ==
    /\ state \in {"QuotedIdentifier", "StringLiteral", "Keyword", "Numeric", "Operator",
                  "DollarQuotedString"} =>
          lastPos < i /\ Covered(sql, tokens, lastPos)
    /\ state = "Keyword" => \A p \in lastPos..(i - 1) : At(p) \notin {"-", "/"}
    /\ state = "Numeric" =>
          /\ At(lastPos) \in InitialNumber
          /\ \A p \in (lastPos + 1)..(i - 1) :
                At(p) # "/" /\ (At(p) = "-" => At(p - 1) \in Scientific)
    /\ state = "Operator" => \A p \in lastPos..(i - 1) : ~CommentAt(sql, p)
    /\ state = "QuotedIdentifier" => At(lastPos) \in QuotedIdentifierDelimiter

CommentInv ==
    LET from == CommentFrom(sql, lastPos) IN
    /\ state \in {"SingleLineComment", "MultiLineComment"} =>
          from + 2 <= i /\ Covered(sql, tokens, from)
    /\ state = "SingleLineComment" =>
          PairAt(sql, from, "-", "-") /\ \A q \in from..(i - 1) : At(q) \notin Newline
    /\ state = "MultiLineComment" =>
          /\ PairAt(sql, from, "/", "*")
          /\ depth \in 1..i /\ BlockEnd(sql, from + 2, 1) = BlockEnd(sql, i, depth)

DoneInv ==
    /\ state \notin {"done", "error"} => err.type = "none"
    /\ state = "done" =>
          /\ Len(tokens) > 0 /\ tokens[Len(tokens)] = Tok("EndOfInput", n, n, n)
          /\ Good(sql, Real) /\ Covered(sql, Real, n)
    /\ state # "done" => Good(sql, tokens)
    /\ state = "error" => Covered(sql, tokens, ErrorStart)

IInv == TypeOK /\ StandardInv /\ TokenInv /\ CommentInv /\ DoneInv

-----------------------------------------------------------------------------
(* Induction over the natural numbers, of a set. *)

\* A nonempty set of naturals has a least element.
LEMMA MinNat ==
    ASSUME NEW T \in SUBSET Nat, T # {}
    PROVE  \E x \in T : \A y \in T : x <= y
  <1>1. PICK x \in T : \A y \in T : <<y, x>> \notin OpToRel(<, Nat)
    BY NatLessThanWellFounded, WFMin
  <1>2. \A y \in T : ~(y < x)
    BY <1>1 DEF OpToRel
  <1> QED BY <1>2

\* A nonempty set of naturals up to b has a greatest element.
LEMMA MaxNat ==
    ASSUME NEW b \in Nat, NEW T \in SUBSET (0..b), T # {}
    PROVE  \E x \in T : \A y \in T : y <= x
  <1> DEFINE D == {b - x : x \in T}
  <1>1. D \in SUBSET Nat /\ D # {}
    <2>1. PICK x \in T : TRUE
      OBVIOUS
    <2>2. b - x \in D
      BY <2>1
    <2> QED BY <2>2
  <1>2. PICK m \in D : \A d \in D : m <= d
    BY <1>1, MinNat
  <1>3. PICK x \in T : m = b - x
    BY <1>2
  <1>4. ASSUME NEW y \in T PROVE y <= x
    <2>1. m <= b - y
      BY <1>2
    <2> QED BY <2>1, <1>3
  <1> QED BY <1>3, <1>4

\* A set of naturals with 0 that is closed under successor is all of them.
LEMMA NatInduct ==
    ASSUME NEW T \in SUBSET Nat, 0 \in T, \A k \in T : k + 1 \in T
    PROVE  T = Nat
  <1> SUFFICES ASSUME T # Nat PROVE FALSE
    OBVIOUS
  <1>1. PICK x \in Nat \ T : \A y \in Nat \ T : x <= y
    BY MinNat
  <1>2. x # 0 /\ x - 1 \in Nat
    OBVIOUS
  <1>3. x - 1 \in T
    BY <1>1, <1>2
  <1> QED BY <1>2, <1>3

-----------------------------------------------------------------------------
(* White space and comments: what the two recursive functions compute. *)


\* One step of TriviaEnds.
NextEnds(t, a, before, e) == before \cup {x \in {e} : \E p \in before : Skipped(t, p, e)}

\* TriviaEnds is the function its definition says: there is one.
LEMMA TriviaEndsDef ==
    ASSUME NEW t \in Seq(STRING), NEW a \in Nat
    PROVE  TriviaEnds(t, a) = [e \in 0..Len(t) |->
               IF e <= a THEN {a} ELSE NextEnds(t, a, TriviaEnds(t, a)[e - 1], e)]
  <1> DEFINE Ends(f, k) ==
                 f = [e \in 0..k |-> IF e <= a THEN {a} ELSE NextEnds(t, a, f[e - 1], e)]
             T == {k \in Nat : \E f : Ends(f, k)}
  <1>1. 0 \in T
    <2>1. Ends([e \in 0..0 |-> {a}], 0)
      OBVIOUS
    <2> QED BY <2>1
  <1>2. ASSUME NEW k \in T PROVE k + 1 \in T
    <2>1. PICK f : Ends(f, k)
      OBVIOUS
    <2> DEFINE g == [e \in 0..(k + 1) |->
                        IF e <= k THEN f[e]
                        ELSE IF e <= a THEN {a} ELSE NextEnds(t, a, f[e - 1], e)]
    <2>2. ASSUME NEW e \in 0..(k + 1)
          PROVE  g[e] = IF e <= a THEN {a} ELSE NextEnds(t, a, g[e - 1], e)
      <3>0. k \in Nat /\ e \in Nat /\ e <= k + 1
        OBVIOUS
      <3>1. ~(e <= a) => g[e - 1] = f[e - 1]
        <4>1. ~(e <= a) => e - 1 \in 0..(k + 1) /\ e - 1 <= k
          BY <3>0
        <4> QED BY <4>1
      <3>2. CASE e <= k
        <4>1. f[e] = IF e <= a THEN {a} ELSE NextEnds(t, a, f[e - 1], e)
          <5>1. e \in 0..k
            BY <3>0, <3>2
          <5> HIDE DEF g
          <5> QED BY <2>1, <5>1
        <4>2. g[e] = f[e]
          BY <3>2
        <4> HIDE DEF g
        <4> QED BY <3>1, <4>1, <4>2
      <3>3. CASE e > k
        <4>1. g[e] = IF e <= a THEN {a} ELSE NextEnds(t, a, f[e - 1], e)
          BY <3>3
        <4> HIDE DEF g
        <4> QED BY <3>1, <4>1
      <3> QED BY <3>2, <3>3
    <2>3. Ends(g, k + 1)
      <3>1. g = [e \in 0..(k + 1) |-> g[e]]
        OBVIOUS
      <3> HIDE DEF g
      <3> QED BY <2>2, <3>1
    <2> QED BY <2>3
  <1>3. T = Nat
    <2>1. T \subseteq Nat
      OBVIOUS
    <2> HIDE DEF T
    <2> QED BY <1>1, <1>2, <2>1, NatInduct
  <1>4. \E f : Ends(f, Len(t))
    <2>1. Len(t) \in T
      BY <1>3, LenProperties
    <2> QED BY <2>1
  <1>5. TriviaEnds(t, a) = CHOOSE f : Ends(f, Len(t))
    BY DEF TriviaEnds, NextEnds
  <1>6. Ends(TriviaEnds(t, a), Len(t))
    <2> DEFINE m == Len(t)
    <2> HIDE DEF Ends, m
    <2> QED BY <1>4, <1>5 DEF m
  <1> QED BY <1>6

\* A trivia stretch may be empty, and goes on with a blank or a comment.
LEMMA TriviaEmpty ==
    ASSUME NEW t \in Seq(STRING), NEW a \in 0..Len(t)
    PROVE  Trivia(t, a, a)
  <1>1. TriviaEnds(t, a)[a] = {a}
    BY TriviaEndsDef
  <1> QED BY <1>1 DEF Trivia

LEMMA TriviaExtends ==
    ASSUME NEW t \in Seq(STRING), NEW a \in Nat, NEW p \in Nat, NEW e \in 0..Len(t),
           a <= p, p < e, Trivia(t, a, p), Skipped(t, p, e)
    PROVE  Trivia(t, a, e)
  <1> DEFINE ends == TriviaEnds(t, a)
  <1>1. \A k \in 0..Len(t) : k > a => ends[k] = NextEnds(t, a, ends[k - 1], k)
    BY TriviaEndsDef
  <1>2. p \in ends[p]
    BY DEF Trivia
  <1> HIDE DEF ends
  <1> DEFINE T == {k \in Nat : p + k <= Len(t) => p \in ends[p + k]}
  <1>3. T = Nat
    <2>1. T \in SUBSET Nat /\ 0 \in T
      BY <1>2
    <2>2. ASSUME NEW k \in T PROVE k + 1 \in T
      <3> SUFFICES ASSUME p + k + 1 <= Len(t) PROVE p \in ends[p + k + 1]
        OBVIOUS
      <3>1. p \in ends[p + k]
        OBVIOUS
      <3>2. ends[p + k + 1] = NextEnds(t, a, ends[p + k], p + k + 1)
        BY <1>1
      <3> QED BY <3>1, <3>2 DEF NextEnds
    <2> HIDE DEF T
    <2> QED BY <2>1, <2>2, NatInduct
  <1>4. p \in ends[e - 1]
    <2> DEFINE k == e - 1 - p
    <2>1. k \in Nat /\ p + k = e - 1 /\ e - 1 <= Len(t)
      BY LenProperties
    <2>2. k \in T
      BY <1>3, <2>1
    <2> HIDE DEF k
    <2> QED BY <2>1, <2>2
  <1>5. ends[e] = NextEnds(t, a, ends[e - 1], e)
    BY <1>1
  <1>6. e \in ends[e]
    BY <1>4, <1>5 DEF NextEnds
  <1> QED BY <1>6 DEF Trivia, ends

\* One step of BlockEnds, from what it says of the offsets further on.
StepEnds(t, f, q) ==
    [d \in Nat |->
        IF d = 0 THEN q
        ELSE IF PairAt(t, q, "/", "*") THEN f[q + 2][d + 1]
        ELSE IF PairAt(t, q, "*", "/") THEN f[q + 2][d - 1]
        ELSE IF q < Len(t) THEN f[q + 1][d] ELSE Len(t) + 1]

\* BlockEnds is the function its definition says: there is one.
LEMMA BlockEndsDef ==
    ASSUME NEW t \in Seq(STRING)
    PROVE  BlockEnds(t) = [q \in 0..Len(t) |-> StepEnds(t, BlockEnds(t), q)]
  <1> DEFINE N == Len(t)
             Ends(f, k) == f = [q \in (N - k)..N |-> StepEnds(t, f, q)]
             T == {k \in Nat : k <= N => \E f : Ends(f, k)}
  <1>0. N \in Nat
    OBVIOUS
  <1>1. 0 \in T
    <2> DEFINE f == [q \in N..N |-> [d \in Nat |-> IF d = 0 THEN q ELSE N + 1]]
    <2>1. StepEnds(t, f, N) = [d \in Nat |-> IF d = 0 THEN N ELSE N + 1]
      BY DEF StepEnds, PairAt
    <2>2. Ends(f, 0)
      BY <2>1, <1>0
    <2> QED BY <2>2
  <1>2. ASSUME NEW k \in T PROVE k + 1 \in T
    <2> SUFFICES ASSUME k + 1 <= N PROVE \E f : Ends(f, k + 1)
      OBVIOUS
    <2>1. PICK f : Ends(f, k)
      OBVIOUS
    <2> DEFINE g == [q \in (N - (k + 1))..N |-> IF q >= N - k THEN f[q] ELSE StepEnds(t, f, q)]
    <2>2. ASSUME NEW q \in (N - (k + 1))..N PROVE g[q] = StepEnds(t, g, q)
      <3>0. N \in Nat /\ k \in Nat /\ q \in Int /\ q >= N - (k + 1) /\ q <= N
        BY <1>0
      <3>1. /\ q < N => g[q + 1] = f[q + 1]
            /\ q + 1 < N => g[q + 2] = f[q + 2]
        <4>1. /\ q < N => q + 1 \in (N - (k + 1))..N /\ q + 1 >= N - k
              /\ q + 1 < N => q + 2 \in (N - (k + 1))..N /\ q + 2 >= N - k
          BY <3>0
        <4> QED BY <4>1
      <3>2. g[q] = IF q >= N - k THEN f[q] ELSE StepEnds(t, f, q)
        OBVIOUS
      <3>3. q >= N - k => f[q] = StepEnds(t, f, q)
        <4> SUFFICES ASSUME q >= N - k PROVE f[q] = StepEnds(t, f, q)
          OBVIOUS
        <4>1. q \in (N - k)..N
          BY <3>0
        <4> HIDE DEF g
        <4> QED BY <2>1, <4>1
      <3> HIDE DEF g
      <3>4. StepEnds(t, g, q) = StepEnds(t, f, q)
        BY <3>1 DEF StepEnds, PairAt
      <3> QED BY <3>2, <3>3, <3>4
    <2>3. Ends(g, k + 1)
      <3>1. g = [q \in (N - (k + 1))..N |-> g[q]]
        OBVIOUS
      <3> HIDE DEF g
      <3> QED BY <2>2, <3>1
    <2> QED BY <2>3
  <1>3. T = Nat
    <2>1. T \subseteq Nat
      OBVIOUS
    <2> HIDE DEF T
    <2> QED BY <1>1, <1>2, <2>1, NatInduct
  <1>4. \E f : f = [q \in 0..N |-> StepEnds(t, f, q)]
    <2>1. N \in T
      BY <1>0, <1>3
    <2>2. \E f : Ends(f, N)
      BY <2>1, <1>0
    <2>3. N - N = 0
      BY <1>0
    <2> QED BY <2>2, <2>3
  <1>5. BlockEnds(t) = CHOOSE f : f = [q \in 0..N |-> StepEnds(t, f, q)]
    BY DEF BlockEnds, StepEnds
  <1> HIDE DEF N
  <1>6. BlockEnds(t) = [q \in 0..N |-> StepEnds(t, BlockEnds(t), q)]
    BY <1>4, <1>5
  <1> QED BY <1>6 DEF N

\* Where d open block comments end, one step of the scan further.
LEMMA BlockEndStep ==
    ASSUME NEW t \in Seq(STRING), NEW q \in 0..Len(t), NEW d \in Nat
    PROVE  /\ d = 0 => BlockEnd(t, q, d) = q
           /\ d > 0 /\ PairAt(t, q, "/", "*") => BlockEnd(t, q, d) = BlockEnd(t, q + 2, d + 1)
           /\ d > 0 /\ PairAt(t, q, "*", "/") => BlockEnd(t, q, d) = BlockEnd(t, q + 2, d - 1)
           /\ d > 0 /\ ~PairAt(t, q, "/", "*") /\ ~PairAt(t, q, "*", "/") /\ q < Len(t)
                 => BlockEnd(t, q, d) = BlockEnd(t, q + 1, d)
  <1>1. BlockEnds(t)[q] = StepEnds(t, BlockEnds(t), q)
    BY BlockEndsDef
  <1>2. PairAt(t, q, "*", "/") => ~PairAt(t, q, "/", "*")
    BY DEF PairAt
  <1>3. BlockEnd(t, q, d) =
            IF d = 0 THEN q
            ELSE IF PairAt(t, q, "/", "*") THEN BlockEnd(t, q + 2, d + 1)
            ELSE IF PairAt(t, q, "*", "/") THEN BlockEnd(t, q + 2, d - 1)
            ELSE IF q < Len(t) THEN BlockEnd(t, q + 1, d) ELSE Len(t) + 1
    BY <1>1 DEF BlockEnd, StepEnds
  <1> QED BY <1>2, <1>3

-----------------------------------------------------------------------------
(* Tokens appended to good ones. *)

\* A token that may follow toks.
Follows(t, toks, tok) ==
    /\ Covered(t, toks, tok.from)
    /\ tok.from < tok.to /\ tok.to <= Len(t)
    /\ \/ tok.start = tok.from /\ tok.end = tok.to
       \/ /\ AfterDollar(t, toks, tok.from) /\ tok.kind = "Operator"
          /\ tok.start = tok.from - 1 /\ tok.end = tok.to - 1
    /\ IsUnquoted(t, tok) => \A p \in tok.from..(tok.to - 1) : ~CommentAt(t, p)
    /\ tok.kind = "Operator" /\ tok.to > tok.from + 1 /\ t[tok.to] \in {"+", "-"} =>
          SpecialIn(t, tok.from, tok.to)
    /\ tok.kind = "Number" /\ tok.to < Len(t) => t[tok.to] \in InitialNumber
    /\ tok.kind # "EndOfInput"

LEMMA GoodAppend ==
    ASSUME NEW t \in Seq(STRING), NEW toks \in Seq(Tokens), NEW tok \in Tokens,
           Good(t, toks), Follows(t, toks, tok)
    PROVE  /\ Append(toks, tok) \in Seq(Tokens)
           /\ Good(t, Append(toks, tok))
           /\ Covered(t, Append(toks, tok), tok.to)
  <1> DEFINE both == Append(toks, tok)
  <1>1. /\ both \in Seq(Tokens) /\ Len(both) = Len(toks) + 1 /\ Len(toks) \in Nat
        /\ both[Len(both)] = tok
        /\ \A k \in 1..Len(toks) : both[k] = toks[k]
    BY AppendProperties, LenProperties
  <1>2. /\ \A k \in 0..Len(toks) : EndOf(both, k) = EndOf(toks, k)
        /\ EndOf(both, Len(both)) = tok.to
    BY <1>1 DEF EndOf
  <1>3. tok.from \in Nat /\ tok.to \in Nat /\ tok.to \in 0..Len(t)
    BY LenProperties DEF Tokens, Follows
  <1> HIDE DEF both
  <1>4. ASSUME NEW k \in 1..Len(both), k # Len(both)
        PROVE  /\ k \in 1..Len(toks) /\ both[k] = toks[k] /\ EndOf(both, k - 1) = EndOf(toks, k - 1)
               /\ k > 1 => both[k - 1] = toks[k - 1]
    <2>1. k \in 1..Len(toks) /\ k - 1 \in 0..Len(toks) /\ (k > 1 => k - 1 \in 1..Len(toks))
      BY <1>1, <1>4
    <2> QED BY <2>1, <1>1, <1>2
  <1>5. InOrder(t, both)
    <2> SUFFICES ASSUME NEW k \in 1..Len(both)
                 PROVE  /\ EndOf(both, k - 1) <= both[k].from /\ both[k].from < both[k].to
                        /\ both[k].to <= Len(t)
                        /\ Trivia(t, EndOf(both, k - 1), both[k].from)
      BY DEF InOrder
    <2>1. CASE k = Len(both)
      <3>1. EndOf(both, k - 1) = EndOf(toks, Len(toks)) /\ both[k] = tok
        BY <1>1, <1>2, <2>1
      <3> QED BY <3>1 DEF Follows, Covered
    <2>2. CASE k # Len(both)
      BY <1>4, <2>2 DEF Good, InOrder
    <2> QED BY <2>1, <2>2
  <1>6. SpansDrift(t, both)
    <2> SUFFICES ASSUME NEW k \in 1..Len(both)
                 PROVE  \/ both[k].start = both[k].from /\ both[k].end = both[k].to
                        \/ /\ k > 1 /\ both[k - 1].kind = "Operator"
                           /\ t[both[k - 1].from + 1] = "$"
                           /\ both[k - 1].to = both[k].from /\ both[k].kind = "Operator"
                           /\ both[k].start = both[k].from - 1 /\ both[k].end = both[k].to - 1
      BY DEF SpansDrift
    <2>1. CASE k = Len(both)
      <3>1. both[k] = tok
        BY <1>1, <2>1
      <3>2. CASE AfterDollar(t, toks, tok.from)
        <4>1. k > 1 /\ both[k - 1] = toks[Len(toks)]
          BY <1>1, <2>1, <3>2 DEF AfterDollar
        <4>2. toks[Len(toks)].from + 1 = tok.from
          BY <1>3, <3>2 DEF AfterDollar
        <4> QED BY <3>1, <3>2, <4>1, <4>2 DEF Follows, AfterDollar
      <3>3. CASE ~AfterDollar(t, toks, tok.from)
        BY <3>1, <3>3 DEF Follows
      <3> QED BY <3>2, <3>3
    <2>2. CASE k # Len(both)
      BY <1>4, <2>2 DEF Good, SpansDrift
    <2> QED BY <2>1, <2>2
  <1>7. CommentsOutside(t, both)
    <2> SUFFICES ASSUME NEW k \in 1..Len(both), IsUnquoted(t, both[k])
                 PROVE  \A p \in both[k].from..(both[k].to - 1) : ~CommentAt(t, p)
      BY DEF CommentsOutside
    <2>1. CASE k = Len(both)
      BY <1>1, <2>1 DEF Follows
    <2>2. CASE k # Len(both)
      BY <1>4, <2>2 DEF Good, CommentsOutside
    <2> QED BY <2>1, <2>2
  <1>8. Trimmed(t, both)
    <2> SUFFICES ASSUME NEW k \in 1..Len(both)
                 PROVE  /\ both[k].kind = "Operator" /\ both[k].to > both[k].from + 1
                              /\ t[both[k].to] \in {"+", "-"} =>
                           SpecialIn(t, both[k].from, both[k].to)
                        /\ both[k].kind = "Number" /\ both[k].to < Len(t) =>
                              t[both[k].to] \in InitialNumber
      BY DEF Trimmed
    <2>1. CASE k = Len(both)
      BY <1>1, <2>1 DEF Follows
    <2>2. CASE k # Len(both)
      BY <1>4, <2>2 DEF Good, Trimmed
    <2> QED BY <2>1, <2>2
  <1>9. \A k \in 1..Len(both) : both[k].kind # "EndOfInput"
    <2> SUFFICES ASSUME NEW k \in 1..Len(both) PROVE both[k].kind # "EndOfInput"
      OBVIOUS
    <2>1. CASE k = Len(both)
      BY <1>1, <2>1 DEF Follows
    <2>2. CASE k # Len(both)
      BY <1>4, <2>2 DEF Good
    <2> QED BY <2>1, <2>2
  <1>10. Covered(t, both, tok.to)
    BY <1>2, <1>3, TriviaEmpty DEF Covered
  <1> QED BY <1>1, <1>5, <1>6, <1>7, <1>8, <1>9, <1>10 DEF Good, both

\* push and pushRange append one token, of the bytes and the kind given.
LEMMA TokFields ==
    ASSUME NEW kd \in Kinds, NEW a \in Nat, NEW b \in Nat, NEW o \in Nat, a <= b
    PROVE  /\ Tok(kd, a, b, o) \in Tokens
           /\ Tok(kd, a, b, o).kind = kd
           /\ Tok(kd, a, b, o).from = a
           /\ Tok(kd, a, b, o).to = b
           /\ Tok(kd, a, b, o).start = o
           /\ Tok(kd, a, b, o).end = o + (b - a)
  <1>1. o + (b - a) \in Nat
    OBVIOUS
  <1> QED BY <1>1 DEF Tok, Tokens

LEMMA PushRangeAppends ==
    ASSUME NEW toks \in Seq(Tokens), NEW start \in Nat, NEW end \in Nat, start < end,
           NEW kind \in Kinds, NEW unterminated \in BOOLEAN
    PROVE  \E tok \in Tokens :
              /\ PushRange(toks, start, end, kind, unterminated) = Append(toks, tok)
              /\ tok.kind = kind /\ tok.from = start /\ tok.to = end
              /\ tok.start = start /\ tok.end = end
  <1> DEFINE prev == toks[Len(toks)]
             some == toks # <<>> /\ \E p \in prev.end..(start - 1) : At(p) \in Newline
             block == toks # <<>> /\ blockCommentPos >= prev.end /\ blockCommentPos < start
             tok == [kind |-> kind, start |-> start, end |-> end, from |-> start, to |-> end,
                     unterminated |-> unterminated, newline |-> some, blockComment |-> block]
  <1>1. some \in BOOLEAN /\ block \in BOOLEAN
    BY Zenon
  <1>2. PushRange(toks, start, end, kind, unterminated) = Append(toks, tok)
    BY DEF PushRange
  <1> HIDE DEF some, block
  <1>3. tok \in Tokens
    BY <1>1 DEF Tokens
  <1> QED BY <1>2, <1>3

\* The trimming rule leaves a byte at least, and only signs go.
LEMMA TrimmedEndIs ==
    ASSUME NEW a \in Nat, NEW b \in Nat, a < b
    PROVE  /\ TrimmedEnd(a, b) \in (a + 1)..b
           /\ \A p \in TrimmedEnd(a, b)..(b - 1) : At(p) \in {"+", "-"}
           /\ \/ SpecialIn(sql, a, TrimmedEnd(a, b))
              \/ TrimmedEnd(a, b) = a + 1
              \/ At(TrimmedEnd(a, b) - 1) \notin {"+", "-"}
  <1>1. CASE HasSpecial(a, b)
    BY <1>1 DEF TrimmedEnd, HasSpecial
  <1>2. CASE ~HasSpecial(a, b)
    <2> DEFINE Signs(e) == \A p \in e..(b - 1) : At(p) \in {"+", "-"}
               T == {e \in (a + 1)..b : Signs(e)}
               IsEnd(e) == Signs(e) /\ (e = a + 1 \/ At(e - 1) \notin {"+", "-"})
    <2>1. b \in T /\ T \in SUBSET Nat
      OBVIOUS
    <2>2. PICK e \in T : \A x \in T : e <= x
      <3> HIDE DEF T
      <3> QED BY <2>1, MinNat
    <2>3. e = a + 1 \/ At(e - 1) \notin {"+", "-"}
      <3> SUFFICES ASSUME e # a + 1, At(e - 1) \in {"+", "-"} PROVE FALSE
        OBVIOUS
      <3>1. e - 1 \in (a + 1)..b
        OBVIOUS
      <3>2. Signs(e - 1)
        <4> SUFFICES ASSUME NEW p \in (e - 1)..(b - 1) PROVE At(p) \in {"+", "-"}
          OBVIOUS
        <4>1. p = e - 1 \/ p \in e..(b - 1)
          OBVIOUS
        <4> QED BY <4>1
      <3>3. e - 1 \in T
        BY <3>1, <3>2
      <3>4. e <= e - 1
        BY <2>2, <3>3
      <3> QED BY <3>1, <3>4
    <2>4. e \in (a + 1)..b /\ IsEnd(e)
      BY <2>3
    <2>5. TrimmedEnd(a, b) = CHOOSE x \in (a + 1)..b : IsEnd(x)
      BY <1>2 DEF TrimmedEnd
    <2> HIDE DEF IsEnd
    <2>6. TrimmedEnd(a, b) \in (a + 1)..b /\ IsEnd(TrimmedEnd(a, b))
      BY <2>4, <2>5
    <2> QED BY <2>6 DEF IsEnd
  <1> QED BY <1>1, <1>2

\* The m bytes from offset e, each an operator of its own.
Singles(e, m) == [k \in 1..m |-> Tok("Operator", e + k - 1, e + k, e + k - 1)]

LEMMA ConcatAppend ==
    ASSUME NEW s \in Seq(Tokens), NEW u \in Seq(Tokens), NEW x \in Tokens
    PROVE  s \o Append(u, x) = Append(s \o u, x)
  <1>1. <<x>> \in Seq(Tokens) /\ s \o u \in Seq(Tokens)
    OBVIOUS
  <1>2. Append(u, x) = u \o <<x>> /\ Append(s \o u, x) = (s \o u) \o <<x>>
    BY <1>1, AppendIsConcat
  <1>3. (s \o u) \o <<x>> = s \o (u \o <<x>>)
    BY <1>1, ConcatAssociative
  <1> QED BY <1>2, <1>3

LEMMA SinglesStep ==
    ASSUME NEW e \in Nat, NEW m \in Nat
    PROVE  LET tok == Tok("Operator", e + m, e + m + 1, e + m) IN
           /\ tok \in Tokens /\ tok.kind = "Operator"
           /\ tok.from = e + m /\ tok.to = e + m + 1 /\ tok.start = e + m /\ tok.end = e + m + 1
           /\ Singles(e, m) \in Seq(Tokens)
           /\ Singles(e, m + 1) = Append(Singles(e, m), tok)
  <1> DEFINE tok == Tok("Operator", e + m, e + m + 1, e + m)
             single(k) == Tok("Operator", e + k - 1, e + k, e + k - 1)
  <1>1. "Operator" \in Kinds
    BY DEF Kinds
  <1>2. /\ tok \in Tokens /\ tok.kind = "Operator"
        /\ tok.from = e + m /\ tok.to = e + m + 1 /\ tok.start = e + m /\ tok.end = e + m + 1
    <2>1. PICK f \in Nat, g \in Nat : f = e + m /\ g = e + m + 1
      OBVIOUS
    <2>2. f <= g /\ f + (g - f) = g
      BY <2>1
    <2>3. /\ Tok("Operator", f, g, f) \in Tokens /\ Tok("Operator", f, g, f).kind = "Operator"
          /\ Tok("Operator", f, g, f).from = f /\ Tok("Operator", f, g, f).to = g
          /\ Tok("Operator", f, g, f).start = f /\ Tok("Operator", f, g, f).end = f + (g - f)
      BY <1>1, <2>2, TokFields
    <2>4. tok = Tok("Operator", f, g, f)
      BY <2>1
    <2> HIDE DEF tok
    <2> QED BY <2>1, <2>2, <2>3, <2>4
  <1>3. ASSUME NEW k \in 1..(m + 1) PROVE single(k) \in Tokens
    <2>1. PICK f \in Nat, g \in Nat : f = e + k - 1 /\ g = e + k
      OBVIOUS
    <2>2. f <= g
      BY <2>1
    <2>3. Tok("Operator", f, g, f) \in Tokens
      BY <1>1, <2>2, TokFields
    <2> QED BY <2>1, <2>3
  <1>4. single(m + 1) = tok
    <2>1. e + (m + 1) - 1 = e + m /\ e + (m + 1) = e + m + 1
      OBVIOUS
    <2> QED BY <2>1
  <1> HIDE DEF tok, single
  <1>5. /\ Singles(e, m) = [k \in 1..m |-> single(k)]
        /\ Singles(e, m + 1) = [k \in 1..(m + 1) |-> single(k)]
    BY DEF Singles, single
  <1>6. /\ Singles(e, m) \in Seq(Tokens) /\ Len(Singles(e, m)) = m
        /\ Singles(e, m + 1) \in Seq(Tokens) /\ Len(Singles(e, m + 1)) = m + 1
    BY <1>3, <1>5
  <1> DEFINE appended == Append(Singles(e, m), tok)
  <1>7. /\ appended \in Seq(Tokens) /\ Len(appended) = m + 1 /\ appended[m + 1] = tok
        /\ \A k \in 1..m : appended[k] = Singles(e, m)[k]
    BY <1>2, <1>6, AppendProperties
  <1> HIDE DEF appended
  <1>8. \A k \in 1..(m + 1) : Singles(e, m + 1)[k] = appended[k]
    <2> SUFFICES ASSUME NEW k \in 1..(m + 1) PROVE single(k) = appended[k]
      BY <1>5
    <2>1. CASE k = m + 1
      BY <1>4, <1>7, <2>1
    <2>2. CASE k # m + 1
      <3>1. k \in 1..m
        BY <2>2
      <3> QED BY <1>5, <1>7, <3>1
    <2> QED BY <2>1, <2>2
  <1>9. Singles(e, m + 1) = appended
    BY <1>6, <1>7, <1>8, SeqEqual
  <1> QED BY <1>2, <1>6, <1>9 DEF appended, tok

\* pushOperator appends the trimmed signs one by one.
LEMMA SinglesAppend ==
    ASSUME NEW t \in Seq(STRING), NEW toks \in Seq(Tokens), NEW e \in Nat, NEW b \in Nat,
           e <= b, b <= Len(t), Good(t, toks), Covered(t, toks, e),
           \A p \in e..(b - 1) : ~CommentAt(t, p)
    PROVE  /\ toks \o Singles(e, b - e) \in Seq(Tokens)
           /\ Good(t, toks \o Singles(e, b - e))
           /\ Covered(t, toks \o Singles(e, b - e), b)
  <1> DEFINE Fits(m) == /\ toks \o Singles(e, m) \in Seq(Tokens)
                        /\ Good(t, toks \o Singles(e, m))
                        /\ Covered(t, toks \o Singles(e, m), e + m)
             T == {m \in Nat : e + m <= b => Fits(m)}
  <1>0. Len(t) \in Nat
    BY LenProperties
  <1>1. Fits(0)
    <2>1. toks \o Singles(e, 0) = toks /\ e + 0 = e
      BY DEF Singles
    <2> QED BY <2>1
  <1>2. ASSUME NEW m \in Nat, e + (m + 1) <= b, Fits(m) PROVE Fits(m + 1)
    <2> DEFINE tok == Tok("Operator", e + m, e + m + 1, e + m)
               before == toks \o Singles(e, m)
    <2>1. /\ tok \in Tokens /\ tok.kind = "Operator"
          /\ tok.from = e + m /\ tok.to = e + m + 1 /\ tok.start = e + m /\ tok.end = e + m + 1
          /\ Singles(e, m) \in Seq(Tokens)
          /\ Singles(e, m + 1) = Append(Singles(e, m), tok)
      BY SinglesStep
    <2> HIDE DEF tok
    <2>2. toks \o Singles(e, m + 1) = Append(before, tok)
      BY <2>1, ConcatAppend
    <2>3. Follows(t, before, tok)
      <3>1. \A p \in tok.from..(tok.to - 1) : ~CommentAt(t, p)
        BY <1>2, <2>1
      <3>2. tok.from < tok.to /\ tok.to <= Len(t) /\ ~(tok.to > tok.from + 1)
        BY <1>0, <1>2, <2>1
      <3> QED BY <1>2, <2>1, <3>1, <3>2 DEF Follows
    <2>4. before \in Seq(Tokens) /\ Good(t, before)
      BY <1>2
    <2> HIDE DEF before
    <2>5. /\ Append(before, tok) \in Seq(Tokens) /\ Good(t, Append(before, tok))
          /\ Covered(t, Append(before, tok), tok.to)
      BY <2>1, <2>3, <2>4, GoodAppend
    <2>6. e + (m + 1) = tok.to
      BY <2>1
    <2> QED BY <2>2, <2>5, <2>6
  <1> HIDE DEF Fits
  <1>3. Fits(b - e)
    <2>1. T \in SUBSET Nat /\ 0 \in T
      BY <1>1
    <2>2. ASSUME NEW m \in T PROVE m + 1 \in T
      <3>1. m \in Nat /\ (e + (m + 1) <= b => Fits(m))
        OBVIOUS
      <3>2. e + (m + 1) <= b => Fits(m + 1)
        BY <1>2, <3>1
      <3> QED BY <3>1, <3>2
    <2> HIDE DEF T
    <2>3. T = Nat
      BY <2>1, <2>2, NatInduct
    <2>4. b - e \in T /\ e + (b - e) <= b
      BY <2>3
    <2> QED BY <2>4 DEF T
  <1>4. e + (b - e) = b
    OBVIOUS
  <1> QED BY <1>3, <1>4 DEF Fits

\* pushOperator: the operator and the signs trimmed from it.
LEMMA PushOperatorAppends ==
    ASSUME NEW toks \in Seq(Tokens), NEW a \in Nat, NEW b \in Nat, a < b, b <= n,
           sql \in Seq(STRING), Good(sql, toks), Covered(sql, toks, a),
           \A p \in a..(b - 1) : ~CommentAt(sql, p)
    PROVE  /\ PushOperator(toks, a, b) \in Seq(Tokens)
           /\ Good(sql, PushOperator(toks, a, b))
           /\ Covered(sql, PushOperator(toks, a, b), b)
  <1>0. n \in Nat /\ n = Len(sql)
    BY LenProperties DEF n
  <1>1. PICK e : e = TrimmedEnd(a, b)
    OBVIOUS
  <1>2. /\ e \in (a + 1)..b
        /\ SpecialIn(sql, a, e) \/ e = a + 1 \/ sql[(e - 1) + 1] \notin {"+", "-"}
    BY <1>1, TrimmedEndIs DEF At
  <1>3. (e - 1) + 1 = e
    BY <1>2
  <1>4. PICK tok \in Tokens :
            /\ PushRange(toks, a, e, "Operator", FALSE) = Append(toks, tok)
            /\ tok.kind = "Operator" /\ tok.from = a /\ tok.to = e
            /\ tok.start = a /\ tok.end = e
    <2>1. e \in Nat /\ a < e /\ "Operator" \in Kinds /\ FALSE \in BOOLEAN
      BY <1>2 DEF Kinds
    <2> HIDE DEF Tokens
    <2>2. \A v \in BOOLEAN : \E tok \in Tokens :
              /\ PushRange(toks, a, e, "Operator", v) = Append(toks, tok)
              /\ tok.kind = "Operator" /\ tok.from = a /\ tok.to = e
              /\ tok.start = a /\ tok.end = e
      BY <2>1, PushRangeAppends
    <2> QED BY <2>1, <2>2
  <1>5. Follows(sql, toks, tok)
    <2>1. \A p \in tok.from..(tok.to - 1) : ~CommentAt(sql, p)
      BY <1>2, <1>4
    <2>2. tok.from < tok.to /\ tok.to <= Len(sql)
      BY <1>0, <1>2, <1>4
    <2> QED BY <1>2, <1>3, <1>4, <2>1, <2>2 DEF Follows
  <1>6. /\ Append(toks, tok) \in Seq(Tokens) /\ Good(sql, Append(toks, tok))
        /\ Covered(sql, Append(toks, tok), e)
    BY <1>4, <1>5, GoodAppend
  <1>7. PushOperator(toks, a, b) = Append(toks, tok) \o Singles(e, b - e)
    BY <1>1, <1>4 DEF PushOperator, Singles
  <1>8. \A p \in e..(b - 1) : ~CommentAt(sql, p)
    BY <1>2
  <1>9. e \in Nat /\ e <= b /\ b <= Len(sql)
    BY <1>0, <1>2
  <1> QED BY <1>6, <1>7, <1>8, <1>9, SinglesAppend

\* A number gives back what follows its last digit or point.
LEMMA NumberBacktrackIs ==
    ASSUME lastPos \in Nat, i \in Nat, lastPos < i, At(lastPos) \in InitialNumber
    PROVE  /\ NumberBacktrack \in (lastPos + 1)..i
           /\ At(NumberBacktrack - 1) \in InitialNumber
  <1> DEFINE T == {p \in lastPos..(i - 1) : At(p) \in InitialNumber}
             IsEnd(e) == At(e - 1) \in InitialNumber
                            /\ \A p \in e..(i - 1) : At(p) \notin InitialNumber
  <1>1. T \in SUBSET (0..i) /\ lastPos \in T
    OBVIOUS
  <1>2. PICK p \in T : \A x \in T : x <= p
    <2> HIDE DEF T
    <2> QED BY <1>1, MaxNat
  <1>3. p + 1 \in (lastPos + 1)..i /\ (p + 1) - 1 = p
    OBVIOUS
  <1>4. IsEnd(p + 1)
    <2>1. \A x \in (p + 1)..(i - 1) : At(x) \notin InitialNumber
      <3> SUFFICES ASSUME NEW x \in (p + 1)..(i - 1), At(x) \in InitialNumber PROVE FALSE
        OBVIOUS
      <3>1. x \in T
        OBVIOUS
      <3> QED BY <1>2, <3>1
    <2> QED BY <1>3, <2>1
  <1>5. NumberBacktrack = CHOOSE e \in (lastPos + 1)..i : IsEnd(e)
    BY DEF NumberBacktrack
  <1> HIDE DEF IsEnd
  <1>6. NumberBacktrack \in (lastPos + 1)..i /\ IsEnd(NumberBacktrack)
    BY <1>3, <1>4, <1>5
  <1> QED BY <1>6 DEF IsEnd

\* A Unicode space lies inside the text.
LEMMA SpaceLenIs ==
    ASSUME NEW t \in Seq(STRING), NEW k \in Nat
    PROVE  SpaceLen(t, k) \in Nat /\ (SpaceLen(t, k) > 0 => k + SpaceLen(t, k) <= Len(t))
  <1> DEFINE here == {u \in UnicodeSpaces :
                         k + Len(u) <= Len(t) /\ SubSeq(t, k + 1, k + Len(u)) = u}
  <1>1. ASSUME NEW u \in UnicodeSpaces PROVE Len(u) \in Nat
    <2>1. CASE \E b \in {"85", "A0"} : u = <<"C2", b>>
      BY <2>1
    <2>2. CASE \E b \in {"80", "81", "82", "83", "84", "85", "86", "87", "88", "89",
                         "8A", "A8", "A9", "AF"} : u = <<"E2", "80", b>>
      BY <2>2
    <2>3. CASE u \in {<<"E1", "9A", "80">>, <<"E2", "81", "9F">>, <<"E3", "80", "80">>}
      BY <2>3
    <2> QED BY <2>1, <2>2, <2>3, Zenon DEF UnicodeSpaces
  <1>2. CASE here = {}
    BY <1>2 DEF SpaceLen
  <1>3. CASE here # {}
    <2>1. (CHOOSE u \in here : TRUE) \in here
      BY <1>3
    <2>2. PICK u \in here : SpaceLen(t, k) = Len(u)
      BY <1>3, <2>1 DEF SpaceLen
    <2> QED BY <1>1, <2>2, LenProperties
  <1> QED BY <1>2, <1>3

-----------------------------------------------------------------------------
(* The steps of the loop, by where they lead. *)

TokenStates == {"QuotedIdentifier", "StringLiteral", "Keyword", "Numeric", "Operator",
                "DollarQuotedString"}
CommentStates == {"SingleLineComment", "MultiLineComment"}

LEMMA Facts ==
    ASSUME IInv
    PROVE  /\ sql \in Seq(STRING) /\ n = Len(sql) /\ n \in Nat
           /\ i \in 0..n /\ lastPos \in 0..i /\ depth \in 0..n
           /\ tokens \in Seq(Tokens) /\ escapeString \in BOOLEAN
           /\ delimiter \in QuotedIdentifierDelimiter /\ marker \in Seq(STRING)
           /\ blockCommentPos \in -1..(n - 1)
           /\ marker = <<>> \/ state = "DollarQuotedString" \/ Returned
           /\ ~Returned => Good(sql, tokens) /\ err.type = "none"
  <1>1. sql \in Seq(STRING)
    BY SourcesAssumption DEF IInv, TypeOK
  <1>2. n = Len(sql) /\ n \in Nat
    BY <1>1, LenProperties DEF n
  <1> QED BY <1>1, <1>2 DEF IInv, TypeOK, Offsets, DoneInv, Returned

\* What every step of the loop leaves well-typed.
TypedModes ==
    /\ escapeString' \in BOOLEAN /\ delimiter' \in QuotedIdentifierDelimiter
    /\ marker' \in Seq(STRING) /\ (marker' = <<>> \/ state' = "DollarQuotedString" \/ Returned')
    /\ depth' \in 0..n /\ blockCommentPos' \in -1..(n - 1)

LEMMA ModesTyped ==
    ASSUME IInv, ~Returned, Modes, UNCHANGED blockCommentPos,
           state' = state \/ state # "DollarQuotedString" \/ Returned'
    PROVE  TypedModes
  BY Facts DEF TypedModes, Modes

\* A step that stays in the loop keeps the type invariant and DoneInv.
LEMMA InLoop ==
    ASSUME IInv, ~Returned, NEW s \in ScanStates, NEW k \in 0..n, NEW p \in 0..k,
           Goto(s, k, p), UNCHANGED <<sql, err>>, TypedModes,
           tokens' \in Seq(Tokens), Good(sql, tokens')
    PROVE  TypeOK' /\ DoneInv' /\ ~Returned'
  <1>1. s # "done" /\ s # "error"
    BY DEF ScanStates
  <1>2. TypeOK'
    <2>1. n' = n
      BY DEF n
    <2> QED BY <2>1 DEF IInv, TypeOK, Goto, TypedModes, Offsets
  <1>3. DoneInv'
    BY <1>1, Facts DEF DoneInv, Goto
  <1> QED BY <1>1, <1>2, <1>3 DEF Goto, Returned

\* Back in the standard state, everything up to the loop index covered.
LEMMA ToStandard ==
    ASSUME IInv, ~Returned, NEW p \in 0..n, Goto("Standard", p, p),
           UNCHANGED <<sql, err>>, TypedModes,
           tokens' \in Seq(Tokens), Good(sql, tokens'), Covered(sql, tokens', p)
    PROVE  IInv'
  <1>1. TypeOK' /\ DoneInv'
    BY InLoop DEF ScanStates
  <1>2. StandardInv' /\ TokenInv' /\ CommentInv'
    BY DEF StandardInv, TokenInv, CommentInv, Goto
  <1> QED BY <1>1, <1>2 DEF IInv

\* In a token that starts at p, where everything is covered.
LEMMA ToToken ==
    ASSUME IInv, ~Returned, NEW s \in TokenStates, NEW k \in 0..n, NEW p \in 0..(k - 1),
           Goto(s, k, p), Quiet, TypedModes, Covered(sql, tokens, p),
           s = "Keyword" => \A q \in p..(k - 1) : At(q) \notin {"-", "/"},
           s = "Numeric" =>
               /\ At(p) \in InitialNumber
               /\ \A q \in (p + 1)..(k - 1) :
                     At(q) # "/" /\ (At(q) = "-" => At(q - 1) \in Scientific),
           s = "Operator" => \A q \in p..(k - 1) : ~CommentAt(sql, q),
           s = "QuotedIdentifier" => At(p) \in QuotedIdentifierDelimiter
    PROVE  IInv'
  <1>1. UNCHANGED <<sql, err>> /\ tokens' = tokens
    BY DEF Quiet, Fixed
  <1>2. TypeOK' /\ DoneInv'
    <2>1. s \in ScanStates /\ p \in 0..k
      BY Facts DEF TokenStates, ScanStates
    <2> QED BY <1>1, <2>1, Facts, InLoop
  <1>3. StandardInv' /\ CommentInv'
    BY DEF StandardInv, CommentInv, Goto, TokenStates
  <1>4. TokenInv'
    <2>1. state' = s /\ i' = k /\ lastPos' = p /\ p < k
      BY DEF Goto
    <2> QED BY <1>1, <2>1 DEF TokenInv, At
  <1> QED BY <1>2, <1>3, <1>4 DEF IInv

\* In a comment.
LEMMA ToComment ==
    ASSUME IInv, ~Returned, NEW s \in CommentStates, NEW k \in 0..n, lastPos <= k,
           Goto(s, k, lastPos), Quiet, TypedModes,
           CommentFrom(sql, lastPos) + 2 <= k, Covered(sql, tokens, CommentFrom(sql, lastPos)),
           s = "SingleLineComment" =>
               /\ PairAt(sql, CommentFrom(sql, lastPos), "-", "-")
               /\ \A q \in CommentFrom(sql, lastPos)..(k - 1) : At(q) \notin Newline,
           s = "MultiLineComment" =>
               /\ PairAt(sql, CommentFrom(sql, lastPos), "/", "*")
               /\ depth' \in 1..k
               /\ BlockEnd(sql, CommentFrom(sql, lastPos) + 2, 1) = BlockEnd(sql, k, depth')
    PROVE  IInv'
  <1>1. UNCHANGED <<sql, err>> /\ tokens' = tokens
    BY DEF Quiet, Fixed
  <1>2. TypeOK' /\ DoneInv'
    <2>1. s \in ScanStates /\ lastPos \in 0..k
      BY Facts DEF CommentStates, ScanStates
    <2> QED BY <1>1, <2>1, Facts, InLoop
  <1>3. StandardInv' /\ TokenInv'
    BY DEF StandardInv, TokenInv, Goto, CommentStates
  <1>4. CommentInv'
    <2>1. state' = s /\ i' = k /\ lastPos' = lastPos
      BY DEF Goto
    <2> QED BY <1>1, <2>1 DEF CommentInv, At
  <1> QED BY <1>2, <1>3, <1>4 DEF IInv

\* The sentinel after good tokens that cover the whole text.
LEMMA ToFinish ==
    ASSUME IInv, ~Returned, NEW toks \in Seq(Tokens), Good(sql, toks), Covered(sql, toks, n),
           Finish(toks)
    PROVE  IInv'
  <1> DEFINE last == Tok("EndOfInput", n, n, n)
  <1>1. last \in Tokens
    <2>1. n \in Nat /\ n <= n /\ "EndOfInput" \in Kinds
      BY Facts DEF Kinds
    <2> HIDE DEF Tokens
    <2> QED BY <2>1, TokFields
  <1>2. /\ tokens' = Append(toks, last) /\ state' = "done" /\ n' = n
        /\ UNCHANGED <<sql, i, lastPos, blockCommentPos, err>> /\ Modes
    BY DEF Finish, n
  <1> HIDE DEF last
  <1>3. /\ tokens' \in Seq(Tokens) /\ Len(tokens') = Len(toks) + 1
        /\ tokens'[Len(tokens')] = last
    BY <1>1, <1>2, AppendProperties
  <1>4. Real' = toks
    <2>1. Real' = SubSeq(tokens', 1, Len(tokens') - 1)
      BY <1>2 DEF Real
    <2>2. SubSeq(Append(toks, last), 1, Len(toks)) = toks
      BY <1>1, LenProperties
    <2>3. Len(tokens') - 1 = Len(toks)
      BY <1>3, LenProperties
    <2> QED BY <1>2, <2>1, <2>2, <2>3
  <1>5. TypeOK'
    BY <1>2, <1>3 DEF IInv, TypeOK, Offsets, Modes, Returned
  <1>6. StandardInv' /\ TokenInv' /\ CommentInv'
    BY <1>2 DEF StandardInv, TokenInv, CommentInv
  <1>7. DoneInv'
    <2>1. Len(tokens') > 0
      BY <1>3, LenProperties
    <2>2. last = Tok("EndOfInput", n', n', n')
      BY <1>2 DEF last
    <2> QED BY <1>2, <1>3, <1>4, <2>1, <2>2 DEF DoneInv
  <1> QED BY <1>5, <1>6, <1>7 DEF IInv

\* An error, everything before the construct it is about covered.
LEMMA ToError ==
    ASSUME IInv, ~Returned,
           NEW type \in {"EmptyIdentifier", "UnterminatedComment", "UnterminatedString",
                         "UnterminatedIdentifier"},
           Raise(type), NEW from, Covered(sql, tokens, from),
           type = "UnterminatedComment" => from = CommentFrom(sql, lastPos),
           type # "UnterminatedComment" => from = lastPos
    PROVE  IInv'
  <1>1. /\ err' = [type |-> type, at |-> lastPos] /\ state' = "error" /\ n' = n
        /\ UNCHANGED <<sql, i, lastPos, tokens, blockCommentPos>> /\ Modes
    BY DEF Raise, n
  <1>2. TypeOK'
    <2>1. err' \in [type : {"none", "EmptyIdentifier", "UnterminatedComment",
                           "UnterminatedString", "UnterminatedIdentifier"}, at : 0..n]
      BY <1>1, Facts
    <2> QED BY <1>1, <2>1 DEF IInv, TypeOK, Offsets, Modes, Returned
  <1>3. StandardInv' /\ TokenInv' /\ CommentInv'
    BY <1>1 DEF StandardInv, TokenInv, CommentInv
  <1>4. ErrorStart' = from
    <2>1. err'.type = type /\ err'.at = lastPos /\ sql' = sql
      BY <1>1
    <2>2. lastPos + 0 = lastPos
      BY Facts
    <2> QED BY <2>1, <2>2 DEF ErrorStart, CommentFrom, At
  <1>5. DoneInv'
    BY <1>1, <1>4, Facts DEF DoneInv
  <1> QED BY <1>2, <1>3, <1>5 DEF IInv

-----------------------------------------------------------------------------
(* The tokens pushed by one call. *)

\* Where a token's span may start.
Placed(kind, from, offset) ==
    \/ offset = from
    \/ offset = from - 1 /\ AfterDollar(sql, tokens, from) /\ kind = "Operator"

LEMMA PushOne ==
    ASSUME IInv, ~Returned, NEW kind \in Kinds, NEW from \in Nat, NEW to \in Nat,
           NEW offset \in Nat, from < to, to <= n, Covered(sql, tokens, from),
           Placed(kind, from, offset), \A q \in from..(to - 1) : ~CommentAt(sql, q),
           kind # "EndOfInput",
           kind = "Operator" => to = from + 1 \/ At(to - 1) \notin {"+", "-"},
           kind = "Number" => to = n
    PROVE  /\ Push(tokens, kind, from, to, offset) \in Seq(Tokens)
           /\ Good(sql, Push(tokens, kind, from, to, offset))
           /\ Covered(sql, Push(tokens, kind, from, to, offset), to)
  <1> DEFINE tok == Tok(kind, from, to, offset)
  <1>1. /\ tok \in Tokens /\ tok.kind = kind /\ tok.from = from /\ tok.to = to
        /\ tok.start = offset /\ tok.end = offset + (to - from)
    <2>1. from <= to
      OBVIOUS
    <2> QED BY <2>1, TokFields
  <1> HIDE DEF tok
  <1>2. /\ offset = from => tok.end = tok.to
        /\ offset = from - 1 => tok.end = tok.to - 1
        /\ (to - 1) + 1 = to
    BY <1>1
  <1>3. Follows(sql, tokens, tok)
    <2>1. sql \in Seq(STRING) /\ n = Len(sql)
      BY Facts
    <2>2. kind = "Operator" => to = from + 1 \/ sql[to] \notin {"+", "-"}
      BY <1>2 DEF At
    <2>3. ~(to = from + 1 /\ to > from + 1) /\ ~(to = n /\ to < n)
      BY Facts
    <2> QED BY <1>1, <1>2, <2>1, <2>2, <2>3 DEF Follows, Placed
  <1>4. sql \in Seq(STRING) /\ tokens \in Seq(Tokens) /\ Good(sql, tokens)
    BY Facts
  <1> QED BY <1>1, <1>3, <1>4, GoodAppend DEF Push, tok

LEMMA PushRangeOne ==
    ASSUME IInv, ~Returned, NEW kind \in Kinds, NEW start \in Nat, NEW end \in Nat,
           NEW unterminated \in BOOLEAN, start < end, end <= n, Covered(sql, tokens, start),
           \/ kind = "String"
           \/ kind = "Identifier" /\ At(start) \in QuotedIdentifierDelimiter
           \/ \A q \in start..(end - 1) : ~CommentAt(sql, q),
           kind # "EndOfInput", kind # "Operator",
           kind = "Number" => end = n \/ At(end - 1) \in InitialNumber
    PROVE  /\ PushRange(tokens, start, end, kind, unterminated) \in Seq(Tokens)
           /\ Good(sql, PushRange(tokens, start, end, kind, unterminated))
           /\ Covered(sql, PushRange(tokens, start, end, kind, unterminated), end)
  <1>1. sql \in Seq(STRING) /\ tokens \in Seq(Tokens) /\ Good(sql, tokens) /\ n = Len(sql)
    BY Facts
  <1>2. PICK tok \in Tokens :
            /\ PushRange(tokens, start, end, kind, unterminated) = Append(tokens, tok)
            /\ tok.kind = kind /\ tok.from = start /\ tok.to = end
            /\ tok.start = start /\ tok.end = end
    BY <1>1, PushRangeAppends
  <1>3. Follows(sql, tokens, tok)
    <2>1. kind = "Number" => end = n \/ sql[end] \in InitialNumber
      <3>1. (end - 1) + 1 = end
        OBVIOUS
      <3> QED BY <3>1 DEF At
    <2>2. IsUnquoted(sql, tok) => \A q \in tok.from..(tok.to - 1) : ~CommentAt(sql, q)
      BY <1>2 DEF IsUnquoted, IsDelimited, At
    <2>3. ~(end = n /\ end < n)
      BY Facts
    <2> QED BY <1>1, <1>2, <2>1, <2>2, <2>3 DEF Follows
  <1>4. /\ Append(tokens, tok) \in Seq(Tokens) /\ Good(sql, Append(tokens, tok))
        /\ Covered(sql, Append(tokens, tok), tok.to)
    BY <1>1, <1>2, <1>3, GoodAppend
  <1> QED BY <1>2, <1>4

-----------------------------------------------------------------------------
(* stateStandard *)

LEMMA AtStandard ==
    ASSUME IInv, In("Standard")
    PROVE  /\ ~Returned /\ Covered(sql, tokens, i) /\ i \in 0..(n - 1) /\ i \in Nat
           /\ lastPos = i \/ (lastPos = i - 1 /\ AfterDollar(sql, tokens, i))
           /\ c = sql[i + 1]
           /\ c = "$" => lastPos = i
  <1>1. /\ state = "Standard" /\ i < n
        /\ \/ lastPos = i /\ Covered(sql, tokens, i)
           \/ lastPos = i - 1 /\ AfterDollar(sql, tokens, i) /\ Covered(sql, tokens, i)
           \/ lastPos = i - 1 /\ i = n /\ At(lastPos) = "$" /\ Covered(sql, tokens, lastPos)
    BY DEF IInv, StandardInv, In
  <1>2. i \in 0..(n - 1) /\ i \in Nat
    BY <1>1, Facts
  <1> QED BY <1>1, <1>2, Facts DEF Returned, c, At, AfterDollar

\* What the classes of bytes exclude.
LEMMA Classes ==
    ASSUME NEW ch
    PROVE  /\ ch \notin OperatorAny => ch \notin {"-", "/"}
           /\ KeywordChar(ch) => ch \notin {"-", "/"}
           /\ ch \in SingleByteOperator \cup {"$", ";", ":", "="} => ch \notin {"-", "/", "+"}
           /\ ch \in InitialNumber => ch \notin {"-", "/", "+"}
  BY DEF OperatorAny, SingleByteOperator, OperatorCont, KeywordChar, InitialNumber, Digit

LEMMA NoCommentAt ==
    ASSUME NEW t, NEW k \in Nat, t[k + 1] \notin {"-", "/"}
    PROVE  ~CommentAt(t, k)
  BY DEF CommentAt, PairAt

\* A dollar pushed on its own, with no dollar after it.
LEMMA DollarPushed ==
    ASSUME IInv, In("Standard"), c = "$", i + 1 < n, At(i + 1) # "$",
           Pushed(Push(tokens, "Operator", i, i + 1, i)), Goto("Standard", i + 1, i), Modes
    PROVE  IInv'
  <1> DEFINE toks == Push(tokens, "Operator", i, i + 1, i)
  <1>1. /\ toks \in Seq(Tokens) /\ Good(sql, toks) /\ Covered(sql, toks, i + 1)
    <2>1. i \in Nat /\ i + 1 \in Nat /\ i < i + 1 /\ i + 1 <= n /\ Covered(sql, tokens, i)
      BY AtStandard, Facts
    <2>2. \A q \in i..((i + 1) - 1) : ~CommentAt(sql, q)
      <3>1. ~CommentAt(sql, i)
        BY AtStandard, NoCommentAt
      <3> QED BY <2>1, <3>1
    <2>3. "Operator" \in Kinds
      BY DEF Kinds
    <2> QED BY <2>1, <2>2, <2>3, AtStandard, PushOne DEF Placed
  <1>2. tokens' = toks /\ UNCHANGED <<sql, err, blockCommentPos>>
    BY DEF Pushed, Fixed
  <1>3. TypeOK' /\ DoneInv'
    <2>1. ~Returned /\ TypedModes
      BY <1>2, AtStandard, ModesTyped DEF Goto, In
    <2>2. i + 1 \in 0..n /\ i \in 0..(i + 1) /\ "Standard" \in ScanStates
      BY AtStandard, Facts DEF ScanStates
    <2> HIDE DEF toks
    <2> QED BY <1>1, <1>2, <2>1, <2>2, InLoop
  <1>4. AfterDollar(sql, toks, i + 1)
    <2>1. toks = Append(tokens, Tok("Operator", i, i + 1, i))
      BY DEF Push
    <2>2. /\ Tok("Operator", i, i + 1, i) \in Tokens
          /\ Tok("Operator", i, i + 1, i).kind = "Operator"
          /\ Tok("Operator", i, i + 1, i).from = i /\ Tok("Operator", i, i + 1, i).to = i + 1
      <3>1. PICK f \in Nat, g \in Nat : f = i /\ g = i + 1
        BY AtStandard
      <3>2. f <= g /\ "Operator" \in Kinds
        BY <3>1 DEF Kinds
      <3>3. /\ Tok("Operator", f, g, f) \in Tokens
            /\ Tok("Operator", f, g, f).kind = "Operator"
            /\ Tok("Operator", f, g, f).from = f /\ Tok("Operator", f, g, f).to = g
        BY <3>2, TokFields
      <3> QED BY <3>1, <3>3
    <2>3. tokens \in Seq(Tokens) /\ Len(tokens) \in Nat
      BY Facts, LenProperties
    <2>4. Len(toks) = Len(tokens) + 1 /\ toks[Len(tokens) + 1] = Tok("Operator", i, i + 1, i)
      BY <2>1, <2>2, <2>3, AppendProperties
    <2>5. i + 1 < Len(sql) /\ sql[i + 1] = "$" /\ sql[(i + 1) + 1] # "$" /\ (i + 1) - 1 = i
      BY AtStandard, Facts DEF At
    <2> HIDE DEF toks
    <2> QED BY <2>2, <2>3, <2>4, <2>5 DEF AfterDollar
  <1>5. StandardInv'
    <2>1. state' = "Standard" /\ i' = i + 1 /\ lastPos' = i /\ i = (i + 1) - 1
      BY AtStandard DEF Goto
    <2> QED BY <1>1, <1>2, <1>4, <2>1 DEF StandardInv
  <1>6. TokenInv' /\ CommentInv'
    BY DEF TokenInv, CommentInv, Goto
  <1> QED BY <1>3, <1>5, <1>6 DEF IInv

\* White space and comment starts: only the covered stretch grows.
LEMMA StandardSkips ==
    ASSUME IInv, In("Standard"),
           SkipSpace \/ SkipUnicodeSpace \/ LineCommentStart \/ BlockCommentStart
    PROVE  IInv'
  <1>0. /\ ~Returned /\ Covered(sql, tokens, i) /\ i \in 0..(n - 1) /\ i \in Nat
        /\ c = sql[i + 1] /\ state # "DollarQuotedString"
        /\ sql \in Seq(STRING) /\ n = Len(sql) /\ n \in Nat /\ tokens \in Seq(Tokens)
        /\ Good(sql, tokens) /\ depth \in 0..n
    BY AtStandard, Facts DEF In
  <1>1. EndOf(tokens, Len(tokens)) \in Nat
    <2>1. Len(tokens) \in Nat /\ (Len(tokens) > 0 => tokens[Len(tokens)] \in Tokens)
      BY <1>0, LenProperties, ElementOfSeq
    <2> QED BY <2>1 DEF EndOf, Tokens
  <1>2. ASSUME NEW e \in 0..n, i < e, Skipped(sql, i, e) PROVE Covered(sql, tokens, e)
    BY <1>0, <1>1, <1>2, TriviaExtends DEF Covered
  <1>3. CASE SkipSpace
    <2>1. TypedModes
      BY <1>0, <1>3, ModesTyped DEF SkipSpace, Quiet
    <2>2. Skipped(sql, i, i + 1) /\ i + 1 \in 0..n /\ i < i + 1
      BY <1>0, <1>3 DEF SkipSpace, Skipped, IsSpace
    <2>3. Covered(sql, tokens, i + 1)
      BY <1>2, <2>2
    <2> QED BY <1>0, <1>3, <2>1, <2>2, <2>3, ToStandard DEF SkipSpace, Quiet, Fixed
  <1>4. CASE SkipUnicodeSpace
    <2>1. TypedModes
      BY <1>0, <1>4, ModesTyped DEF SkipUnicodeSpace, Quiet
    <2>2. PICK len, e : len = SpaceLen(sql, i) /\ e = i + UnicodeSpaceLen(i)
      OBVIOUS
    <2>3. len \in Nat /\ len > 0 /\ i + len <= n /\ e = i + len
      BY <1>0, <1>4, <2>2, SpaceLenIs DEF SkipUnicodeSpace, UnicodeSpaceLen
    <2>5. e \in 0..n /\ i < e /\ SpaceLen(sql, i) = e - i
      BY <1>0, <2>2, <2>3
    <2>4. Covered(sql, tokens, e)
      BY <1>2, <2>5 DEF Skipped, IsSpace
    <2> QED BY <1>0, <1>4, <2>1, <2>2, <2>4, <2>5, ToStandard DEF SkipUnicodeSpace, Quiet, Fixed
  <1>5. ASSUME Pair(i, "-", "-") \/ Pair(i, "/", "*")
        PROVE  /\ CommentFrom(sql, lastPos) = i /\ i + 2 <= n /\ lastPos <= i
               /\ \A q \in i..(i + 1) : q = i \/ q = i + 1
    <2>1. i + 1 < n /\ c \in {"-", "/"}
      BY <1>0, <1>5 DEF Pair, PairAt
    <2>2. CASE lastPos = i
      BY <1>0, <2>1, <2>2 DEF CommentFrom
    <2>3. CASE lastPos = i - 1 /\ AfterDollar(sql, tokens, i)
      <3>1. lastPos + 1 = i /\ sql[i] = "$"
        BY <1>0, <2>3 DEF AfterDollar
      <3>2. CommentFrom(sql, lastPos) = lastPos + 1
        BY <3>1 DEF CommentFrom
      <3> QED BY <1>0, <2>1, <2>3, <3>1, <3>2
    <2> QED BY <2>2, <2>3, AtStandard
  <1>6. CASE LineCommentStart
    <2>1. TypedModes
      BY <1>0, <1>6, ModesTyped DEF LineCommentStart, Quiet
    <2>2. PairAt(sql, i, "-", "-") /\ \A q \in i..((i + 2) - 1) : At(q) \notin Newline
      <3>1. sql[i + 1] = "-" /\ sql[(i + 1) + 1] = "-" /\ (i + 2) - 1 = i + 1
        BY <1>0, <1>6 DEF LineCommentStart, Pair, PairAt
      <3>2. At(i) \notin Newline /\ At(i + 1) \notin Newline
        BY <3>1 DEF At, Newline
      <3> QED BY <1>0, <1>5, <1>6, <3>1, <3>2 DEF LineCommentStart, Pair
    <2>3. /\ CommentFrom(sql, lastPos) = i /\ i + 2 \in 0..n /\ lastPos <= i + 2
          /\ "SingleLineComment" \in CommentStates
      BY <1>0, <1>5, <1>6, Facts DEF LineCommentStart, CommentStates
    <2> QED BY <1>0, <1>6, <2>1, <2>2, <2>3, ToComment DEF LineCommentStart
  <1>7. CASE BlockCommentStart
    <2>1. /\ PairAt(sql, i, "/", "*") /\ CommentFrom(sql, lastPos) = i /\ i + 2 \in 0..n
          /\ lastPos <= i + 2 /\ "MultiLineComment" \in CommentStates
      BY <1>0, <1>5, <1>7, Facts DEF BlockCommentStart, CommentStates, Pair
    <2>2. depth' = 1 /\ 1 \in 1..(i + 2)
      BY <1>0, <1>7 DEF BlockCommentStart
    <2>3. TypedModes
      BY <1>0, <1>7, <2>1, <2>2, Facts DEF BlockCommentStart, TypedModes, Quiet, Returned
    <2> QED BY <1>0, <1>7, <2>1, <2>2, <2>3, ToComment DEF BlockCommentStart
  <1> QED BY <1>3, <1>4, <1>6, <1>7

\* The first byte of a token.
LEMMA StandardStarts ==
    ASSUME IInv, In("Standard"),
           \/ StringStart \/ PrefixStringStart \/ QuotedStart \/ DollarQuoteStart
           \/ CompoundColonOperator \/ NumberStart \/ OperatorStart \/ KeywordStart
    PROVE  IInv'
  <1>0. /\ ~Returned /\ Covered(sql, tokens, i) /\ i \in 0..(n - 1) /\ i \in Nat
        /\ c = sql[i + 1] /\ c = At(i) /\ state # "DollarQuotedString" /\ n \in Nat
        /\ i + 1 \in 0..n /\ i \in 0..((i + 1) - 1)
        /\ \A q \in i..((i + 1) - 1) : q = i
    BY AtStandard, Facts DEF In, At
  <1>1. c \notin {"-", "/"} \/ ~CommentStart(i) => ~CommentAt(sql, i)
    BY <1>0, NoCommentAt DEF CommentStart
  <1>2. CASE StringStart
    <2>1. TypedModes
      BY <1>0, <1>2, Facts DEF StringStart, TypedModes, Quiet, Returned
    <2>2. "StringLiteral" \in TokenStates
      BY DEF TokenStates
    <2> QED BY <1>0, <1>2, <2>1, <2>2, ToToken DEF StringStart
  <1>3. CASE PrefixStringStart
    <2>1. TypedModes
      BY <1>0, <1>3, Facts DEF PrefixStringStart, TypedModes, Quiet, Returned
    <2>2. "StringLiteral" \in TokenStates /\ i + 2 \in 0..n /\ i \in 0..((i + 2) - 1)
      BY <1>0, <1>3 DEF PrefixStringStart, NextIn, TokenStates
    <2> QED BY <1>0, <1>3, <2>1, <2>2, ToToken DEF PrefixStringStart
  <1>4. CASE QuotedStart
    <2>1. TypedModes
      BY <1>0, <1>4, Facts DEF QuotedStart, TypedModes, Quiet, Returned
    <2>2. "QuotedIdentifier" \in TokenStates /\ At(i) \in QuotedIdentifierDelimiter
      BY <1>0, <1>4 DEF QuotedStart, TokenStates
    <2> QED BY <1>0, <1>4, <2>1, <2>2, ToToken DEF QuotedStart
  <1>5. CASE DollarQuoteStart
    <2>1. PICK d \in NextDollar : marker' = Text(i + 1, d) /\ Goto("DollarQuotedString", d + 1, i)
      BY <1>5 DEF DollarQuoteStart
    <2>2. d \in (i + 1)..(n - 1)
      BY DEF NextDollar
    <2>3. marker' \in Seq(STRING)
      <3>1. \A q \in ((i + 1) + 1)..d : sql[q] \in STRING
        BY <1>0, <2>2, Facts, ElementOfSeq
      <3>2. (i + 1) + 1 \in Int /\ d \in Int
        BY <1>0, <2>2
      <3> QED BY <2>1, <3>1, <3>2, SubSeqProperties DEF Text
    <2>4. TypedModes
      BY <1>0, <1>5, <2>1, <2>3, Facts DEF DollarQuoteStart, TypedModes, Quiet, Goto
    <2>5. "DollarQuotedString" \in TokenStates /\ d + 1 \in 0..n /\ i \in 0..((d + 1) - 1)
      BY <1>0, <2>2 DEF TokenStates
    <2> QED BY <1>0, <1>5, <2>1, <2>4, <2>5, ToToken DEF DollarQuoteStart
  <1>6. CASE CompoundColonOperator
    <2>1. TypedModes
      BY <1>0, <1>6, ModesTyped DEF CompoundColonOperator, Quiet
    <2>2. c = ":"
      BY <1>0, <1>6 DEF CompoundColonOperator, CompoundColon, Pair, PairAt
    <2>3. "Operator" \in TokenStates /\ \A q \in i..((i + 1) - 1) : ~CommentAt(sql, q)
      BY <1>0, <1>1, <2>2 DEF TokenStates
    <2> QED BY <1>0, <1>6, <2>1, <2>3, ToToken DEF CompoundColonOperator
  <1>7. CASE NumberStart
    <2>1. TypedModes
      BY <1>0, <1>7, ModesTyped DEF NumberStart, Quiet
    <2>2. /\ "Numeric" \in TokenStates /\ At(i) \in InitialNumber
          /\ \A q \in (i + 1)..((i + 1) - 1) : FALSE
      BY <1>0, <1>7 DEF NumberStart, TokenStates
    <2> QED BY <1>0, <1>7, <2>1, <2>2, ToToken DEF NumberStart
  <1>8. CASE OperatorStart
    <2>1. TypedModes
      BY <1>0, <1>8, ModesTyped DEF OperatorStart, Quiet
    <2>2. "Operator" \in TokenStates /\ \A q \in i..((i + 1) - 1) : ~CommentAt(sql, q)
      BY <1>0, <1>1, <1>8 DEF OperatorStart, TokenStates
    <2> QED BY <1>0, <1>8, <2>1, <2>2, ToToken DEF OperatorStart
  <1>9. CASE KeywordStart
    <2>1. TypedModes
      BY <1>0, <1>9, ModesTyped DEF KeywordStart, Quiet
    <2>2. c \notin {"-", "/"}
      <3>1. c \notin OperatorAny
        BY <1>9 DEF KeywordStart
      <3> QED BY <3>1, Classes
    <2>3. "Keyword" \in TokenStates /\ \A q \in i..((i + 1) - 1) : At(q) \notin {"-", "/"}
      BY <1>0, <2>2 DEF TokenStates
    <2> QED BY <1>0, <1>9, <2>1, <2>3, ToToken DEF KeywordStart
  <1> QED BY <1>2, <1>3, <1>4, <1>5, <1>6, <1>7, <1>8, <1>9

\* A lone dollar at the end of the text: the only loop exit that leaves a
\* byte to EndInStandard.
LEMMA LastDollar ==
    ASSUME IInv, DollarAtEnd
    PROVE  IInv'
  <1>1. /\ In("Standard") /\ c = "$" /\ i + 1 >= n /\ Stay
    BY DEF DollarAtEnd
  <1>2. /\ ~Returned /\ lastPos = i /\ Covered(sql, tokens, i) /\ i \in 0..(n - 1) /\ n \in Nat
        /\ c = sql[i + 1] /\ tokens \in Seq(Tokens) /\ Good(sql, tokens)
    BY <1>1, AtStandard, Facts
  <1>3. /\ Goto("Standard", i + 1, i) /\ tokens' = tokens /\ UNCHANGED <<sql, err>>
        /\ TypedModes
    <2>1. Goto("Standard", i + 1, i) /\ Modes /\ Quiet
      BY <1>1, <1>2 DEF Stay, In
    <2> QED BY <1>1, <1>2, <2>1, ModesTyped DEF Quiet, Fixed, In
  <1>4. TypeOK' /\ DoneInv'
    <2>1. "Standard" \in ScanStates /\ i + 1 \in 0..n /\ i \in 0..(i + 1)
      BY <1>2 DEF ScanStates
    <2> QED BY <1>2, <1>3, <2>1, InLoop
  <1>5. StandardInv'
    <2>1. /\ lastPos' = i' - 1 /\ i' = n' /\ At(lastPos)' = "$" /\ lastPos' = i
      BY <1>1, <1>2, <1>3 DEF Goto, n, At
    <2> QED BY <1>2, <1>3, <2>1 DEF StandardInv
  <1>6. TokenInv' /\ CommentInv'
    BY <1>3 DEF TokenInv, CommentInv, Goto
  <1> QED BY <1>4, <1>5, <1>6 DEF IInv

\* A token pushed at once, or a dollar.
LEMMA StandardPushes ==
    ASSUME IInv, In("Standard"),
           \/ Terminator \/ DollarAtEnd \/ DollarParameter \/ DollarLabel
           \/ CompoundColonToken \/ SingleByte
    PROVE  IInv'
  <1>0. /\ ~Returned /\ Covered(sql, tokens, i) /\ i \in 0..(n - 1) /\ i \in Nat
        /\ c = sql[i + 1] /\ c = At(i) /\ state # "DollarQuotedString" /\ n \in Nat
        /\ i + 1 \in 0..n /\ i + 1 \in Nat /\ i < i + 1
        /\ \A q \in i..((i + 1) - 1) : q = i
        /\ lastPos \in Nat
        /\ c = "$" => lastPos = i
    BY AtStandard, Facts DEF In, At
  <1>1. c \notin {"-", "/"} => ~CommentAt(sql, i)
    BY <1>0, NoCommentAt
  <1>2. Placed("Operator", i, lastPos) /\ Placed("Terminator", i, i)
    BY AtStandard DEF Placed
  <1>3. ASSUME NEW toks, Pushed(toks), toks \in Seq(Tokens), Good(sql, toks),
               NEW p \in 0..n, Covered(sql, toks, p), Goto("Standard", p, p), Modes
        PROVE  IInv'
    <2>1. tokens' = toks /\ UNCHANGED <<sql, err, blockCommentPos>>
      BY <1>3 DEF Pushed, Fixed
    <2>2. TypedModes
      BY <1>0, <1>3, <2>1, ModesTyped
    <2> QED BY <1>0, <1>3, <2>1, <2>2, ToStandard
  <1>4. CASE Terminator
    <2> DEFINE toks == Push(tokens, "Terminator", i, i + 1, i)
    <2>1. \A q \in i..((i + 1) - 1) : ~CommentAt(sql, q)
      BY <1>0, <1>1, <1>4 DEF Terminator
    <2>2. "Terminator" \in Kinds /\ i + 1 <= n
      BY <1>0 DEF Kinds
    <2>3. toks \in Seq(Tokens) /\ Good(sql, toks) /\ Covered(sql, toks, i + 1)
      BY <1>0, <1>2, <2>1, <2>2, PushOne
    <2> HIDE DEF toks
    <2> QED BY <1>0, <1>3, <1>4, <2>3 DEF Terminator, toks
  <1>5. CASE DollarAtEnd
    BY <1>5, LastDollar
  <1>6. CASE DollarParameter
    <2>1. At(i + 1) # "$" /\ i + 1 < n /\ c = "$"
      BY <1>6 DEF DollarParameter, NextIn, Digit
    <2> QED BY <1>0, <1>6, <2>1, DollarPushed DEF DollarParameter
  <1>7. CASE DollarLabel
    <2>1. c = "$" /\ i + 1 < n /\ NextDollar = {}
      BY <1>7 DEF DollarLabel
    <2>2. At(i + 1) # "$"
      <3> SUFFICES ASSUME At(i + 1) = "$" PROVE i + 1 \in NextDollar
        BY <2>1
      <3>1. i + 1 \in (i + 1)..(n - 1) /\ (i + 1)..((i + 1) - 1) = {}
        BY <1>0, <2>1
      <3> QED BY <3>1 DEF NextDollar
    <2> QED BY <1>0, <1>7, <2>1, <2>2, DollarPushed DEF DollarLabel
  <1>8. CASE CompoundColonToken
    <2> DEFINE toks == Push(tokens, "Operator", i, i + 2, lastPos)
    <2>1. /\ c = ":" /\ i + 1 < n /\ At(i + 1) \in {":", "="}
      <3>1. (i + 1) + 1 = i + 2
        BY <1>0
      <3> QED BY <1>0, <1>8, <3>1, Facts DEF CompoundColonToken, CompoundColon, Pair, PairAt, At
    <2>2. \A q \in i..((i + 2) - 1) : ~CommentAt(sql, q)
      <3>1. ~CommentAt(sql, i) /\ ~CommentAt(sql, i + 1)
        BY <1>0, <1>1, <2>1, NoCommentAt DEF At
      <3>2. \A q \in i..((i + 2) - 1) : q = i \/ q = i + 1
        BY <1>0
      <3> QED BY <3>1, <3>2
    <2>3. /\ "Operator" \in Kinds /\ i + 2 \in Nat /\ i < i + 2 /\ i + 2 <= n
          /\ (i + 2) - 1 = i + 1 /\ i + 2 \in 0..n
      BY <1>0, <2>1 DEF Kinds
    <2>4. At((i + 2) - 1) \notin {"+", "-"}
      BY <2>1, <2>3
    <2>5. toks \in Seq(Tokens) /\ Good(sql, toks) /\ Covered(sql, toks, i + 2)
      BY <1>0, <1>2, <2>2, <2>3, <2>4, PushOne
    <2> HIDE DEF toks
    <2> QED BY <1>3, <1>8, <2>3, <2>5 DEF CompoundColonToken, toks
  <1>9. CASE SingleByte
    <2> DEFINE toks == Push(tokens, "Operator", i, i + 1, lastPos)
    <2>1. c \notin {"-", "/"}
      <3>1. c \in SingleByteOperator
        BY <1>9 DEF SingleByte
      <3> QED BY <3>1, Classes
    <2>2. \A q \in i..((i + 1) - 1) : ~CommentAt(sql, q)
      BY <1>0, <1>1, <2>1
    <2>3. "Operator" \in Kinds /\ i + 1 <= n
      BY <1>0 DEF Kinds
    <2>4. toks \in Seq(Tokens) /\ Good(sql, toks) /\ Covered(sql, toks, i + 1)
      BY <1>0, <1>2, <2>2, <2>3, PushOne
    <2> HIDE DEF toks
    <2> QED BY <1>0, <1>3, <1>9, <2>4 DEF SingleByte, toks
  <1> QED BY <1>4, <1>5, <1>6, <1>7, <1>8, <1>9

LEMMA StandardKeeps ==
    ASSUME IInv, Standard
    PROVE  IInv'
  <1>1. In("Standard")
    BY DEF Standard, StringStart, PrefixStringStart, QuotedStart, Terminator, DollarAtEnd,
           DollarParameter, DollarLabel, DollarQuoteStart, LineCommentStart, BlockCommentStart,
           SkipSpace, SkipUnicodeSpace, CompoundColonOperator, CompoundColonToken, SingleByte,
           NumberStart, OperatorStart, KeywordStart
  <1> QED BY <1>1, StandardSkips, StandardStarts, StandardPushes DEF Standard

-----------------------------------------------------------------------------
(* The other states of the loop. *)

\* What is known inside a token.
LEMMA AtToken ==
    ASSUME IInv, NEW s \in TokenStates, state = s
    PROVE  /\ ~Returned /\ Covered(sql, tokens, lastPos) /\ lastPos \in Nat /\ i \in Nat
           /\ lastPos < i /\ i <= n /\ n \in Nat
           /\ i < n => i + 1 \in 0..n /\ c = At(i)
           /\ s = "Keyword" => \A q \in lastPos..(i - 1) : At(q) \notin {"-", "/"}
           /\ s = "Numeric" =>
                 /\ At(lastPos) \in InitialNumber
                 /\ \A q \in (lastPos + 1)..(i - 1) :
                       At(q) # "/" /\ (At(q) = "-" => At(q - 1) \in Scientific)
           /\ s = "Operator" => \A q \in lastPos..(i - 1) : ~CommentAt(sql, q)
           /\ s = "QuotedIdentifier" => At(lastPos) \in QuotedIdentifierDelimiter
  <1>1. ~Returned
    BY DEF TokenStates, Returned
  <1>2. lastPos < i /\ Covered(sql, tokens, lastPos)
    BY DEF IInv, TokenInv, TokenStates
  <1>3. lastPos \in Nat /\ i \in Nat /\ i <= n /\ n \in Nat /\ (i < n => i + 1 \in 0..n)
    BY Facts
  <1> QED BY <1>1, <1>2, <1>3 DEF IInv, TokenInv, c

\* A finished token of one call of pushRange, up to p.
LEMMA RangePushed ==
    ASSUME IInv, ~Returned, NEW kind \in Kinds, NEW p \in 0..n, NEW s \in TokenStates, state = s,
           lastPos < p, kind # "EndOfInput", kind # "Operator",
           Pushed(PushRange(tokens, lastPos, p, kind, FALSE)), Goto("Standard", p, p),
           escapeString' \in BOOLEAN, marker' = <<>>, UNCHANGED <<delimiter, depth>>,
           \/ kind = "String"
           \/ kind = "Identifier" /\ At(lastPos) \in QuotedIdentifierDelimiter
           \/ \A q \in lastPos..(p - 1) : ~CommentAt(sql, q),
           kind = "Number" => p = n \/ At(p - 1) \in InitialNumber
    PROVE  IInv'
  <1> DEFINE toks == PushRange(tokens, lastPos, p, kind, FALSE)
  <1>1. /\ lastPos \in Nat /\ p \in Nat /\ p <= n /\ Covered(sql, tokens, lastPos)
        /\ FALSE \in BOOLEAN
    BY AtToken
  <1>2. toks \in Seq(Tokens) /\ Good(sql, toks) /\ Covered(sql, toks, p)
    BY <1>1, PushRangeOne
  <1>3. tokens' = toks /\ UNCHANGED <<sql, err, blockCommentPos>>
    BY DEF Pushed, Fixed
  <1> HIDE DEF toks
  <1>4. TypedModes
    BY <1>3, Facts DEF TypedModes
  <1> QED BY <1>2, <1>3, <1>4, ToStandard

LEMMA NumbersKeep ==
    ASSUME IInv, NumberMore \/ NumberEnd
    PROVE  IInv'
  <1>0. state = "Numeric" /\ i < n /\ "Numeric" \in TokenStates
    BY DEF NumberMore, NumberEnd, In, TokenStates
  <1>1. /\ ~Returned /\ Covered(sql, tokens, lastPos) /\ lastPos \in Nat /\ i \in Nat
        /\ lastPos < i /\ i <= n /\ n \in Nat /\ i + 1 \in 0..n /\ c = At(i)
        /\ At(lastPos) \in InitialNumber
        /\ \A q \in (lastPos + 1)..(i - 1) :
              At(q) # "/" /\ (At(q) = "-" => At(q - 1) \in Scientific)
    BY <1>0, AtToken
  <1>2. CASE NumberMore
    <2>1. /\ Goto("Numeric", i + 1, lastPos) /\ Modes /\ Quiet
      BY <1>0, <1>2 DEF NumberMore, Stay
    <2>2. TypedModes
      BY <1>0, <1>1, <2>1, ModesTyped DEF Quiet
    <2>3. At(i) # "/" /\ (At(i) = "-" => At(i - 1) \in Scientific)
      BY <1>1, <1>2 DEF NumberMore, NumberGoesOn, InitialNumber, Digit, Scientific
    <2>4. \A q \in (lastPos + 1)..((i + 1) - 1) :
              At(q) # "/" /\ (At(q) = "-" => At(q - 1) \in Scientific)
      <3>1. \A q \in (lastPos + 1)..((i + 1) - 1) : q = i \/ q \in (lastPos + 1)..(i - 1)
        BY <1>1
      <3> QED BY <1>1, <2>3, <3>1
    <2>5. lastPos \in 0..((i + 1) - 1)
      BY <1>1
    <2> QED BY <1>0, <1>1, <2>1, <2>2, <2>4, <2>5, ToToken
  <1>3. CASE NumberEnd
    <2>1. PICK p : p = NumberBacktrack
      OBVIOUS
    <2>2. p \in (lastPos + 1)..i /\ At(p - 1) \in InitialNumber
      BY <1>1, <2>1, NumberBacktrackIs
    <2>3. /\ Pushed(PushRange(tokens, lastPos, p, "Number", FALSE)) /\ Goto("Standard", p, p)
          /\ Modes
      BY <1>3, <2>1 DEF NumberEnd
    <2>4. \A q \in lastPos..(p - 1) : ~CommentAt(sql, q)
      <3> SUFFICES ASSUME NEW q \in lastPos..(p - 1), CommentAt(sql, q) PROVE FALSE
        OBVIOUS
      <3>1. q \in Nat /\ (q + 1) + 1 = q + 2 /\ (q + 1) - 1 = q
        BY <1>1, <2>2
      <3>2. At(q) \in {"-", "/"} /\ (At(q) = "-" => At(q + 1) = "-")
        BY <3>1 DEF CommentAt, PairAt, At
      <3>3. q # lastPos /\ q # p - 1
        BY <1>1, <2>2, <3>2, Classes
      <3>4. q \in (lastPos + 1)..(i - 1) /\ q + 1 \in (lastPos + 1)..(i - 1)
        BY <1>1, <2>2, <3>3
      <3>5. At(q) = "-" /\ At(q) \in Scientific
        BY <1>1, <3>1, <3>2, <3>4
      <3> QED BY <3>5 DEF Scientific
    <2>5. /\ p \in 0..n /\ lastPos < p /\ "Number" \in Kinds
          /\ escapeString' \in BOOLEAN /\ marker' = <<>> /\ UNCHANGED <<delimiter, depth>>
      BY <1>0, <1>1, <2>2, <2>3, Facts DEF Kinds, Modes, Returned
    <2> QED BY <1>0, <1>1, <2>2, <2>3, <2>4, <2>5, RangePushed
  <1> QED BY <1>2, <1>3

LEMMA OperatorsKeep ==
    ASSUME IInv, OperatorMore \/ OperatorEnd
    PROVE  IInv'
  <1>0. state = "Operator" /\ i < n /\ "Operator" \in TokenStates
    BY DEF OperatorMore, OperatorEnd, In, TokenStates
  <1>1. /\ ~Returned /\ Covered(sql, tokens, lastPos) /\ lastPos \in Nat /\ i \in Nat
        /\ lastPos < i /\ i <= n /\ n \in Nat /\ i + 1 \in 0..n /\ c = At(i)
        /\ \A q \in lastPos..(i - 1) : ~CommentAt(sql, q)
    BY <1>0, AtToken
  <1>2. CASE OperatorMore
    <2>1. /\ Goto("Operator", i + 1, lastPos) /\ Modes /\ Quiet
      BY <1>0, <1>2 DEF OperatorMore, Stay
    <2>2. TypedModes
      BY <1>0, <1>1, <2>1, ModesTyped DEF Quiet
    <2>3. \A q \in lastPos..((i + 1) - 1) : ~CommentAt(sql, q)
      <3>1. \A q \in lastPos..((i + 1) - 1) : q = i \/ q \in lastPos..(i - 1)
        BY <1>1
      <3>2. ~CommentAt(sql, i)
        BY <1>2 DEF OperatorMore, OperatorGoesOn, CommentStart
      <3> QED BY <1>1, <3>1, <3>2
    <2>4. lastPos \in 0..((i + 1) - 1)
      BY <1>1
    <2> QED BY <1>0, <1>1, <2>1, <2>2, <2>3, <2>4, ToToken
  <1>3. CASE OperatorEnd
    <2> DEFINE toks == PushOperator(tokens, lastPos, i)
    <2>1. toks \in Seq(Tokens) /\ Good(sql, toks) /\ Covered(sql, toks, i)
      BY <1>1, Facts, PushOperatorAppends
    <2>2. /\ tokens' = toks /\ UNCHANGED <<sql, err, blockCommentPos>>
          /\ Goto("Standard", i, i) /\ Modes
      BY <1>3 DEF OperatorEnd, Pushed, Fixed
    <2> HIDE DEF toks
    <2>3. TypedModes
      BY <1>0, <1>1, <2>2, ModesTyped
    <2>4. i \in 0..n
      BY <1>1
    <2> QED BY <1>1, <2>1, <2>2, <2>3, <2>4, ToStandard
  <1> QED BY <1>2, <1>3

LEMMA KeywordsKeep ==
    ASSUME IInv, KeywordMore \/ KeywordEnd
    PROVE  IInv'
  <1>0. state = "Keyword" /\ i < n /\ "Keyword" \in TokenStates
    BY DEF KeywordMore, KeywordEnd, In, TokenStates
  <1>1. /\ ~Returned /\ Covered(sql, tokens, lastPos) /\ lastPos \in Nat /\ i \in Nat
        /\ lastPos < i /\ i <= n /\ n \in Nat /\ i + 1 \in 0..n /\ c = At(i)
        /\ \A q \in lastPos..(i - 1) : At(q) \notin {"-", "/"}
    BY <1>0, AtToken
  <1>2. CASE KeywordMore
    <2>1. /\ Goto("Keyword", i + 1, lastPos) /\ Modes /\ Quiet
      BY <1>0, <1>2 DEF KeywordMore, Stay
    <2>2. TypedModes
      BY <1>0, <1>1, <2>1, ModesTyped DEF Quiet
    <2>3. \A q \in lastPos..((i + 1) - 1) : At(q) \notin {"-", "/"}
      <3>1. \A q \in lastPos..((i + 1) - 1) : q = i \/ q \in lastPos..(i - 1)
        BY <1>1
      <3>2. At(i) \notin {"-", "/"}
        BY <1>1, <1>2, Classes DEF KeywordMore, KeywordGoesOn
      <3> QED BY <1>1, <3>1, <3>2
    <2>4. lastPos \in 0..((i + 1) - 1)
      BY <1>1
    <2> QED BY <1>0, <1>1, <2>1, <2>2, <2>3, <2>4, ToToken
  <1>3. CASE KeywordEnd
    <2>1. PICK kind : kind = WordKind(lastPos, i)
      OBVIOUS
    <2>2. kind \in {"Keyword", "Identifier"} /\ kind \in Kinds
      BY <2>1 DEF WordKind, Kinds
    <2>3. /\ Pushed(PushRange(tokens, lastPos, i, kind, FALSE)) /\ Goto("Standard", i, i)
          /\ Modes
      BY <1>3, <2>1 DEF KeywordEnd
    <2>4. \A q \in lastPos..(i - 1) : ~CommentAt(sql, q)
      <3> SUFFICES ASSUME NEW q \in lastPos..(i - 1) PROVE ~CommentAt(sql, q)
        OBVIOUS
      <3>1. sql[q + 1] \notin {"-", "/"} /\ q \in Nat
        BY <1>1 DEF At
      <3> QED BY <3>1, NoCommentAt
    <2>5. /\ i \in 0..n /\ escapeString' \in BOOLEAN /\ marker' = <<>>
          /\ UNCHANGED <<delimiter, depth>>
      BY <1>0, <1>1, <2>3, Facts DEF Modes, Returned
    <2> QED BY <1>0, <1>1, <2>2, <2>3, <2>4, <2>5, RangePushed
  <1> QED BY <1>2, <1>3

\* Inside a literal: bytes are skipped one or two at a time.
LEMMA LiteralGoesOn ==
    ASSUME IInv, NEW s \in {"StringLiteral", "QuotedIdentifier", "DollarQuotedString"},
           In(s), NEW k \in {i + 1, i + 2}, k <= n, Goto(s, k, lastPos), Modes, Quiet
    PROVE  IInv'
  <1>1. state = s /\ s \in TokenStates
    BY DEF In, TokenStates
  <1>2. /\ ~Returned /\ Covered(sql, tokens, lastPos) /\ lastPos \in Nat /\ i \in Nat
        /\ lastPos < i /\ n \in Nat
        /\ s = "QuotedIdentifier" => At(lastPos) \in QuotedIdentifierDelimiter
    BY <1>1, AtToken
  <1>3. TypedModes
    BY <1>1, <1>2, ModesTyped DEF Quiet, Goto
  <1>4. k \in 0..n /\ lastPos \in 0..(k - 1)
    BY <1>2
  <1>5. s \notin {"Keyword", "Numeric", "Operator"}
    OBVIOUS
  <1> QED BY <1>1, <1>2, <1>3, <1>4, <1>5, ToToken

LEMMA StringsKeep ==
    ASSUME IInv, StringSkip \/ StringMore \/ StringEnd
    PROVE  IInv'
  <1>0. /\ In("StringLiteral") /\ state = "StringLiteral" /\ i < n
        /\ "StringLiteral" \in TokenStates
    BY DEF StringSkip, StringMore, StringEnd, In, TokenStates
  <1>1. /\ ~Returned /\ lastPos < i /\ i \in Nat /\ n \in Nat /\ lastPos \in Nat
        /\ sql \in Seq(STRING) /\ n = Len(sql)
    BY <1>0, AtToken, Facts
  <1>2. CASE StringSkip
    <2>1. i + 1 < n
      BY <1>1, <1>2 DEF StringSkip, Escape, Pair, PairAt
    <2>2. Goto("StringLiteral", i + 2, lastPos) /\ Modes /\ Quiet /\ i + 2 <= n
      BY <1>0, <1>1, <1>2, <2>1 DEF StringSkip
    <2> QED BY <1>0, <2>2, LiteralGoesOn
  <1>3. CASE StringMore
    <2>1. Goto("StringLiteral", i + 1, lastPos) /\ Modes /\ Quiet /\ i + 1 <= n
      BY <1>0, <1>1, <1>3 DEF StringMore, Stay
    <2> QED BY <1>0, <2>1, LiteralGoesOn
  <1>4. CASE StringEnd
    <2>1. /\ i + 1 \in 0..n /\ lastPos < i + 1 /\ "String" \in Kinds
          /\ escapeString' \in BOOLEAN /\ marker' = <<>> /\ UNCHANGED <<delimiter, depth>>
      <3>1. escapeString' = FALSE /\ UNCHANGED <<delimiter, marker, depth>>
        BY <1>4 DEF StringEnd
      <3>2. escapeString' \in BOOLEAN
        BY <3>1, Zenon
      <3>3. marker = <<>>
        BY <1>0, <1>1, Facts
      <3>4. i + 1 \in 0..n /\ lastPos < i + 1 /\ "String" \in Kinds
        BY <1>0, <1>1 DEF Kinds
      <3> QED BY <3>1, <3>2, <3>3, <3>4
    <2>2. /\ Pushed(PushRange(tokens, lastPos, i + 1, "String", FALSE))
          /\ Goto("Standard", i + 1, i + 1)
      BY <1>4 DEF StringEnd
    <2> QED BY <1>0, <1>1, <2>1, <2>2, RangePushed
  <1> QED BY <1>2, <1>3, <1>4

LEMMA QuotedKeep ==
    ASSUME IInv, QuotedSkip \/ QuotedMore \/ QuotedEmpty \/ QuotedEnd
    PROVE  IInv'
  <1>0. /\ In("QuotedIdentifier") /\ state = "QuotedIdentifier" /\ i < n
        /\ "QuotedIdentifier" \in TokenStates
    BY DEF QuotedSkip, QuotedMore, QuotedEmpty, QuotedEnd, QuotedClose, In, TokenStates
  <1>1. /\ ~Returned /\ lastPos < i /\ i \in Nat /\ n \in Nat /\ lastPos \in Nat
        /\ Covered(sql, tokens, lastPos) /\ At(lastPos) \in QuotedIdentifierDelimiter
    BY <1>0, AtToken
  <1>2. CASE QuotedSkip
    <2>1. Goto("QuotedIdentifier", i + 2, lastPos) /\ Modes /\ Quiet /\ i + 2 <= n
      BY <1>0, <1>1, <1>2 DEF QuotedSkip, NextIn
    <2> QED BY <1>0, <2>1, LiteralGoesOn
  <1>3. CASE QuotedMore
    <2>1. Goto("QuotedIdentifier", i + 1, lastPos) /\ Modes /\ Quiet /\ i + 1 <= n
      BY <1>0, <1>1, <1>3 DEF QuotedMore, Stay
    <2> QED BY <1>0, <2>1, LiteralGoesOn
  <1>4. CASE QuotedEmpty
    BY <1>1, <1>4, ToError DEF QuotedEmpty
  <1>5. CASE QuotedEnd
    <2>1. /\ Pushed(PushRange(tokens, lastPos, i + 1, "Identifier", FALSE))
          /\ Goto("Standard", i + 1, i + 1) /\ Modes
      BY <1>5 DEF QuotedEnd
    <2>2. /\ i + 1 \in 0..n /\ lastPos < i + 1 /\ "Identifier" \in Kinds
          /\ escapeString' \in BOOLEAN /\ marker' = <<>> /\ UNCHANGED <<delimiter, depth>>
      BY <1>0, <1>1, <2>1, Facts DEF Modes, Kinds, Returned
    <2> QED BY <1>0, <1>1, <2>1, <2>2, RangePushed
  <1> QED BY <1>2, <1>3, <1>4, <1>5

LEMMA DollarsKeep ==
    ASSUME IInv, DollarMore \/ DollarEnd
    PROVE  IInv'
  <1>0. /\ In("DollarQuotedString") /\ state = "DollarQuotedString" /\ i < n
        /\ "DollarQuotedString" \in TokenStates
    BY DEF DollarMore, DollarEnd, In, TokenStates
  <1>1. /\ ~Returned /\ lastPos < i /\ i \in Nat /\ n \in Nat /\ lastPos \in Nat
        /\ Len(marker) \in Nat
    BY <1>0, AtToken, Facts, LenProperties
  <1>2. CASE DollarMore
    <2>1. Goto("DollarQuotedString", i + 1, lastPos) /\ Modes /\ Quiet /\ i + 1 <= n
      BY <1>0, <1>1, <1>2 DEF DollarMore, Stay
    <2> QED BY <1>0, <2>1, LiteralGoesOn
  <1>3. CASE DollarEnd
    <2>1. PICK p : p = i + 2 + Len(marker)
      OBVIOUS
    <2>2. /\ Pushed(PushRange(tokens, lastPos, p, "String", FALSE)) /\ Goto("Standard", p, p)
          /\ marker' = <<>> /\ UNCHANGED <<escapeString, delimiter, depth>>
      BY <1>3, <2>1 DEF DollarEnd
    <2>3. i + 1 + Len(marker) < n
      BY <1>3 DEF DollarEnd, ClosingDollar
    <2>4. /\ p \in 0..n /\ lastPos < p /\ "String" \in Kinds /\ escapeString' \in BOOLEAN
      BY <1>1, <2>1, <2>2, <2>3, Facts DEF Kinds
    <2> QED BY <1>0, <1>1, <2>2, <2>4, RangePushed
  <1> QED BY <1>2, <1>3

-----------------------------------------------------------------------------
(* Comments *)

\* What is known inside a comment, and that its end covers it.
LEMMA AtComment ==
    ASSUME IInv, NEW s \in CommentStates, state = s
    PROVE  LET from == CommentFrom(sql, lastPos) IN
           /\ ~Returned /\ state # "DollarQuotedString"
           /\ sql \in Seq(STRING) /\ n = Len(sql) /\ n \in Nat
           /\ tokens \in Seq(Tokens) /\ Good(sql, tokens)
           /\ i \in Nat /\ i <= n /\ lastPos \in Nat /\ lastPos <= i /\ from \in Nat
           /\ from + 2 <= i /\ lastPos < i /\ depth \in Nat
           /\ Covered(sql, tokens, from)
           /\ s = "SingleLineComment" =>
                 PairAt(sql, from, "-", "-") /\ \A q \in from..(i - 1) : At(q) \notin Newline
           /\ s = "MultiLineComment" =>
                 /\ PairAt(sql, from, "/", "*")
                 /\ depth \in 1..i /\ BlockEnd(sql, from + 2, 1) = BlockEnd(sql, i, depth)
           /\ \A e \in 0..n : from < e /\ Skipped(sql, from, e) => Covered(sql, tokens, e)
  <1> DEFINE from == CommentFrom(sql, lastPos)
  <1>1. /\ ~Returned /\ state # "DollarQuotedString"
    BY DEF CommentStates, Returned
  <1>2. /\ sql \in Seq(STRING) /\ n = Len(sql) /\ n \in Nat
        /\ tokens \in Seq(Tokens) /\ Good(sql, tokens)
        /\ i \in Nat /\ i <= n /\ lastPos \in Nat /\ lastPos <= i /\ depth \in Nat
    BY <1>1, Facts
  <1>3. from \in {lastPos, lastPos + 1}
    BY <1>2 DEF CommentFrom
  <1>4. /\ from + 2 <= i /\ Covered(sql, tokens, from)
        /\ s = "SingleLineComment" =>
              PairAt(sql, from, "-", "-") /\ \A q \in from..(i - 1) : At(q) \notin Newline
        /\ s = "MultiLineComment" =>
              /\ PairAt(sql, from, "/", "*")
              /\ depth \in 1..i /\ BlockEnd(sql, from + 2, 1) = BlockEnd(sql, i, depth)
    BY DEF IInv, CommentInv, CommentStates
  <1> HIDE DEF from
  <1>5. from \in Nat /\ lastPos < i
    BY <1>2, <1>3, <1>4
  <1>6. EndOf(tokens, Len(tokens)) \in Nat
    <2>1. Len(tokens) \in Nat /\ (Len(tokens) > 0 => tokens[Len(tokens)] \in Tokens)
      BY <1>2, LenProperties, ElementOfSeq
    <2> QED BY <2>1 DEF EndOf, Tokens
  <1>7. \A e \in 0..n : from < e /\ Skipped(sql, from, e) => Covered(sql, tokens, e)
    BY <1>2, <1>4, <1>5, <1>6, TriviaExtends DEF Covered
  <1> QED BY <1>1, <1>2, <1>4, <1>5, <1>7 DEF from

\* A finished comment only remembers itself.
LEMMA CommentFinished ==
    ASSUME IInv, NEW s \in CommentStates, state = s, NEW p \in 0..n,
           RememberComment(lastPos, p), Goto("Standard", p, p), UNCHANGED tokens, Fixed,
           UNCHANGED <<escapeString, delimiter, marker>>, depth' \in 0..n,
           Covered(sql, tokens, p)
    PROVE  IInv'
  <1>1. /\ ~Returned /\ state # "DollarQuotedString" /\ tokens \in Seq(Tokens)
        /\ Good(sql, tokens) /\ lastPos \in Nat /\ lastPos < i /\ i <= n
    BY AtComment
  <1>2. blockCommentPos' \in -1..(n - 1)
    BY <1>1, Facts DEF RememberComment
  <1>3. TypedModes
    BY <1>1, <1>2, Facts DEF TypedModes, Returned
  <1> QED BY <1>1, <1>3, ToStandard DEF Fixed

LEMMA LineCommentsKeep ==
    ASSUME IInv, LineCommentMore \/ LineCommentEnd
    PROVE  IInv'
  <1>0. /\ state = "SingleLineComment" /\ i < n /\ "SingleLineComment" \in CommentStates
    BY DEF LineCommentMore, LineCommentEnd, In, CommentStates
  <1>1. PICK from : from = CommentFrom(sql, lastPos)
    OBVIOUS
  <1>2. /\ ~Returned /\ state # "DollarQuotedString" /\ n = Len(sql) /\ n \in Nat /\ i \in Nat
        /\ lastPos \in Nat /\ lastPos <= i /\ from \in Nat /\ from + 2 <= i
        /\ Covered(sql, tokens, from)
        /\ PairAt(sql, from, "-", "-") /\ \A q \in from..(i - 1) : At(q) \notin Newline
        /\ \A e \in 0..n : from < e /\ Skipped(sql, from, e) => Covered(sql, tokens, e)
    BY <1>0, <1>1, AtComment
  <1>3. i + 1 \in 0..n /\ lastPos <= i + 1 /\ from + 2 <= i + 1 /\ from < i + 1
    BY <1>0, <1>2
  <1>4. CASE LineCommentMore
    <2>1. Goto("SingleLineComment", i + 1, lastPos) /\ Modes /\ Quiet /\ At(i) \notin Newline
      BY <1>0, <1>4 DEF LineCommentMore, Stay, c
    <2>2. TypedModes
      BY <1>2, <2>1, ModesTyped DEF Quiet
    <2>3. \A q \in from..((i + 1) - 1) : At(q) \notin Newline
      <3>1. \A q \in from..((i + 1) - 1) : q = i \/ q \in from..(i - 1)
        BY <1>2
      <3> QED BY <1>2, <2>1, <3>1
    <2> QED BY <1>0, <1>1, <1>2, <1>3, <2>1, <2>2, <2>3, ToComment
  <1>5. CASE LineCommentEnd
    <2>1. /\ At(i) \in Newline /\ RememberComment(lastPos, i + 1)
          /\ Goto("Standard", i + 1, i + 1) /\ Modes /\ UNCHANGED tokens /\ Fixed
      BY <1>5 DEF LineCommentEnd, c
    <2>2. IsLineComment(sql, from, i + 1)
      <3>1. \A q \in from..((i + 1) - 2) : q \in from..(i - 1)
        BY <1>2
      <3> QED BY <1>2, <2>1, <3>1 DEF IsLineComment, At
    <2>3. Covered(sql, tokens, i + 1)
      BY <1>2, <1>3, <2>2 DEF Skipped
    <2> QED BY <1>0, <1>3, <2>1, <2>3, CommentFinished, Facts DEF Modes
  <1> QED BY <1>4, <1>5

LEMMA BlockCommentsKeep ==
    ASSUME IInv, BlockCommentNested \/ BlockCommentClose \/ BlockCommentMore
    PROVE  IInv'
  <1>0. /\ state = "MultiLineComment" /\ i < n /\ "MultiLineComment" \in CommentStates
    BY DEF BlockCommentNested, BlockCommentClose, BlockCommentMore, In, CommentStates
  <1>1. PICK from : from = CommentFrom(sql, lastPos)
    OBVIOUS
  <1>2. /\ ~Returned /\ state # "DollarQuotedString" /\ n = Len(sql) /\ n \in Nat /\ i \in Nat
        /\ lastPos \in Nat /\ lastPos <= i /\ from \in Nat /\ from + 2 <= i
        /\ Covered(sql, tokens, from) /\ sql \in Seq(STRING)
        /\ PairAt(sql, from, "/", "*") /\ depth \in 1..i
        /\ BlockEnd(sql, from + 2, 1) = BlockEnd(sql, i, depth)
        /\ \A e \in 0..n : from < e /\ Skipped(sql, from, e) => Covered(sql, tokens, e)
    BY <1>0, <1>1, AtComment
  <1>3. /\ i \in 0..Len(sql) /\ depth \in Nat /\ depth > 0
    BY <1>0, <1>2
  <1>4. CASE BlockCommentNested
    <2>1. /\ Pair(i, "/", "*") /\ depth' = depth + 1 /\ Goto("MultiLineComment", i + 2, lastPos)
          /\ UNCHANGED <<escapeString, delimiter, marker>> /\ Quiet
      BY <1>0, <1>4 DEF BlockCommentNested
    <2>2. /\ i + 2 \in 0..n /\ lastPos <= i + 2 /\ from + 2 <= i + 2 /\ depth' \in 1..(i + 2)
          /\ depth' \in 0..n
      BY <1>2, <2>1 DEF Pair, PairAt
    <2>3. BlockEnd(sql, from + 2, 1) = BlockEnd(sql, i + 2, depth')
      BY <1>2, <1>3, <2>1, BlockEndStep DEF Pair
    <2>4. TypedModes
      BY <1>2, <2>1, <2>2, Facts DEF TypedModes, Quiet, Returned
    <2> QED BY <1>0, <1>1, <1>2, <2>1, <2>2, <2>3, <2>4, ToComment
  <1>5. CASE BlockCommentClose
    <2>1. /\ Pair(i, "*", "/") /\ depth' = depth - 1
          /\ UNCHANGED <<escapeString, delimiter, marker, tokens>> /\ Fixed
          /\ depth = 1 => RememberComment(lastPos, i + 2) /\ Goto("Standard", i + 2, i + 2)
          /\ depth # 1 => Goto("MultiLineComment", i + 2, lastPos) /\ UNCHANGED blockCommentPos
      BY <1>0, <1>5 DEF BlockCommentClose
    <2>2. /\ i + 2 \in 0..n /\ lastPos <= i + 2 /\ from + 2 <= i + 2 /\ from < i + 2
          /\ depth' \in 0..n /\ (depth # 1 => depth' \in 1..(i + 2))
      BY <1>2, <2>1 DEF Pair, PairAt
    <2>3. BlockEnd(sql, from + 2, 1) = BlockEnd(sql, i + 2, depth')
      BY <1>2, <1>3, <2>1, BlockEndStep DEF Pair
    <2>4. CASE depth = 1
      <3>1. BlockEnd(sql, i + 2, 0) = i + 2
        BY <1>2, <2>2, BlockEndStep
      <3>2. depth' = 0
        BY <2>1, <2>4
      <3>3. IsBlockComment(sql, from, i + 2)
        BY <1>2, <2>3, <3>1, <3>2 DEF IsBlockComment
      <3>4. Covered(sql, tokens, i + 2)
        BY <1>2, <2>2, <3>3 DEF Skipped
      <3> QED BY <1>0, <2>1, <2>2, <2>4, <3>4, CommentFinished
    <2>5. CASE depth # 1
      <3>1. Quiet
        BY <2>1, <2>5 DEF Quiet
      <3>2. TypedModes
        BY <1>2, <2>1, <2>2, <3>1, Facts DEF TypedModes, Quiet, Returned
      <3> QED BY <1>0, <1>1, <1>2, <2>1, <2>2, <2>3, <2>5, <3>1, <3>2, ToComment
    <2> QED BY <2>4, <2>5
  <1>6. CASE BlockCommentMore
    <2>1. /\ ~Pair(i, "/", "*") /\ ~Pair(i, "*", "/")
          /\ Goto("MultiLineComment", i + 1, lastPos) /\ Modes /\ Quiet /\ depth' = depth
      BY <1>0, <1>6 DEF BlockCommentMore, Stay, Modes
    <2>2. /\ i + 1 \in 0..n /\ lastPos <= i + 1 /\ from + 2 <= i + 1 /\ depth' \in 1..(i + 1)
      BY <1>0, <1>2, <2>1
    <2>3. BlockEnd(sql, from + 2, 1) = BlockEnd(sql, i + 1, depth')
      BY <1>0, <1>2, <1>3, <2>1, BlockEndStep DEF Pair
    <2>4. TypedModes
      BY <1>2, <2>1, ModesTyped DEF Quiet
    <2> QED BY <1>0, <1>1, <1>2, <2>1, <2>2, <2>3, <2>4, ToComment
  <1> QED BY <1>4, <1>5, <1>6

LEMMA WithinKeeps ==
    ASSUME IInv, Within
    PROVE  IInv'
  BY NumbersKeep, OperatorsKeep, KeywordsKeep, StringsKeep, QuotedKeep, LineCommentsKeep,
     BlockCommentsKeep, DollarsKeep DEF Within

-----------------------------------------------------------------------------
(* The end of the text. *)

\* What is known of a token that the end of the text cuts off.
LEMMA AtLastToken ==
    ASSUME IInv, NEW s \in TokenStates, AtEnd(s)
    PROVE  /\ state = s /\ ~Returned /\ i = n /\ n \in Nat /\ lastPos \in Nat /\ lastPos < n
           /\ Covered(sql, tokens, lastPos) /\ tokens \in Seq(Tokens) /\ Good(sql, tokens)
           /\ sql \in Seq(STRING)
  <1>1. state = s /\ i >= n
    BY DEF AtEnd
  <1> QED BY <1>1, AtToken, Facts

\* The end cuts off a word, a number or an operator: it is the last token.
LEMMA LastTokenKeeps ==
    ASSUME IInv, EndInKeyword \/ EndInNumber \/ EndInOperator
    PROVE  IInv'
  <1>1. CASE EndInKeyword
    <2>1. AtEnd("Keyword") /\ "Keyword" \in TokenStates /\ state = "Keyword"
      BY <1>1 DEF EndInKeyword, TokenStates, AtEnd
    <2>2. /\ ~Returned /\ i = n /\ n \in Nat /\ lastPos \in Nat /\ lastPos < n
          /\ Covered(sql, tokens, lastPos)
      BY <2>1, AtLastToken
    <2>3. PICK kind \in {"Keyword", "Identifier"} : kind = WordKind(lastPos, n)
      BY DEF WordKind
    <2>4. kind \in Kinds /\ kind # "EndOfInput" /\ kind # "Operator" /\ kind # "Number"
      BY DEF Kinds
    <2>5. \A q \in lastPos..(n - 1) : ~CommentAt(sql, q)
      <3> SUFFICES ASSUME NEW q \in lastPos..(n - 1) PROVE ~CommentAt(sql, q)
        OBVIOUS
      <3>1. sql[q + 1] \notin {"-", "/"} /\ q \in Nat
        BY <2>1, <2>2, AtToken DEF At
      <3> QED BY <3>1, NoCommentAt
    <2>6. Placed(kind, lastPos, lastPos) /\ n <= n
      BY <2>2 DEF Placed
    <2>7. /\ Push(tokens, kind, lastPos, n, lastPos) \in Seq(Tokens)
          /\ Good(sql, Push(tokens, kind, lastPos, n, lastPos))
          /\ Covered(sql, Push(tokens, kind, lastPos, n, lastPos), n)
      BY <2>2, <2>4, <2>5, <2>6, PushOne
    <2>8. Finish(Push(tokens, kind, lastPos, n, lastPos))
      BY <1>1, <2>3 DEF EndInKeyword
    <2> QED BY <2>2, <2>7, <2>8, ToFinish
  <1>2. CASE EndInNumber
    <2>1. AtEnd("Numeric") /\ "Numeric" \in TokenStates /\ state = "Numeric"
      BY <1>2 DEF EndInNumber, TokenStates, AtEnd
    <2>2. /\ ~Returned /\ i = n /\ n \in Nat /\ lastPos \in Nat /\ lastPos < n
          /\ Covered(sql, tokens, lastPos) /\ n = Len(sql)
      BY <2>1, AtLastToken, Facts
    <2>3. /\ At(lastPos) \in InitialNumber
          /\ \A q \in (lastPos + 1)..(n - 1) :
                At(q) # "/" /\ (At(q) = "-" => At(q - 1) \in Scientific)
      BY <2>1, <2>2, AtToken
    <2>4. \A q \in lastPos..(n - 1) : ~CommentAt(sql, q)
      <3> SUFFICES ASSUME NEW q \in lastPos..(n - 1), CommentAt(sql, q) PROVE FALSE
        OBVIOUS
      <3>1. q \in Nat /\ (q + 1) + 1 = q + 2 /\ (q + 1) - 1 = q
        BY <2>2
      <3>2. At(q) \in {"-", "/"} /\ (At(q) = "-" => At(q + 1) = "-") /\ q + 1 < n
        BY <2>2, <3>1 DEF CommentAt, PairAt, At
      <3>3. q # lastPos
        BY <2>3, <3>2, Classes
      <3>4. q \in (lastPos + 1)..(n - 1) /\ q + 1 \in (lastPos + 1)..(n - 1)
        BY <2>2, <3>2, <3>3
      <3>5. At(q) = "-" /\ At(q) \in Scientific
        BY <2>3, <3>1, <3>2, <3>4
      <3> QED BY <3>5 DEF Scientific
    <2>5. "Number" \in Kinds /\ Placed("Number", lastPos, lastPos) /\ n <= n
      BY <2>2 DEF Kinds, Placed
    <2>6. /\ Push(tokens, "Number", lastPos, n, lastPos) \in Seq(Tokens)
          /\ Good(sql, Push(tokens, "Number", lastPos, n, lastPos))
          /\ Covered(sql, Push(tokens, "Number", lastPos, n, lastPos), n)
      BY <2>2, <2>4, <2>5, PushOne
    <2> QED BY <1>2, <2>2, <2>6, ToFinish DEF EndInNumber
  <1>3. CASE EndInOperator
    <2>1. AtEnd("Operator") /\ "Operator" \in TokenStates /\ state = "Operator"
      BY <1>3 DEF EndInOperator, TokenStates, AtEnd
    <2>2. /\ ~Returned /\ i = n /\ n \in Nat /\ lastPos \in Nat /\ lastPos < n /\ n <= n
          /\ Covered(sql, tokens, lastPos) /\ tokens \in Seq(Tokens) /\ Good(sql, tokens)
          /\ sql \in Seq(STRING)
      BY <2>1, AtLastToken
    <2>3. \A q \in lastPos..(n - 1) : ~CommentAt(sql, q)
      BY <2>1, <2>2, AtToken
    <2>4. /\ PushOperator(tokens, lastPos, n) \in Seq(Tokens)
          /\ Good(sql, PushOperator(tokens, lastPos, n))
          /\ Covered(sql, PushOperator(tokens, lastPos, n), n)
      BY <2>2, <2>3, PushOperatorAppends
    <2> QED BY <1>3, <2>2, <2>4, ToFinish DEF EndInOperator
  <1> QED BY <1>1, <1>2, <1>3

\* The end cuts off a literal: a dollar quote is a token, the others an error.
LEMMA LastLiteralKeeps ==
    ASSUME IInv, EndInDollar \/ EndInString \/ EndInQuoted
    PROVE  IInv'
  <1>1. CASE EndInDollar
    <2>1. AtEnd("DollarQuotedString") /\ "DollarQuotedString" \in TokenStates
      BY <1>1 DEF EndInDollar, TokenStates
    <2>2. /\ ~Returned /\ i = n /\ n \in Nat /\ lastPos \in Nat /\ lastPos < n /\ n <= n
          /\ Covered(sql, tokens, lastPos)
      BY <2>1, AtLastToken
    <2>3. "String" \in Kinds
      BY DEF Kinds
    <2>4. PICK v \in BOOLEAN : v = TRUE
      BY Zenon
    <2>5. /\ PushRange(tokens, lastPos, n, "String", v) \in Seq(Tokens)
          /\ Good(sql, PushRange(tokens, lastPos, n, "String", v))
          /\ Covered(sql, PushRange(tokens, lastPos, n, "String", v), n)
      BY <2>2, <2>3, PushRangeOne
    <2>6. Finish(PushRange(tokens, lastPos, n, "String", v))
      BY <1>1, <2>4 DEF EndInDollar
    <2> QED BY <2>2, <2>5, <2>6, ToFinish
  <1>2. CASE EndInString
    <2>1. AtEnd("StringLiteral") /\ "StringLiteral" \in TokenStates
      BY <1>2 DEF EndInString, TokenStates
    <2> QED BY <1>2, <2>1, AtLastToken, ToError DEF EndInString
  <1>3. CASE EndInQuoted
    <2>1. AtEnd("QuotedIdentifier") /\ "QuotedIdentifier" \in TokenStates
      BY <1>3 DEF EndInQuoted, TokenStates
    <2> QED BY <1>3, <2>1, AtLastToken, ToError DEF EndInQuoted
  <1> QED BY <1>1, <1>2, <1>3

\* The end of the text ends a line comment, and leaves a block comment open.
LEMMA LastCommentKeeps ==
    ASSUME IInv, EndInLineComment \/ EndInBlockComment
    PROVE  IInv'
  <1>0. PICK from : from = CommentFrom(sql, lastPos)
    OBVIOUS
  <1>1. CASE EndInLineComment
    <2>1. state = "SingleLineComment" /\ "SingleLineComment" \in CommentStates /\ i >= n
      BY <1>1 DEF EndInLineComment, AtEnd, CommentStates
    <2>2. /\ ~Returned /\ n = Len(sql) /\ n \in Nat /\ i \in Nat /\ i <= n /\ from \in Nat
          /\ from + 2 <= i /\ tokens \in Seq(Tokens) /\ Good(sql, tokens)
          /\ PairAt(sql, from, "-", "-") /\ \A q \in from..(i - 1) : At(q) \notin Newline
          /\ \A e \in 0..n : from < e /\ Skipped(sql, from, e) => Covered(sql, tokens, e)
      BY <1>0, <2>1, AtComment
    <2>3. i = n /\ n \in 0..n /\ from < n
      BY <2>1, <2>2
    <2>4. IsLineComment(sql, from, n)
      <3>1. \A q \in from..(n - 2) : q \in from..(i - 1)
        BY <2>2, <2>3
      <3> QED BY <2>2, <3>1 DEF IsLineComment, At
    <2>5. Covered(sql, tokens, n)
      BY <2>2, <2>3, <2>4 DEF Skipped
    <2> QED BY <1>1, <2>2, <2>5, ToFinish DEF EndInLineComment
  <1>2. CASE EndInBlockComment
    <2>1. state = "MultiLineComment" /\ "MultiLineComment" \in CommentStates
      BY <1>2 DEF EndInBlockComment, AtEnd, CommentStates
    <2>2. ~Returned /\ Covered(sql, tokens, from)
      BY <1>0, <2>1, AtComment
    <2> QED BY <1>0, <1>2, <2>2, ToError DEF EndInBlockComment
  <1> QED BY <1>1, <1>2

\* Between tokens there is nothing left to say, but for a dollar at the end.
LEMMA LastStandardKeeps ==
    ASSUME IInv, EndInStandard
    PROVE  IInv'
  <1>1. /\ state = "Standard" /\ i = n /\ n \in Nat /\ n = Len(sql) /\ lastPos \in Nat
        /\ tokens \in Seq(Tokens) /\ Good(sql, tokens) /\ ~Returned
    <2>1. state = "Standard" /\ i >= n
      BY DEF EndInStandard, AtEnd
    <2> QED BY <2>1, Facts DEF Returned
  <1>2. \/ lastPos = n /\ Covered(sql, tokens, n)
        \/ lastPos = n - 1 /\ At(lastPos) = "$" /\ Covered(sql, tokens, lastPos)
    BY <1>1 DEF IInv, StandardInv, AfterDollar
  <1>3. CASE lastPos >= n
    <2>1. Finish(tokens) /\ Covered(sql, tokens, n)
      BY <1>1, <1>2, <1>3 DEF EndInStandard
    <2> QED BY <1>1, <2>1, ToFinish
  <1>4. CASE lastPos < n
    <2>1. /\ lastPos = n - 1 /\ At(lastPos) = "$" /\ Covered(sql, tokens, lastPos)
          /\ Finish(Push(tokens, "Identifier", lastPos, n, lastPos))
      BY <1>1, <1>2, <1>4 DEF EndInStandard
    <2>2. \A q \in lastPos..(n - 1) : ~CommentAt(sql, q)
      <3>1. ~CommentAt(sql, lastPos)
        BY <1>1, <2>1, NoCommentAt DEF At
      <3>2. \A q \in lastPos..(n - 1) : q = lastPos
        BY <1>1, <2>1
      <3> QED BY <3>1, <3>2
    <2>3. "Identifier" \in Kinds /\ Placed("Identifier", lastPos, lastPos) /\ n <= n
      BY <1>1 DEF Kinds, Placed
    <2>4. /\ Push(tokens, "Identifier", lastPos, n, lastPos) \in Seq(Tokens)
          /\ Good(sql, Push(tokens, "Identifier", lastPos, n, lastPos))
          /\ Covered(sql, Push(tokens, "Identifier", lastPos, n, lastPos), n)
      BY <1>1, <1>4, <2>1, <2>2, <2>3, PushOne
    <2> QED BY <1>1, <2>1, <2>4, ToFinish
  <1> QED BY <1>1, <1>3, <1>4

LEMMA EndKeeps ==
    ASSUME IInv, End
    PROVE  IInv'
  BY LastTokenKeeps, LastLiteralKeeps, LastCommentKeeps, LastStandardKeeps DEF End

-----------------------------------------------------------------------------
(* The invariant, and what it says. *)

LEMMA InitKeeps ==
    ASSUME Init
    PROVE  IInv
  <1>1. /\ sql \in Seq(STRING) /\ n = Len(sql) /\ n \in Nat
        /\ i = 0 /\ lastPos = 0 /\ depth = 0 /\ blockCommentPos = 0 - 1 /\ state = "Standard"
        /\ marker = <<>> /\ tokens = <<>>
    <2>1. sql \in Seq(STRING)
      BY SourcesAssumption DEF Init
    <2>2. blockCommentPos = 0 - 1
      <3>1. blockCommentPos = -1
        BY Zenon DEF Init
      <3> QED BY <3>1
    <2>3. i = 0 /\ lastPos = 0 /\ depth = 0 /\ state = "Standard" /\ marker = <<>> /\ tokens = <<>>
      BY DEF Init
    <2>4. n = Len(sql) /\ n \in Nat
      BY <2>1, LenProperties DEF n
    <2> QED BY <2>1, <2>2, <2>3, <2>4
  <1>2. escapeString \in BOOLEAN
    <2>1. escapeString = FALSE
      BY DEF Init
    <2> QED BY <2>1, Zenon
  <1>3. TypeOK
    <2>1. i \in 0..n /\ lastPos \in 0..i /\ depth \in 0..n
      BY <1>1
    <2>5. blockCommentPos \in -1..(n - 1)
      BY <1>1
    <2>2. err \in [type : {"none", "EmptyIdentifier", "UnterminatedComment",
                           "UnterminatedString", "UnterminatedIdentifier"}, at : 0..n]
      <3>1. err = [type |-> "none", at |-> 0]
        BY DEF Init
      <3>2. 0 \in 0..n
        BY <1>1
      <3> QED BY <3>1, <3>2
    <2>3. marker \in Seq(STRING) /\ tokens \in Seq(Tokens)
      BY <1>1
    <2>6. delimiter \in QuotedIdentifierDelimiter
      BY Zenon DEF Init, QuotedIdentifierDelimiter
    <2>4. state \in ScanStates
      BY <1>1 DEF ScanStates
    <2> QED BY <1>1, <1>2, <2>1, <2>2, <2>3, <2>4, <2>5, <2>6 DEF TypeOK, Offsets
  <1>4. Len(tokens) = 0 /\ EndOf(tokens, Len(tokens)) = 0
    BY <1>1 DEF EndOf
  <1>5. StandardInv
    <2>1. Trivia(sql, 0, 0)
      BY <1>1, TriviaEmpty
    <2> QED BY <1>1, <1>4, <2>1 DEF StandardInv, Covered
  <1>6. TokenInv /\ CommentInv
    BY <1>1 DEF TokenInv, CommentInv
  <1>7. DoneInv
    <2>1. Good(sql, tokens)
      <3>1. 1..Len(tokens) = {}
        BY <1>4
      <3> QED BY <3>1, Zenon DEF Good, InOrder, SpansDrift, CommentsOutside, Trimmed
    <2>2. err.type = "none"
      BY DEF Init
    <2> QED BY <1>1, <2>1, <2>2 DEF DoneInv
  <1> QED BY <1>3, <1>5, <1>6, <1>7 DEF IInv

LEMMA StutterKeeps ==
    ASSUME IInv, UNCHANGED vars
    PROVE  IInv'
  <1>1. /\ sql' = sql /\ i' = i /\ state' = state /\ lastPos' = lastPos
        /\ escapeString' = escapeString /\ delimiter' = delimiter /\ marker' = marker
        /\ depth' = depth /\ blockCommentPos' = blockCommentPos /\ tokens' = tokens /\ err' = err
    BY DEF vars
  <1>2. n' = n /\ Real' = Real /\ ErrorStart' = ErrorStart
    BY <1>1 DEF n, Real, ErrorStart, At
  <1>3. TypeOK'
    BY <1>1, <1>2 DEF IInv, TypeOK, Offsets, Returned
  <1>4. StandardInv' /\ TokenInv' /\ CommentInv'
    BY <1>1, <1>2 DEF IInv, StandardInv, TokenInv, CommentInv, At
  <1>5. DoneInv'
    BY <1>1, <1>2 DEF IInv, DoneInv
  <1> QED BY <1>3, <1>4, <1>5 DEF IInv

\* The loop never leaves the states in which the tokens found so far are good
\* ones and cover the text up to the one being scanned.
THEOREM InductiveInvariant == Spec => []IInv
  <1>1. Init => IInv
    BY InitKeeps
  <1>2. IInv /\ [Next]_vars => IInv'
    BY StandardKeeps, WithinKeeps, EndKeeps, StutterKeeps DEF Next
  <1> QED BY <1>1, <1>2, PTL DEF Spec

\* The ends of tokens in order do not decrease.
LEMMA EndsAscend ==
    ASSUME NEW t \in Seq(STRING), NEW toks \in Seq(Tokens), InOrder(t, toks),
           NEW k \in 1..Len(toks), NEW j \in 1..(k - 1)
    PROVE  toks[j].to <= toks[k].from
  <1>0. /\ \A x \in 1..Len(toks) : toks[x].from \in Nat /\ toks[x].to \in Nat
        /\ Len(toks) \in Nat
    <2>1. \A x \in 1..Len(toks) : toks[x] \in Tokens
      BY ElementOfSeq
    <2> QED BY <2>1, LenProperties DEF Tokens
  <1>1. \A x \in 1..Len(toks) : x > 1 => toks[x - 1].to <= toks[x].from
    <2> SUFFICES ASSUME NEW x \in 1..Len(toks), x > 1 PROVE toks[x - 1].to <= toks[x].from
      OBVIOUS
    <2>1. EndOf(toks, x - 1) <= toks[x].from
      BY DEF InOrder
    <2>2. x - 1 # 0
      BY <1>0
    <2> QED BY <2>1, <2>2 DEF EndOf
  <1>2. \A x \in 1..Len(toks) : toks[x].from < toks[x].to
    BY DEF InOrder
  <1> DEFINE T == {m \in Nat : j + m + 1 <= Len(toks) => toks[j].to <= toks[j + m + 1].from}
  <1>3. T = Nat
    <2>1. T \in SUBSET Nat
      OBVIOUS
    <2>2. 0 \in T
      <3>1. j + 0 + 1 = j + 1 /\ (j + 1) - 1 = j /\ j + 1 > 1
        OBVIOUS
      <3>2. j + 1 <= Len(toks) => toks[j].to <= toks[j + 1].from
        BY <1>1, <3>1
      <3> QED BY <3>1, <3>2
    <2>3. ASSUME NEW m \in T PROVE m + 1 \in T
      <3> SUFFICES ASSUME j + (m + 1) + 1 <= Len(toks)
                   PROVE  toks[j].to <= toks[j + (m + 1) + 1].from
        OBVIOUS
      <3>1. PICK x \in 1..Len(toks) : x = j + m + 1 /\ x + 1 = j + (m + 1) + 1
        BY <1>0
      <3>2. x + 1 \in 1..Len(toks) /\ x + 1 > 1 /\ (x + 1) - 1 = x
        BY <1>0, <3>1
      <3>3. toks[j].to <= toks[x].from
        BY <1>0, <3>1
      <3>4. toks[x].from < toks[x].to /\ toks[x].to <= toks[x + 1].from
        BY <1>1, <1>2, <3>2
      <3>5. /\ toks[j].to \in Nat /\ toks[x].from \in Nat /\ toks[x].to \in Nat
            /\ toks[x + 1].from \in Nat
        BY <1>0, <3>2
      <3> HIDE DEF T
      <3>6. PICK p \in Nat, q \in Nat, r \in Nat, u \in Nat :
                 p = toks[j].to /\ q = toks[x].from /\ r = toks[x].to /\ u = toks[x + 1].from
        BY <3>5
      <3>7. p <= q /\ q < r /\ r <= u
        BY <3>3, <3>4, <3>6
      <3>8. p <= u
        BY <3>7
      <3> QED BY <3>1, <3>6, <3>8
    <2> HIDE DEF T
    <2> QED BY <2>1, <2>2, <2>3, NatInduct
  <1>4. PICK m \in Nat : m = k - j - 1 /\ j + m + 1 = k
    OBVIOUS
  <1>5. m \in T
    BY <1>3, <1>4
  <1>6. j + m + 1 <= Len(toks) => toks[j].to <= toks[j + m + 1].from
    BY <1>5
  <1> HIDE DEF T
  <1> QED BY <1>0, <1>4, <1>6

LEMMA ReadyWhenDone ==
    ASSUME IInv
    PROVE  ReadyToParse
  <1> SUFFICES ASSUME state = "done" PROVE ReadyToParse
    BY DEF ReadyToParse
  <1>0. /\ sql \in Seq(STRING) /\ n = Len(sql) /\ n \in Nat /\ tokens \in Seq(Tokens)
        /\ Len(tokens) > 0 /\ Len(tokens) \in Nat
        /\ Good(sql, Real) /\ Covered(sql, Real, n)
    BY Facts, LenProperties DEF IInv, DoneInv
  <1>1. PICK m \in Nat : m = Len(tokens) - 1
    BY <1>0
  <1>2. /\ Real \in Seq(Tokens) /\ Len(Real) = m /\ \A k \in 1..m : Real[k] = tokens[k]
    BY <1>0, <1>1 DEF Real
  <1>3. PICK last \in Tokens : /\ last = tokens[Len(tokens)] /\ last.kind = "EndOfInput"
                               /\ last.from = n /\ last.to = n /\ last.end = n
    <2>1. tokens[Len(tokens)] = Tok("EndOfInput", n, n, n)
      BY DEF IInv, DoneInv
    <2>2. "EndOfInput" \in Kinds
      BY DEF Kinds
    <2>3. PICK N \in Nat : N = n /\ N <= N /\ N + (N - N) = N
      BY <1>0
    <2>4. /\ Tok("EndOfInput", N, N, N) \in Tokens /\ Tok("EndOfInput", N, N, N).kind = "EndOfInput"
          /\ Tok("EndOfInput", N, N, N).from = N /\ Tok("EndOfInput", N, N, N).to = N
          /\ Tok("EndOfInput", N, N, N).end = N + (N - N)
      BY <2>2, <2>3, TokFields
    <2> QED BY <2>1, <2>3, <2>4
  <1>4. ASSUME NEW k \in 1..m
        PROVE  /\ tokens[k].from \in Nat /\ tokens[k].to \in Nat /\ tokens[k].end \in Nat
               /\ tokens[k].from < tokens[k].to /\ tokens[k].to <= n
               /\ tokens[k].end = tokens[k].to \/ tokens[k].end = tokens[k].to - 1
               /\ tokens[k].kind # "EndOfInput"
    <2>1. Real[k] = tokens[k] /\ k \in 1..Len(Real) /\ tokens[k] \in Tokens
      BY <1>0, <1>1, <1>2, ElementOfSeq
    <2>2. tokens[k].from < tokens[k].to /\ tokens[k].to <= n
      BY <1>0, <2>1 DEF Good, InOrder
    <2>3. tokens[k].end = tokens[k].to \/ tokens[k].end = tokens[k].to - 1
      BY <1>0, <2>1 DEF Good, SpansDrift
    <2>4. tokens[k].kind # "EndOfInput"
      BY <1>0, <2>1 DEF Good
    <2> QED BY <2>1, <2>2, <2>3, <2>4 DEF Tokens
  <1>5. ASSUME NEW k \in 1..Len(tokens)
        PROVE  /\ tokens[k].from <= tokens[k].end /\ tokens[k].end <= tokens[k].to
               /\ tokens[k].to <= n
               /\ tokens[k].kind = "EndOfInput" <=> k = Len(tokens)
    <2>1. CASE k = Len(tokens)
      BY <1>0, <1>3, <2>1
    <2>2. CASE k # Len(tokens)
      <3>1. k \in 1..m
        BY <1>0, <1>1, <2>2
      <3> QED BY <1>0, <1>4, <2>2, <3>1
    <2> QED BY <2>1, <2>2
  <1>6. ASSUME NEW k \in 1..Len(tokens), NEW j \in 1..(k - 1)
        PROVE  tokens[j].to <= tokens[k].from
    <2>1. j \in 1..m
      BY <1>0, <1>1
    <2>2. CASE k = Len(tokens)
      BY <1>3, <1>4, <2>1, <2>2
    <2>3. CASE k # Len(tokens)
      <3>1. k \in 1..Len(Real) /\ Real[k] = tokens[k] /\ Real[j] = tokens[j]
        BY <1>0, <1>1, <1>2, <2>1, <2>3
      <3>2. Real[j].to <= Real[k].from
        BY <1>0, <1>2, <3>1, EndsAscend DEF Good
      <3> QED BY <3>1, <3>2
    <2> QED BY <2>2, <2>3
  <1>7. Len(tokens) >= 1
    BY <1>0
  <1> QED BY <1>5, <1>6, <1>7 DEF ReadyToParse

\* For every text and every keyword table, the tokens are the text: the
\* stretches they hold are in order, disjoint and inside it, and what lies
\* between them is white space and comments; spans are where the text is, but
\* for the known drift; no unquoted token holds a comment start or ends in
\* what the number state or the trimming rule gives back; and what Tokenize
\* returns is what the parser's entry points rely on.
THEOREM TokensAreTheText == Spec => []TokensAreText
  <1>1. IInv => TokensAreText
    <2> SUFFICES ASSUME IInv PROVE TokensAreText
      OBVIOUS
    <2>1. Good(sql, Real)
      <3>1. CASE state = "done"
        BY <3>1 DEF IInv, DoneInv
      <3>2. CASE state # "done"
        BY <3>2 DEF IInv, DoneInv, Real
      <3> QED BY <3>1, <3>2
    <2>2. Lossless
      <3>1. CASE state = "done"
        BY <2>1, <3>1 DEF Lossless, Good, IInv, DoneInv, Covered
      <3>2. CASE state = "error"
        <4>1. Real = tokens
          BY <3>2 DEF Real
        <4> QED BY <2>1, <3>2, <4>1 DEF Lossless, Good, IInv, DoneInv, Covered
      <3> QED BY <3>1, <3>2 DEF Lossless, Returned
    <2>3. SpanDriftOnlyAfterDollar /\ NoCommentInToken /\ TokenEndsTrimmed
      BY <2>1 DEF Good, SpanDriftOnlyAfterDollar, NoCommentInToken, TokenEndsTrimmed
    <2>4. TypeOK /\ ReadyToParse
      BY ReadyWhenDone DEF IInv
    <2> QED BY <2>2, <2>3, <2>4 DEF TokensAreText
  <1> QED BY <1>1, InductiveInvariant, PTL

-----------------------------------------------------------------------------
(* Literals and flags: the invariant. *)

\* Between the opening quote q of a literal at a and the offset b inside of it:
\* the quotes do not pair up, and have not before without another following.
Opened(t, a, b, q) ==
    /\ Cardinality(Quotes(t, a, b, q)) % 2 = 1
    /\ \A e \in (a + 1)..b :
          Cardinality(Quotes(t, a, e, q)) > 0 /\ Cardinality(Quotes(t, a, e, q)) % 2 = 0
              => t[e + 1] = q

\* The escape mode is the literal's own, and the scan has not stopped behind
\* a backslash that escapes.
LiteralInv ==
    /\ state \notin {"StringLiteral", "error"} => ~escapeString
    /\ state = "StringLiteral" =>
          /\ escapeString <=> At(lastPos) \in Scientific
          /\ escapeString /\ i < n => Backslashes(sql, lastPos, i) % 2 = 0
          /\ Opened(sql, lastPos, i, "'")
    /\ state = "QuotedIdentifier" =>
          At(lastPos) = delimiter /\ Opened(sql, lastPos, i, delimiter)
    /\ state = "DollarQuotedString" => At(lastPos) = "$"
    /\ state = "Keyword" => At(lastPos) \notin QuotedIdentifierDelimiter

\* Up to where the tokens and trivia go.
ScannedTo ==
    IF state = "Standard" THEN i
    ELSE IF state \in CommentStates THEN CommentFrom(sql, lastPos) ELSE lastPos

EndsInString(toks) == Len(toks) > 0 /\ toks[Len(toks)].kind = "String"

\* After a string, the last block comment is remembered if and only if it
\* lies behind the string.
SeenInv ==
    ~Returned =>
        /\ blockCommentPos < ScannedTo
        /\ EndsInString(tokens) /\ ~(state = "Standard" /\ i = n) =>
              /\ blockCommentPos >= EndOf(tokens, Len(tokens))
                     <=> BlockCommentIn(sql, EndOf(tokens, Len(tokens)), ScannedTo)
              /\ state \in CommentStates => At(lastPos) # "$"

LiteralsGood(t, toks) == Flagged(t, toks) /\ Whole(t, toks)

\* An error is about a construct that starts where it says and never ends.
ErrorInv ==
    /\ err.type = "UnterminatedString" =>
          \A e \in (err.at + 1)..n : ~Closed(sql, err.at, e, "'")
    /\ err.type = "UnterminatedIdentifier" =>
          \A e \in (err.at + 1)..n : ~Closed(sql, err.at, e, At(err.at))
    /\ err.type = "UnterminatedComment" =>
          Pair(ErrorStart, "/", "*") /\ BlockEnd(sql, ErrorStart + 2, 1) > n

LInv == LiteralInv /\ SeenInv /\ LiteralsGood(sql, Real) /\ ErrorInv

-----------------------------------------------------------------------------
(* Counting quotes and backslashes. *)

LEMMA QuotesCount ==
    ASSUME NEW t, NEW a \in Nat, NEW b \in Nat, NEW q
    PROVE  /\ IsFiniteSet(Quotes(t, a, b, q)) /\ Cardinality(Quotes(t, a, b, q)) \in Nat
           /\ a <= b => Cardinality(Quotes(t, a, b, q)) <= b - a
  <1>1. IsFiniteSet(a..(b - 1)) /\ Cardinality(a..(b - 1)) = IF a > b - 1 THEN 0 ELSE (b - 1) - a + 1
    BY FS_Interval
  <1>2. Quotes(t, a, b, q) \in SUBSET (a..(b - 1))
    BY DEF Quotes
  <1>3. /\ IsFiniteSet(Quotes(t, a, b, q))
        /\ Cardinality(Quotes(t, a, b, q)) <= Cardinality(a..(b - 1))
    BY <1>1, <1>2, FS_Subset
  <1>4. Cardinality(Quotes(t, a, b, q)) \in Nat
    BY <1>3, FS_CardinalityType
  <1> QED BY <1>1, <1>3, <1>4

\* One offset further there is one quote more, or none.
LEMMA QuotesStep ==
    ASSUME NEW t, NEW a \in Nat, NEW b \in Nat, a <= b, NEW q
    PROVE  Cardinality(Quotes(t, a, b + 1, q)) =
               IF t[b + 1] = q /\ ~QuoteIsEscaped(t, a, b)
               THEN Cardinality(Quotes(t, a, b, q)) + 1 ELSE Cardinality(Quotes(t, a, b, q))
  <1>1. a..((b + 1) - 1) = (a..(b - 1)) \cup {b} /\ b \notin a..(b - 1)
    OBVIOUS
  <1>2. CASE t[b + 1] = q /\ ~QuoteIsEscaped(t, a, b)
    <2>1. Quotes(t, a, b + 1, q) = Quotes(t, a, b, q) \cup {b} /\ b \notin Quotes(t, a, b, q)
      BY <1>1, <1>2, Zenon DEF Quotes
    <2> QED BY <1>2, <2>1, QuotesCount, FS_AddElement
  <1>3. CASE ~(t[b + 1] = q /\ ~QuoteIsEscaped(t, a, b))
    <2>1. Quotes(t, a, b + 1, q) = Quotes(t, a, b, q)
      BY <1>1, <1>3, Zenon DEF Quotes
    <2> QED BY <1>3, <2>1
  <1> QED BY <1>2, <1>3

LEMMA BackslashesStep ==
    ASSUME NEW t, NEW a \in Nat, NEW p \in Nat, a <= p
    PROVE  /\ Backslashes(t, a, p) \in Nat
           /\ Backslashes(t, a, p + 1) = IF t[p + 1] = "\\" THEN Backslashes(t, a, p) + 1 ELSE 0
  <1> DEFINE Run(k) == {q \in a..(k - 1) : \A r \in q..(k - 1) : t[r + 1] = "\\"}
  <1>1. IsFiniteSet(Run(p)) /\ Cardinality(Run(p)) \in Nat
    <2>1. IsFiniteSet(a..(p - 1)) /\ Run(p) \in SUBSET (a..(p - 1))
      BY FS_Interval
    <2> HIDE DEF Run
    <2> QED BY <2>1, FS_Subset, FS_CardinalityType
  <1>2. CASE t[p + 1] = "\\"
    <2>1. Run(p + 1) = Run(p) \cup {p} /\ p \notin Run(p)
      <3>1. ASSUME NEW q \in Run(p + 1) PROVE q \in Run(p) \/ q = p
        <4>1. q \in a..p /\ \A r \in q..p : t[r + 1] = "\\"
          BY <3>1
        <4> QED BY <4>1
      <3>2. ASSUME NEW q \in Run(p) PROVE q \in Run(p + 1)
        BY <1>2
      <3>3. p \in Run(p + 1) /\ p \notin Run(p)
        BY <1>2
      <3> HIDE DEF Run
      <3> QED BY <3>1, <3>2, <3>3
    <2> HIDE DEF Run
    <2>2. Cardinality(Run(p + 1)) = Cardinality(Run(p)) + 1
      BY <1>1, <2>1, FS_AddElement
    <2> QED BY <1>1, <1>2, <2>2 DEF Backslashes, Run
  <1>3. CASE t[p + 1] # "\\"
    <2>1. Run(p + 1) = {}
      <3> SUFFICES ASSUME NEW q \in Run(p + 1) PROVE FALSE
        OBVIOUS
      <3>1. p \in q..((p + 1) - 1)
        OBVIOUS
      <3> QED BY <1>3, <3>1
    <2> HIDE DEF Run
    <2>2. Cardinality(Run(p + 1)) = 0
      BY <2>1, FS_EmptySet
    <2> QED BY <1>1, <1>3, <2>2 DEF Backslashes, Run
  <1> QED BY <1>2, <1>3

LEMMA BackslashesStart ==
    ASSUME NEW t, NEW a \in Nat
    PROVE  Backslashes(t, a, a) = 0
  <1>1. {q \in a..(a - 1) : \A r \in q..(a - 1) : t[r + 1] = "\\"} = {}
    OBVIOUS
  <1> QED BY <1>1, FS_EmptySet, Zenon DEF Backslashes

LEMMA QuotesStart ==
    ASSUME NEW t, NEW a \in Nat, NEW q
    PROVE  Cardinality(Quotes(t, a, a, q)) = 0
  <1>1. Quotes(t, a, a, q) = {}
    BY DEF Quotes
  <1> QED BY <1>1, FS_EmptySet

-----------------------------------------------------------------------------
(* Inside a literal. *)

\* The opening quote, after a prefix or not.
LEMMA Opens ==
    ASSUME NEW t, NEW a \in Nat, NEW q,
           t[a + 1] = q, q \notin Scientific
    PROVE  Opened(t, a, a + 1, q)
  <1>1. ~QuoteIsEscaped(t, a, a)
    BY DEF QuoteIsEscaped
  <1>2. Cardinality(Quotes(t, a, a + 1, q)) = 1
    <2>1. a <= a
      OBVIOUS
    <2>2. Cardinality(Quotes(t, a, a + 1, q)) = Cardinality(Quotes(t, a, a, q)) + 1
      BY <1>1, <2>1, QuotesStep
    <2> QED BY <2>2, QuotesStart
  <1> QED BY <1>2 DEF Opened

LEMMA OpensAfterPrefix ==
    ASSUME NEW t, NEW a \in Nat, NEW q,
           t[a + 1] # q, t[a + 1] # "\\", t[a + 2] = q
    PROVE  Opened(t, a, a + 2, q)
  <1>0. a <= a /\ a <= a + 1 /\ a + 1 \in Nat
    OBVIOUS
  <1>1. Cardinality(Quotes(t, a, a + 1, q)) = 0
    <2>1. Cardinality(Quotes(t, a, a + 1, q)) = Cardinality(Quotes(t, a, a, q))
      BY <1>0, QuotesStep
    <2> QED BY <2>1, QuotesStart
  <1>2. Backslashes(t, a, a + 1) = 0
    BY <1>0, BackslashesStep
  <1>3. ~QuoteIsEscaped(t, a, a + 1)
    BY <1>2 DEF QuoteIsEscaped
  <1>4. /\ Cardinality(Quotes(t, a, (a + 1) + 1, q)) = 1 
        /\ (a + 1) + 1 = a + 2
    <2>1. (a + 1) + 1 = a + 2
      OBVIOUS
    <2>2. Cardinality(Quotes(t, a, (a + 1) + 1, q)) = Cardinality(Quotes(t, a, a + 1, q)) + 1
      BY <1>0, <1>3, <2>1, QuotesStep
    <2> QED BY <1>1, <2>1, <2>2
  <1>5. \A e \in (a + 1)..(a + 2) : e = a + 1 \/ e = a + 2
    OBVIOUS
  <1> QED BY <1>1, <1>4, <1>5 DEF Opened

\* A byte that is no quote, or an escaped one.
LEMMA StaysOpen ==
    ASSUME NEW t, NEW a \in Nat, NEW b \in Nat, a <= b, NEW q, Opened(t, a, b, q),
           t[b + 1] # q \/ QuoteIsEscaped(t, a, b)
    PROVE  Opened(t, a, b + 1, q)
  <1>1. Cardinality(Quotes(t, a, b + 1, q)) = Cardinality(Quotes(t, a, b, q))
    BY QuotesStep
  <1> QED BY <1>1 DEF Opened

\* Two quotes in a row.
LEMMA DoublesStayOpen ==
    ASSUME NEW t, NEW a \in Nat, NEW b \in Nat, a <= b, NEW q, Opened(t, a, b, q),
           t[b + 1] = q, t[b + 2] = q, ~QuoteIsEscaped(t, a, b), q # "\\"
    PROVE  Opened(t, a, b + 2, q)
  <1> DEFINE C(e) == Cardinality(Quotes(t, a, e, q))
  <1>1. Backslashes(t, a, b + 1) = 0
    BY BackslashesStep
  <1>2. ~QuoteIsEscaped(t, a, b + 1)
    BY <1>1 DEF QuoteIsEscaped
  <1>3. C(b) \in Nat /\ C(b + 1) = C(b) + 1 /\ C((b + 1) + 1) = C(b + 1) + 1
    BY <1>2, QuotesCount, QuotesStep
  <1>4. (b + 1) + 1 = b + 2
    OBVIOUS
  <1>5. C(b) % 2 = 1 /\ \A e \in (a + 1)..b : C(e) > 0 /\ C(e) % 2 = 0 => t[e + 1] = q
    BY DEF Opened
  <1> HIDE DEF C
  <1>6. C(b + 2) % 2 = 1
    BY <1>3, <1>4, <1>5
  <1>7. \A e \in (a + 1)..(b + 2) : e \in (a + 1)..b \/ e = b + 1 \/ e = b + 2
    OBVIOUS
  <1>8. \A e \in (a + 1)..(b + 2) : C(e) > 0 /\ C(e) % 2 = 0 => t[e + 1] = q
    BY <1>4, <1>5, <1>6, <1>7
  <1> QED BY <1>6, <1>8 DEF Opened, C

\* The closing quote.
LEMMA Closes ==
    ASSUME NEW t \in Seq(STRING), NEW a \in Nat, NEW b \in Nat, a <= b, b < Len(t), NEW q,
           Opened(t, a, b, q), t[b + 1] = q, ~QuoteIsEscaped(t, a, b),
           b + 1 = Len(t) \/ t[b + 2] # q
    PROVE  Closed(t, a, b + 1, q)
  <1> DEFINE C(e) == Cardinality(Quotes(t, a, e, q))
  <1>1. C(b) \in Nat /\ C(b + 1) = C(b) + 1 /\ C(b + 1) <= (b + 1) - a /\ Len(t) \in Nat
    <2>1. C(b) \in Nat /\ C(b + 1) = C(b) + 1
      BY QuotesCount, QuotesStep
    <2>2. b + 1 \in Nat /\ a <= b + 1
      OBVIOUS
    <2>3. C(b + 1) <= (b + 1) - a
      BY <2>2, QuotesCount
    <2> QED BY <2>1, <2>3, LenProperties
  <1>2. C(b) % 2 = 1 /\ \A e \in (a + 1)..b : C(e) > 0 /\ C(e) % 2 = 0 => t[e + 1] = q
    BY DEF Opened
  <1>3. (b + 1) - 1 = b /\ (b + 1) + 1 = b + 2
    OBVIOUS
  <1> HIDE DEF C
  <1>4. C(b + 1) \in {2 * k : k \in 1..Len(t)}
    <2>1. PICK k \in Nat : C(b) = 2 * k + 1
      <3>1. C(b) \div 2 \in Nat /\ C(b) = 2 * (C(b) \div 2) + 1
        BY <1>1, <1>2
      <3> QED BY <3>1
    <2>2. C(b + 1) = 2 * (k + 1) /\ k + 1 \in 1..Len(t)
      BY <1>1, <2>1
    <2> QED BY <2>2
  <1> QED BY <1>2, <1>3, <1>4 DEF Closed, C

\* What is open at the end of the text was closed nowhere.
LEMMA NeverCloses ==
    ASSUME NEW t \in Seq(STRING), NEW a \in Nat, a < Len(t), NEW q, Opened(t, a, Len(t), q)
    PROVE  \A e \in (a + 1)..Len(t) : ~Closed(t, a, e, q)
  <1> SUFFICES ASSUME NEW e \in (a + 1)..Len(t), Closed(t, a, e, q)
               PROVE  FALSE
    OBVIOUS
  <1> DEFINE C(d) == Cardinality(Quotes(t, a, d, q))
  <1>1. PICK k \in 1..Len(t) : C(e) = 2 * k
    BY DEF Closed
  <1>2. e = Len(t) \/ t[e + 1] # q
    BY DEF Closed
  <1>3. C(Len(t)) % 2 = 1 /\ (C(e) > 0 /\ C(e) % 2 = 0 => t[e + 1] = q)
    BY DEF Opened
  <1> HIDE DEF C
  <1>4. C(e) > 0 /\ C(e) % 2 = 0
    BY <1>1, LenProperties
  <1> QED BY <1>2, <1>3, <1>4

-----------------------------------------------------------------------------
(* White space and comments lead from each offset to one other at most, so *)
(* that there is one way through them.                                     *)

LEMMA SpaceLeads ==
    ASSUME NEW t \in Seq(STRING), NEW p \in Nat, SpaceLen(t, p) > 0
    PROVE  t[p + 1] \in {"C2", "E2", "E1", "E3"}
  <1> DEFINE here == {u \in UnicodeSpaces :
                         p + Len(u) <= Len(t) /\ SubSeq(t, p + 1, p + Len(u)) = u}
  <1>1. here # {}
    BY DEF SpaceLen
  <1>2. PICK u \in UnicodeSpaces : p + Len(u) <= Len(t) /\ SubSeq(t, p + 1, p + Len(u)) = u
    BY <1>1
  <1>3. u[1] \in {"C2", "E2", "E1", "E3"} /\ Len(u) \in {2, 3}
    <2>1. CASE \E b \in {"85", "A0"} : u = <<"C2", b>>
      BY <2>1
    <2>2. CASE \E b \in {"80", "81", "82", "83", "84", "85", "86", "87", "88", "89",
                         "8A", "A8", "A9", "AF"} : u = <<"E2", "80", b>>
      BY <2>2
    <2>3. CASE u \in {<<"E1", "9A", "80">>, <<"E2", "81", "9F">>, <<"E3", "80", "80">>}
      BY <2>3
    <2> QED BY <1>2, <2>1, <2>2, <2>3, Zenon DEF UnicodeSpaces
  <1>4. u[1] = t[p + 1]
    <2>1. SubSeq(t, p + 1, p + Len(u))[1] = t[p + 1]
      <3>1. Len(u) \in Nat /\ 1 \in 1..Len(u) /\ Len(t) \in Nat
        BY <1>3, LenProperties
      <3>2. p + 1 \in 1..(Len(t) + 1) /\ p + Len(u) \in 0..Len(t)
        BY <1>2, <3>1
      <3>3. 1 \in 1..((p + Len(u)) - (p + 1) + 1)
        BY <3>1
      <3> HIDE <1>2
      <3> QED BY <3>1, <3>2, <3>3
    <2> QED BY <1>2, <2>1
  <1> QED BY <1>3, <1>4

LEMMA OneWayOn ==
    ASSUME NEW t \in Seq(STRING), NEW p \in Nat, NEW d \in Nat, NEW e \in Nat, p < d, p < e,
           d <= Len(t), e <= Len(t), Skipped(t, p, d), Skipped(t, p, e)
    PROVE  /\ d = e
           /\ IsBlockComment(t, p, e) => ~IsSpace(t, p, d) /\ ~IsLineComment(t, p, d)
  <1> DEFINE ch == t[p + 1]
  <1>1. /\ IsBlockComment(t, p, d) => ch = "/"
        /\ IsBlockComment(t, p, e) => ch = "/"
        /\ IsLineComment(t, p, d) => ch = "-"
        /\ IsLineComment(t, p, e) => ch = "-"
    BY DEF IsBlockComment, IsLineComment, PairAt
  <1>2. /\ IsSpace(t, p, d) => ch \in Space \/ SpaceLen(t, p) > 0
        /\ IsSpace(t, p, e) => ch \in Space \/ SpaceLen(t, p) > 0
    <2>1. d - p > 0 /\ e - p > 0
      OBVIOUS
    <2> QED BY <2>1 DEF IsSpace
  <1>3. SpaceLen(t, p) > 0 => ch \in {"C2", "E2", "E1", "E3"}
    BY SpaceLeads
  <1>4. CASE ch = "/"
    <2>1. IsBlockComment(t, p, d) /\ IsBlockComment(t, p, e)
      BY <1>1, <1>2, <1>3, <1>4 DEF Skipped, Space
    <2>2. ~IsSpace(t, p, d) /\ ~IsLineComment(t, p, d)
      BY <1>1, <1>2, <1>3, <1>4 DEF Space
    <2> QED BY <2>1, <2>2 DEF IsBlockComment
  <1>5. CASE ch = "-"
    <2>1. IsLineComment(t, p, d) /\ IsLineComment(t, p, e)
      BY <1>1, <1>2, <1>3, <1>5 DEF Skipped, Space
    <2>2. (d - 2) + 1 = d - 1 /\ (e - 1) + 1 = e /\ (d - 1) + 1 = d
      OBVIOUS
    <2>3. d <= Len(t) /\ e <= Len(t) /\ Len(t) \in Nat
      BY LenProperties
    <2>4. ~(d < e)
      <3> SUFFICES ASSUME d < e PROVE FALSE
        OBVIOUS
      <3>1. d - 1 \in p..(e - 2) /\ d # Len(t)
        BY <2>3
      <3>2. t[d] \notin Newline
        BY <2>1, <2>2, <3>1 DEF IsLineComment
      <3> QED BY <2>1, <3>1, <3>2 DEF IsLineComment
    <2>5. ~(e < d)
      <3> SUFFICES ASSUME e < d PROVE FALSE
        OBVIOUS
      <3>1. e - 1 \in p..(d - 2) /\ e # Len(t)
        BY <2>3
      <3>2. t[e] \notin Newline
        BY <2>1, <2>2, <3>1 DEF IsLineComment
      <3> QED BY <2>1, <3>1, <3>2 DEF IsLineComment
    <2>6. ~IsBlockComment(t, p, e)
      BY <1>1, <1>5
    <2> QED BY <2>4, <2>5, <2>6
  <1>6. CASE ch \notin {"/", "-"}
    <2>1. IsSpace(t, p, d) /\ IsSpace(t, p, e) /\ ~IsBlockComment(t, p, e)
      BY <1>1, <1>6 DEF Skipped
    <2>2. CASE SpaceLen(t, p) > 0
      <3>1. ch \notin Space
        BY <1>3, <2>2 DEF Space
      <3>2. SpaceLen(t, p) = d - p /\ SpaceLen(t, p) = e - p
        BY <2>1, <3>1 DEF IsSpace
      <3> QED BY <2>1, <3>2
    <2>3. CASE SpaceLen(t, p) = 0
      <3>1. d = p + 1 /\ e = p + 1
        BY <2>1, <2>3 DEF IsSpace
      <3> QED BY <2>1, <3>1
    <2> QED BY <2>2, <2>3, SpaceLenIs
  <1> QED BY <1>4, <1>5, <1>6

\* The last step of a way.
LEMMA TriviaLast ==
    ASSUME NEW t \in Seq(STRING), NEW a \in Nat, NEW b \in 0..Len(t), Trivia(t, a, b), a # b
    PROVE  \E p \in a..(b - 1) : Trivia(t, a, p) /\ Skipped(t, p, b)
  <1> DEFINE ends == TriviaEnds(t, a)
  <1>0. Len(t) \in Nat
    BY LenProperties
  <1>1. \A k \in 0..Len(t) : ends[k] = IF k <= a THEN {a} ELSE NextEnds(t, a, ends[k - 1], k)
    BY TriviaEndsDef
  <1> HIDE DEF ends
  <1> DEFINE T == {k \in Nat : k <= Len(t) =>
                      \A p \in ends[k] : p \in Nat /\ a <= p /\ (p <= k \/ p = a) /\ (p <= Len(t) => p \in ends[p])}
  <1>2. T = Nat
    <2>1. T \in SUBSET Nat /\ 0 \in T
      <3>1. ends[0] = {a}
        BY <1>0, <1>1
      <3>2. a <= Len(t) => ends[a] = {a}
        BY <1>0, <1>1
      <3> QED BY <3>1, <3>2
    <2>2. ASSUME NEW k \in T PROVE k + 1 \in T
      <3> SUFFICES ASSUME k + 1 <= Len(t), NEW p \in ends[k + 1]
                   PROVE  p \in Nat /\ a <= p /\ (p <= k + 1 \/ p = a) /\ (p <= Len(t) => p \in ends[p])
        OBVIOUS
      <3>0. k \in Nat /\ k + 1 \in 0..Len(t) /\ (k + 1) - 1 = k
        BY <1>0
      <3>1. ends[k + 1] = IF k + 1 <= a THEN {a} ELSE NextEnds(t, a, ends[k], k + 1)
        BY <1>1, <3>0
      <3>2. CASE p \in ends[k]
        BY <3>0, <3>2
      <3>3. CASE p = a
        <4>1. a <= Len(t) => ends[a] = {a}
          BY <1>0, <1>1
        <4> QED BY <3>3, <4>1
      <3>4. CASE p = k + 1 /\ ~(k + 1 <= a)
        BY <3>0, <3>4
      <3>5. p \in ends[k] \/ p = a \/ (p = k + 1 /\ ~(k + 1 <= a))
        BY <3>1 DEF NextEnds
      <3> QED BY <3>2, <3>3, <3>4, <3>5
    <2> HIDE DEF T
    <2> QED BY <2>1, <2>2, NatInduct
  <1>3. b \in ends[b]
    BY DEF Trivia, ends
  <1>4. b > a
    <2>1. b <= a => ends[b] = {a}
      BY <1>1
    <2> QED BY <1>3, <2>1
  <1>5. ends[b] = NextEnds(t, a, ends[b - 1], b) /\ b - 1 \in Nat /\ b - 1 <= Len(t)
    BY <1>0, <1>1, <1>4
  <1>6. \A p \in ends[b - 1] : p \in Nat /\ a <= p /\ (p <= b - 1 \/ p = a) /\ (p <= Len(t) => p \in ends[p])
    BY <1>2, <1>5
  <1> HIDE DEF T
  <1>7. b \notin ends[b - 1]
    BY <1>4, <1>6
  <1>8. PICK p \in ends[b - 1] : Skipped(t, p, b)
    BY <1>3, <1>5, <1>7 DEF NextEnds
  <1>9. p \in a..(b - 1) /\ p \in ends[p]
    BY <1>0, <1>4, <1>6
  <1> QED BY <1>8, <1>9 DEF Trivia, ends

\* The first step of a way.
LEMMA TriviaFirst ==
    ASSUME NEW t \in Seq(STRING), NEW a \in Nat, NEW b \in 0..Len(t), Trivia(t, a, b), a < b
    PROVE  \E e \in (a + 1)..b : Skipped(t, a, e) /\ Trivia(t, e, b)
  <1> DEFINE Ok(x) == \E e \in (a + 1)..x : Skipped(t, a, e) /\ Trivia(t, e, x)
             Bad == {x \in (a + 1)..Len(t) : Trivia(t, a, x) /\ ~Ok(x)}
  <1>0. Len(t) \in Nat
    BY LenProperties
  <1>1. Bad = {}
    <2> SUFFICES ASSUME Bad # {} PROVE FALSE
      OBVIOUS
    <2>1. PICK x \in Bad : \A y \in Bad : x <= y
      <3>1. Bad \in SUBSET Nat
        BY <1>0
      <3> HIDE DEF Bad
      <3> QED BY <3>1, MinNat
    <2>2. x \in (a + 1)..Len(t) /\ Trivia(t, a, x) /\ ~Ok(x) /\ x \in 0..Len(t) /\ a # x
      BY <1>0, <2>1
    <2> HIDE DEF Bad, Ok
    <2>3. PICK p \in a..(x - 1) : Trivia(t, a, p) /\ Skipped(t, p, x)
      BY <2>2, TriviaLast
    <2>4. CASE p = a
      <3>1. Trivia(t, x, x)
        BY <2>2, TriviaEmpty
      <3> QED BY <2>2, <2>3, <2>4, <3>1 DEF Ok
    <2>5. CASE p # a
      <3>1. Ok(p)
        <4>1. p \in (a + 1)..Len(t) /\ p < x
          BY <1>0, <2>2, <2>5
        <4>2. p \notin Bad
          BY <2>1, <4>1, <2>2
        <4> QED BY <2>3, <4>1, <4>2 DEF Bad
      <3>2. PICK e \in (a + 1)..p : Skipped(t, a, e) /\ Trivia(t, e, p)
        BY <3>1 DEF Ok
      <3>3. Trivia(t, e, x)
        <4>1. e \in Nat /\ e <= p /\ p < x /\ p \in Nat
          BY <2>2
        <4> QED BY <2>2, <2>3, <3>2, <4>1, TriviaExtends
      <3>4. e \in (a + 1)..x
        BY <2>2
      <3> QED BY <2>2, <3>2, <3>3, <3>4 DEF Ok
    <2> QED BY <2>4, <2>5
  <1>2. b \in (a + 1)..Len(t)
    BY <1>0
  <1> HIDE DEF Ok
  <1>3. Ok(b)
    BY <1>1, <1>2
  <1> QED BY <1>3 DEF Ok

\* A way to p and a way to b, further on, are one way.
LEMMA TriviaSplits ==
    ASSUME NEW t \in Seq(STRING), NEW a \in Nat, NEW b \in 0..Len(t), NEW p \in a..b,
           Trivia(t, a, b), Trivia(t, a, p)
    PROVE  Trivia(t, p, b)
  <1> DEFINE Ok(x) == \A q \in a..x : Trivia(t, a, q) => Trivia(t, q, x)
             Bad == {x \in a..Len(t) : Trivia(t, a, x) /\ ~Ok(x)}
  <1>0. Len(t) \in Nat
    BY LenProperties
  <1>1. Bad = {}
    <2> SUFFICES ASSUME Bad # {} PROVE FALSE
      OBVIOUS
    <2>1. PICK x \in Bad : \A y \in Bad : x <= y
      <3>1. Bad \in SUBSET Nat
        BY <1>0
      <3> HIDE DEF Bad
      <3> QED BY <3>1, MinNat
    <2>2. x \in a..Len(t) /\ Trivia(t, a, x) /\ ~Ok(x) /\ x \in 0..Len(t)
      BY <1>0, <2>1
    <2>3. PICK q \in a..x : Trivia(t, a, q) /\ ~Trivia(t, q, x)
      BY <2>2
    <2>4. q # x /\ q < x /\ a < x
      <3>1. Trivia(t, x, x)
        BY <2>2, TriviaEmpty
      <3> QED BY <2>2, <2>3, <3>1
    <2>5. ASSUME NEW y \in a..(x - 1), Trivia(t, a, y) PROVE Ok(y)
      <3>1. y \in a..Len(t) /\ y < x
        BY <1>0, <2>2
      <3>2. y \notin Bad
        BY <2>1, <2>2, <3>1
      <3> QED BY <2>5, <3>1, <3>2
    <2> HIDE DEF Bad, Ok
    <2>6. PICK r \in a..(x - 1) : Trivia(t, a, r) /\ Skipped(t, r, x)
      BY <2>2, <2>4, TriviaLast
    <2>7. CASE q <= r
      <3>1. Trivia(t, q, r)
        <4>1. q \in a..r
          BY <2>2, <2>7
        <4> QED BY <2>3, <2>5, <2>6, <4>1 DEF Ok
      <3>2. q \in Nat /\ r \in Nat /\ r < x
        BY <2>2
      <3>3. Trivia(t, q, x)
        BY <2>2, <2>6, <2>7, <3>1, <3>2, TriviaExtends
      <3> QED BY <2>3, <3>3
    <2>8. CASE r < q
      <3>1. Trivia(t, r, q)
        <4>1. q \in a..(x - 1) /\ r \in a..q
          BY <2>2, <2>4, <2>8
        <4> QED BY <2>3, <2>5, <2>6, <4>1 DEF Ok
      <3>2. r \in Nat /\ q \in 0..Len(t) /\ r < q
        BY <1>0, <2>2, <2>4, <2>8
      <3>3. PICK e \in (r + 1)..q : Skipped(t, r, e) /\ Trivia(t, e, q)
        BY <3>1, <3>2, TriviaFirst
      <3>4. e \in Nat /\ r < e /\ e <= Len(t) /\ x \in Nat /\ r < x /\ x <= Len(t) /\ e < x
        BY <1>0, <2>2, <2>4, <3>2
      <3>5. e = x
        BY <2>6, <3>2, <3>3, <3>4, OneWayOn
      <3> QED BY <3>4, <3>5
    <2> QED BY <2>2, <2>3, <2>7, <2>8
  <1>2. b \in a..Len(t)
    BY <1>0
  <1> HIDE DEF Ok
  <1>3. Ok(b)
    BY <1>1, <1>2
  <1> QED BY <1>3 DEF Ok

-----------------------------------------------------------------------------
(* Block comments between the last token and the scan. *)

\* Nothing lies between an offset and itself.
LEMMA NoCommentBetween ==
    ASSUME NEW t, NEW a \in Nat
    PROVE  ~BlockCommentIn(t, a, a)
  BY DEF BlockCommentIn

\* White space and line comments add no block comment, a block comment does.
LEMMA CommentsSoFar ==
    ASSUME NEW t \in Seq(STRING), NEW a \in Nat, NEW p \in Nat, NEW e \in 0..Len(t), a <= p, p < e,
           Trivia(t, a, p), Skipped(t, p, e)
    PROVE  BlockCommentIn(t, a, e) <=> BlockCommentIn(t, a, p) \/ IsBlockComment(t, p, e)
  <1>0. Len(t) \in Nat /\ p \in 0..Len(t)
    BY LenProperties
  <1>1. ASSUME BlockCommentIn(t, a, p) PROVE BlockCommentIn(t, a, e)
    <2>1. PICK b \in a..p, d \in Nat : /\ d \in (b + 1)..p /\ Trivia(t, a, b)
                                       /\ IsBlockComment(t, b, d) /\ Trivia(t, d, p)
      BY <1>1 DEF BlockCommentIn
    <2>2. Trivia(t, d, e)
      BY <2>1, TriviaExtends
    <2>3. b \in a..e /\ d \in (b + 1)..e
      BY <1>0, <2>1
    <2> QED BY <2>1, <2>2, <2>3 DEF BlockCommentIn
  <1>2. ASSUME IsBlockComment(t, p, e) PROVE BlockCommentIn(t, a, e)
    <2>1. Trivia(t, e, e) /\ p \in a..e /\ e \in (p + 1)..e
      BY TriviaEmpty
    <2> QED BY <1>2, <2>1 DEF BlockCommentIn
  <1>3. ASSUME BlockCommentIn(t, a, e), ~IsBlockComment(t, p, e) PROVE BlockCommentIn(t, a, p)
    <2>1. PICK b \in a..e, d \in Nat : /\ d \in (b + 1)..e /\ Trivia(t, a, b)
                                       /\ IsBlockComment(t, b, d) /\ Trivia(t, d, e)
      BY <1>3 DEF BlockCommentIn
    <2>2. b \in Nat /\ b < d /\ d <= e /\ a <= b
      BY <2>1
    <2>3. Skipped(t, b, d)
      BY <2>1 DEF Skipped
    <2>4. Trivia(t, a, d) /\ Trivia(t, a, e)
      <3>1. d \in 0..Len(t)
        BY <1>0, <2>2
      <3> QED BY <2>1, <2>2, <2>3, <3>1, TriviaExtends
    <2>5. CASE d = e
      <3>1. b = p
        <4>1. CASE b < p
          <5>1. Trivia(t, b, p)
            BY <1>0, <2>1, <2>2, <4>1, TriviaSplits
          <5>2. PICK x \in (b + 1)..p : Skipped(t, b, x) /\ Trivia(t, x, p)
            BY <1>0, <2>2, <4>1, <5>1, TriviaFirst
          <5>3. x \in Nat /\ b < x /\ x <= Len(t) /\ x < e /\ d <= Len(t)
            BY <1>0, <2>2, <5>2
          <5>4. x = d
            BY <2>2, <2>3, <5>2, <5>3, OneWayOn
          <5> QED BY <2>5, <5>3, <5>4
        <4>2. CASE p < b
          <5>1. b \in 0..Len(t)
            BY <1>0, <2>2
          <5>2. Trivia(t, p, b)
            BY <2>1, <2>2, <4>2, <5>1, TriviaSplits
          <5>3. PICK x \in (p + 1)..b : Skipped(t, p, x) /\ Trivia(t, x, b)
            BY <4>2, <5>1, <5>2, TriviaFirst
          <5>4. x \in Nat /\ p < x /\ x <= Len(t) /\ x < e /\ e <= Len(t)
            BY <1>0, <2>2, <5>3
          <5>5. x = e
            BY <5>3, <5>4, OneWayOn
          <5> QED BY <5>4, <5>5
        <4> QED BY <2>2, <4>1, <4>2
      <3> QED BY <1>3, <2>1, <2>5, <3>1
    <2>6. CASE d # e
      <3>1. d \in 0..Len(t) /\ d < e
        BY <1>0, <2>2, <2>6
      <3>2. d <= p
        <4> SUFFICES ASSUME p < d PROVE FALSE
          BY <3>1
        <4>1. Trivia(t, p, d)
          BY <2>4, <3>1, TriviaSplits
        <4>2. PICK x \in (p + 1)..d : Skipped(t, p, x) /\ Trivia(t, x, d)
          BY <3>1, <4>1, TriviaFirst
        <4>3. x \in Nat /\ p < x /\ x <= Len(t) /\ x < e /\ e <= Len(t)
          BY <1>0, <3>1, <4>2
        <4>4. x = e
          BY <4>2, <4>3, OneWayOn
        <4> QED BY <4>3, <4>4
      <3>3. Trivia(t, d, p)
        <4>1. d \in a..p
          BY <2>2, <3>1, <3>2
        <4> QED BY <1>0, <2>4, <4>1, TriviaSplits
      <3>4. b \in a..p /\ d \in (b + 1)..p
        BY <2>2, <3>2
      <3> QED BY <2>1, <3>3, <3>4 DEF BlockCommentIn
    <2> QED BY <2>5, <2>6
  <1> QED BY <1>1, <1>2, <1>3

-----------------------------------------------------------------------------
(* Tokens that are neither strings nor delimited, and those that are.      *)

Plain(t, tok) == tok.kind # "String" /\ ~IsDelimited(t, tok)

LEMMA PlainAppended ==
    ASSUME NEW t, NEW toks \in Seq(Tokens), NEW both \in Seq(Tokens),
           Len(toks) <= Len(both), \A k \in 1..Len(toks) : both[k] = toks[k],
           \A k \in (Len(toks) + 1)..Len(both) : Plain(t, both[k]),
           LiteralsGood(t, toks)
    PROVE  /\ LiteralsGood(t, both)
           /\ Len(toks) < Len(both) => ~EndsInString(both)
  <1>0. Len(toks) \in Nat /\ Len(both) \in Nat
    BY LenProperties
  <1>1. \A k \in 1..Len(both) : k \in 1..Len(toks) \/ k \in (Len(toks) + 1)..Len(both)
    BY <1>0
  <1>2. Whole(t, both)
    <2> SUFFICES ASSUME NEW k \in 1..Len(both)
                 PROVE  /\ SingleQuoted(t, both[k]) => Closed(t, both[k].from, both[k].to, "'")
                        /\ IsDelimited(t, both[k]) =>
                              Closed(t, both[k].from, both[k].to, t[both[k].from + 1])
      BY DEF Whole
    <2>1. CASE k \in 1..Len(toks)
      BY <2>1 DEF LiteralsGood, Whole
    <2>2. CASE k \in (Len(toks) + 1)..Len(both)
      BY <2>2 DEF Plain, SingleQuoted
    <2> QED BY <1>1, <2>1, <2>2
  <1>3. Flagged(t, both)
    <2> SUFFICES ASSUME NEW k \in 2..Len(both), both[k - 1].kind = "String", both[k].kind = "String"
                 PROVE  /\ both[k].newline <=> NewlineIn(t, both[k - 1].to, both[k].from)
                        /\ both[k].blockComment <=> BlockCommentIn(t, both[k - 1].to, both[k].from)
      BY DEF Flagged
    <2>1. k \in 1..Len(toks)
      <3>1. k \in 1..Len(both)
        BY <1>0
      <3> QED BY <1>1, <3>1 DEF Plain
    <2>2. k \in 2..Len(toks) /\ k - 1 \in 1..Len(toks)
      BY <1>0, <2>1
    <2>3. both[k] = toks[k] /\ both[k - 1] = toks[k - 1]
      BY <2>1, <2>2
    <2> QED BY <2>2, <2>3, Zenon DEF LiteralsGood, Flagged
  <1>4. Len(toks) < Len(both) => ~EndsInString(both)
    <2> SUFFICES ASSUME Len(toks) < Len(both) PROVE ~EndsInString(both)
      OBVIOUS
    <2>1. Len(both) \in (Len(toks) + 1)..Len(both)
      BY <1>0
    <2> QED BY <2>1 DEF Plain, EndsInString
  <1> QED BY <1>2, <1>3, <1>4 DEF LiteralsGood

\* A token that is appended, whatever it is.
LEMMA OneAppended ==
    ASSUME NEW t, NEW toks \in Seq(Tokens), NEW tok \in Tokens, LiteralsGood(t, toks),
           SingleQuoted(t, tok) => Closed(t, tok.from, tok.to, "'"),
           IsDelimited(t, tok) => Closed(t, tok.from, tok.to, t[tok.from + 1]),
           EndsInString(toks) /\ tok.kind = "String" =>
               /\ tok.newline <=> NewlineIn(t, EndOf(toks, Len(toks)), tok.from)
               /\ tok.blockComment <=> BlockCommentIn(t, EndOf(toks, Len(toks)), tok.from)
    PROVE  /\ LiteralsGood(t, Append(toks, tok))
           /\ EndsInString(Append(toks, tok)) => tok.kind = "String"
           /\ EndOf(Append(toks, tok), Len(Append(toks, tok))) = tok.to
  <1> DEFINE both == Append(toks, tok)
  <1>1. /\ both \in Seq(Tokens) /\ Len(both) = Len(toks) + 1 /\ Len(toks) \in Nat
        /\ both[Len(both)] = tok
        /\ \A k \in 1..Len(toks) : both[k] = toks[k]
    BY AppendProperties, LenProperties
  <1> HIDE DEF both
  <1>2. \A k \in 1..Len(both) : k \in 1..Len(toks) \/ k = Len(both)
    BY <1>1
  <1>3. Whole(t, both)
    <2> SUFFICES ASSUME NEW k \in 1..Len(both)
                 PROVE  /\ SingleQuoted(t, both[k]) => Closed(t, both[k].from, both[k].to, "'")
                        /\ IsDelimited(t, both[k]) =>
                              Closed(t, both[k].from, both[k].to, t[both[k].from + 1])
      BY DEF Whole
    <2>1. CASE k \in 1..Len(toks)
      BY <1>1, <2>1 DEF LiteralsGood, Whole
    <2>2. CASE k = Len(both)
      BY <1>1, <2>2
    <2> QED BY <1>2, <2>1, <2>2
  <1>4. Flagged(t, both)
    <2> SUFFICES ASSUME NEW k \in 2..Len(both), both[k - 1].kind = "String", both[k].kind = "String"
                 PROVE  /\ both[k].newline <=> NewlineIn(t, both[k - 1].to, both[k].from)
                        /\ both[k].blockComment <=> BlockCommentIn(t, both[k - 1].to, both[k].from)
      BY DEF Flagged
    <2>1. CASE k \in 1..Len(toks)
      <3>1. k \in 2..Len(toks) /\ k - 1 \in 1..Len(toks)
        BY <1>1, <2>1
      <3>2. both[k] = toks[k] /\ both[k - 1] = toks[k - 1]
        BY <1>1, <2>1, <3>1
      <3> QED BY <3>1, <3>2, Zenon DEF LiteralsGood, Flagged
    <2>2. CASE k = Len(both)
      <3>1. k - 1 = Len(toks) /\ Len(toks) > 0 /\ Len(toks) \in 1..Len(toks) /\ Len(toks) # 0
        BY <1>1, <2>2
      <3>2. both[k] = tok /\ both[k - 1] = toks[Len(toks)]
        BY <1>1, <2>2, <3>1
      <3>3. EndsInString(toks) /\ EndOf(toks, Len(toks)) = toks[Len(toks)].to
        BY <3>1, <3>2 DEF EndsInString, EndOf
      <3> QED BY <3>2, <3>3, Zenon
    <2>3. k \in 1..Len(toks) \/ k = Len(both)
      BY <1>1, <1>2
    <2> QED BY <2>1, <2>2, <2>3
  <1>5. EndOf(both, Len(both)) = tok.to /\ (EndsInString(both) => tok.kind = "String")
    BY <1>1 DEF EndOf, EndsInString
  <1> QED BY <1>3, <1>4, <1>5 DEF LiteralsGood, both

LEMMA PushKeepsLiterals ==
    ASSUME sql \in Seq(STRING), tokens \in Seq(Tokens), LiteralsGood(sql, tokens),
           NEW kind \in Kinds, NEW a \in Nat, NEW b \in Nat, NEW o \in Nat, a <= b,
           kind # "String", kind = "Identifier" => At(a) \notin QuotedIdentifierDelimiter
    PROVE  /\ LiteralsGood(sql, Push(tokens, kind, a, b, o)) /\ ~EndsInString(Push(tokens, kind, a, b, o))
           /\ Push(tokens, kind, a, b, o) \in Seq(Tokens)
  <1> DEFINE tok == Tok(kind, a, b, o)
  <1>1. tok \in Tokens /\ tok.kind = kind /\ tok.from = a
    BY TokFields
  <1> HIDE DEF tok
  <1>2. ~SingleQuoted(sql, tok) /\ ~IsDelimited(sql, tok)
    BY <1>1 DEF SingleQuoted, IsDelimited, At
  <1>3. LiteralsGood(sql, Append(tokens, tok)) /\ (EndsInString(Append(tokens, tok)) => tok.kind = "String")
    BY <1>1, <1>2, OneAppended
  <1>4. Append(tokens, tok) \in Seq(Tokens)
    BY <1>1, AppendProperties
  <1> QED BY <1>1, <1>3, <1>4 DEF Push, tok

\* What the flags of a string are taken from.
FlagsKnown(start) ==
    EndsInString(tokens) =>
        /\ blockCommentPos < start
        /\ blockCommentPos >= EndOf(tokens, Len(tokens))
               <=> BlockCommentIn(sql, EndOf(tokens, Len(tokens)), start)

LEMMA PushRangeKeepsLiterals ==
    ASSUME sql \in Seq(STRING), tokens \in Seq(Tokens), Good(sql, tokens), LiteralsGood(sql, tokens),
           NEW kind \in Kinds, NEW start \in Nat, NEW end \in Nat, start < end,
           NEW unterminated \in BOOLEAN,
           kind = "String" => FlagsKnown(start) /\ (At(start) # "$" => Closed(sql, start, end, "'")),
           kind = "Identifier" /\ At(start) \in QuotedIdentifierDelimiter =>
               Closed(sql, start, end, At(start))
    PROVE  LET toks == PushRange(tokens, start, end, kind, unterminated) IN
           /\ toks \in Seq(Tokens) /\ LiteralsGood(sql, toks)
           /\ EndsInString(toks) => kind = "String"
           /\ EndOf(toks, Len(toks)) = end
  <1> DEFINE prev  == tokens[Len(tokens)]
             some  == tokens # <<>> /\ \E p \in prev.end..(start - 1) : At(p) \in Newline
             block == tokens # <<>> /\ blockCommentPos >= prev.end /\ blockCommentPos < start
             tok   == [kind |-> kind, start |-> start, end |-> end, from |-> start, to |-> end,
                       unterminated |-> unterminated, newline |-> some, blockComment |-> block]
  <1>1. some \in BOOLEAN /\ block \in BOOLEAN
    BY Zenon
  <1>2. PushRange(tokens, start, end, kind, unterminated) = Append(tokens, tok)
    BY DEF PushRange
  <1>3. EndsInString(tokens) =>
            /\ some <=> NewlineIn(sql, EndOf(tokens, Len(tokens)), start)
            /\ kind = "String" => (block <=> BlockCommentIn(sql, EndOf(tokens, Len(tokens)), start))
    <2> SUFFICES ASSUME EndsInString(tokens)
                 PROVE  /\ some <=> NewlineIn(sql, EndOf(tokens, Len(tokens)), start)
                        /\ kind = "String" =>
                              (block <=> BlockCommentIn(sql, EndOf(tokens, Len(tokens)), start))
      OBVIOUS
    <2>1. /\ Len(tokens) \in Nat /\ Len(tokens) > 0 /\ prev.kind = "String" /\ Len(tokens) # 0
          /\ Len(tokens) \in 1..Len(tokens) /\ tokens # <<>>
      BY LenProperties DEF EndsInString
    <2>2. prev.end = prev.to
      BY <2>1 DEF Good, SpansDrift
    <2>3. EndOf(tokens, Len(tokens)) = prev.end
      BY <2>1, <2>2 DEF EndOf
    <2>4. some <=> NewlineIn(sql, EndOf(tokens, Len(tokens)), start)
      BY <2>1, <2>3, Zenon DEF NewlineIn, At
    <2>5. kind = "String" => (block <=> BlockCommentIn(sql, EndOf(tokens, Len(tokens)), start))
      BY <2>1, <2>3 DEF FlagsKnown
    <2> QED BY <2>4, <2>5
  <1> HIDE DEF some, block
  <1>4. tok \in Tokens /\ tok.kind = kind /\ tok.from = start /\ tok.to = end
    BY <1>1 DEF Tokens
  <1>5. (tok.newline <=> some) /\ (tok.blockComment <=> block)
    <2>1. tok.newline = some /\ tok.blockComment = block
      OBVIOUS
    <2> HIDE DEF tok
    <2> QED BY <2>1, Zenon
  <1> HIDE DEF tok
  <1>6. /\ SingleQuoted(sql, tok) => Closed(sql, tok.from, tok.to, "'")
        /\ IsDelimited(sql, tok) => Closed(sql, tok.from, tok.to, sql[tok.from + 1])
    BY <1>4 DEF SingleQuoted, IsDelimited, At
  <1>7. EndsInString(tokens) /\ tok.kind = "String" =>
            /\ tok.newline <=> NewlineIn(sql, EndOf(tokens, Len(tokens)), tok.from)
            /\ tok.blockComment <=> BlockCommentIn(sql, EndOf(tokens, Len(tokens)), tok.from)
    BY <1>3, <1>4, <1>5, Zenon
  <1>8. /\ LiteralsGood(sql, Append(tokens, tok))
        /\ EndsInString(Append(tokens, tok)) => tok.kind = "String"
        /\ EndOf(Append(tokens, tok), Len(Append(tokens, tok))) = tok.to
    BY <1>4, <1>6, <1>7, OneAppended
  <1>9. Append(tokens, tok) \in Seq(Tokens)
    BY <1>4, AppendProperties
  <1> QED BY <1>2, <1>4, <1>8, <1>9

LEMMA PushOperatorKeepsLiterals ==
    ASSUME sql \in Seq(STRING), tokens \in Seq(Tokens), LiteralsGood(sql, tokens),
           NEW a \in Nat, NEW b \in Nat, a < b, b <= n
    PROVE  /\ LiteralsGood(sql, PushOperator(tokens, a, b)) /\ ~EndsInString(PushOperator(tokens, a, b))
           /\ PushOperator(tokens, a, b) \in Seq(Tokens)
  <1>1. PICK e : e = TrimmedEnd(a, b)
    OBVIOUS
  <1>2. e \in (a + 1)..b /\ e \in Nat /\ a < e /\ b - e \in Nat
    <2>1. e \in (a + 1)..b
      BY <1>1, TrimmedEndIs
    <2> QED BY <2>1
  <1>3. PICK tok \in Tokens : /\ PushRange(tokens, a, e, "Operator", FALSE) = Append(tokens, tok)
                              /\ tok.kind = "Operator"
    <2>1. "Operator" \in Kinds /\ FALSE \in BOOLEAN
      BY DEF Kinds
    <2> HIDE DEF Tokens
    <2>2. \A v \in BOOLEAN : \E tok \in Tokens :
              PushRange(tokens, a, e, "Operator", v) = Append(tokens, tok) /\ tok.kind = "Operator"
      BY <1>2, <2>1, PushRangeAppends
    <2> QED BY <2>1, <2>2
  <1> DEFINE ops == Singles(e, b - e) first == Append(tokens, tok) both == first \o ops
  <1>4. PushOperator(tokens, a, b) = both
    BY <1>1, <1>3 DEF PushOperator, Singles
  <1>5. /\ ops \in Seq(Tokens) /\ Len(ops) = b - e
        /\ \A k \in 1..Len(ops) : ops[k].kind = "Operator"
    <2>1. ops \in Seq(Tokens)
      BY <1>2, SinglesStep
    <2>2. Len(ops) = b - e /\ \A k \in 1..(b - e) : ops[k].kind = "Operator"
      BY <1>2 DEF Singles, Tok
    <2> QED BY <2>1, <2>2
  <1>6. /\ first \in Seq(Tokens) /\ Len(first) = Len(tokens) + 1 /\ first[Len(first)] = tok
        /\ Len(tokens) \in Nat /\ \A k \in 1..Len(tokens) : first[k] = tokens[k]
    BY AppendProperties, LenProperties
  <1> HIDE DEF ops, first
  <1>7. /\ both \in Seq(Tokens) /\ Len(both) = Len(first) + Len(ops)
        /\ \A k \in 1..Len(both) : both[k] = IF k <= Len(first) THEN first[k] ELSE ops[k - Len(first)]
    <2>1. \A k \in 1..(Len(first) + Len(ops)) :
              both[k] = IF k <= Len(first) THEN first[k] ELSE ops[k - Len(first)]
      BY <1>5, <1>6, ConcatProperties, Zenon
    <2>2. both \in Seq(Tokens) /\ Len(both) = Len(first) + Len(ops)
      BY <1>5, <1>6, ConcatProperties, Zenon
    <2> HIDE DEF both
    <2> QED BY <2>1, <2>2
  <1> HIDE DEF both
  <1>8. Len(ops) \in Nat /\ Len(tokens) < Len(both)
    BY <1>2, <1>5, <1>6, <1>7
  <1>9. \A k \in 1..Len(tokens) : both[k] = tokens[k]
    BY <1>6, <1>7, <1>8
  <1>10. ASSUME NEW k \in (Len(tokens) + 1)..Len(both) PROVE Plain(sql, both[k])
    <2>1. CASE k <= Len(first)
      BY <1>3, <1>6, <1>7, <1>8, <2>1 DEF Plain, IsDelimited
    <2>2. CASE k > Len(first)
      <3>1. /\ k \in 1..Len(both) /\ ~(k <= Len(first)) /\ k - Len(first) \in 1..Len(ops)
            /\ Len(first) \in Nat /\ k \in Nat
        BY <1>6, <1>7, <1>8, <2>2
      <3>2. both[k] = ops[k - Len(first)]
        BY <1>7, <3>1
      <3>3. PICK j \in 1..Len(ops) : j = k - Len(first)
        BY <3>1
      <3>4. ops[j].kind = "Operator"
        BY <1>5, <3>3, Zenon
      <3>5. both[k].kind = "Operator"
        BY <3>2, <3>3, <3>4, Zenon
      <3> QED BY <3>5 DEF Plain, IsDelimited
    <2> QED BY <1>6, <2>1, <2>2
  <1>11. Len(tokens) <= Len(both) /\ both \in Seq(Tokens)
    BY <1>6, <1>7, <1>8
  <1>12. LiteralsGood(sql, both) /\ (Len(tokens) < Len(both) => ~EndsInString(both))
    <2>1. \A k \in (Len(tokens) + 1)..Len(both) : Plain(sql, both[k])
      BY <1>10
    <2> QED BY <1>9, <1>11, <2>1, PlainAppended
  <1> QED BY <1>4, <1>8, <1>11, <1>12

-----------------------------------------------------------------------------
(* The steps, by what they change.                                         *)

\* Where the scan of a loop that goes on has come to.
LEMMA SeenNext ==
    ASSUME sql' = sql, NEW k, ScannedTo' = k, blockCommentPos' < k,
           EndsInString(tokens') /\ ~(state' = "Standard" /\ i' = n) =>
               /\ blockCommentPos' >= EndOf(tokens', Len(tokens'))
                      <=> BlockCommentIn(sql, EndOf(tokens', Len(tokens')), k)
               /\ state' \in CommentStates => At(lastPos') # "$"
    PROVE  SeenInv'
  <1>1. n' = n
    BY DEF n
  <1> QED BY <1>1 DEF SeenInv, At

LEMMA StillInLoop ==
    ASSUME IInv', ~Returned', sql' = sql, LiteralsGood(sql, tokens'), LiteralInv', SeenInv'
    PROVE  LInv'
  <1>1. Real' = tokens'
    BY DEF Real, Returned
  <1>2. err'.type = "none"
    BY DEF IInv, DoneInv, Returned
  <1>3. ErrorInv'
    BY <1>2 DEF ErrorInv
  <1> QED BY <1>1, <1>3 DEF LInv

\* What is known before a step.
LEMMA LFacts ==
    ASSUME IInv, LInv, ~Returned
    PROVE  /\ LiteralsGood(sql, tokens) /\ blockCommentPos < ScannedTo
           /\ blockCommentPos \in Int /\ ScannedTo \in Int
           /\ EndOf(tokens, Len(tokens)) \in Nat
           /\ EndsInString(tokens) /\ ~(state = "Standard" /\ i = n) =>
                 /\ blockCommentPos >= EndOf(tokens, Len(tokens))
                        <=> BlockCommentIn(sql, EndOf(tokens, Len(tokens)), ScannedTo)
                 /\ state \in CommentStates => At(lastPos) # "$"
  <1>1. Real = tokens
    BY DEF Real, Returned
  <1>2. /\ blockCommentPos \in -1..(n - 1) /\ lastPos \in Int /\ i \in Int /\ n \in Nat
        /\ tokens \in Seq(Tokens)
    BY Facts
  <1>3. blockCommentPos \in Int /\ ScannedTo \in Int
    BY <1>2 DEF ScannedTo, CommentFrom
  <1>4. EndOf(tokens, Len(tokens)) \in Nat
    <2>1. Len(tokens) \in Nat /\ (Len(tokens) > 0 => tokens[Len(tokens)] \in Tokens)
      BY <1>2, LenProperties, ElementOfSeq
    <2> QED BY <2>1 DEF EndOf, Tokens
  <1> QED BY <1>1, <1>3, <1>4 DEF LInv, SeenInv

\* A token is pushed, or the dollar at the end passed over.
LEMMA PushedKeeps ==
    ASSUME IInv, LInv, ~Returned, IInv', sql' = sql, state' = "Standard", ~escapeString',
           LiteralsGood(sql, tokens'), blockCommentPos' = blockCommentPos, ScannedTo <= i',
           \/ i' = n
           \/ EndsInString(tokens') => EndOf(tokens', Len(tokens')) = i'
    PROVE  LInv'
  <1>1. i' \in Nat
    <2>1. i' \in 0..n' /\ n' = n
      BY DEF IInv, TypeOK, Offsets, n
    <2> QED BY <2>1
  <1>2. ScannedTo' = i'
    BY DEF ScannedTo
  <1>3. SeenInv'
    BY <1>1, <1>2, LFacts, NoCommentBetween, SeenNext DEF CommentStates
  <1>4. LiteralInv' /\ ~Returned'
    BY DEF LiteralInv, Returned
  <1> QED BY <1>3, <1>4, StillInLoop

\* White space or a comment is passed over.
LEMMA SkippedKeeps ==
    ASSUME IInv, LInv, ~Returned, IInv', sql' = sql, state' = "Standard", ~escapeString',
           tokens' = tokens, NEW from \in Nat, from = ScannedTo, Covered(sql, tokens, from),
           Skipped(sql, from, i'), from < i', ~(state = "Standard" /\ i = n),
           blockCommentPos' < i',
           EndsInString(tokens) =>
               IF IsBlockComment(sql, from, i') THEN blockCommentPos' = from
                                                ELSE blockCommentPos' = blockCommentPos
    PROVE  LInv'
  <1>1. i' \in 0..Len(sql) /\ sql \in Seq(STRING)
    BY DEF IInv, TypeOK, Offsets, n
  <1>2. ScannedTo' = i'
    BY DEF ScannedTo
  <1>3. PICK a \in Nat : a = EndOf(tokens, Len(tokens))
    BY LFacts
  <1>4. a <= from /\ Trivia(sql, a, from)
    BY <1>3 DEF Covered
  <1>5. BlockCommentIn(sql, a, i') <=> BlockCommentIn(sql, a, from) \/ IsBlockComment(sql, from, i')
    BY <1>1, <1>4, CommentsSoFar
  <1>6. SeenInv'
    <2>1. EndsInString(tokens) =>
              (blockCommentPos' >= a <=> BlockCommentIn(sql, a, i'))
      BY <1>3, <1>4, <1>5, LFacts
    <2> QED BY <1>2, <1>3, <2>1, SeenNext DEF CommentStates
  <1>7. LiteralInv' /\ ~Returned' /\ LiteralsGood(sql, tokens')
    BY LFacts DEF LiteralInv, Returned
  <1> QED BY <1>6, <1>7, StillInLoop

\* The token or comment goes on, or one begins.
LEMMA WithinKeepsLits ==
    ASSUME IInv, LInv, ~Returned, IInv', Quiet, ~(state = "Standard" /\ i = n),
           state' \in TokenStates \cup CommentStates, ScannedTo' = ScannedTo,
           state' \in CommentStates /\ EndsInString(tokens) => At(lastPos') # "$",
           LiteralInv'
    PROVE  LInv'
  <1>1. sql' = sql /\ tokens' = tokens /\ blockCommentPos' = blockCommentPos
    BY DEF Quiet, Fixed
  <1>2. SeenInv'
    BY <1>1, LFacts, SeenNext
  <1>3. ~Returned' /\ LiteralsGood(sql, tokens')
    BY <1>1, LFacts DEF Returned, TokenStates, CommentStates
  <1> QED BY <1>1, <1>2, <1>3, StillInLoop

\* The end of the text, after the last token.
LEMMA FinishKeeps ==
    ASSUME IInv, LInv, ~Returned, NEW toks \in Seq(Tokens), Finish(toks), LiteralsGood(sql, toks),
           ~escapeString
    PROVE  LInv'
  <1> DEFINE last == Tok("EndOfInput", n, n, n)
  <1>1. last \in Tokens
    <2>1. n \in Nat /\ n <= n /\ "EndOfInput" \in Kinds
      BY Facts DEF Kinds
    <2> HIDE DEF Tokens
    <2> QED BY <2>1, TokFields
  <1>2. /\ tokens' = Append(toks, last) /\ state' = "done" /\ n' = n
        /\ UNCHANGED <<sql, err>> /\ escapeString' = escapeString
    BY DEF Finish, Modes, n
  <1> HIDE DEF last
  <1>3. Real' = toks
    <2>1. Real' = SubSeq(tokens', 1, Len(tokens') - 1)
      BY <1>2 DEF Real
    <2>2. SubSeq(Append(toks, last), 1, Len(toks)) = toks
      BY <1>1, LenProperties
    <2>3. Len(tokens') - 1 = Len(toks)
      BY <1>1, <1>2, AppendProperties, LenProperties
    <2> QED BY <1>2, <2>1, <2>2, <2>3
  <1>4. err'.type = "none"
    BY <1>2, Facts
  <1>5. ErrorInv'
    BY <1>4 DEF ErrorInv
  <1>6. LiteralInv' /\ SeenInv'
    BY <1>2 DEF LiteralInv, SeenInv, Returned
  <1> QED BY <1>2, <1>3, <1>5, <1>6 DEF LInv

\* An error.
LEMMA RaiseKeeps ==
    ASSUME IInv, LInv, ~Returned, NEW type, Raise(type),
           type = "UnterminatedString" => \A e \in (lastPos + 1)..n : ~Closed(sql, lastPos, e, "'"),
           type = "UnterminatedIdentifier" =>
               \A e \in (lastPos + 1)..n : ~Closed(sql, lastPos, e, At(lastPos)),
           type = "UnterminatedComment" =>
               /\ Pair(CommentFrom(sql, lastPos), "/", "*")
               /\ BlockEnd(sql, CommentFrom(sql, lastPos) + 2, 1) > n
    PROVE  LInv'
  <1>1. /\ err'.type = type /\ err'.at = lastPos /\ sql' = sql /\ state' = "error" /\ tokens' = tokens
        /\ n' = n
    BY DEF Raise, n
  <1>2. LiteralInv' /\ SeenInv'
    BY <1>1 DEF LiteralInv, SeenInv, Returned
  <1>3. LiteralsGood(sql, Real)'
    BY <1>1, LFacts DEF Real
  <1>4. ErrorInv'
    <2>1. type = "UnterminatedComment" => ErrorStart' = CommentFrom(sql, lastPos)
      <3>1. lastPos + 0 = lastPos
        BY Facts
      <3> QED BY <1>1, <3>1 DEF ErrorStart, CommentFrom, At
    <2> QED BY <1>1, <2>1 DEF ErrorInv, Pair, At
  <1> QED BY <1>2, <1>3, <1>4 DEF LInv

-----------------------------------------------------------------------------
(* stateStandard *)

LEMMA StandardFacts ==
    ASSUME IInv, LInv, In("Standard")
    PROVE  /\ ~Returned /\ ~(state = "Standard" /\ i = n) /\ ~escapeString /\ ScannedTo = i
           /\ i \in Nat /\ n \in Nat /\ i < n /\ i + 1 \in Nat /\ i + 2 \in Nat /\ lastPos \in Nat
           /\ c = At(i) /\ c = sql[i + 1] /\ At(i + 1) = sql[i + 2]
           /\ sql \in Seq(STRING) /\ n = Len(sql) /\ tokens \in Seq(Tokens)
           /\ LiteralsGood(sql, tokens) /\ Covered(sql, tokens, i)
  <1>1. state = "Standard" /\ i < n /\ ~Returned
    BY DEF In, Returned
  <1>2. ~escapeString /\ ScannedTo = i
    BY <1>1 DEF LInv, LiteralInv, ScannedTo
  <1>3. /\ i \in Nat /\ n \in Nat /\ i + 1 \in Nat /\ i + 2 \in Nat /\ lastPos \in Nat
        /\ sql \in Seq(STRING) /\ n = Len(sql) /\ tokens \in Seq(Tokens)
    BY Facts
  <1>4. c = At(i) /\ c = sql[i + 1] /\ At(i + 1) = sql[i + 2]
    <2>1. (i + 1) + 1 = i + 2
      BY <1>3
    <2> QED BY <2>1 DEF c, At
  <1> QED BY <1>1, <1>2, <1>3, <1>4, LFacts, AtStandard

LEMMA StandardPushesLits ==
    ASSUME IInv, LInv, IInv', In("Standard"),
           \/ Terminator \/ DollarAtEnd \/ DollarParameter \/ DollarLabel
           \/ CompoundColonToken \/ SingleByte
    PROVE  LInv'
  <1>0. /\ ~Returned /\ ~escapeString /\ ScannedTo = i
        /\ i \in Nat /\ n \in Nat /\ i < n /\ i + 1 \in Nat /\ i + 2 \in Nat /\ lastPos \in Nat
        /\ sql \in Seq(STRING) /\ tokens \in Seq(Tokens) /\ LiteralsGood(sql, tokens)
        /\ i <= i + 1 /\ i <= i + 2
    BY StandardFacts
  <1>1. ASSUME NEW kind \in {"Operator", "Terminator"}, NEW b \in {i + 1, i + 2}, NEW o \in Nat,
               Pushed(Push(tokens, kind, i, b, o)), state' = "Standard", i' = b,
               escapeString' = escapeString
        PROVE  LInv'
    <2>1. kind \in Kinds /\ kind # "String" /\ kind # "Identifier" /\ b \in Nat /\ i <= b
      BY <1>0 DEF Kinds
    <2>2. /\ LiteralsGood(sql, Push(tokens, kind, i, b, o))
          /\ ~EndsInString(Push(tokens, kind, i, b, o))
      BY <1>0, <2>1, PushKeepsLiterals
    <2>3. /\ sql' = sql /\ blockCommentPos' = blockCommentPos
          /\ tokens' = Push(tokens, kind, i, b, o) /\ ~escapeString'
      BY <1>0, <1>1 DEF Pushed, Fixed
    <2>4. LiteralsGood(sql, tokens') /\ ~EndsInString(tokens')
      BY <2>2, <2>3
    <2> QED BY <1>0, <1>1, <2>1, <2>3, <2>4, PushedKeeps
  <1>2. CASE Terminator
    BY <1>0, <1>1, <1>2 DEF Terminator, Goto, Modes
  <1>3. CASE DollarAtEnd
    <2>1. /\ state' = state /\ state = "Standard" /\ i' = i + 1 /\ escapeString' = escapeString
          /\ tokens' = tokens /\ blockCommentPos' = blockCommentPos /\ sql' = sql /\ i + 1 >= n
      BY <1>3 DEF DollarAtEnd, Stay, Goto, Modes, Quiet, Fixed, In
    <2>2. i' = n
      BY <1>0, <2>1
    <2> QED BY <1>0, <2>1, <2>2, PushedKeeps
  <1>4. CASE DollarParameter
    BY <1>0, <1>1, <1>4 DEF DollarParameter, Goto, Modes
  <1>5. CASE DollarLabel
    BY <1>0, <1>1, <1>5 DEF DollarLabel, Goto, Modes
  <1>6. CASE CompoundColonToken
    BY <1>0, <1>1, <1>6 DEF CompoundColonToken, Goto, Modes
  <1>7. CASE SingleByte
    BY <1>0, <1>1, <1>7 DEF SingleByte, Goto, Modes
  <1> QED BY <1>2, <1>3, <1>4, <1>5, <1>6, <1>7

LEMMA StandardSkipsLits ==
    ASSUME IInv, LInv, IInv', In("Standard"), SkipSpace \/ SkipUnicodeSpace
    PROVE  LInv'
  <1>0. /\ ~Returned /\ ~escapeString /\ ScannedTo = i /\ ~(state = "Standard" /\ i = n)
        /\ i \in Nat /\ n \in Nat /\ c = sql[i + 1] /\ sql \in Seq(STRING) /\ n = Len(sql)
        /\ Covered(sql, tokens, i) /\ i < n
        /\ blockCommentPos < i /\ blockCommentPos \in Int
    BY StandardFacts, LFacts
  <1>1. /\ state' = "Standard" /\ escapeString' = escapeString /\ tokens' = tokens
        /\ blockCommentPos' = blockCommentPos /\ sql' = sql
    BY DEF SkipSpace, SkipUnicodeSpace, Goto, Modes, Quiet, Fixed
  <1>2. PICK e : e = i' /\ e \in Nat /\ i < e /\ e <= n /\ IsSpace(sql, i, e)
    <2>1. CASE SkipSpace
      <3>1. i' = i + 1 /\ IsSpace(sql, i, i + 1)
        BY <1>0, <2>1 DEF SkipSpace, Goto, IsSpace
      <3> QED BY <1>0, <3>1
    <2>2. CASE SkipUnicodeSpace
      <3>1. PICK len : len = SpaceLen(sql, i)
        OBVIOUS
      <3>2. len \in Nat /\ len > 0 /\ i + len <= n
        BY <1>0, <2>2, <3>1, SpaceLenIs DEF SkipUnicodeSpace, UnicodeSpaceLen
      <3>3. i' = i + len
        BY <2>2, <3>1 DEF SkipUnicodeSpace, Goto, UnicodeSpaceLen
      <3>4. IsSpace(sql, i, i + len)
        <4>1. (i + len) - i = len
          BY <1>0, <3>2
        <4> QED BY <3>1, <4>1 DEF IsSpace
      <3> QED BY <1>0, <3>2, <3>3, <3>4
    <2> QED BY <2>1, <2>2
  <1>3. Skipped(sql, i, e) /\ ~IsBlockComment(sql, i, e)
    <2>1. Skipped(sql, i, e)
      BY <1>2 DEF Skipped
    <2>2. IsBlockComment(sql, i, e) => ~IsSpace(sql, i, e)
      BY <1>0, <1>2, <2>1, OneWayOn
    <2> QED BY <1>2, <2>1, <2>2
  <1>4. blockCommentPos' < e
    BY <1>0, <1>1, <1>2
  <1>5. Skipped(sql, i, i') /\ ~IsBlockComment(sql, i, i') /\ i < i' /\ blockCommentPos' < i'
    BY <1>2, <1>3, <1>4
  <1> QED BY <1>0, <1>1, <1>5, SkippedKeeps

\* A token or a comment begins.
LEMMA StandardStartsLits ==
    ASSUME IInv, LInv, IInv', In("Standard"),
           \/ StringStart \/ PrefixStringStart \/ QuotedStart \/ DollarQuoteStart
           \/ CompoundColonOperator \/ NumberStart \/ OperatorStart \/ KeywordStart
    PROVE  LInv'
  <1>0. /\ ~Returned /\ ~escapeString /\ ScannedTo = i /\ ~(state = "Standard" /\ i = n)
        /\ i \in Nat /\ n \in Nat /\ i < n /\ c = sql[i + 1] /\ At(i + 1) = sql[i + 2]
        /\ sql \in Seq(STRING) /\ c = At(i) /\ escapeString \in BOOLEAN
    BY StandardFacts, Facts
  <1>1. ASSUME Quiet, NEW s \in TokenStates, NEW k, Goto(s, k, i), LiteralInv'
        PROVE  LInv'
    <2>1. state' \in TokenStates /\ state' \notin CommentStates /\ ScannedTo' = ScannedTo
      BY <1>0, <1>1 DEF Goto, ScannedTo, TokenStates, CommentStates
    <2> QED BY <1>0, <1>1, <2>1, WithinKeepsLits
  <1>2. CASE StringStart
    <2>1. /\ Quiet /\ Goto("StringLiteral", i + 1, i) /\ ~escapeString' /\ c = "'" /\ sql' = sql
      BY <1>2, Zenon DEF StringStart, Quiet, Fixed
    <2>2. Opened(sql, i, i + 1, "'")
      BY <1>0, <2>1, Opens DEF Scientific
    <2>3. LiteralInv'
      <3>1. state' = "StringLiteral" /\ i' = i + 1 /\ lastPos' = i /\ "StringLiteral" # "error"
        BY <2>1 DEF Goto
      <3>2. Opened(sql', lastPos', i', "'")
        BY <2>1, <2>2, <3>1
      <3>3. ~(At(lastPos)' \in Scientific)
        <4>1. At(lastPos)' = c
          BY <1>0, <2>1, <3>1 DEF At
        <4> QED BY <2>1, <4>1 DEF Scientific
      <3> QED BY <2>1, <3>1, <3>2, <3>3 DEF LiteralInv
    <2>4. "StringLiteral" \in TokenStates
      BY DEF TokenStates
    <2> QED BY <1>1, <2>1, <2>3, <2>4
  <1>3. CASE PrefixStringStart
    <2>1. /\ Quiet /\ Goto("StringLiteral", i + 2, i) /\ sql' = sql /\ n' = n
          /\ c \in SpecialStringPrefix /\ At(i + 1) = "'" /\ i + 1 < n
          /\ escapeString' = (escapeString \/ c \in Scientific)
      BY <1>3 DEF PrefixStringStart, Quiet, Fixed, NextIn, n
    <2>2. escapeString' <=> c \in Scientific
      BY <1>0, <2>1, Zenon
    <2>3. c # "'" /\ c # "\\" /\ sql[i + 2] = "'"
      BY <1>0, <2>1 DEF SpecialStringPrefix
    <2>4. Opened(sql, i, i + 2, "'")
      BY <1>0, <2>3, OpensAfterPrefix
    <2>5. Backslashes(sql, i, i + 2) = 0
      <3>1. (i + 1) + 1 = i + 2 /\ i + 1 \in Nat /\ i <= i + 1
        BY <1>0
      <3>2. sql[(i + 1) + 1] # "\\"
        BY <2>3, <3>1
      <3>3. Backslashes(sql, i, (i + 1) + 1) = 0
        BY <1>0, <3>1, <3>2, BackslashesStep
      <3> QED BY <3>1, <3>3
    <2>6. Backslashes(sql, i, i + 2) % 2 = 0
      BY <2>5
    <2>7. state' = "StringLiteral" /\ i' = i + 2 /\ lastPos' = i
      BY <2>1 DEF Goto
    <2>8. LiteralInv'
      BY <1>0, <2>1, <2>2, <2>4, <2>6, <2>7 DEF LiteralInv, At
    <2>9. "StringLiteral" \in TokenStates
      BY DEF TokenStates
    <2> QED BY <1>1, <2>1, <2>8, <2>9
  <1>4. CASE QuotedStart
    <2>1. /\ Quiet /\ Goto("QuotedIdentifier", i + 1, i) /\ escapeString' = escapeString
          /\ c \in QuotedIdentifierDelimiter /\ sql' = sql /\ delimiter' = c
      BY <1>4 DEF QuotedStart, Quiet, Fixed
    <2>2. Opened(sql, i, i + 1, c)
      <3>1. c \notin Scientific
        BY <2>1 DEF QuotedIdentifierDelimiter, Scientific
      <3> QED BY <1>0, <3>1, Opens
    <2>3. LiteralInv'
      BY <1>0, <2>1, <2>2 DEF LiteralInv, Goto, At
    <2>4. "QuotedIdentifier" \in TokenStates
      BY DEF TokenStates
    <2> QED BY <1>1, <2>1, <2>3, <2>4
  <1>5. CASE DollarQuoteStart
    <2>1. PICK d : Goto("DollarQuotedString", d + 1, i)
      BY <1>5 DEF DollarQuoteStart
    <2>2. Quiet /\ escapeString' = escapeString /\ c = "$" /\ sql' = sql
      BY <1>5 DEF DollarQuoteStart, Quiet, Fixed
    <2>3. LiteralInv'
      BY <1>0, <2>1, <2>2 DEF LiteralInv, Goto, At
    <2>4. "DollarQuotedString" \in TokenStates
      BY DEF TokenStates
    <2> QED BY <1>1, <2>1, <2>2, <2>3, <2>4
  <1>6. CASE CompoundColonOperator
    <2>1. Quiet /\ Goto("Operator", i + 1, i) /\ escapeString' = escapeString
      BY <1>6 DEF CompoundColonOperator, Modes
    <2>2. LiteralInv' /\ "Operator" \in TokenStates
      BY <1>0, <2>1 DEF LiteralInv, Goto, TokenStates
    <2> QED BY <1>1, <2>1, <2>2
  <1>7. CASE NumberStart
    <2>1. Quiet /\ Goto("Numeric", i + 1, i) /\ escapeString' = escapeString
      BY <1>7 DEF NumberStart, Modes
    <2>2. LiteralInv' /\ "Numeric" \in TokenStates
      BY <1>0, <2>1 DEF LiteralInv, Goto, TokenStates
    <2> QED BY <1>1, <2>1, <2>2
  <1>8. CASE OperatorStart
    <2>1. Quiet /\ Goto("Operator", i + 1, i) /\ escapeString' = escapeString
      BY <1>8 DEF OperatorStart, Modes
    <2>2. LiteralInv' /\ "Operator" \in TokenStates
      BY <1>0, <2>1 DEF LiteralInv, Goto, TokenStates
    <2> QED BY <1>1, <2>1, <2>2
  <1>9. CASE KeywordStart
    <2>1. /\ Quiet /\ Goto("Keyword", i + 1, i) /\ escapeString' = escapeString /\ sql' = sql
          /\ c \notin OperatorAny
      BY <1>9 DEF KeywordStart, Modes, Quiet, Fixed
    <2>2. c \notin QuotedIdentifierDelimiter
      BY <2>1 DEF OperatorAny, QuotedIdentifierDelimiter
    <2>3. LiteralInv' /\ "Keyword" \in TokenStates
      BY <1>0, <2>1, <2>2 DEF LiteralInv, Goto, TokenStates, At
    <2> QED BY <1>1, <2>1, <2>3
  <1> QED BY <1>2, <1>3, <1>4, <1>5, <1>6, <1>7, <1>8, <1>9

LEMMA StandardCommentsLits ==
    ASSUME IInv, LInv, IInv', In("Standard"), LineCommentStart \/ BlockCommentStart
    PROVE  LInv'
  <1>0. /\ ~Returned /\ ~escapeString /\ ScannedTo = i /\ ~(state = "Standard" /\ i = n)
        /\ i \in Nat /\ n \in Nat /\ i < n /\ c = sql[i + 1] /\ c = At(i) /\ lastPos \in Nat
    BY StandardFacts
  <1>1. /\ Quiet /\ escapeString' = escapeString /\ lastPos' = lastPos /\ sql' = sql
        /\ state' \in CommentStates /\ c \in {"-", "/"}
    BY <1>0 DEF LineCommentStart, BlockCommentStart, Goto, Modes, CommentStates, Quiet, Fixed,
                Pair, PairAt
  <1>2. lastPos = i \/ (lastPos = i - 1 /\ AfterDollar(sql, tokens, i))
    BY AtStandard
  <1>3. CommentFrom(sql, lastPos) = i
    <2>1. CASE lastPos = i
      <3>1. sql[i + 1] # "$" /\ i + 0 = i
        BY <1>0, <1>1
      <3> QED BY <2>1, <3>1 DEF CommentFrom
    <2>2. CASE lastPos = i - 1 /\ AfterDollar(sql, tokens, i)
      <3>1. lastPos + 1 = i /\ sql[i] = "$"
        BY <1>0, <2>2 DEF AfterDollar
      <3>2. CommentFrom(sql, lastPos) = lastPos + 1
        BY <3>1 DEF CommentFrom
      <3> QED BY <3>1, <3>2
    <2> QED BY <1>2, <2>1, <2>2
  <1>4. ScannedTo' = ScannedTo
    <2>1. state' # "Standard"
      BY <1>1 DEF CommentStates
    <2> QED BY <1>0, <1>1, <1>3, <2>1 DEF ScannedTo
  <1>5. EndsInString(tokens) => At(lastPos') # "$"
    <2> SUFFICES ASSUME EndsInString(tokens) PROVE At(lastPos) # "$"
      BY <1>1
    <2>1. ~AfterDollar(sql, tokens, i)
      BY DEF AfterDollar, EndsInString
    <2> QED BY <1>0, <1>1, <1>2, <2>1
  <1>6. LiteralInv'
    BY <1>0, <1>1 DEF LiteralInv, CommentStates
  <1> QED BY <1>0, <1>1, <1>4, <1>5, <1>6, WithinKeepsLits

-----------------------------------------------------------------------------
(* Within a token *)

LEMMA TokenFacts ==
    ASSUME IInv, LInv, NEW s \in TokenStates, In(s)
    PROVE  /\ state = s /\ ~Returned /\ ~(state = "Standard" /\ i = n) /\ ScannedTo = lastPos
           /\ s # "StringLiteral" => ~escapeString
           /\ lastPos \in Nat /\ i \in Nat /\ n \in Nat /\ lastPos < i /\ i < n
           /\ i + 1 \in Nat /\ i + 2 \in Nat /\ c = At(i) /\ c = sql[i + 1] /\ At(i + 1) = sql[i + 2]
           /\ sql \in Seq(STRING) /\ n = Len(sql) /\ tokens \in Seq(Tokens)
           /\ Good(sql, tokens) /\ LiteralsGood(sql, tokens) /\ FlagsKnown(lastPos)
  <1>1. state = s /\ i < n
    BY DEF In
  <1>2. /\ ~Returned /\ lastPos \in Nat /\ i \in Nat /\ n \in Nat /\ lastPos < i
    BY <1>1, AtToken
  <1>3. ~(state = "Standard" /\ i = n) /\ ScannedTo = lastPos /\ s # "error"
    BY <1>1 DEF ScannedTo, TokenStates, CommentStates
  <1>4. s # "StringLiteral" => ~escapeString
    BY <1>1, <1>3 DEF LInv, LiteralInv
  <1>5. /\ i + 1 \in Nat /\ i + 2 \in Nat
        /\ sql \in Seq(STRING) /\ n = Len(sql) /\ tokens \in Seq(Tokens) /\ Good(sql, tokens)
    BY <1>2, Facts
  <1>6. c = At(i) /\ c = sql[i + 1] /\ At(i + 1) = sql[i + 2]
    <2>1. (i + 1) + 1 = i + 2
      BY <1>2
    <2> QED BY <2>1 DEF c, At
  <1>7. LiteralsGood(sql, tokens) /\ FlagsKnown(lastPos)
    BY <1>2, <1>3, LFacts DEF FlagsKnown
  <1> QED BY <1>1, <1>2, <1>3, <1>4, <1>5, <1>6, <1>7

\* The token goes on.
LEMMA TokenGoesOn ==
    ASSUME IInv, LInv, IInv', NEW s \in TokenStates, In(s), NEW k, Goto(s, k, lastPos), Modes, Quiet,
           s = "StringLiteral" =>
               /\ escapeString /\ k < n => Backslashes(sql, lastPos, k) % 2 = 0
               /\ Opened(sql, lastPos, k, "'"),
           s = "QuotedIdentifier" => Opened(sql, lastPos, k, delimiter)
    PROVE  LInv'
  <1>1. /\ state = s /\ ~Returned /\ ~(state = "Standard" /\ i = n) /\ ScannedTo = lastPos
    BY TokenFacts
  <1>2. /\ state' = s /\ i' = k /\ lastPos' = lastPos /\ escapeString' = escapeString
        /\ delimiter' = delimiter /\ sql' = sql /\ n' = n /\ s # "error"
    BY DEF Goto, Modes, Quiet, Fixed, n, TokenStates
  <1>3. s \in TokenStates /\ s \notin CommentStates /\ s # "Standard"
    BY DEF TokenStates, CommentStates
  <1>4. ScannedTo' = ScannedTo
    BY <1>1, <1>2, <1>3 DEF ScannedTo
  <1>5. At(lastPos)' = At(lastPos)
    BY <1>2 DEF At
  <1>6. LiteralInv'
    <2>1. s # "StringLiteral" => ~escapeString'
      BY <1>2, TokenFacts
    <2>2. /\ s = "StringLiteral" => (escapeString' <=> At(lastPos) \in Scientific)
          /\ s = "QuotedIdentifier" => At(lastPos) = delimiter
          /\ s = "DollarQuotedString" => At(lastPos) = "$"
          /\ s = "Keyword" => At(lastPos) \notin QuotedIdentifierDelimiter
      BY <1>1, <1>2, Zenon DEF LInv, LiteralInv
    <2> QED BY <1>2, <1>5, <2>1, <2>2, Zenon DEF LiteralInv
  <1> QED BY <1>1, <1>2, <1>3, <1>4, <1>6, WithinKeepsLits

\* The token ends.
LEMMA TokenEnds ==
    ASSUME IInv, LInv, IInv', NEW s \in TokenStates, In(s), NEW kind \in Kinds, NEW end \in Nat,
           lastPos < end, Pushed(PushRange(tokens, lastPos, end, kind, FALSE)),
           Goto("Standard", end, end), ~escapeString',
           kind = "String" /\ At(lastPos) # "$" => Closed(sql, lastPos, end, "'"),
           kind = "Identifier" /\ At(lastPos) \in QuotedIdentifierDelimiter =>
               Closed(sql, lastPos, end, At(lastPos))
    PROVE  LInv'
  <1> DEFINE toks == PushRange(tokens, lastPos, end, kind, FALSE)
  <1>1. /\ ~Returned /\ ScannedTo = lastPos /\ lastPos \in Nat
        /\ sql \in Seq(STRING) /\ tokens \in Seq(Tokens)
        /\ Good(sql, tokens) /\ LiteralsGood(sql, tokens) /\ FlagsKnown(lastPos)
    BY TokenFacts
  <1>2. FALSE \in BOOLEAN
    OBVIOUS
  <1>3. LiteralsGood(sql, toks) /\ EndOf(toks, Len(toks)) = end
    BY <1>1, <1>2, PushRangeKeepsLiterals
  <1>4. /\ sql' = sql /\ blockCommentPos' = blockCommentPos /\ tokens' = toks
        /\ state' = "Standard" /\ i' = end
    BY DEF Pushed, Fixed, Goto
  <1> HIDE DEF toks
  <1>5. LiteralsGood(sql, tokens') /\ EndOf(tokens', Len(tokens')) = i' /\ ScannedTo <= i'
    BY <1>1, <1>3, <1>4
  <1> QED BY <1>1, <1>4, <1>5, PushedKeeps

LEMMA NumbersKeepLits ==
    ASSUME IInv, LInv, IInv', NumberMore \/ NumberEnd
    PROVE  LInv'
  <1>1. "Numeric" \in TokenStates /\ In("Numeric")
    BY DEF TokenStates, NumberMore, NumberEnd
  <1>2. CASE NumberMore
    <2>1. Goto("Numeric", i + 1, lastPos) /\ Modes /\ Quiet
      BY <1>2 DEF NumberMore, Stay, In
    <2> QED BY <1>1, <2>1, TokenGoesOn
  <1>3. CASE NumberEnd
    <2>1. PICK p : p = NumberBacktrack
      OBVIOUS
    <2>2. lastPos \in Nat /\ i \in Nat /\ lastPos < i /\ At(lastPos) \in InitialNumber /\ ~escapeString
      BY <1>1, TokenFacts, AtToken DEF In
    <2>3. p \in Nat /\ lastPos < p /\ "Number" \in Kinds
      <3>1. p \in (lastPos + 1)..i
        BY <2>1, <2>2, NumberBacktrackIs
      <3> QED BY <2>2, <3>1 DEF Kinds
    <2>4. /\ Pushed(PushRange(tokens, lastPos, p, "Number", FALSE)) /\ Goto("Standard", p, p)
          /\ escapeString' = escapeString
      BY <1>3, <2>1 DEF NumberEnd, Modes
    <2>5. ~escapeString'
      BY <2>2, <2>4
    <2> QED BY <1>1, <2>3, <2>4, <2>5, TokenEnds
  <1> QED BY <1>2, <1>3

LEMMA OperatorsKeepLits ==
    ASSUME IInv, LInv, IInv', OperatorMore \/ OperatorEnd
    PROVE  LInv'
  <1>1. "Operator" \in TokenStates /\ In("Operator")
    BY DEF TokenStates, OperatorMore, OperatorEnd
  <1>2. CASE OperatorMore
    <2>1. Goto("Operator", i + 1, lastPos) /\ Modes /\ Quiet
      BY <1>2 DEF OperatorMore, Stay, In
    <2> QED BY <1>1, <2>1, TokenGoesOn
  <1>3. CASE OperatorEnd
    <2>1. /\ ~Returned /\ ScannedTo = lastPos /\ lastPos \in Nat /\ i \in Nat /\ lastPos < i /\ i <= n
          /\ sql \in Seq(STRING) /\ tokens \in Seq(Tokens) /\ LiteralsGood(sql, tokens)
          /\ ~escapeString
      BY <1>1, TokenFacts
    <2>2. /\ LiteralsGood(sql, PushOperator(tokens, lastPos, i))
          /\ ~EndsInString(PushOperator(tokens, lastPos, i))
      BY <2>1, PushOperatorKeepsLiterals
    <2>3. /\ tokens' = PushOperator(tokens, lastPos, i) /\ sql' = sql /\ state' = "Standard"
          /\ blockCommentPos' = blockCommentPos /\ i' = i /\ escapeString' = escapeString
      BY <1>3 DEF OperatorEnd, Pushed, Fixed, Goto, Modes
    <2>4. /\ LiteralsGood(sql, tokens') /\ ~EndsInString(tokens') /\ ~escapeString'
          /\ ScannedTo <= i'
      BY <2>1, <2>2, <2>3
    <2> QED BY <2>1, <2>3, <2>4, PushedKeeps
  <1> QED BY <1>2, <1>3

LEMMA KeywordsKeepLits ==
    ASSUME IInv, LInv, IInv', KeywordMore \/ KeywordEnd
    PROVE  LInv'
  <1>1. "Keyword" \in TokenStates /\ In("Keyword")
    BY DEF TokenStates, KeywordMore, KeywordEnd
  <1>2. CASE KeywordMore
    <2>1. Goto("Keyword", i + 1, lastPos) /\ Modes /\ Quiet
      BY <1>2 DEF KeywordMore, Stay, In
    <2> QED BY <1>1, <2>1, TokenGoesOn
  <1>3. CASE KeywordEnd
    <2>1. PICK kind : kind = WordKind(lastPos, i)
      OBVIOUS
    <2>2. kind \in Kinds /\ kind # "String"
      BY <2>1 DEF WordKind, Kinds
    <2>3. /\ Pushed(PushRange(tokens, lastPos, i, kind, FALSE)) /\ Goto("Standard", i, i)
          /\ escapeString' = escapeString
      BY <1>3, <2>1 DEF KeywordEnd, Modes
    <2>4. lastPos < i /\ i \in Nat /\ ~escapeString /\ state = "Keyword"
      BY <1>1, TokenFacts
    <2>5. At(lastPos) \notin QuotedIdentifierDelimiter /\ ~escapeString'
      BY <2>3, <2>4 DEF LInv, LiteralInv
    <2> QED BY <1>1, <2>2, <2>3, <2>4, <2>5, TokenEnds
  <1> QED BY <1>2, <1>3

LEMMA StringsKeepLits ==
    ASSUME IInv, LInv, IInv', StringSkip \/ StringMore \/ StringEnd
    PROVE  LInv'
  <1>1. "StringLiteral" \in TokenStates /\ In("StringLiteral") /\ state = "StringLiteral"
    BY DEF TokenStates, StringSkip, StringMore, StringEnd, In
  <1>2. /\ lastPos \in Nat /\ i \in Nat /\ lastPos < i /\ lastPos <= i /\ i < n /\ n = Len(sql)
        /\ i + 1 \in Nat /\ i + 2 \in Nat /\ lastPos <= i + 1 /\ (i + 1) + 1 = i + 2
        /\ c = sql[i + 1] /\ At(i + 1) = sql[i + 2] /\ sql \in Seq(STRING)
        /\ FlagsKnown(lastPos)
    BY <1>1, TokenFacts
  <1>3. /\ escapeString <=> sql[lastPos + 1] \in Scientific
        /\ escapeString => Backslashes(sql, lastPos, i) % 2 = 0
        /\ Opened(sql, lastPos, i, "'")
    BY <1>1, <1>2 DEF LInv, LiteralInv, At
  <1>4. ~QuoteIsEscaped(sql, lastPos, i)
    BY <1>3 DEF QuoteIsEscaped
  <1>5. /\ Backslashes(sql, lastPos, i) \in Nat
        /\ Backslashes(sql, lastPos, i + 1) =
              IF sql[i + 1] = "\\" THEN Backslashes(sql, lastPos, i) + 1 ELSE 0
        /\ Backslashes(sql, lastPos, i + 2) =
              IF sql[i + 2] = "\\" THEN Backslashes(sql, lastPos, i + 1) + 1 ELSE 0
    <2>1. Backslashes(sql, lastPos, (i + 1) + 1) =
              IF sql[(i + 1) + 1] = "\\" THEN Backslashes(sql, lastPos, i + 1) + 1 ELSE 0
      BY <1>2, BackslashesStep
    <2> QED BY <1>2, <2>1, BackslashesStep
  <1>6. CASE StringSkip /\ Escape
    <2>1. escapeString /\ sql[i + 1] = "\\"
      BY <1>2, <1>6 DEF Escape
    <2>2. Backslashes(sql, lastPos, i + 1) % 2 = 1 /\ Backslashes(sql, lastPos, i + 2) % 2 = 0
      BY <1>3, <1>5, <2>1
    <2>3. Opened(sql, lastPos, i + 1, "'")
      BY <1>2, <1>3, <2>1, StaysOpen
    <2>4. QuoteIsEscaped(sql, lastPos, i + 1)
      BY <1>3, <2>1, <2>2 DEF QuoteIsEscaped
    <2>5. Opened(sql, lastPos, i + 2, "'")
      BY <1>2, <2>3, <2>4, StaysOpen
    <2>6. Goto("StringLiteral", i + 2, lastPos) /\ Modes /\ Quiet
      BY <1>1, <1>6 DEF StringSkip
    <2> QED BY <1>1, <2>2, <2>5, <2>6, TokenGoesOn
  <1>7. CASE StringSkip /\ ~Escape
    <2>1. sql[i + 1] = "'" /\ sql[i + 2] = "'"
      BY <1>7 DEF StringSkip, Pair, PairAt
    <2>2. Opened(sql, lastPos, i + 2, "'")
      BY <1>2, <1>3, <1>4, <2>1, DoublesStayOpen
    <2>3. Backslashes(sql, lastPos, i + 2) % 2 = 0
      BY <1>5, <2>1
    <2>4. Goto("StringLiteral", i + 2, lastPos) /\ Modes /\ Quiet
      BY <1>1, <1>7 DEF StringSkip
    <2> QED BY <1>1, <2>2, <2>3, <2>4, TokenGoesOn
  <1>8. CASE StringMore
    <2>1. ~Escape /\ sql[i + 1] # "'"
      BY <1>2, <1>8 DEF StringMore
    <2>2. Opened(sql, lastPos, i + 1, "'")
      BY <1>2, <1>3, <2>1, StaysOpen
    <2>3. escapeString /\ i + 1 < n => Backslashes(sql, lastPos, i + 1) % 2 = 0
      BY <1>2, <1>5, <2>1 DEF Escape
    <2>4. Goto("StringLiteral", i + 1, lastPos) /\ Modes /\ Quiet
      BY <1>1, <1>8 DEF StringMore, Stay
    <2> QED BY <1>1, <2>2, <2>3, <2>4, TokenGoesOn
  <1>9. CASE StringEnd
    <2>1. /\ sql[i + 1] = "'" /\ ~NextIn({"'"}) /\ Goto("Standard", i + 1, i + 1)
          /\ Pushed(PushRange(tokens, lastPos, i + 1, "String", FALSE))
      BY <1>2, <1>9 DEF StringEnd
    <2>2. ~escapeString'
      BY <1>9, Zenon DEF StringEnd
    <2>3. i + 1 = Len(sql) \/ sql[i + 2] # "'"
      BY <1>2, <2>1 DEF NextIn
    <2>4. Closed(sql, lastPos, i + 1, "'")
      BY <1>2, <1>3, <1>4, <2>1, <2>3, Closes
    <2>5. "String" \in Kinds /\ lastPos < i + 1
      BY <1>2 DEF Kinds
    <2> QED BY <1>1, <1>2, <2>1, <2>2, <2>4, <2>5, TokenEnds
  <1> QED BY <1>6, <1>7, <1>8, <1>9

LEMMA QuotedKeepLits ==
    ASSUME IInv, LInv, IInv', QuotedSkip \/ QuotedMore \/ QuotedEmpty \/ QuotedEnd
    PROVE  LInv'
  <1>1. "QuotedIdentifier" \in TokenStates /\ In("QuotedIdentifier") /\ state = "QuotedIdentifier"
    BY DEF TokenStates, QuotedSkip, QuotedMore, QuotedEmpty, QuotedEnd, QuotedClose, In
  <1>2. /\ ~Returned /\ lastPos \in Nat /\ i \in Nat /\ lastPos < i /\ lastPos <= i /\ i < n
        /\ n = Len(sql) /\ i + 1 \in Nat /\ i + 2 \in Nat /\ ~escapeString
        /\ c = sql[i + 1] /\ At(i + 1) = sql[i + 2] /\ sql \in Seq(STRING)
    BY <1>1, TokenFacts
  <1>3. At(lastPos) = delimiter /\ Opened(sql, lastPos, i, delimiter)
    BY <1>1 DEF LInv, LiteralInv
  <1>4. delimiter # "\\" /\ delimiter \notin Scientific
    <2>1. delimiter \in QuotedIdentifierDelimiter
      BY Facts
    <2> QED BY <2>1 DEF QuotedIdentifierDelimiter, Scientific
  <1>5. ~QuoteIsEscaped(sql, lastPos, i)
    BY <1>3, <1>4 DEF QuoteIsEscaped, At
  <1>6. CASE QuotedSkip
    <2>1. sql[i + 1] = delimiter /\ sql[i + 2] = delimiter
      BY <1>2, <1>6 DEF QuotedSkip, NextIn
    <2>2. Opened(sql, lastPos, i + 2, delimiter)
      BY <1>2, <1>3, <1>4, <1>5, <2>1, DoublesStayOpen
    <2>3. Goto("QuotedIdentifier", i + 2, lastPos) /\ Modes /\ Quiet
      BY <1>1, <1>6 DEF QuotedSkip
    <2> QED BY <1>1, <2>2, <2>3, TokenGoesOn
  <1>7. CASE QuotedMore
    <2>1. sql[i + 1] # delimiter
      BY <1>2, <1>7 DEF QuotedMore
    <2>2. Opened(sql, lastPos, i + 1, delimiter)
      BY <1>2, <1>3, <2>1, StaysOpen
    <2>3. Goto("QuotedIdentifier", i + 1, lastPos) /\ Modes /\ Quiet
      BY <1>1, <1>7 DEF QuotedMore, Stay
    <2> QED BY <1>1, <2>2, <2>3, TokenGoesOn
  <1>8. CASE QuotedEmpty
    <2>1. Raise("EmptyIdentifier")
      BY <1>8 DEF QuotedEmpty
    <2> QED BY <1>2, <2>1, RaiseKeeps
  <1>9. CASE QuotedEnd
    <2>1. /\ sql[i + 1] = delimiter /\ ~NextIn({delimiter}) /\ Goto("Standard", i + 1, i + 1)
          /\ Pushed(PushRange(tokens, lastPos, i + 1, "Identifier", FALSE))
          /\ escapeString' = escapeString
      BY <1>2, <1>9 DEF QuotedEnd, QuotedClose, Modes
    <2>2. i + 1 = Len(sql) \/ sql[i + 2] # delimiter
      BY <1>2, <2>1 DEF NextIn
    <2>3. Closed(sql, lastPos, i + 1, delimiter)
      BY <1>2, <1>3, <1>5, <2>1, <2>2, Closes
    <2>4. "Identifier" \in Kinds /\ lastPos < i + 1 /\ ~escapeString'
      BY <1>2, <2>1 DEF Kinds
    <2> QED BY <1>1, <1>2, <1>3, <2>1, <2>3, <2>4, TokenEnds
  <1> QED BY <1>6, <1>7, <1>8, <1>9

LEMMA DollarsKeepLits ==
    ASSUME IInv, LInv, IInv', DollarMore \/ DollarEnd
    PROVE  LInv'
  <1>1. /\ "DollarQuotedString" \in TokenStates /\ In("DollarQuotedString")
        /\ state = "DollarQuotedString"
    BY DEF TokenStates, DollarMore, DollarEnd, In
  <1>2. CASE DollarMore
    <2>1. Goto("DollarQuotedString", i + 1, lastPos) /\ Modes /\ Quiet
      BY <1>1, <1>2 DEF DollarMore, Stay
    <2> QED BY <1>1, <2>1, TokenGoesOn
  <1>3. CASE DollarEnd
    <2>1. PICK p : p = i + 2 + Len(marker)
      OBVIOUS
    <2>2. lastPos \in Nat /\ i \in Nat /\ lastPos < i /\ ~escapeString /\ Len(marker) \in Nat
      BY <1>1, TokenFacts, Facts, LenProperties
    <2>3. p \in Nat /\ lastPos < p /\ "String" \in Kinds
      BY <2>1, <2>2 DEF Kinds
    <2>4. /\ Pushed(PushRange(tokens, lastPos, p, "String", FALSE)) /\ Goto("Standard", p, p)
          /\ escapeString' = escapeString
      BY <1>3, <2>1 DEF DollarEnd
    <2>5. ~escapeString' /\ At(lastPos) = "$"
      BY <1>1, <2>2, <2>4 DEF LInv, LiteralInv
    <2> QED BY <1>1, <2>3, <2>4, <2>5, TokenEnds
  <1> QED BY <1>2, <1>3

-----------------------------------------------------------------------------
(* Within a comment *)

LEMMA CommentFacts ==
    ASSUME IInv, LInv, NEW s \in CommentStates, In(s)
    PROVE  LET from == CommentFrom(sql, lastPos) IN
           /\ state = s /\ ~Returned /\ ~(state = "Standard" /\ i = n) /\ ~escapeString
           /\ ScannedTo = from /\ from \in Nat /\ lastPos \in Nat /\ i \in Nat /\ n \in Nat
           /\ lastPos < i /\ from + 2 <= i /\ i < n
           /\ blockCommentPos \in Int /\ blockCommentPos < from /\ Covered(sql, tokens, from)
           /\ EndsInString(tokens) => At(lastPos) # "$" /\ from = lastPos
           /\ s = "SingleLineComment" =>
                 PairAt(sql, from, "-", "-") /\ \A q \in from..(i - 1) : At(q) \notin Newline
           /\ s = "MultiLineComment" =>
                 /\ PairAt(sql, from, "/", "*")
                 /\ depth \in 1..i /\ BlockEnd(sql, from + 2, 1) = BlockEnd(sql, i, depth)
  <1>1. PICK from : from = CommentFrom(sql, lastPos)
    OBVIOUS
  <1>2. state = s /\ i < n /\ s # "Standard" /\ s # "StringLiteral" /\ s # "error"
    BY DEF In, CommentStates
  <1>3. /\ ~Returned /\ n \in Nat /\ i \in Nat /\ lastPos \in Nat /\ lastPos < i
        /\ from \in Nat /\ from + 2 <= i /\ Covered(sql, tokens, from)
        /\ s = "SingleLineComment" =>
              PairAt(sql, from, "-", "-") /\ \A q \in from..(i - 1) : At(q) \notin Newline
        /\ s = "MultiLineComment" =>
              /\ PairAt(sql, from, "/", "*")
              /\ depth \in 1..i /\ BlockEnd(sql, from + 2, 1) = BlockEnd(sql, i, depth)
    BY <1>1, <1>2, AtComment
  <1>4. ScannedTo = from /\ ~escapeString /\ ~(state = "Standard" /\ i = n)
    BY <1>1, <1>2 DEF ScannedTo, LInv, LiteralInv
  <1>5. blockCommentPos \in Int /\ blockCommentPos < from
    BY <1>3, <1>4, LFacts
  <1>6. EndsInString(tokens) => At(lastPos) # "$" /\ from = lastPos
    <2> SUFFICES ASSUME EndsInString(tokens) PROVE At(lastPos) # "$" /\ from = lastPos
      OBVIOUS
    <2>1. At(lastPos) # "$"
      BY <1>2, <1>3, <1>4, LFacts
    <2>2. lastPos + 0 = lastPos
      BY <1>3
    <2> QED BY <1>1, <2>1, <2>2 DEF CommentFrom, At
  <1> QED BY <1>1, <1>2, <1>3, <1>4, <1>5, <1>6

\* The comment goes on.
LEMMA CommentGoesOn ==
    ASSUME IInv, LInv, IInv', NEW s \in CommentStates, In(s), NEW k, Goto(s, k, lastPos),
           escapeString' = escapeString, Quiet
    PROVE  LInv'
  <1>1. /\ state = s /\ ~Returned /\ ~(state = "Standard" /\ i = n) /\ ~escapeString
        /\ EndsInString(tokens) => At(lastPos) # "$"
    BY CommentFacts
  <1>2. state' = s /\ lastPos' = lastPos /\ sql' = sql
    BY DEF Goto, Quiet, Fixed
  <1>3. ScannedTo' = ScannedTo
    BY <1>1, <1>2 DEF ScannedTo, CommentStates
  <1>4. LiteralInv'
    BY <1>1, <1>2 DEF LiteralInv, CommentStates
  <1>5. state' \in CommentStates /\ EndsInString(tokens) => At(lastPos') # "$"
    BY <1>1, <1>2
  <1>6. state' \in TokenStates \cup CommentStates
    BY <1>2
  <1> QED BY <1>1, <1>3, <1>4, <1>5, <1>6, WithinKeepsLits

\* A finished comment is remembered if it is a block comment, at least after
\* a string.
LEMMA CommentEndsLits ==
    ASSUME IInv, LInv, IInv', NEW s \in CommentStates, In(s), NEW e \in Nat, i < e,
           NEW from, from = CommentFrom(sql, lastPos),
           \/ s = "SingleLineComment" /\ IsLineComment(sql, from, e)
           \/ s = "MultiLineComment" /\ IsBlockComment(sql, from, e),
           RememberComment(lastPos, e), Goto("Standard", e, e), escapeString' = escapeString,
           UNCHANGED tokens, Fixed
    PROVE  LInv'
  <1>1. /\ ~Returned /\ ~(state = "Standard" /\ i = n) /\ ~escapeString
        /\ ScannedTo = from /\ from \in Nat /\ lastPos \in Nat /\ i \in Nat
        /\ lastPos < i /\ from + 2 <= i
        /\ blockCommentPos \in Int /\ blockCommentPos < from /\ Covered(sql, tokens, from)
        /\ EndsInString(tokens) => from = lastPos
    BY CommentFacts
  <1>2. /\ sql' = sql /\ tokens' = tokens /\ state' = "Standard" /\ i' = e /\ ~escapeString'
    BY <1>1 DEF Fixed, Goto
  <1>3. Skipped(sql, from, e) /\ from < e /\ e >= lastPos + 2
    <2>1. from < e
      BY <1>1
    <2>2. e >= lastPos + 2
      BY <1>1
    <2> QED BY <2>1, <2>2 DEF Skipped
  <1>4. blockCommentPos' = IF Pair(lastPos, "/", "*") THEN lastPos ELSE blockCommentPos
    BY <1>3 DEF RememberComment
  <1>5. blockCommentPos' < e
    BY <1>1, <1>3, <1>4
  <1>6. EndsInString(tokens) =>
            IF IsBlockComment(sql, from, e) THEN blockCommentPos' = from
                                            ELSE blockCommentPos' = blockCommentPos
    <2> SUFFICES ASSUME EndsInString(tokens)
                 PROVE  IF IsBlockComment(sql, from, e) THEN blockCommentPos' = from
                                                        ELSE blockCommentPos' = blockCommentPos
      OBVIOUS
    <2>1. from = lastPos
      BY <1>1
    <2>2. IsBlockComment(sql, from, e) => Pair(lastPos, "/", "*")
      BY <2>1 DEF IsBlockComment, Pair
    <2>3. IsLineComment(sql, from, e) => ~Pair(lastPos, "/", "*")
      BY <2>1 DEF IsLineComment, Pair, PairAt
    <2> QED BY <1>4, <2>1, <2>2, <2>3
  <1>7. /\ Skipped(sql, from, i') /\ from < i' /\ blockCommentPos' < i'
        /\ EndsInString(tokens) =>
              IF IsBlockComment(sql, from, i') THEN blockCommentPos' = from
                                               ELSE blockCommentPos' = blockCommentPos
    BY <1>2, <1>3, <1>5, <1>6
  <1> QED BY <1>1, <1>2, <1>7, SkippedKeeps

LEMMA CommentsKeepLits ==
    ASSUME IInv, LInv, IInv',
           \/ LineCommentMore \/ LineCommentEnd
           \/ BlockCommentNested \/ BlockCommentClose \/ BlockCommentMore
    PROVE  LInv'
  <1>0. "SingleLineComment" \in CommentStates /\ "MultiLineComment" \in CommentStates
    BY DEF CommentStates
  <1>1. PICK from : from = CommentFrom(sql, lastPos)
    OBVIOUS
  <1>2. CASE LineCommentMore
    BY <1>0, <1>2, CommentGoesOn DEF LineCommentMore, Stay, Modes, In
  <1>3. CASE LineCommentEnd
    <2>1. /\ In("SingleLineComment") /\ RememberComment(lastPos, i + 1)
          /\ Goto("Standard", i + 1, i + 1) /\ escapeString' = escapeString
          /\ UNCHANGED tokens /\ Fixed /\ At(i) \in Newline
      BY <1>3 DEF LineCommentEnd, Modes, c
    <2>2. /\ from \in Nat /\ i \in Nat /\ PairAt(sql, from, "-", "-")
          /\ \A q \in from..(i - 1) : At(q) \notin Newline
      BY <1>0, <1>1, <2>1, CommentFacts
    <2>3. IsLineComment(sql, from, i + 1)
      <3>1. \A q \in from..((i + 1) - 2) : q \in from..(i - 1)
        BY <2>2
      <3> QED BY <2>1, <2>2, <3>1 DEF IsLineComment, At
    <2>4. i + 1 \in Nat /\ i < i + 1
      BY <2>2
    <2> QED BY <1>0, <1>1, <2>1, <2>3, <2>4, CommentEndsLits
  <1>4. CASE BlockCommentNested
    <2>1. /\ In("MultiLineComment") /\ Goto("MultiLineComment", i + 2, lastPos)
          /\ escapeString' = escapeString /\ Quiet
      BY <1>4 DEF BlockCommentNested, In
    <2> QED BY <1>0, <2>1, CommentGoesOn
  <1>5. CASE BlockCommentMore
    BY <1>0, <1>5, CommentGoesOn DEF BlockCommentMore, Stay, Modes, In
  <1>6. CASE BlockCommentClose /\ depth # 1
    <2>1. /\ In("MultiLineComment") /\ Goto("MultiLineComment", i + 2, lastPos)
          /\ escapeString' = escapeString /\ Quiet
      BY <1>6 DEF BlockCommentClose, In, Quiet
    <2> QED BY <1>0, <2>1, CommentGoesOn
  <1>7. CASE BlockCommentClose /\ depth = 1
    <2>1. /\ In("MultiLineComment") /\ Pair(i, "*", "/") /\ RememberComment(lastPos, i + 2)
          /\ Goto("Standard", i + 2, i + 2) /\ escapeString' = escapeString
          /\ UNCHANGED tokens /\ Fixed
      BY <1>7 DEF BlockCommentClose
    <2>2. /\ from \in Nat /\ i \in Nat /\ PairAt(sql, from, "/", "*")
          /\ BlockEnd(sql, from + 2, 1) = BlockEnd(sql, i, depth)
          /\ n = Len(sql) /\ n \in Nat /\ i < n
      BY <1>0, <1>1, <2>1, CommentFacts DEF n
    <2>3. i + 2 \in Nat /\ i < i + 2 /\ i + 2 <= Len(sql) /\ i \in 0..Len(sql) /\ 1 - 1 = 0
      BY <2>1, <2>2 DEF Pair, PairAt
    <2>4. BlockEnd(sql, i, 1) = BlockEnd(sql, i + 2, 1 - 1) /\ BlockEnd(sql, i + 2, 0) = i + 2
      BY <2>1, <2>2, <2>3, BlockEndStep, Facts DEF Pair
    <2>5. IsBlockComment(sql, from, i + 2)
      BY <1>7, <2>2, <2>3, <2>4 DEF IsBlockComment
    <2> QED BY <1>0, <1>1, <2>1, <2>3, <2>5, CommentEndsLits
  <1> QED BY <1>2, <1>3, <1>4, <1>5, <1>6, <1>7

-----------------------------------------------------------------------------
(* The end of the text *)

LEMMA EndFacts ==
    ASSUME IInv, LInv, End
    PROVE  /\ ~Returned /\ i = n /\ n \in Nat /\ n <= n /\ lastPos \in Nat /\ n = Len(sql)
           /\ sql \in Seq(STRING) /\ tokens \in Seq(Tokens) /\ Good(sql, tokens)
           /\ LiteralsGood(sql, tokens)
           /\ state # "StringLiteral" => ~escapeString
           /\ state \in TokenStates => lastPos < n /\ FlagsKnown(lastPos)
  <1>1. i >= n /\ state \in {"Standard"} \cup TokenStates \cup CommentStates
    BY DEF End, EndInLineComment, EndInBlockComment, EndInOperator, EndInDollar, EndInString,
           EndInQuoted, EndInKeyword, EndInNumber, EndInStandard, AtEnd, TokenStates, CommentStates
  <1>2. ~Returned
    BY <1>1 DEF TokenStates, CommentStates, Returned
  <1>3. /\ i = n /\ n \in Nat /\ n <= n /\ lastPos \in Nat /\ n = Len(sql)
        /\ sql \in Seq(STRING) /\ tokens \in Seq(Tokens) /\ Good(sql, tokens)
    BY <1>1, <1>2, Facts
  <1>4. state # "StringLiteral" => ~escapeString
    BY <1>2 DEF LInv, LiteralInv, Returned
  <1>5. ASSUME state \in TokenStates PROVE lastPos < n /\ FlagsKnown(lastPos)
    <2>1. lastPos < n
      BY <1>3, <1>5, AtToken
    <2>2. ScannedTo = lastPos /\ state # "Standard"
      BY <1>5 DEF ScannedTo, TokenStates, CommentStates
    <2> QED BY <1>2, <2>1, <2>2, LFacts DEF FlagsKnown
  <1>6. LiteralsGood(sql, tokens)
    BY <1>2, LFacts
  <1> QED BY <1>2, <1>3, <1>4, <1>5, <1>6

LEMMA EndKeepsLits ==
    ASSUME IInv, LInv, End
    PROVE  LInv'
  <1>0. /\ ~Returned /\ i = n /\ n \in Nat /\ n <= n /\ lastPos \in Nat /\ n = Len(sql)
        /\ sql \in Seq(STRING) /\ tokens \in Seq(Tokens) /\ Good(sql, tokens)
        /\ LiteralsGood(sql, tokens)
        /\ state # "StringLiteral" => ~escapeString
        /\ state \in TokenStates => lastPos < n /\ FlagsKnown(lastPos)
    BY EndFacts
  <1>1. CASE EndInLineComment
    <2>1. Finish(tokens) /\ ~escapeString
      BY <1>0, <1>1 DEF EndInLineComment, AtEnd
    <2> QED BY <1>0, <2>1, FinishKeeps
  <1>2. CASE EndInBlockComment
    <2>1. Raise("UnterminatedComment") /\ state = "MultiLineComment" /\ state \in CommentStates
      BY <1>2 DEF EndInBlockComment, AtEnd, CommentStates
    <2>2. PICK from : from = CommentFrom(sql, lastPos)
      OBVIOUS
    <2>3. /\ PairAt(sql, from, "/", "*") /\ depth \in 1..i
          /\ BlockEnd(sql, from + 2, 1) = BlockEnd(sql, i, depth)
      BY <2>1, <2>2, AtComment
    <2>4. BlockEnd(sql, n, depth) = n + 1
      <3>1. n \in 0..Len(sql) /\ depth \in Nat /\ depth # 0 /\ ~(n < Len(sql)) /\ ~(n + 1 < Len(sql))
        BY <1>0, <2>3
      <3>2. BlockEnds(sql)[n] = StepEnds(sql, BlockEnds(sql), n)
        BY <1>0, <3>1, BlockEndsDef
      <3>3. ~PairAt(sql, n, "/", "*") /\ ~PairAt(sql, n, "*", "/")
        BY <3>1 DEF PairAt
      <3> QED BY <1>0, <3>1, <3>2, <3>3 DEF BlockEnd, StepEnds
    <2>5. BlockEnd(sql, from + 2, 1) > n
      BY <1>0, <2>3, <2>4
    <2> QED BY <1>0, <2>1, <2>2, <2>3, <2>5, RaiseKeeps DEF Pair
  <1>3. CASE EndInOperator
    <2>1. Finish(PushOperator(tokens, lastPos, n)) /\ ~escapeString /\ state \in TokenStates
      BY <1>0, <1>3 DEF EndInOperator, AtEnd, TokenStates
    <2>2. /\ LiteralsGood(sql, PushOperator(tokens, lastPos, n))
          /\ PushOperator(tokens, lastPos, n) \in Seq(Tokens)
      BY <1>0, <2>1, PushOperatorKeepsLiterals
    <2> QED BY <1>0, <2>1, <2>2, FinishKeeps
  <1>4. CASE EndInDollar
    <2>1. /\ Finish(PushRange(tokens, lastPos, n, "String", TRUE)) /\ ~escapeString
          /\ state = "DollarQuotedString" /\ state \in TokenStates
      BY <1>0, <1>4 DEF EndInDollar, AtEnd, TokenStates
    <2>2. At(lastPos) = "$" /\ "String" \in Kinds /\ "String" # "Identifier"
      BY <2>1 DEF LInv, LiteralInv, Kinds
    <2>3. PICK v \in BOOLEAN : v = TRUE
      BY Zenon
    <2>4. /\ LiteralsGood(sql, PushRange(tokens, lastPos, n, "String", v))
          /\ PushRange(tokens, lastPos, n, "String", v) \in Seq(Tokens)
      BY <1>0, <2>1, <2>2, PushRangeKeepsLiterals
    <2>5. Finish(PushRange(tokens, lastPos, n, "String", v))
      BY <2>1, <2>3
    <2> QED BY <1>0, <2>1, <2>4, <2>5, FinishKeeps
  <1>5. CASE EndInString
    <2>1. Raise("UnterminatedString") /\ state = "StringLiteral" /\ state \in TokenStates
      BY <1>5 DEF EndInString, AtEnd, TokenStates
    <2>2. Opened(sql, lastPos, n, "'")
      BY <1>0, <2>1 DEF LInv, LiteralInv
    <2>3. \A e \in (lastPos + 1)..n : ~Closed(sql, lastPos, e, "'")
      BY <1>0, <2>1, <2>2, NeverCloses
    <2> QED BY <1>0, <2>1, <2>3, RaiseKeeps
  <1>6. CASE EndInQuoted
    <2>1. Raise("UnterminatedIdentifier") /\ state = "QuotedIdentifier" /\ state \in TokenStates
      BY <1>6 DEF EndInQuoted, AtEnd, TokenStates
    <2>2. Opened(sql, lastPos, n, At(lastPos))
      BY <1>0, <2>1 DEF LInv, LiteralInv
    <2>3. \A e \in (lastPos + 1)..n : ~Closed(sql, lastPos, e, At(lastPos))
      BY <1>0, <2>1, <2>2, NeverCloses
    <2> QED BY <1>0, <2>1, <2>3, RaiseKeeps
  <1>7. ASSUME NEW kind \in Kinds, kind # "String", lastPos < n, ~escapeString,
               kind = "Identifier" => At(lastPos) \notin QuotedIdentifierDelimiter,
               Finish(Push(tokens, kind, lastPos, n, lastPos))
        PROVE  LInv'
    <2>1. /\ LiteralsGood(sql, Push(tokens, kind, lastPos, n, lastPos))
          /\ Push(tokens, kind, lastPos, n, lastPos) \in Seq(Tokens)
      BY <1>0, <1>7, PushKeepsLiterals
    <2> QED BY <1>0, <1>7, <2>1, FinishKeeps
  <1>8. CASE EndInKeyword
    <2>1. PICK kind : kind = WordKind(lastPos, n)
      OBVIOUS
    <2>2. kind \in Kinds /\ kind # "String"
      BY <2>1 DEF WordKind, Kinds
    <2>3. /\ Finish(Push(tokens, kind, lastPos, n, lastPos)) /\ ~escapeString
          /\ state = "Keyword" /\ state \in TokenStates
      BY <1>0, <1>8, <2>1 DEF EndInKeyword, AtEnd, TokenStates
    <2>4. At(lastPos) \notin QuotedIdentifierDelimiter
      BY <2>3 DEF LInv, LiteralInv
    <2> QED BY <1>0, <1>7, <2>2, <2>3, <2>4
  <1>9. CASE EndInNumber
    <2>1. /\ Finish(Push(tokens, "Number", lastPos, n, lastPos)) /\ ~escapeString
          /\ state \in TokenStates /\ "Number" \in Kinds
      BY <1>0, <1>9 DEF EndInNumber, AtEnd, TokenStates, Kinds
    <2> QED BY <1>0, <1>7, <2>1
  <1>10. CASE EndInStandard
    <2>1. ~escapeString /\ state = "Standard"
      BY <1>0, <1>10 DEF EndInStandard, AtEnd
    <2>2. CASE lastPos >= n
      <3>1. Finish(tokens)
        BY <1>10, <2>2 DEF EndInStandard
      <3> QED BY <1>0, <2>1, <3>1, FinishKeeps
    <2>3. CASE lastPos < n
      <3>1. Finish(Push(tokens, "Identifier", lastPos, n, lastPos)) /\ "Identifier" \in Kinds
        BY <1>0, <1>10, <2>3 DEF EndInStandard, Kinds
      <3>2. At(lastPos) = "$"
        BY <1>0, <2>1, <2>3 DEF IInv, StandardInv, AfterDollar
      <3>3. At(lastPos) \notin QuotedIdentifierDelimiter
        BY <3>2 DEF QuotedIdentifierDelimiter
      <3> QED BY <1>7, <2>1, <2>3, <3>1, <3>3
    <2> QED BY <1>0, <2>2, <2>3
  <1> QED BY <1>1, <1>2, <1>3, <1>4, <1>5, <1>6, <1>8, <1>9, <1>10 DEF End

-----------------------------------------------------------------------------
(* The invariant, and what it says. *)

LEMMA InitKeepsLits ==
    ASSUME Init
    PROVE  LInv
  <1>1. /\ state = "Standard" /\ ~escapeString /\ tokens = <<>> /\ err.type = "none" /\ i = 0
    BY Zenon DEF Init
  <1>2. blockCommentPos < 0
    <2>1. blockCommentPos = -1
      BY Zenon DEF Init
    <2> QED BY <2>1
  <1>3. Real = tokens /\ Len(tokens) = 0
    BY <1>1 DEF Real
  <1>4. LiteralsGood(sql, tokens)
    <2>1. 1..Len(tokens) = {} /\ 2..Len(tokens) = {}
      BY <1>3
    <2> QED BY <2>1, Zenon DEF LiteralsGood, Flagged, Whole
  <1>5. LiteralInv /\ ErrorInv
    BY <1>1 DEF LiteralInv, ErrorInv
  <1>6. SeenInv
    BY <1>1, <1>2, <1>3 DEF SeenInv, ScannedTo, EndsInString
  <1> QED BY <1>3, <1>4, <1>5, <1>6 DEF LInv

LEMMA StutterKeepsLits ==
    ASSUME LInv, UNCHANGED vars
    PROVE  LInv'
  <1>1. /\ sql' = sql /\ i' = i /\ state' = state /\ lastPos' = lastPos
        /\ escapeString' = escapeString /\ delimiter' = delimiter
        /\ blockCommentPos' = blockCommentPos /\ tokens' = tokens /\ err' = err
    BY DEF vars
  <1>2. n' = n /\ Real' = Real /\ ErrorStart' = ErrorStart
    BY <1>1 DEF n, Real, ErrorStart, At
  <1>3. LiteralInv' /\ SeenInv'
    BY <1>1, <1>2 DEF LInv, LiteralInv, SeenInv, ScannedTo, Returned, At
  <1>4. ErrorInv' /\ LiteralsGood(sql, Real)'
    BY <1>1, <1>2 DEF LInv, ErrorInv, Pair, At
  <1> QED BY <1>3, <1>4 DEF LInv

LEMMA NextKeepsLits ==
    ASSUME IInv, LInv, IInv', Next
    PROVE  LInv'
  <1>1. CASE Standard
    <2>1. In("Standard")
      BY <1>1 DEF Standard, StringStart, PrefixStringStart, QuotedStart, Terminator, DollarAtEnd,
                  DollarParameter, DollarLabel, DollarQuoteStart, LineCommentStart,
                  BlockCommentStart, SkipSpace, SkipUnicodeSpace, CompoundColonOperator,
                  CompoundColonToken, SingleByte, NumberStart, OperatorStart, KeywordStart
    <2> QED BY <1>1, <2>1, StandardPushesLits, StandardSkipsLits, StandardStartsLits,
               StandardCommentsLits DEF Standard
  <1>2. CASE Within
    BY <1>2, NumbersKeepLits, OperatorsKeepLits, KeywordsKeepLits, StringsKeepLits,
       QuotedKeepLits, DollarsKeepLits, CommentsKeepLits DEF Within
  <1>3. CASE End
    BY <1>3, EndKeepsLits
  <1>4. CASE UNCHANGED vars
    BY <1>4, StutterKeepsLits
  <1> QED BY <1>1, <1>2, <1>3, <1>4 DEF Next

\* Whatever the text, the flags by which two adjacent literals are joined are
\* right, every quoted literal and identifier ends at its own closing quote
\* (doubled quotes and backslash escapes counted), and what is reported as
\* unterminated has no end.
THEOREM LiteralsAreWellFormed == Spec => []LiteralsWellFormed
  <1>1. Init => LInv
    BY InitKeepsLits
  <1>2. IInv /\ LInv /\ IInv' /\ [Next]_vars => LInv'
    BY NextKeepsLits, StutterKeepsLits
  <1>3. LInv => LiteralsWellFormed
    BY DEF LInv, LiteralsGood, ErrorInv, LiteralsWellFormed, ContinuationFlags, LiteralsClosed
  <1> QED BY <1>1, <1>2, <1>3, InductiveInvariant, PTL DEF Spec
=============================================================================
