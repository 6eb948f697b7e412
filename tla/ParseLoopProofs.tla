--------------------------- MODULE ParseLoopProofs ---------------------------
(***************************************************************************)
(* The statement spans tile every input and each statement has its own     *)
(* tokens, whatever the engine and the transformer say of its statements   *)
(* and whenever the caller cancels.                                        *)
(***************************************************************************)
EXTENDS ParseLoop, TLAPS

\* The text never changes, so what TextAssumption says of Texts says it of
\* the tokens at hand.
LEMMA TokenFacts ==
    ASSUME text \in Texts
    PROVE  /\ text.len \in Nat
           /\ Len(toks) \in Nat /\ Len(toks) >= 1
           /\ \A k \in 1..Len(toks) :
                 /\ toks[k].end \in Nat /\ toks[k].from \in Nat /\ toks[k].to \in Nat
                 /\ toks[k].from <= toks[k].end /\ toks[k].end <= toks[k].to
                 /\ toks[k].to <= text.len
                 /\ toks[k].kind \in Terminators \cup {"Other"}
                 /\ toks[k].kind = "EndOfInput" <=> k = Len(toks)
                 /\ \A j \in 1..(k - 1) : toks[j].to <= toks[k].from
  <1> DEFINE T == [kind : Terminators \cup {"Other"}, end : Nat, from : Nat, to : Nat]
             Typed(t) == t.end \in Nat /\ t.from \in Nat /\ t.to \in Nat
                            /\ t.kind \in Terminators \cup {"Other"}
             Placed(k) == /\ toks[k].from <= toks[k].end /\ toks[k].end <= toks[k].to
                          /\ toks[k].to <= text.len
                          /\ toks[k].kind = "EndOfInput" <=> k = Len(toks)
                          /\ \A j \in 1..(k - 1) : toks[j].to <= toks[k].from
  <1>1. text.len \in Nat /\ toks \in Seq(T) /\ Len(toks) >= 1
    BY TextAssumption DEF toks
  <1>2. \A k \in 1..Len(toks) : Placed(k)
    BY TextAssumption, Zenon DEF toks
  <1>3. \A t \in T : Typed(t)
    OBVIOUS
  <1> HIDE DEF T, Typed, Placed
  <1>4. Len(toks) \in Nat /\ \A k \in 1..Len(toks) : toks[k] \in T
    BY <1>1
  <1>5. \A k \in 1..Len(toks) : Typed(toks[k]) /\ Placed(k)
    BY <1>2, <1>3, <1>4, Zenon
  <1> QED
    BY <1>1, <1>4, <1>5, Zenon DEF Typed, Placed

\* Spans of tokens are in order.
LEMMA EndBeforeFrom ==
    ASSUME text \in Texts, NEW j \in 1..Len(toks), NEW k \in 1..Len(toks), j < k
    PROVE  toks[j].end <= toks[k].from
  <1>1. j \in 1..(k - 1)
    BY TokenFacts
  <1> QED
    BY <1>1, TokenFacts

\* What consumedEnd returns is inside the text, not before the end of any
\* span cut so far, and not after the end of any token still ahead.
LEMMA ConsumedEndBounds ==
    ASSUME text \in Texts, NEW p \in 0..Len(toks), NEW r \in (p + 1)..Len(toks),
           NEW b \in Nat, b <= text.len,
           \A k \in (p + 1)..Len(toks) : b <= toks[k].from
    PROVE  /\ ConsumedEnd(p, r) \in Nat
           /\ b <= ConsumedEnd(p, r) /\ ConsumedEnd(p, r) <= text.len
           /\ r - 1 # p \/ toks[r].kind # "EndOfInput" =>
                 \A k \in (r + 1)..Len(toks) : ConsumedEnd(p, r) <= toks[k].from
  <1>1. text.len \in Nat /\ Len(toks) \in Nat
    BY TokenFacts
  <1> DEFINE last == IF toks[r].kind = "EndOfInput" THEN r - 1 ELSE r
  <1>2. CASE last = p
    <2>1. ConsumedEnd(p, r) = text.len
      BY <1>2 DEF ConsumedEnd
    <2>2. toks[r].kind = "EndOfInput" /\ r - 1 = p
      BY <1>1, <1>2
    <2> QED
      BY <1>1, <2>1, <2>2
  <1>3. CASE last # p
    <2>1. last \in (p + 1)..r
      BY <1>1, <1>3
    <2>2. last \in 1..Len(toks)
      BY <1>1, <2>1
    <2>3. toks[last].end \in Nat /\ toks[last].end <= text.len /\ b <= toks[last].end
      <3> HIDE DEF last
      <3>1. /\ toks[last].end \in Nat /\ toks[last].from \in Nat /\ toks[last].to \in Nat
            /\ toks[last].from <= toks[last].end /\ toks[last].end <= toks[last].to
            /\ toks[last].to <= text.len
        BY <2>2, TokenFacts
      <3>2. b <= toks[last].from
        BY <1>1, <2>1, <2>2
      <3> QED
        BY <1>1, <3>1, <3>2
    <2> HIDE DEF last
    <2>4. ConsumedEnd(p, r) = toks[last].end
      <3>1. ConsumedEnd(p, r) = IF toks[last].end < text.len THEN toks[last].end ELSE text.len
        BY <1>3 DEF ConsumedEnd, last
      <3> QED
        BY <1>1, <2>3, <3>1
    <2>5. ASSUME NEW k \in (r + 1)..Len(toks)
          PROVE  toks[last].end <= toks[k].from
      <3>1. k \in 1..Len(toks) /\ last < k
        BY <1>1, <2>1, <2>2
      <3> QED
        BY <2>2, <3>1, EndBeforeFrom
    <2> QED
      BY <2>3, <2>4, <2>5
  <1> QED
    BY <1>2, <1>3

\* Appending a statement that starts where the last one ends keeps the spans
\* contiguous.
LEMMA AppendContiguous ==
    ASSUME NEW s \in Seq(StatementType), Contiguous(s), NEW t \in StatementType,
           t.start = LastEnd(s), t.start <= t.end
    PROVE  Contiguous(Append(s, t)) /\ LastEnd(Append(s, t)) = t.end
  <1>1. Len(Append(s, t)) = Len(s) + 1 /\ Append(s, t) # <<>> /\ Append(s, t)[Len(s) + 1] = t
    OBVIOUS
  <1>2. \A k \in 1..Len(s) : Append(s, t)[k] = s[k]
    OBVIOUS
  <1>3. ASSUME NEW k \in 1..(Len(s) + 1)
        PROVE  /\ Append(s, t)[k].start = IF k = 1 THEN 0 ELSE Append(s, t)[k - 1].end
               /\ Append(s, t)[k].start <= Append(s, t)[k].end
    <2>1. CASE k = Len(s) + 1
      <3>1. CASE s = <<>>
        BY <1>1, <2>1, <3>1 DEF LastEnd
      <3>2. CASE s # <<>>
        <4>1. Len(s) \in Nat /\ Len(s) >= 1 /\ k # 1 /\ k - 1 = Len(s)
          BY <2>1, <3>2
        <4>2. Append(s, t)[k - 1] = s[Len(s)]
          BY <1>2, <4>1
        <4> QED
          BY <1>1, <2>1, <3>2, <4>1, <4>2 DEF LastEnd
      <3> QED
        BY <3>1, <3>2
    <2>2. CASE k # Len(s) + 1
      <3>1. k \in 1..Len(s) /\ (k # 1 => k - 1 \in 1..Len(s))
        BY <2>2
      <3> QED
        BY <1>2, <3>1 DEF Contiguous
    <2> QED
      BY <2>1, <2>2
  <1> QED
    BY <1>1, <1>3 DEF Contiguous, LastEnd

\* Stretching the last span keeps the spans contiguous and makes them end
\* where the text does.
LEMMA StretchedTiles ==
    ASSUME NEW s \in Seq(StatementType), Contiguous(s), NEW len \in Nat, LastEnd(s) <= len
    PROVE  /\ Stretched(s, len) \in Seq(StatementType)
           /\ Contiguous(Stretched(s, len))
           /\ Stretched(s, len) # <<>> => LastEnd(Stretched(s, len)) = len
           /\ LastEnd(Stretched(s, len)) <= len
  <1>1. CASE s = <<>>
    BY <1>1 DEF Stretched, LastEnd
  <1>2. CASE s # <<>>
    <2> DEFINE l == s[Len(s)]
               m == [first |-> l.first, last |-> l.last, start |-> l.start,
                     end |-> IF l.end < len THEN len ELSE l.end]
    <2>1. Len(s) \in Nat /\ Len(s) >= 1 /\ Len(s) \in 1..Len(s)
      BY <1>2
    <2>2. l \in StatementType
      BY <2>1
    <2>3. l.end <= len /\ l.end \in Nat /\ l.start \in Nat /\ l.start <= l.end
      BY <1>2, <2>1, <2>2 DEF LastEnd, StatementType, Contiguous
    <2>4. m \in StatementType /\ m.end = len /\ m.start = l.start
      BY <2>2, <2>3 DEF StatementType
    <2>5. Stretched(s, len) = [s EXCEPT ![Len(s)] = m]
      BY <1>2 DEF Stretched
    <2> HIDE DEF m
    <2>6. /\ Stretched(s, len) \in Seq(StatementType)
          /\ Len(Stretched(s, len)) = Len(s)
          /\ Stretched(s, len)[Len(s)] = m
          /\ \A k \in 1..(Len(s) - 1) : Stretched(s, len)[k] = s[k]
      BY <2>1, <2>4, <2>5
    <2>7. ASSUME NEW k \in 1..Len(s)
          PROVE  /\ Stretched(s, len)[k].start = IF k = 1 THEN 0 ELSE Stretched(s, len)[k - 1].end
                 /\ Stretched(s, len)[k].start <= Stretched(s, len)[k].end
      <3>1. s[k].start = (IF k = 1 THEN 0 ELSE s[k - 1].end) /\ s[k].start <= s[k].end
        BY DEF Contiguous
      <3>2. k # 1 => Stretched(s, len)[k - 1] = s[k - 1]
        BY <2>1, <2>6
      <3>3. Stretched(s, len)[k].start = s[k].start
        <4>1. CASE k = Len(s)
          BY <2>4, <2>6, <4>1
        <4>2. CASE k # Len(s)
          BY <2>1, <2>6, <4>2
        <4> QED
          BY <4>1, <4>2
      <3>4. Stretched(s, len)[k].start <= Stretched(s, len)[k].end
        <4>1. CASE k = Len(s)
          BY <2>3, <2>4, <2>6, <4>1
        <4>2. CASE k # Len(s)
          BY <2>1, <2>6, <3>1, <4>2
        <4> QED
          BY <4>1, <4>2
      <3> QED
        BY <3>1, <3>2, <3>3, <3>4
    <2>8. Stretched(s, len) # <<>> /\ LastEnd(Stretched(s, len)) = len
      BY <2>1, <2>4, <2>6 DEF LastEnd
    <2> QED
      BY <2>6, <2>7, <2>8 DEF Contiguous
  <1> QED
    BY <1>1, <1>2

LEMMA EmptyTiles == Contiguous(<<>>) /\ LastEnd(<<>>) = 0 /\ <<>> \in Seq(StatementType)
  BY DEF Contiguous, LastEnd

-----------------------------------------------------------------------------
LEMMA InitIInv == Init => IInv
  <1> SUFFICES ASSUME Init PROVE IInv
    OBVIOUS
  <1>1. text \in Texts
    BY DEF Init
  <1>2. text.len \in Nat /\ Len(toks) \in Nat
    BY <1>1, TokenFacts
  <1>3. TypeOK
    <2>1. match \in [body : 0..Len(toks), to : 0..Len(toks)] /\ pos \in 0..Len(toks)
      BY <1>2 DEF Init
    <2>2. outcome \in [err : Errors, stmts : Seq(StatementType)]
      BY EmptyTiles DEF Init, Errors
    <2>3. prevEnd \in 0..text.len /\ stmts \in Seq(StatementType)
      BY <1>2, EmptyTiles DEF Init
    <2> QED
      BY <2>1, <2>2, <2>3 DEF Init, TypeOK
  <1>4. SpansSoFar
    <2>1. \A k \in 1..Len(toks) : 0 <= toks[k].from
      BY <1>1, TokenFacts
    <2> QED
      BY <1>2, <2>1, EmptyTiles DEF Init, SpansSoFar
  <1>5. SpansTile
    BY DEF Init, SpansTile
  <1> QED
    BY <1>1, <1>3, <1>4, <1>5 DEF IInv

\* An error return without statements, and nothing else changed.
LEMMA RefusalKeepsIInv ==
    ASSUME IInv, NEW e \in Errors \ {"none"}, Returning(e, <<>>),
           UNCHANGED <<text, cancelled, pos, prevEnd, match, stmts>>
    PROVE  IInv'
  <1>1. outcome' = [err |-> e, stmts |-> <<>>] /\ pc' = "returned"
    BY DEF Returning
  <1>2. text.len \in Nat
    BY TokenFacts DEF IInv
  <1>3. TypeOK'
    BY <1>1, EmptyTiles DEF IInv, TypeOK, toks
  <1>4. SpansSoFar'
    BY <1>1 DEF IInv, SpansSoFar, toks
  <1>5. SpansTile'
    BY <1>1, <1>2, EmptyTiles DEF SpansTile
  <1> QED
    BY <1>3, <1>4, <1>5 DEF IInv

LEMMA StepIInv == IInv /\ [Next]_vars => IInv'
  <1> SUFFICES ASSUME IInv, [Next]_vars PROVE IInv'
    OBVIOUS
  <1>1. text \in Texts /\ TypeOK /\ SpansSoFar /\ SpansTile
    BY DEF IInv
  <1>2. /\ text.len \in Nat /\ Len(toks) \in Nat
        /\ \A k \in 1..Len(toks) : toks[k].end \in Nat
    BY <1>1, TokenFacts
  <1>3. CASE Cancel
    BY <1>1, <1>3 DEF Cancel, IInv, TypeOK, SpansSoFar, SpansTile, toks
  <1>4. ASSUME NEW e \in {"context", "grammar", "utf8", "lexer"}, Refuse(e)
        PROVE  IInv'
    BY <1>4, RefusalKeepsIInv DEF Refuse, Errors
  <1>5. CASE Tokenize
    BY <1>1, <1>5 DEF Tokenize, IInv, TypeOK, SpansSoFar, SpansTile, toks
  <1>6. CASE ContextDone
    BY <1>6, RefusalKeepsIInv DEF ContextDone, Errors
  <1>7. CASE MatchTopLevel
    <2>1. PICK q \in pos..(Len(toks) - 1) : \E r \in (q + 1)..Len(toks) :
              match' = [body |-> q, to |-> r]
      BY <1>7 DEF MatchTopLevel
    <2>6. PICK r \in (q + 1)..Len(toks) : match' = [body |-> q, to |-> r]
      BY <2>1
    <2>2. pc' = "matched" /\ UNCHANGED <<text, cancelled, pos, prevEnd, stmts, outcome>>
      BY <1>7 DEF MatchTopLevel
    <2>3. /\ match'.body = q /\ match'.to = r /\ pos <= q /\ q < r
          /\ match' \in [body : 0..Len(toks), to : 0..Len(toks)]
      BY <1>1, <1>2, <2>6 DEF TypeOK
    <2>4. TypeOK'
      BY <1>1, <2>2, <2>3 DEF TypeOK, toks
    <2>5. SpansSoFar'
      BY <1>1, <1>7, <2>2 DEF SpansSoFar, toks, MatchTopLevel
    <2> QED
      BY <1>1, <2>2, <2>4, <2>5 DEF IInv, SpansTile
  <1>8. CASE MatchFails
    BY <1>8, RefusalKeepsIInv DEF MatchFails, Errors
  <1>9. CASE EmptyStatement
    <2>1. /\ pc = "matched" /\ pos' = match.to /\ pc' = "loop"
          /\ UNCHANGED <<text, cancelled, prevEnd, match, stmts, outcome>>
      BY <1>9 DEF EmptyStatement
    <2>2. match.to \in 0..Len(toks) /\ pos < match.to /\ pos \in 0..Len(toks)
      BY <1>1, <1>2, <2>1 DEF TypeOK
    <2>3. TypeOK'
      BY <1>1, <2>1, <2>2 DEF TypeOK, toks
    <2>4. SpansSoFar'
      <3>1. \A k \in (match.to + 1)..Len(toks) : prevEnd <= toks[k].from
        BY <1>1, <1>2, <2>2 DEF SpansSoFar
      <3> QED
        BY <1>1, <2>1, <3>1 DEF SpansSoFar, toks
    <2> QED
      BY <1>1, <2>1, <2>3, <2>4 DEF IInv, SpansTile
  <1>10. CASE TransformStatement
    <2> DEFINE end == ConsumedEnd(pos, match.to)
               t == [first |-> pos + 1, last |-> match.body, start |-> prevEnd, end |-> end]
    <2>1. /\ pc = "matched" /\ match.body # pos /\ pos' = match.to /\ pc' = "loop"
          /\ stmts' = Append(stmts, t) /\ prevEnd' = end
          /\ UNCHANGED <<text, cancelled, match, outcome>>
      BY <1>10 DEF TransformStatement
    <2>2. /\ match.to \in 0..Len(toks) /\ match.body \in Nat /\ pos \in 0..Len(toks)
          /\ pos < match.body /\ match.body < match.to
          /\ prevEnd \in Nat /\ prevEnd <= text.len /\ stmts \in Seq(StatementType)
      BY <1>1, <1>2, <2>1 DEF TypeOK
    <2>3. /\ end \in Nat /\ prevEnd <= end /\ end <= text.len
          /\ \A k \in (match.to + 1)..Len(toks) : end <= toks[k].from
      <3>1. match.to \in (pos + 1)..Len(toks) /\ match.to - 1 # pos
        BY <1>2, <2>2
      <3>2. \A k \in (pos + 1)..Len(toks) : prevEnd <= toks[k].from
        BY <1>1 DEF SpansSoFar
      <3> QED
        BY <1>1, <2>2, <3>1, <3>2, ConsumedEndBounds
    <2> HIDE DEF end
    <2>4. t \in StatementType /\ t.start = prevEnd /\ t.end = end
      BY <1>2, <2>2, <2>3 DEF StatementType
    <2>5. prevEnd = LastEnd(stmts) /\ Contiguous(stmts)
      BY <1>1, <2>1 DEF SpansSoFar
    <2>6. Contiguous(stmts') /\ LastEnd(stmts') = end /\ stmts' \in Seq(StatementType)
      BY <2>1, <2>2, <2>3, <2>4, <2>5, AppendContiguous
    <2>7. TypeOK'
      BY <1>1, <1>2, <2>1, <2>2, <2>3, <2>6 DEF TypeOK, toks
    <2>8. SpansSoFar'
      BY <2>1, <2>3, <2>6 DEF SpansSoFar, toks
    <2> QED
      BY <1>1, <2>1, <2>7, <2>8 DEF IInv, SpansTile
  <1>11. CASE TransformRaises
    <2>1. /\ pc = "matched" /\ pos' = match.to /\ pc' = "returned"
          /\ outcome' = [err |-> "raise", stmts |-> stmts]
          /\ UNCHANGED <<text, cancelled, prevEnd, match, stmts>>
      BY <1>11 DEF TransformRaises, Returning
    <2>2. match.to \in 0..Len(toks) /\ pos < match.to /\ pos \in 0..Len(toks)
      BY <1>1, <1>2, <2>1 DEF TypeOK
    <2>3. TypeOK'
      BY <1>1, <2>1, <2>2 DEF TypeOK, toks, Errors
    <2>4. SpansSoFar'
      <3>1. \A k \in (match.to + 1)..Len(toks) : prevEnd <= toks[k].from
        BY <1>1, <1>2, <2>2 DEF SpansSoFar
      <3> QED
        BY <1>1, <2>1, <3>1 DEF SpansSoFar, toks
    <2>5. SpansTile'
      BY <1>1, <2>1 DEF SpansTile, SpansSoFar
    <2> QED
      BY <1>1, <2>1, <2>3, <2>4, <2>5 DEF IInv
  <1>12. CASE Finish
    <2> DEFINE s == Stretched(stmts, text.len)
    <2>1. /\ pc = "loop" /\ pc' = "returned" /\ stmts' = s
          /\ outcome' = [err |-> "none", stmts |-> s]
          /\ UNCHANGED <<text, cancelled, pos, prevEnd, match>>
      BY <1>12 DEF Finish, Returning
    <2>2. /\ s \in Seq(StatementType) /\ Contiguous(s)
          /\ s # <<>> => LastEnd(s) = text.len
          /\ LastEnd(s) <= text.len
      BY <1>1, <1>2, StretchedTiles DEF TypeOK, SpansSoFar
    <2> HIDE DEF s
    <2>3. TypeOK'
      BY <1>1, <2>1, <2>2 DEF TypeOK, toks, Errors
    <2>4. SpansSoFar'
      BY <1>1, <2>1, <2>2 DEF SpansSoFar, toks
    <2>5. SpansTile'
      BY <2>1, <2>2 DEF SpansTile
    <2> QED
      BY <1>1, <2>1, <2>3, <2>4, <2>5 DEF IInv
  <1>13. CASE UNCHANGED vars
    BY <1>1, <1>13 DEF vars, IInv, TypeOK, SpansSoFar, SpansTile, toks
  <1> QED
    BY <1>3, <1>4, <1>5, <1>6, <1>7, <1>8, <1>9, <1>10, <1>11, <1>12, <1>13 DEF Next, Run

-----------------------------------------------------------------------------
(* Which tokens the statements have. *)

\* A statement of its own token range is covered, and nothing else is.
LEMMA AppendCovers ==
    ASSUME NEW s \in Seq(StatementType), NEW t \in StatementType, NEW k \in Nat
    PROVE  Covered(Append(s, t), k) <=> Covered(s, k) \/ k \in t.first..t.last
  <1>1. /\ Len(Append(s, t)) = Len(s) + 1 /\ Len(s) \in Nat
        /\ Append(s, t)[Len(s) + 1] = t
        /\ \A j \in 1..Len(s) : Append(s, t)[j] = s[j]
    OBVIOUS
  <1>2. ASSUME Covered(Append(s, t), k) PROVE Covered(s, k) \/ k \in t.first..t.last
    <2>1. PICK j \in 1..(Len(s) + 1) : k \in Append(s, t)[j].first..Append(s, t)[j].last
      BY <1>1, <1>2 DEF Covered
    <2>2. CASE j = Len(s) + 1
      BY <1>1, <2>1, <2>2
    <2>3. CASE j # Len(s) + 1
      <3>1. j \in 1..Len(s)
        BY <1>1, <2>3
      <3> QED
        BY <1>1, <2>1, <3>1 DEF Covered
    <2> QED
      BY <2>2, <2>3
  <1>3. ASSUME Covered(s, k) PROVE Covered(Append(s, t), k)
    <2>1. PICK j \in 1..Len(s) : k \in s[j].first..s[j].last
      BY <1>3 DEF Covered
    <2>2. j \in 1..(Len(s) + 1) /\ Append(s, t)[j] = s[j]
      BY <1>1
    <2> QED
      BY <1>1, <2>1, <2>2 DEF Covered
  <1>4. ASSUME k \in t.first..t.last PROVE Covered(Append(s, t), k)
    <2>1. Len(s) + 1 \in 1..(Len(s) + 1)
      BY <1>1
    <2> QED
      BY <1>1, <1>4, <2>1 DEF Covered
  <1> QED
    BY <1>2, <1>3, <1>4

\* Stretching moves one end and nothing else.
LEMMA StretchedFields ==
    ASSUME NEW s \in Seq(StatementType), NEW len \in Nat
    PROVE  /\ Len(Stretched(s, len)) = Len(s)
           /\ \A j \in 1..Len(s) :
                 /\ Stretched(s, len)[j].first = s[j].first
                 /\ Stretched(s, len)[j].last = s[j].last
                 /\ Stretched(s, len)[j].start = s[j].start
                 /\ j # Len(s) => Stretched(s, len)[j].end = s[j].end
                 /\ j = Len(s) => Stretched(s, len)[j].end >= len
  <1>1. CASE s = <<>>
    BY <1>1 DEF Stretched
  <1>2. CASE s # <<>>
    <2> DEFINE l == s[Len(s)]
               m == [first |-> l.first, last |-> l.last, start |-> l.start,
                     end |-> IF l.end < len THEN len ELSE l.end]
    <2>1. Len(s) \in Nat /\ Len(s) >= 1 /\ Len(s) \in 1..Len(s) /\ l \in StatementType
      BY <1>2
    <2>2. m.first = l.first /\ m.last = l.last /\ m.start = l.start /\ m.end >= len
      BY <2>1 DEF StatementType
    <2>3. Stretched(s, len) = [s EXCEPT ![Len(s)] = m]
      BY <1>2 DEF Stretched
    <2> HIDE DEF m
    <2>4. /\ Len(Stretched(s, len)) = Len(s)
          /\ Stretched(s, len)[Len(s)] = m
          /\ \A k \in 1..Len(s) : k # Len(s) => Stretched(s, len)[k] = s[k]
      BY <2>1, <2>3
    <2> QED
      BY <2>1, <2>2, <2>4
  <1> QED
    BY <1>1, <1>2

LEMMA StretchedCovers ==
    ASSUME NEW s \in Seq(StatementType), NEW len \in Nat, NEW k \in Nat
    PROVE  Covered(Stretched(s, len), k) <=> Covered(s, k)
  BY StretchedFields DEF Covered

\* The tokens a match consumes: the body's are no terminators, the rest are.
LEMMA MatchedKinds ==
    ASSUME text \in Texts, NEW p \in Nat, NEW q \in Nat, NEW r \in Nat,
           p <= q, q < r, r <= Len(toks), Body(p, q), Terminated(q, r)
    PROVE  \A k \in (p + 1)..r : toks[k].kind = "Other" <=> k <= q
  <1> SUFFICES ASSUME NEW k \in (p + 1)..r PROVE toks[k].kind = "Other" <=> k <= q
    OBVIOUS
  <1>1. Len(toks) \in Nat /\ k \in 1..Len(toks)
    BY TokenFacts
  <1>2. CASE k <= q
    <2>1. k \in (p + 1)..q
      BY <1>1, <1>2
    <2> QED
      BY <1>2, <2>1 DEF Body, Kinds
  <1>3. CASE k > q
    <2>1. CASE toks[q + 1].kind = "EndOfInput"
      <3>1. k = q + 1
        BY <1>1, <1>3, <2>1 DEF Terminated
      <3> QED
        BY <1>3, <2>1, <3>1
    <2>2. CASE toks[q + 1].kind # "EndOfInput"
      <3>1. k \in (q + 1)..r
        BY <1>1, <1>3
      <3>2. toks[k].kind = "Terminator"
        BY <2>2, <3>1 DEF Terminated, Kinds
      <3> QED
        BY <1>3, <3>2
    <2> QED
      BY <2>1, <2>2
  <1> QED
    BY <1>1, <1>2, <1>3

-----------------------------------------------------------------------------
(* Statements and the tokens they have. *)

\* What an answer must satisfy beyond its tiling.
Answered == StatementsSoFar /\ TokensInOwnSpan /\ AllOrError

LEMMA InitAnswered == Init => Answered
  <1> SUFFICES ASSUME Init PROVE Answered
    OBVIOUS
  <1>1. pc = "start" /\ pos = 0 /\ stmts = <<>>
    BY DEF Init
  <1> QED
    BY <1>1 DEF Answered, StatementsSoFar, TokensInOwnSpan, AllOrError

\* An error return without statements.
LEMMA RefusalIsAnswer ==
    ASSUME NEW e \in Errors \ {"none", "raise"}, Returning(e, <<>>)
    PROVE  Answered'
  <1>1. outcome' = [err |-> e, stmts |-> <<>>] /\ pc' = "returned"
    BY DEF Returning
  <1> QED
    BY <1>1 DEF Answered, StatementsSoFar, TokensInOwnSpan, AllOrError

\* TransformStatement: the new statement has the body of the match, in its
\* own span, and the rest of the match are terminators.
LEMMA TransformKeepsAnswered ==
    ASSUME IInv, Answered, TransformStatement
    PROVE  Answered'
  <1> DEFINE end == ConsumedEnd(pos, match.to)
             t == [first |-> pos + 1, last |-> match.body, start |-> prevEnd, end |-> end]
  <1>1. text \in Texts /\ TypeOK /\ SpansSoFar /\ StatementsSoFar
    BY DEF IInv, Answered
  <1>2. /\ pc = "matched" /\ match.body # pos /\ pos' = match.to /\ pc' = "loop"
        /\ stmts' = Append(stmts, t) /\ prevEnd' = end
        /\ UNCHANGED <<text, cancelled, match, outcome>>
    BY DEF TransformStatement
  <1>3. text.len \in Nat /\ Len(toks) \in Nat
    BY <1>1, TokenFacts
  <1>4. /\ match.to \in 0..Len(toks) /\ match.body \in 0..Len(toks) /\ pos \in 0..Len(toks)
        /\ pos < match.body /\ match.body < match.to
        /\ prevEnd \in Nat /\ prevEnd <= text.len /\ stmts \in Seq(StatementType)
    BY <1>1, <1>2, <1>3 DEF TypeOK
  <1>5. end \in Nat
    <2>1. match.to \in (pos + 1)..Len(toks)
      BY <1>3, <1>4
    <2>2. \A k \in (pos + 1)..Len(toks) : prevEnd <= toks[k].from
      BY <1>1 DEF SpansSoFar
    <2> QED
      BY <1>1, <1>4, <2>1, <2>2, ConsumedEndBounds
  <1>6. t \in StatementType
    BY <1>4, <1>5 DEF StatementType
  <1>7. \A k \in (pos + 1)..match.to : toks[k].kind = "Other" <=> k <= match.body
    <2>1. Body(pos, match.body) /\ Terminated(match.body, match.to)
      BY <1>1, <1>2 DEF StatementsSoFar
    <2> QED
      BY <1>1, <1>3, <1>4, <2>1, MatchedKinds
  <1>8. ASSUME NEW k \in 1..Len(toks)
        PROVE  Covered(stmts', k) <=> k <= match.to /\ toks[k].kind = "Other"
    <2>1. Covered(stmts', k) <=> Covered(stmts, k) \/ k \in (pos + 1)..match.body
      BY <1>2, <1>4, <1>6, AppendCovers
    <2>2. Covered(stmts, k) <=> k <= pos /\ toks[k].kind = "Other"
      BY <1>1, <1>2 DEF StatementsSoFar
    <2>3. CASE k <= pos
      BY <1>4, <2>1, <2>2, <2>3
    <2>4. CASE k > pos /\ k <= match.to
      <3>1. k \in (pos + 1)..match.to
        BY <1>4, <2>4
      <3>2. toks[k].kind = "Other" <=> k <= match.body
        BY <1>7, <3>1
      <3> QED
        BY <1>4, <2>1, <2>2, <2>4, <3>2
    <2>5. CASE k > match.to
      BY <1>4, <2>1, <2>2, <2>5
    <2> QED
      BY <1>4, <2>3, <2>4, <2>5
  <1>9. ASSUME NEW k \in (pos + 1)..match.body
        PROVE  /\ k \in 1..Len(toks) /\ prevEnd <= toks[k].from
               /\ toks[k].to <= end \/ match.to = Len(toks)
    <2>1. k \in 1..Len(toks) /\ k \in (pos + 1)..Len(toks) /\ k < match.to
      BY <1>3, <1>4
    <2>2. prevEnd <= toks[k].from
      BY <1>1, <2>1 DEF SpansSoFar
    <2>3. ASSUME match.to # Len(toks) PROVE toks[k].to <= end
      <3>1. match.to \in 1..Len(toks) /\ toks[match.to].kind # "EndOfInput"
        BY <1>1, <1>3, <1>4, <2>3, TokenFacts
      <3>2. end = IF toks[match.to].end < text.len THEN toks[match.to].end ELSE text.len
        BY <1>4, <3>1 DEF ConsumedEnd
      <3>3. k \in 1..(match.to - 1)
        BY <1>4, <2>1
      <3>4. toks[k].to <= toks[match.to].from
        BY <1>1, <3>1, <3>3, TokenFacts
      <3>5. /\ toks[match.to].from <= toks[match.to].end /\ toks[match.to].from \in Nat
            /\ toks[match.to].end \in Nat
        BY <1>1, <3>1, TokenFacts
      <3>6. toks[k].to \in Nat /\ toks[k].to <= text.len
        BY <1>1, <2>1, TokenFacts
      <3> HIDE DEF end
      <3> QED
        BY <1>3, <3>2, <3>4, <3>5, <3>6
    <2> QED
      BY <2>1, <2>2, <2>3
  <1>10. ASSUME NEW j \in 1..Len(stmts'), NEW k \in stmts'[j].first..stmts'[j].last
         PROVE  /\ k \in 1..Len(toks) /\ stmts'[j].start <= toks[k].from
                /\ toks[k].to <= stmts'[j].end \/ (j = Len(stmts') /\ match.to = Len(toks))
    <2>1. /\ Len(stmts') = Len(stmts) + 1 /\ Len(stmts) \in Nat
          /\ stmts'[Len(stmts) + 1] = t
          /\ \A m \in 1..Len(stmts) : stmts'[m] = stmts[m]
      BY <1>2, <1>4, <1>6
    <2>2. CASE j = Len(stmts) + 1
      BY <1>9, <2>1, <2>2
    <2>3. CASE j # Len(stmts) + 1
      <3>1. j \in 1..Len(stmts) /\ stmts'[j] = stmts[j]
        BY <2>1, <2>3
      <3>2. /\ k \in 1..Len(toks) /\ stmts[j].start <= toks[k].from
            /\ toks[k].to <= stmts[j].end \/ pos = Len(toks)
        BY <1>1, <1>2, <3>1, Zenon DEF StatementsSoFar
      <3>3. pos # Len(toks)
        BY <1>3, <1>4
      <3> QED
        BY <3>1, <3>2, <3>3
    <2> QED
      BY <2>2, <2>3
  <1>11. StatementsSoFar'
    <2> HIDE DEF t, end
    <2>1. toks' = toks
      BY <1>2 DEF toks
    <2>2. /\ \A k \in 1..Len(toks) : Covered(stmts', k) <=> k <= match.to /\ toks[k].kind = "Other"
          /\ \A j \in 1..Len(stmts') : \A k \in stmts'[j].first..stmts'[j].last :
                /\ k \in 1..Len(toks) /\ stmts'[j].start <= toks[k].from
                /\ toks[k].to <= stmts'[j].end \/ (j = Len(stmts') /\ match.to = Len(toks))
      BY <1>8, <1>10, Zenon
    <2>3. pc' = "loop" /\ pos' = match.to
      BY <1>2
    <2> QED
      BY <2>1, <2>2, <2>3, Zenon DEF StatementsSoFar
  <1> QED
    BY <1>2, <1>11 DEF Answered, TokensInOwnSpan, AllOrError

\* EmptyStatement: all of the match are terminators.
LEMMA EmptyKeepsAnswered ==
    ASSUME IInv, Answered, EmptyStatement
    PROVE  Answered'
  <1>1. text \in Texts /\ TypeOK /\ StatementsSoFar
    BY DEF IInv, Answered
  <1>2. /\ pc = "matched" /\ match.body = pos /\ pos' = match.to /\ pc' = "loop"
        /\ UNCHANGED <<text, cancelled, prevEnd, match, stmts, outcome>>
    BY DEF EmptyStatement
  <1>3. /\ Len(toks) \in Nat /\ match.to \in 0..Len(toks) /\ pos \in 0..Len(toks)
        /\ pos < match.to
    BY <1>1, <1>2, TokenFacts DEF TypeOK
  <1>4. \A k \in (pos + 1)..match.to : toks[k].kind = "Other" <=> k <= pos
    <2>1. Body(pos, pos) /\ Terminated(pos, match.to)
      BY <1>1, <1>2 DEF StatementsSoFar
    <2> QED
      BY <1>1, <1>3, <2>1, MatchedKinds
  <1>5. ASSUME NEW k \in 1..Len(toks)
        PROVE  Covered(stmts, k) <=> k <= match.to /\ toks[k].kind = "Other"
    <2>1. Covered(stmts, k) <=> k <= pos /\ toks[k].kind = "Other"
      BY <1>1, <1>2 DEF StatementsSoFar
    <2>2. k > pos /\ k <= match.to => toks[k].kind # "Other"
      BY <1>3, <1>4
    <2> QED
      BY <1>3, <2>1, <2>2
  <1>6. ASSUME NEW j \in 1..Len(stmts), NEW k \in stmts[j].first..stmts[j].last
        PROVE  /\ k \in 1..Len(toks) /\ stmts[j].start <= toks[k].from
               /\ toks[k].to <= stmts[j].end
    <2>1. pos # Len(toks)
      BY <1>3
    <2> QED
      BY <1>1, <1>2, <2>1, Zenon DEF StatementsSoFar
  <1>7. StatementsSoFar'
    <2>1. toks' = toks /\ stmts' = stmts /\ pc' = "loop" /\ pos' = match.to
      BY <1>2 DEF toks
    <2>2. /\ \A k \in 1..Len(toks) : Covered(stmts, k) <=> k <= match.to /\ toks[k].kind = "Other"
          /\ \A j \in 1..Len(stmts) : \A k \in stmts[j].first..stmts[j].last :
                /\ k \in 1..Len(toks) /\ stmts[j].start <= toks[k].from
                /\ toks[k].to <= stmts[j].end
      BY <1>5, <1>6, Zenon
    <2> QED
      BY <2>1, <2>2, Zenon DEF StatementsSoFar
  <1> QED
    BY <1>2, <1>7 DEF Answered, TokensInOwnSpan, AllOrError

\* TransformRaises: the statements that were there have their own tokens.
LEMMA RaiseIsAnswer ==
    ASSUME IInv, Answered, TransformRaises
    PROVE  Answered'
  <1>1. text \in Texts /\ TypeOK /\ StatementsSoFar
    BY DEF IInv, Answered
  <1>2. /\ pc = "matched" /\ pc' = "returned" /\ outcome' = [err |-> "raise", stmts |-> stmts]
        /\ text' = text
    BY DEF TransformRaises, Returning
  <1>3. pos # Len(toks)
    BY <1>1, <1>2, TokenFacts DEF TypeOK
  <1>4. \A j \in 1..Len(stmts) : \A k \in stmts[j].first..stmts[j].last :
            stmts[j].start <= toks[k].from /\ toks[k].to <= stmts[j].end
    BY <1>1, <1>2, <1>3, Zenon DEF StatementsSoFar
  <1>5. TokensInOwnSpan'
    <2>1. toks' = toks /\ outcome'.stmts = stmts
      BY <1>2 DEF toks
    <2> QED
      BY <1>4, <2>1, Zenon DEF TokensInOwnSpan
  <1> QED
    BY <1>2, <1>5 DEF Answered, StatementsSoFar, AllOrError

\* Finish: every token has been consumed, and stretching the last span takes
\* in what its last token has beyond it.
LEMMA FinishIsAnswer ==
    ASSUME IInv, Answered, Finish
    PROVE  Answered'
  <1> DEFINE s == Stretched(stmts, text.len)
  <1>1. text \in Texts /\ TypeOK /\ StatementsSoFar
    BY DEF IInv, Answered
  <1>2. /\ pc = "loop" /\ pos >= Len(toks) /\ pc' = "returned" /\ text' = text
        /\ outcome' = [err |-> "none", stmts |-> s]
    BY DEF Finish, Returning
  <1>3. text.len \in Nat /\ Len(toks) \in Nat /\ pos = Len(toks) /\ stmts \in Seq(StatementType)
    BY <1>1, <1>2, TokenFacts DEF TypeOK
  <1>4. ASSUME NEW k \in 1..Len(toks) PROVE toks[k].kind = "Other" <=> Covered(s, k)
    <2>1. Covered(stmts, k) <=> k <= pos /\ toks[k].kind = "Other"
      BY <1>1, <1>2 DEF StatementsSoFar
    <2> QED
      BY <1>3, <2>1, StretchedCovers
  <1>5. ASSUME NEW j \in 1..Len(s), NEW k \in s[j].first..s[j].last
        PROVE  s[j].start <= toks[k].from /\ toks[k].to <= s[j].end
    <2>1. /\ j \in 1..Len(stmts) /\ s[j].start = stmts[j].start
          /\ k \in stmts[j].first..stmts[j].last
          /\ j # Len(stmts) => s[j].end = stmts[j].end
          /\ j = Len(stmts) => s[j].end >= text.len
      BY <1>3, StretchedFields
    <2>2. /\ k \in 1..Len(toks) /\ stmts[j].start <= toks[k].from
          /\ toks[k].to <= stmts[j].end \/ j = Len(stmts)
      BY <1>1, <1>2, <2>1, Zenon DEF StatementsSoFar
    <2>3. toks[k].to \in Nat /\ toks[k].to <= text.len
      BY <1>1, <2>2, TokenFacts
    <2>4. CASE j # Len(stmts)
      BY <2>1, <2>2, <2>4
    <2>5. CASE j = Len(stmts)
      <3>1. s \in Seq(StatementType)
        BY <1>1, <1>3, StretchedTiles DEF TypeOK, IInv, SpansSoFar
      <3> HIDE DEF s
      <3>2. s[j] \in StatementType
        BY <3>1
      <3>3. s[j].end \in Nat
        BY <3>2 DEF StatementType
      <3> QED
        BY <1>3, <2>1, <2>2, <2>3, <2>5, <3>3
    <2> QED
      BY <2>4, <2>5
  <1> HIDE DEF s
  <1>6. toks' = toks /\ outcome'.stmts = s /\ outcome'.err = "none"
    BY <1>2 DEF toks
  <1>7. TokensInOwnSpan'
    BY <1>5, <1>6, Zenon DEF TokensInOwnSpan
  <1>8. AllOrError'
    BY <1>4, <1>6, Zenon DEF AllOrError
  <1> QED
    BY <1>2, <1>7, <1>8 DEF Answered, StatementsSoFar

\* Cancelling, or nothing at all, changes no answer.
LEMMA FrameAnswered ==
    ASSUME IInv, Answered, UNCHANGED <<text, pc, pos, match, stmts, outcome>>
    PROVE  Answered'
  <1>1. toks' = toks
    BY DEF toks
  <1>2. StatementsSoFar'
    <2>1. pc = "matched" => Body(pos, match.body)' /\ Terminated(match.body, match.to)'
      <3> SUFFICES ASSUME pc = "matched"
                   PROVE  Body(pos, match.body)' /\ Terminated(match.body, match.to)'
        OBVIOUS
      <3>1. Body(pos, match.body) /\ Terminated(match.body, match.to)
        BY DEF Answered, StatementsSoFar
      <3>2. toks' = toks /\ match' = match /\ pos' = pos
        BY <1>1
      <3> HIDE DEF toks
      <3> QED
        BY <3>1, <3>2 DEF Body, Terminated, Kinds
    <2> QED
      BY <1>1, <2>1 DEF Answered, StatementsSoFar, Covered
  <1> QED
    BY <1>1, <1>2 DEF Answered, TokensInOwnSpan, AllOrError, Covered

LEMMA StepAnswered == IInv /\ Answered /\ [Next]_vars => Answered'
  <1> SUFFICES ASSUME IInv, Answered, [Next]_vars PROVE Answered'
    OBVIOUS
  <1>1. CASE Cancel
    BY <1>1, FrameAnswered DEF Cancel
  <1>2. ASSUME NEW e \in {"context", "grammar", "utf8", "lexer"}, Refuse(e)
        PROVE  Answered'
    BY <1>2, RefusalIsAnswer DEF Refuse, Errors
  <1>3. CASE Tokenize
    <2>1. /\ pc = "start" /\ pc' = "loop" /\ UNCHANGED <<text, pos, stmts, outcome>>
          /\ pos = 0 /\ stmts = <<>>
      BY <1>3 DEF Tokenize, Answered, StatementsSoFar
    <2>2. \A k \in 1..Len(toks) : ~Covered(stmts, k) /\ ~(k <= 0)
      <3>1. Len(toks) \in Nat
        BY TokenFacts DEF IInv
      <3> QED
        BY <2>1, <3>1 DEF Covered
    <2>3. StatementsSoFar'
      BY <2>1, <2>2 DEF StatementsSoFar, toks
    <2> QED
      BY <2>1, <2>3 DEF Answered, TokensInOwnSpan, AllOrError
  <1>4. CASE ContextDone
    BY <1>4, RefusalIsAnswer DEF ContextDone, Errors
  <1>5. CASE MatchTopLevel
    <2>1. PICK q \in pos..(Len(toks) - 1) : \E r \in (q + 1)..Len(toks) :
              Body(pos, q) /\ Terminated(q, r) /\ match' = [body |-> q, to |-> r]
      BY <1>5 DEF MatchTopLevel
    <2>2. PICK r \in (q + 1)..Len(toks) :
              Body(pos, q) /\ Terminated(q, r) /\ match' = [body |-> q, to |-> r]
      BY <2>1
    <2>3. /\ pc = "loop" /\ pc' = "matched" /\ match'.body = q /\ match'.to = r
          /\ UNCHANGED <<text, pos, stmts, outcome>>
      BY <1>5, <2>2 DEF MatchTopLevel
    <2>4. Body(pos, q)' /\ Terminated(q, r)'
      BY <2>2, <2>3 DEF Body, Terminated, Kinds, toks
    <2>5. (Body(pos, match.body) /\ Terminated(match.body, match.to))'
      BY <2>3, <2>4 DEF Body, Terminated, Kinds, toks
    <2>6. StatementsSoFar'
      BY <2>3, <2>5 DEF Answered, StatementsSoFar, toks, Covered
    <2> QED
      BY <2>3, <2>6 DEF Answered, TokensInOwnSpan, AllOrError
  <1>6. CASE MatchFails
    BY <1>6, RefusalIsAnswer DEF MatchFails, Errors
  <1>7. CASE EmptyStatement
    BY <1>7, EmptyKeepsAnswered
  <1>8. CASE TransformStatement
    BY <1>8, TransformKeepsAnswered
  <1>9. CASE TransformRaises
    BY <1>9, RaiseIsAnswer
  <1>10. CASE Finish
    BY <1>10, FinishIsAnswer
  <1>11. CASE UNCHANGED vars
    BY <1>11, FrameAnswered DEF vars
  <1> QED
    BY <1>1, <1>2, <1>3, <1>4, <1>5, <1>6, <1>7, <1>8, <1>9, <1>10, <1>11 DEF Next, Run

\* What ParseStatement makes of a complete answer.
LEMMA OneOfOne == TypeOK /\ SpansTile /\ AllOrError => OneStatement
  <1> SUFFICES ASSUME TypeOK, SpansTile, AllOrError, pc = "returned",
                      StatementAnswer(outcome).err = "none"
               PROVE  LET answer == StatementAnswer(outcome) IN
                      /\ answer.stmts[1].start = 0 /\ answer.stmts[1].end = text.len
                      /\ \A k \in 1..Len(toks) :
                            toks[k].kind = "Other"
                                <=> k \in answer.stmts[1].first..answer.stmts[1].last
    BY DEF OneStatement
  <1>1. /\ outcome.err = "none" /\ Len(outcome.stmts) = 1
        /\ StatementAnswer(outcome) = outcome
    BY DEF StatementAnswer
  <1>2. outcome.stmts \in Seq(StatementType)
    BY DEF TypeOK
  <1>3. outcome.stmts # <<>>
    <2>1. Len(<<>>) = 0
      OBVIOUS
    <2> QED
      BY <1>1, <2>1
  <1>4. outcome.stmts[1].start = 0 /\ outcome.stmts[1].end = text.len
    BY <1>1, <1>3 DEF SpansTile, Contiguous, LastEnd
  <1>5. ASSUME NEW k \in 1..Len(toks)
        PROVE  toks[k].kind = "Other" <=> k \in outcome.stmts[1].first..outcome.stmts[1].last
    <2>1. toks[k].kind = "Other" <=> Covered(outcome.stmts, k)
      BY <1>1, Zenon DEF AllOrError
    <2>2. Covered(outcome.stmts, k) <=> k \in outcome.stmts[1].first..outcome.stmts[1].last
      BY <1>1 DEF Covered
    <2> QED
      BY <2>1, <2>2
  <1> QED
    BY <1>1, <1>4, <1>5, Zenon

-----------------------------------------------------------------------------
\* The inductive invariant of parseString's loop holds throughout.
THEOREM InductiveInvariant == Spec => []IInv
  BY InitIInv, StepIInv, PTL DEF Spec

\* pos, the match and prevEnd of parseString stay inside the tokens and the
\* text.
THEOREM TypeCorrect == Spec => []TypeOK
  <1>1. IInv => TypeOK
    BY DEF IInv
  <1> QED
    BY <1>1, InductiveInvariant, PTL

\* The spans Parse returns tile the input, for every text whose token ends
\* are in order.
THEOREM ParseTilesInput == Spec => []SpansTile
  <1>1. IInv => SpansTile
    BY DEF IInv
  <1> QED
    BY <1>1, InductiveInvariant, PTL
\* Parse's answer is complete or an error, and each statement has its own
\* tokens and no others, for every text of the scanner's and every verdict
\* of the engine and the transformer.
THEOREM ParseIsComplete == Spec => []StatementsComplete
  <1>1. IInv /\ Answered => StatementsComplete
    BY OneOfOne DEF IInv, Answered, StatementsComplete
  <1> QED
    BY <1>1, InitIInv, StepIInv, InitAnswered, StepAnswered, PTL DEF Spec

=============================================================================
