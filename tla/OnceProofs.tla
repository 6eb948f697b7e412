------------------------------ MODULE OnceProofs ------------------------------
(***************************************************************************)
(* Proofs about first use: for any set of goroutines the two nested Onces  *)
(* exclude each other as they should, each function runs once, and all     *)
(* callers of Default get the one answer that SharedEngine decides.        *)
(***************************************************************************)
EXTENDS Once, TLAPS, SequenceTheorems

-----------------------------------------------------------------------------
(* The inductive invariant. *)

Frame  == [once : Onces, at : Points]
Guarded == {"check", "body", "loaded", "store", "unlock"}

\* A second frame is Load's, under Default's that waits for it.
Nested(p) ==
    /\ Len(stack[p]) <= 2
    /\ \A k \in 1..Len(stack[p]) : stack[p][k].at = "loaded" => stack[p][k].once = "default"
    /\ Len(stack[p]) = 2 =>
          stack[p][1] = [once |-> "default", at |-> "loaded"] /\ stack[p][2].once = "load"

\* A Once has been run, or nothing of it is set; before it is marked done
\* only the holder of its mutex can have run it.
Counted(o) ==
    /\ runs[o] \in {0, 1}
    /\ runs[o] = 0 => result[o] = Unset
    /\ runs[o] = 1 => result[o] \in Answers
    /\ done[o] => runs[o] = 1
    /\ ~done[o] /\ holder[o] = NoOne => runs[o] = 0

\* What a goroutine at a point of Do knows.
Knows(f) ==
    /\ f.at = "check" /\ ~done[f.once] => runs[f.once] = 0
    /\ f.at \in {"body", "loaded"} => ~done[f.once] /\ runs[f.once] = 0
    /\ f.at = "store" => runs[f.once] = 1
    /\ f.at \in {"unlock", "return"} => done[f.once]

\* What was handed out is what was built.
Handed(p, o) == got[p][o] # Absent => done[o] /\ got[p][o] = result[o]

IInv ==
    /\ TypeOK
    /\ \A p \in Goroutines : Nested(p)
    /\ HolderIsInside
    /\ \A o \in Onces : Counted(o)
    /\ \A p \in Goroutines : \A k \in 1..Len(stack[p]) : Knows(stack[p][k])
    /\ \A p \in Goroutines : At(p, "loaded") => done["load"]
    /\ \A p \in Goroutines, o \in Onces : Handed(p, o)

-----------------------------------------------------------------------------
(* Lemmas. *)

\* The values a Once can have are different, and none is an answer that was
\* not given.
LEMMA Values ==
    /\ Unset \notin Answers /\ Absent \notin Answers /\ Absent # Unset
    /\ Built \in Answers /\ Failure \in Answers
BY DEF Unset, Answers, Absent, Built, Failure, Pair, Nil

\* A stack has at most two frames.
LEMMA StackFacts ==
    ASSUME IInv, NEW p \in Goroutines
    PROVE  /\ stack \in [Goroutines -> Seq(Frame)] /\ stack[p] \in Seq(Frame)
           /\ Len(stack[p]) \in {0, 1, 2}
           /\ Len(stack[p]) = 0 <=> stack[p] = <<>>
           /\ Nested(p)
<1>1. stack \in [Goroutines -> Seq(Frame)]
  BY DEF IInv, TypeOK, Frame
<1>2. stack[p] \in Seq(Frame)
  BY <1>1
<1>3. Nested(p)
  BY DEF IInv
<1>4. Len(stack[p]) \in Nat
  BY <1>2, LenProperties
<1>5. Len(stack[p]) = 0 <=> stack[p] = <<>>
  BY <1>2, EmptySeq
<1>6. Len(stack[p]) <= 2
  BY <1>3 DEF Nested
<1>7. Len(stack[p]) \in {0, 1, 2}
  <2>1. \A n \in Nat : n <= 2 => n \in {0, 1, 2}
    OBVIOUS
  <2> QED
    BY <2>1, <1>4, <1>6
<1> QED
  BY <1>1, <1>2, <1>3, <1>5, <1>7

\* The frame a goroutine is in.
LEMMA TopFacts ==
    ASSUME IInv, NEW p \in Goroutines, stack[p] # <<>>
    PROVE  /\ Len(stack[p]) \in {1, 2}
           /\ Top(p) = stack[p][Len(stack[p])] /\ Top(p) \in Frame
           /\ Which(p) \in Onces
           /\ Knows(Top(p))
<1>1. stack[p] \in Seq(Frame) /\ Len(stack[p]) \in {1, 2}
  BY StackFacts
<1>3. Len(stack[p]) \in 1..Len(stack[p])
  BY <1>1
<1>4. Top(p) \in Frame
  BY <1>1, <1>3, ElementOfSeq DEF Top
<1>5. Which(p) \in Onces
  BY <1>4 DEF Which, Frame
<1>6. Knows(stack[p][Len(stack[p])])
  BY <1>3 DEF IInv
<1> QED
  BY <1>1, <1>4, <1>5, <1>6 DEF Top

\* Moving to another point of the same call.
LEMMA GoFacts ==
    ASSUME IInv, NEW p \in Goroutines, stack[p] # <<>>, NEW a \in Points, Go(p, a)
    PROVE  /\ stack' \in [Goroutines -> Seq(Frame)]
           /\ \A q \in Goroutines \ {p} : stack'[q] = stack[q]
           /\ Len(stack'[p]) = Len(stack[p])
           /\ \A k \in 1..Len(stack[p]) :
                 stack'[p][k] = IF k = Len(stack[p]) THEN [once |-> Which(p), at |-> a] ELSE stack[p][k]
<1> DEFINE f == [once |-> Which(p), at |-> a]
           n == Len(stack[p])
<1>1. stack \in [Goroutines -> Seq(Frame)] /\ stack[p] \in Seq(Frame)
  BY StackFacts
<1>2. f \in Frame /\ n \in 1..n
  BY TopFacts DEF Frame
<1>3. stack' = [stack EXCEPT ![p] = [stack[p] EXCEPT ![n] = f]]
  BY DEF Go
<1>4. stack'[p] = [stack[p] EXCEPT ![n] = f]
  BY <1>1, <1>3
<1> HIDE DEF f, n
<1>5. /\ [stack[p] EXCEPT ![n] = f] \in Seq(Frame)
      /\ Len([stack[p] EXCEPT ![n] = f]) = Len(stack[p])
      /\ \A k \in 1..Len(stack[p]) : [stack[p] EXCEPT ![n] = f][k] = IF k = n THEN f ELSE stack[p][k]
  BY <1>1, <1>2, ExceptSeq DEF n
<1> QED
  BY <1>1, <1>3, <1>4, <1>5 DEF f, n

\* ... changes what the goroutine is inside of only for that call's Once.
LEMMA GoInside ==
    ASSUME IInv, NEW p \in Goroutines, stack[p] # <<>>, NEW a \in Points \ {"loaded"}, Go(p, a),
           NEW w \in Onces, w = Which(p)
    PROVE  /\ \A q \in Goroutines : Nested(q)'
           /\ \A q \in Goroutines \ {p} : \A o \in Onces : Inside(q, o)' <=> Inside(q, o)
           /\ \A o \in Onces \ {w} : Inside(p, o)' <=> Inside(p, o)
           /\ Inside(p, w)' <=> a \in Guarded
           /\ Inside(p, w) <=> Top(p).at \in Guarded
           /\ \A q \in Goroutines : At(q, "loaded")' => At(q, "loaded")
<1> DEFINE n == Len(stack[p])
           f == [once |-> w, at |-> a]
<1>1. /\ n \in {1, 2} /\ Top(p) = stack[p][n] /\ Top(p) \in Frame /\ Which(p) = Top(p).once
      /\ Which(p) \in Onces
  BY TopFacts DEF Which
<1>2. /\ \A q \in Goroutines \ {p} : stack'[q] = stack[q]
      /\ Len(stack'[p]) = n
      /\ \A k \in 1..n : stack'[p][k] = IF k = n THEN f ELSE stack[p][k]
  BY GoFacts
<1>3. Nested(p) /\ \A q \in Goroutines : Nested(q)
  BY DEF IInv
<1>4. n = 2 => /\ stack[p][1].once = "default" /\ stack[p][1].at = "loaded"
               /\ stack[p][1] = [once |-> "default", at |-> "loaded"]
               /\ stack[p][2].once = "load" /\ Which(p) = "load"
  BY <1>1, <1>3 DEF Nested
<1>5. f.once = w /\ f.at = a /\ a # "loaded"
  OBVIOUS
<1> HIDE DEF n, f
<1>6. n = 1 => /\ stack'[p][1] = f /\ Len(stack'[p]) = 1 /\ Top(p) = stack[p][1]
               /\ 1..Len(stack[p]) = {1} /\ 1..Len(stack'[p]) = {1}
  BY <1>1, <1>2 DEF n
<1>7. n = 2 => /\ stack'[p][1] = stack[p][1] /\ stack'[p][2] = f /\ Len(stack'[p]) = 2
               /\ Top(p) = stack[p][2] /\ 1..Len(stack[p]) = {1, 2} /\ 1..Len(stack'[p]) = {1, 2}
  BY <1>1, <1>2 DEF n
<1>8. Nested(p)'
  <2>1. CASE n = 1 BY <2>1, <1>5, <1>6 DEF Nested
  <2>2. CASE n = 2 BY <2>2, <1>4, <1>5, <1>7 DEF Nested
  <2> QED BY <2>1, <2>2, <1>1
<1>9. \A q \in Goroutines \ {p} : Nested(q)' /\ \A o \in Onces : Inside(q, o)' <=> Inside(q, o)
  BY <1>2, <1>3 DEF Nested, Inside
<1>10. \A o \in Onces : Inside(p, o)' <=> (o = w /\ a \in Guarded) \/ (n = 2 /\ o = "default")
  <2>1. CASE n = 1 BY <2>1, <1>5, <1>6 DEF Inside, Guarded
  <2>2. CASE n = 2 BY <2>2, <1>4, <1>5, <1>7 DEF Inside, Guarded
  <2> QED BY <2>1, <2>2, <1>1
<1>11. \A o \in Onces : Inside(p, o) <=> (o = w /\ Top(p).at \in Guarded) \/ (n = 2 /\ o = "default")
  <2>1. CASE n = 1 BY <2>1, <1>1, <1>6 DEF Inside, Guarded
  <2>2. CASE n = 2 BY <2>2, <1>1, <1>4, <1>7 DEF Inside, Guarded
  <2> QED BY <2>1, <2>2, <1>1
<1>12. \A q \in Goroutines : At(q, "loaded")' => At(q, "loaded")
  <2>1. \A q \in Goroutines \ {p} : At(q, "loaded")' => At(q, "loaded")
    BY <1>2 DEF At, Top
  <2>2. ~At(p, "loaded")'
    BY <1>1, <1>5, <1>6, <1>7 DEF At, Top
  <2> QED BY <2>1, <2>2
<1>13. n = 2 => w # "default"
  BY <1>4
<1>14. \A o \in Onces \ {w} : Inside(p, o)' <=> Inside(p, o)
  BY <1>10, <1>11
<1>15. (Inside(p, w)' <=> a \in Guarded) /\ (Inside(p, w) <=> Top(p).at \in Guarded)
  BY <1>1, <1>10, <1>11, <1>13
<1>16. \A q \in Goroutines : Nested(q)'
  BY <1>8, <1>9
<1> QED
  BY <1>9, <1>12, <1>14, <1>15, <1>16

\* A step of Do from point b to point a keeps the invariant if it leaves the
\* other Onces alone, changes its own only under its mutex, and the
\* goroutine then knows what the point says.
LEMMA DoStep ==
    ASSUME IInv, NEW p \in Goroutines, NEW b \in Points, At(p, b),
           NEW a \in Points \ {"loaded"}, Go(p, a),
           NEW w \in Onces, w = Which(p),
           done' \in [Onces -> BOOLEAN], holder' \in [Onces -> Goroutines \cup {NoOne}],
           result' \in [Onces -> {Unset} \cup Answers], runs' \in [Onces -> Nat], got' = got,
           \A o \in Onces \ {w} :
              done'[o] = done[o] /\ holder'[o] = holder[o] /\ result'[o] = result[o] /\ runs'[o] = runs[o],
           a \in Guarded => holder'[w] = p /\ (b \notin Guarded => holder[w] = NoOne),
           a \notin Guarded => holder'[w] = IF b \in Guarded THEN NoOne ELSE holder[w],
           b \notin Guarded => done'[w] = done[w] /\ result'[w] = result[w] /\ runs'[w] = runs[w],
           done[w] => done'[w] /\ result'[w] = result[w],
           Counted(w)', Knows([once |-> w, at |-> a])'
    PROVE  IInv'
<1>1. /\ stack[p] # <<>> /\ Top(p).at = b /\ Top(p) = stack[p][Len(stack[p])]
      /\ Which(p) = w /\ Which(p) = Top(p).once /\ Len(stack[p]) \in {1, 2}
  BY TopFacts DEF At, Which
<1>2. /\ stack' \in [Goroutines -> Seq(Frame)]
      /\ \A q \in Goroutines \ {p} : stack'[q] = stack[q]
      /\ Len(stack'[p]) = Len(stack[p])
      /\ \A k \in 1..Len(stack[p]) :
            stack'[p][k] = IF k = Len(stack[p]) THEN [once |-> w, at |-> a] ELSE stack[p][k]
  BY <1>1, GoFacts
<1>3. /\ \A q \in Goroutines : Nested(q)'
      /\ \A q \in Goroutines \ {p} : \A o \in Onces : Inside(q, o)' <=> Inside(q, o)
      /\ \A o \in Onces \ {w} : Inside(p, o)' <=> Inside(p, o)
      /\ Inside(p, w)' <=> a \in Guarded
      /\ Inside(p, w) <=> b \in Guarded
      /\ \A q \in Goroutines : At(q, "loaded")' => At(q, "loaded")
  BY <1>1, GoInside
<1>4. \A q \in Goroutines, o \in Onces : holder[o] = q <=> Inside(q, o)
  BY DEF IInv, HolderIsInside
<1>5. TypeOK'
  BY <1>2 DEF IInv, TypeOK, Frame
<1>6. HolderIsInside'
  <2> SUFFICES ASSUME NEW o \in Onces, NEW q \in Goroutines
               PROVE  holder'[o] = q <=> Inside(q, o)'
    BY DEF HolderIsInside
  <2>1. CASE o # w
    BY <2>1, <1>3, <1>4
  <2>2. CASE o = w /\ q = p
    BY <2>2, <1>3, <1>4, OnceAssumption
  <2>3. CASE o = w /\ q # p
    <3>1. Inside(q, w)' <=> holder[w] = q
      BY <2>3, <1>3, <1>4
    <3>2. b \in Guarded => holder[w] = p
      BY <1>3, <1>4
    <3> QED BY <2>3, <3>1, <3>2, OnceAssumption
  <2> QED BY <2>1, <2>2, <2>3
<1>7. \A o \in Onces : Counted(o)'
  BY DEF IInv, Counted
<1>8. \A o \in Onces : done[o] => done'[o] /\ result'[o] = result[o]
  OBVIOUS
<1>9. ASSUME NEW q \in Goroutines \ {p}, NEW k \in 1..Len(stack[q]) PROVE Knows(stack[q][k])'
  <2> DEFINE f == stack[q][k]
  <2>1. Knows(f)
    BY DEF IInv
  <2>6. f \in Frame
    BY StackFacts, ElementOfSeq
  <2>7. f.once \in Onces
    BY <2>6 DEF Frame
  <2>2. f' = f
    BY <1>2
  <2>3. CASE f.once # w
    BY <2>1, <2>2, <2>3, <2>7 DEF Knows
  <2>4. CASE f.once = w /\ b \notin Guarded
    BY <2>1, <2>2, <2>4, <2>7 DEF Knows
  <2>5. CASE f.once = w /\ b \in Guarded
    <3>1. holder[w] = p
      BY <2>5, <1>3, <1>4
    <3>2. ~Inside(q, w)
      BY <3>1, <1>4
    <3>3. f.at \notin Guarded
      BY <3>2, <2>5 DEF Inside, Guarded
    <3> QED
      BY <2>1, <2>2, <2>5, <3>3, <1>8 DEF Knows, Guarded
  <2> QED BY <2>3, <2>4, <2>5
<1>10. ASSUME NEW k \in 1..Len(stack[p]), k # Len(stack[p]) PROVE Knows(stack[p][k])'
  <2>1. k = 1 /\ Len(stack[p]) = 2
    <3>1. \A n \in {1, 2} : \A j \in 1..n : j # n => j = 1 /\ n = 2
      OBVIOUS
    <3> QED BY <3>1, <1>1, <1>10
  <2>2. stack[p][1] = [once |-> "default", at |-> "loaded"] /\ w = "load" /\ stack[p][1].once = "default"
    BY <2>1, <1>1, StackFacts DEF Nested
  <2>3. Knows(stack[p][1]) /\ stack'[p][1] = stack[p][1]
    BY <2>1, <1>2 DEF IInv
  <2> QED
    BY <2>1, <2>2, <2>3 DEF Knows, Onces
<1>11. \A q \in Goroutines : \A k \in 1..Len(stack'[q]) : Knows(stack[q][k])'
  <2>1. \A k \in 1..Len(stack[p]) : Knows(stack[p][k])'
    BY <1>2, <1>10
  <2> QED BY <2>1, <1>2, <1>9
<1>12. \A q \in Goroutines : At(q, "loaded")' => done'["load"]
  <2>1. "load" \in Onces BY DEF Onces
  <2> QED BY <2>1, <1>3, <1>8 DEF IInv
<1>13. \A q \in Goroutines, o \in Onces : Handed(q, o)'
  BY <1>8 DEF IInv, Handed
<1> QED
  BY <1>3, <1>5, <1>6, <1>7, <1>11, <1>12, <1>13 DEF IInv

-----------------------------------------------------------------------------
(* The steps. *)

\* The points of a Do call, and the Once it is of.
LEMMA AtFacts ==
    ASSUME IInv, NEW p \in Goroutines, NEW b, At(p, b)
    PROVE  /\ stack[p] # <<>>
           /\ Knows([once |-> Which(p), at |-> b])
           /\ Counted(Which(p))
           /\ Which(p) \in Onces
           /\ b \in Guarded => holder[Which(p)] = p
<1>1. stack[p] # <<>> /\ Top(p).at = b
  BY DEF At
<1>2. /\ Top(p) \in Frame /\ Which(p) \in Onces /\ Knows(Top(p)) /\ Top(p).once = Which(p)
      /\ Len(stack[p]) \in 1..Len(stack[p]) /\ Top(p) = stack[p][Len(stack[p])]
  BY <1>1, TopFacts DEF Which
<1>3. b \in Guarded => Inside(p, Which(p))
  BY <1>1, <1>2 DEF Inside, Guarded
<1>4. [once |-> Which(p), at |-> b] = Top(p)
  BY <1>1, <1>2 DEF Frame
<1> QED
  BY <1>1, <1>2, <1>3, <1>4 DEF IInv, HolderIsInside

\* Reading done without the mutex.
LEMMA FastPathStep ==
    ASSUME IInv, NEW p \in Goroutines, FastPath(p)
    PROVE  IInv'
<1>0. PICK w \in Onces : w = Which(p)
  BY AtFacts DEF FastPath
<1>1. PICK a \in {"return", "lock"} :
         a = (IF done[w] THEN "return" ELSE "lock") /\ Go(p, a) /\ At(p, "fast")
  BY <1>0 DEF FastPath
<1>2. UNCHANGED <<done, holder, result, runs, got>>
  BY DEF FastPath
<1>3. a \in Points \ {"loaded"} /\ a \notin Guarded /\ "fast" \in Points \ Guarded
  BY <1>1 DEF Points, Guarded
<1>4. Knows([once |-> w, at |-> a])'
  BY <1>1, <1>2 DEF Knows
<1>5. Counted(w)' /\ TypeOK
  BY <1>2 DEF IInv, Counted
<1> QED
  BY <1>0, <1>1, <1>2, <1>3, <1>4, <1>5, DoStep DEF TypeOK

\* Taking the mutex: what ran before it was taken has been marked done.
LEMMA LockStep ==
    ASSUME IInv, NEW p \in Goroutines, Lock(p)
    PROVE  IInv'
<1>0. PICK w \in Onces : w = Which(p)
  BY AtFacts DEF Lock
<1>1. /\ At(p, "lock") /\ Go(p, "check") /\ UNCHANGED <<done, result, runs, got>>
      /\ holder[w] = NoOne /\ holder' = [holder EXCEPT ![w] = p]
  BY <1>0 DEF Lock
<1>2. "check" \in Points \ {"loaded"} /\ "check" \in Guarded /\ "lock" \in Points \ Guarded
  BY DEF Points, Guarded
<1>3. Counted(w) /\ TypeOK
  BY DEF IInv
<1>4. Knows([once |-> w, at |-> "check"])'
  BY <1>1, <1>3 DEF Knows, Counted
<1>5. holder' \in [Onces -> Goroutines \cup {NoOne}] /\ holder'[w] = p
      /\ \A o \in Onces \ {w} : holder'[o] = holder[o]
  BY <1>1, <1>3 DEF TypeOK
<1>6. Counted(w)'
  BY <1>1, <1>3, <1>5, OnceAssumption DEF Counted
<1> QED
  BY <1>0, <1>1, <1>2, <1>3, <1>4, <1>5, <1>6, DoStep DEF TypeOK

\* Reading done again, under the mutex.
LEMMA CheckStep ==
    ASSUME IInv, NEW p \in Goroutines, Check(p)
    PROVE  IInv'
<1>0. PICK w \in Onces : w = Which(p)
  BY AtFacts DEF Check
<1>1. PICK a \in {"unlock", "body"} :
         a = (IF done[w] THEN "unlock" ELSE "body") /\ Go(p, a) /\ At(p, "check")
  BY <1>0 DEF Check
<1>2. UNCHANGED <<done, holder, result, runs, got>>
  BY DEF Check
<1>3. a \in Points \ {"loaded"} /\ a \in Guarded /\ "check" \in Points /\ "check" \in Guarded
  BY <1>1 DEF Points, Guarded
<1>4. Knows([once |-> w, at |-> "check"]) /\ holder[w] = p
  BY <1>0, <1>1, <1>3, AtFacts
<1>5. Knows([once |-> w, at |-> a])'
  BY <1>1, <1>2, <1>4 DEF Knows
<1>6. Counted(w)' /\ TypeOK
  BY <1>2 DEF IInv, Counted
<1> QED
  BY <1>0, <1>1, <1>2, <1>3, <1>4, <1>5, <1>6, DoStep DEF TypeOK

\* Marking done what has been run.
LEMMA MarkDoneStep ==
    ASSUME IInv, NEW p \in Goroutines, MarkDone(p)
    PROVE  IInv'
<1>0. PICK w \in Onces : w = Which(p)
  BY AtFacts DEF MarkDone
<1>1. /\ At(p, "store") /\ Go(p, "unlock") /\ UNCHANGED <<holder, result, runs, got>>
      /\ done' = [done EXCEPT ![w] = TRUE]
  BY <1>0 DEF MarkDone
<1>2. "unlock" \in Points \ {"loaded"} /\ "unlock" \in Guarded /\ "store" \in Points /\ "store" \in Guarded
  BY DEF Points, Guarded
<1>3. Counted(w) /\ TypeOK
  BY DEF IInv
<1>4. Knows([once |-> w, at |-> "store"]) /\ holder[w] = p
  BY <1>0, <1>1, <1>2, AtFacts
<1>5. done' \in [Onces -> BOOLEAN] /\ done'[w] /\ \A o \in Onces \ {w} : done'[o] = done[o]
  BY <1>1, <1>3 DEF TypeOK
<1>6. Knows([once |-> w, at |-> "unlock"])'
  BY <1>5 DEF Knows
<1>7. Counted(w)'
  BY <1>1, <1>3, <1>4, <1>5 DEF Counted, Knows
<1> QED
  BY <1>0, <1>1, <1>2, <1>3, <1>4, <1>5, <1>6, <1>7, DoStep DEF TypeOK

\* Giving the mutex back.
LEMMA UnlockStep ==
    ASSUME IInv, NEW p \in Goroutines, Unlock(p)
    PROVE  IInv'
<1>0. PICK w \in Onces : w = Which(p)
  BY AtFacts DEF Unlock
<1>1. /\ At(p, "unlock") /\ Go(p, "return") /\ UNCHANGED <<done, result, runs, got>>
      /\ holder' = [holder EXCEPT ![w] = NoOne]
  BY <1>0 DEF Unlock
<1>2. "return" \in Points \ {"loaded"} /\ "return" \notin Guarded /\ "unlock" \in Points /\ "unlock" \in Guarded
  BY DEF Points, Guarded
<1>3. Counted(w) /\ TypeOK
  BY DEF IInv
<1>4. Knows([once |-> w, at |-> "unlock"])
  BY <1>0, <1>1, AtFacts
<1>5. /\ holder' \in [Onces -> Goroutines \cup {NoOne}] /\ holder'[w] = NoOne
      /\ \A o \in Onces \ {w} : holder'[o] = holder[o]
  BY <1>1, <1>3 DEF TypeOK
<1>6. Knows([once |-> w, at |-> "return"])'
  BY <1>1, <1>4 DEF Knows
<1>7. Counted(w)'
  BY <1>1, <1>3, <1>4 DEF Counted, Knows
<1> QED
  BY <1>0, <1>1, <1>2, <1>3, <1>5, <1>6, <1>7, DoStep DEF TypeOK

\* Running the function of a Once.
LEMMA SetsStep ==
    ASSUME IInv, NEW p \in Goroutines, NEW w \in Onces, w = Which(p),
           NEW b \in {"body", "loaded"}, At(p, b), NEW r \in Answers, Sets(p, w, r)
    PROVE  IInv' /\ result[w] = Unset /\ UNCHANGED got
           /\ result' = [result EXCEPT ![w] = r]
<1>1. /\ Go(p, "store") /\ UNCHANGED <<done, holder, got>>
      /\ result' = [result EXCEPT ![w] = r] /\ runs' = [runs EXCEPT ![w] = runs[w] + 1]
  BY DEF Sets
<1>2. "store" \in Points \ {"loaded"} /\ "store" \in Guarded /\ b \in Points /\ b \in Guarded
  BY DEF Points, Guarded
<1>3. Counted(w) /\ TypeOK
  BY DEF IInv
<1>4. ~done[w] /\ runs[w] = 0 /\ holder[w] = p
  <2>1. Knows([once |-> w, at |-> b]) /\ holder[w] = p
    BY <1>2, AtFacts
  <2> QED BY <2>1 DEF Knows
<1>5. /\ result' \in [Onces -> {Unset} \cup Answers] /\ result'[w] = r
      /\ \A o \in Onces \ {w} : result'[o] = result[o]
  BY <1>1, <1>3 DEF TypeOK
<1>6. /\ runs' \in [Onces -> Nat] /\ runs'[w] = 1
      /\ \A o \in Onces \ {w} : runs'[o] = runs[o]
  BY <1>1, <1>3, <1>4 DEF TypeOK
<1>7. Knows([once |-> w, at |-> "store"])'
  BY <1>6 DEF Knows
<1>8. Counted(w)'
  BY <1>1, <1>4, <1>5, <1>6, OnceAssumption DEF Counted
<1>9. result[w] = Unset
  BY <1>3, <1>4 DEF Counted
<1>10. IInv'
  BY <1>1, <1>2, <1>3, <1>4, <1>5, <1>6, <1>7, <1>8, DoStep DEF TypeOK
<1> QED
  BY <1>1, <1>9, <1>10

\* Load's function touches neither Default's result nor an answer.
LEMMA LoadGrammarStep ==
    ASSUME IInv, NEW p \in Goroutines, LoadGrammar(p)
    PROVE  IInv' /\ UNCHANGED <<result["default"], got>>
<1>1. PICK r \in Answers : At(p, "body") /\ Which(p) = "load" /\ Sets(p, "load", r)
  BY DEF LoadGrammar, Answers
<1>2. IInv' /\ UNCHANGED got /\ result' = [result EXCEPT !["load"] = r]
  BY <1>1, SetsStep DEF Onces
<1> QED
  BY <1>2 DEF IInv, TypeOK, Onces

\* Nor does keywords' function.
LEMMA BuildKeywordsStep ==
    ASSUME IInv, NEW p \in Goroutines, BuildKeywords(p)
    PROVE  IInv' /\ UNCHANGED <<result["default"], got>>
<1>1. PICK r \in Answers : At(p, "body") /\ Which(p) = "keyword" /\ Sets(p, "keyword", r)
  BY DEF BuildKeywords, Answers
<1>2. IInv' /\ UNCHANGED got /\ result' = [result EXCEPT !["keyword"] = r]
  BY <1>1, SetsStep DEF Onces
<1> QED
  BY <1>2 DEF IInv, TypeOK, Onces

\* Default's function sets its result, once.
LEMMA CompileStep ==
    ASSUME IInv, NEW p \in Goroutines, Compile(p)
    PROVE  IInv' /\ UNCHANGED got /\ result["default"] = Unset /\ result'["default"] \in Answers
<1>1. PICK r \in Answers : At(p, "loaded") /\ Sets(p, "default", r)
  BY DEF Compile, Answers
<1>2. Which(p) = "default"
  <2>1. /\ Len(stack[p]) \in 1..Len(stack[p]) /\ Top(p) = stack[p][Len(stack[p])]
        /\ Top(p).at = "loaded" /\ Which(p) = Top(p).once
    BY <1>1, TopFacts DEF At, Which
  <2> QED BY <2>1, StackFacts DEF Nested
<1>3. IInv' /\ UNCHANGED got /\ result["default"] = Unset /\ result' = [result EXCEPT !["default"] = r]
  BY <1>1, <1>2, SetsStep DEF Onces
<1> QED
  BY <1>3 DEF IInv, TypeOK, Onces

-----------------------------------------------------------------------------
(* Calls and returns. *)

\* A call or a return keeps the invariant if it enters and leaves no mutex.
LEMMA RestackStep ==
    ASSUME IInv, NEW p \in Goroutines, NEW s \in Seq(Frame), stack' = [stack EXCEPT ![p] = s],
           UNCHANGED <<done, holder, result, runs>>,
           Nested(p)', \A o \in Onces : Inside(p, o)' <=> Inside(p, o),
           \A k \in 1..Len(s) : Knows(s[k]),
           At(p, "loaded")' => done["load"],
           got' \in [Goroutines -> [Onces -> {Absent, Unset} \cup Answers]],
           \A q \in Goroutines, o \in Onces : Handed(q, o)'
    PROVE  IInv'
<1>1. stack \in [Goroutines -> Seq(Frame)]
  BY StackFacts
<1>2. stack' \in [Goroutines -> Seq(Frame)] /\ stack'[p] = s /\ \A q \in Goroutines \ {p} : stack'[q] = stack[q]
  BY <1>1
<1>3. TypeOK'
  BY <1>2 DEF IInv, TypeOK, Frame
<1>4. \A q \in Goroutines : Nested(q)'
  <2>1. ASSUME NEW q \in Goroutines \ {p} PROVE Nested(q)'
    <3>1. Nested(q) /\ stack'[q] = stack[q]
      BY <1>2 DEF IInv
    <3> QED BY <3>1 DEF Nested
  <2> QED BY <2>1
<1>5. HolderIsInside'
  <2>1. ASSUME NEW q \in Goroutines \ {p}, NEW o \in Onces PROVE Inside(q, o)' <=> Inside(q, o)
    <3>1. stack'[q] = stack[q]
      BY <1>2
    <3> QED BY <3>1 DEF Inside
  <2> QED BY <2>1 DEF IInv, HolderIsInside
<1>6. \A o \in Onces : Counted(o)'
  BY DEF IInv, Counted
<1>7. \A q \in Goroutines : \A k \in 1..Len(stack'[q]) : Knows(stack[q][k])'
  <2>1. \A q \in Goroutines \ {p} : \A k \in 1..Len(stack'[q]) : Knows(stack[q][k])'
    BY <1>2 DEF IInv, Knows
  <2>2. \A k \in 1..Len(stack'[p]) : Knows(stack[p][k])'
    BY <1>2 DEF Knows
  <2> QED BY <2>1, <2>2
<1>8. \A q \in Goroutines : At(q, "loaded")' => done'["load"]
  <2>1. \A q \in Goroutines \ {p} : At(q, "loaded")' => At(q, "loaded")
    BY <1>2 DEF At, Top
  <2> QED BY <2>1 DEF IInv
<1> QED
  BY <1>3, <1>4, <1>5, <1>6, <1>7, <1>8 DEF IInv

\* Default calls Load, under its own mutex.
LEMMA CallLoadStep ==
    ASSUME IInv, NEW p \in Goroutines, CallLoad(p)
    PROVE  IInv' /\ UNCHANGED <<result, got>>
<1> DEFINE f == [once |-> "default", at |-> "loaded"]
           c == [once |-> "load", at |-> "fast"]
<1>1. /\ stack[p] # <<>> /\ Top(p).at = "body" /\ Which(p) = "default" /\ At(p, "body")
      /\ UNCHANGED <<done, holder, result, runs, got>>
  BY DEF CallLoad, At
<1>2. Len(stack[p]) = 1 /\ Top(p) = stack[p][1] /\ Top(p).once = "default"
  BY <1>1, TopFacts, StackFacts DEF Nested, Which
<1>3. stack' = [stack EXCEPT ![p] = [stack[p] EXCEPT ![1] = f] \o <<c>>]
  BY <1>2 DEF CallLoad, Call
<1>4. f \in Frame /\ c \in Frame /\ 1 \in 1..Len(stack[p]) /\ stack[p] \in Seq(Frame)
  BY <1>2, StackFacts DEF Frame, Onces, Points
<1> HIDE DEF f, c
<1>5. /\ [stack[p] EXCEPT ![1] = f] \in Seq(Frame) /\ Len([stack[p] EXCEPT ![1] = f]) = 1
      /\ [stack[p] EXCEPT ![1] = f][1] = f
  BY <1>2, <1>4, ExceptSeq
<1>6. PICK s \in Seq(Frame) : s = [stack[p] EXCEPT ![1] = f] \o <<c>>
  <2>1. <<c>> \in Seq(Frame)
    BY <1>4
  <2>2. [stack[p] EXCEPT ![1] = f] \o <<c>> \in Seq(Frame)
    BY <2>1, <1>5, ConcatProperties
  <2> QED BY <2>2
<1>7. Len(s) = 2 /\ s[1] = f /\ s[2] = c
  <2>1. <<c>> \in Seq(Frame) /\ Len(<<c>>) = 1 /\ <<c>>[1] = c
    BY <1>4
  <2> QED BY <2>1, <1>5, <1>6, ConcatProperties
<1>8. stack'[p] = s
  BY <1>3, <1>6, StackFacts
<1>9. /\ f.once = "default" /\ f.at = "loaded" /\ c.once = "load" /\ c.at = "fast"
      /\ f = [once |-> "default", at |-> "loaded"]
      /\ 1..Len(stack'[p]) = {1, 2} /\ 1..Len(s) = {1, 2} /\ 1..Len(stack[p]) = {1}
  <2>1. 1..1 = {1} /\ 1..2 = {1, 2}
    OBVIOUS
  <2>2. 1..Len(stack'[p]) = {1, 2} /\ 1..Len(s) = {1, 2} /\ 1..Len(stack[p]) = {1}
    BY <2>1, <1>2, <1>7, <1>8
  <2> QED BY <2>2 DEF f, c
<1>10. Nested(p)'
  BY <1>7, <1>8, <1>9 DEF Nested
<1>11. \A o \in Onces : Inside(p, o)' <=> Inside(p, o)
  BY <1>1, <1>2, <1>7, <1>8, <1>9 DEF Inside
<1>12. \A k \in 1..Len(s) : Knows(s[k])
  <2>1. ~done["default"] /\ runs["default"] = 0
    BY <1>1, AtFacts DEF Knows
  <2> QED BY <2>1, <1>7, <1>9 DEF Knows
<1>13. ~At(p, "loaded")'
  BY <1>7, <1>8, <1>9 DEF At, Top
<1>14. /\ got' \in [Goroutines -> [Onces -> {Absent, Unset} \cup Answers]]
       /\ \A q \in Goroutines, o \in Onces : Handed(q, o)'
  BY <1>1 DEF IInv, TypeOK, Handed
<1>15. stack' = [stack EXCEPT ![p] = s]
  BY <1>3, <1>6
<1> QED
  BY <1>1, <1>10, <1>11, <1>12, <1>13, <1>14, <1>15, RestackStep

\* Load returns to Default, which then has what was loaded.
LEMMA ReturnToDefaultStep ==
    ASSUME IInv, NEW p \in Goroutines, ReturnToDefault(p)
    PROVE  IInv' /\ UNCHANGED <<result, got>>
<1>1. /\ stack[p] # <<>> /\ Top(p).at = "return" /\ At(p, "return") /\ Len(stack[p]) > 1
      /\ UNCHANGED <<done, holder, result, runs, got>>
  BY DEF ReturnToDefault, At
<1>2. Len(stack[p]) = 2 /\ Top(p) = stack[p][2] /\ stack[p] \in Seq(Frame)
  BY <1>1, TopFacts, StackFacts
<1>3. stack[p][1] = [once |-> "default", at |-> "loaded"] /\ stack[p][2].once = "load"
  BY <1>2, StackFacts DEF Nested
<1>4. stack' = [stack EXCEPT ![p] = SubSeq(stack[p], 1, 1)]
  BY <1>2 DEF ReturnToDefault
<1>5. \A i \in 1..1 : stack[p][i] \in Frame
  BY <1>2, ElementOfSeq
<1>16. /\ SubSeq(stack[p], 1, 1) \in Seq(Frame) /\ Len(SubSeq(stack[p], 1, 1)) = 1
       /\ SubSeq(stack[p], 1, 1)[1] = stack[p][1]
  <2> HIDE DEF Frame
  <2>1. \A S : \A m \in Int, n \in Int : (\A i \in m..n : stack[p][i] \in S) =>
            /\ SubSeq(stack[p], m, n) \in Seq(S)
            /\ Len(SubSeq(stack[p], m, n)) = IF m <= n THEN n - m + 1 ELSE 0
            /\ \A i \in 1..n - m + 1 : SubSeq(stack[p], m, n)[i] = stack[p][m + i - 1]
    BY SubSeqProperties
  <2> QED BY <2>1, <1>5
<1>6. PICK s \in Seq(Frame) : s = SubSeq(stack[p], 1, 1)
  BY <1>16
<1>7. Len(s) = 1 /\ s[1] = stack[p][1]
  BY <1>6, <1>16
<1>8. stack'[p] = s
  BY <1>4, <1>6, StackFacts
<1>9. /\ s[1].once = "default" /\ s[1].at = "loaded"
      /\ 1..Len(stack'[p]) = {1} /\ 1..Len(s) = {1} /\ 1..Len(stack[p]) = {1, 2}
  <2>1. 1..1 = {1} /\ 1..2 = {1, 2}
    OBVIOUS
  <2>2. 1..Len(stack'[p]) = {1} /\ 1..Len(s) = {1} /\ 1..Len(stack[p]) = {1, 2}
    BY <2>1, <1>2, <1>7, <1>8
  <2> QED BY <2>2, <1>3, <1>7
<1>10. Nested(p)'
  BY <1>7, <1>8, <1>9 DEF Nested
<1>11. \A o \in Onces : Inside(p, o)' <=> Inside(p, o)
  BY <1>1, <1>2, <1>7, <1>8, <1>9 DEF Inside
<1>12. \A k \in 1..Len(s) : Knows(s[k])
  BY <1>2, <1>7, <1>9 DEF IInv
<1>13. done["load"]
  <2>1. Which(p) = "load"
    BY <1>2, <1>3 DEF Which
  <2> QED BY <1>1, <2>1, AtFacts DEF Knows
<1>14. /\ got' \in [Goroutines -> [Onces -> {Absent, Unset} \cup Answers]]
       /\ \A q \in Goroutines, o \in Onces : Handed(q, o)'
  BY <1>1 DEF IInv, TypeOK, Handed
<1>15. stack' = [stack EXCEPT ![p] = s]
  BY <1>4, <1>6
<1> QED
  BY <1>1, <1>10, <1>11, <1>12, <1>13, <1>14, <1>15, RestackStep

\* What a caller gets is what was built.
LEMMA AnswerStep ==
    ASSUME IInv, NEW p \in Goroutines, NEW o \in Onces, Answer(p, o),
           NEW s \in {<<>>, <<Call("keyword")>>}, stack' = [stack EXCEPT ![p] = s],
           UNCHANGED <<done, holder, result, runs>>
    PROVE  /\ IInv' /\ result[o] \in Answers
           /\ got[p][o] # Absent => got[p][o] = result[o]
           /\ \A q \in Goroutines, w \in Onces :
                 got'[q][w] = IF q = p /\ w = o THEN result[o] ELSE got[q][w]
<1>1. /\ stack[p] # <<>> /\ Top(p).at = "return" /\ At(p, "return") /\ Len(stack[p]) = 1 /\ Which(p) = o
      /\ got' = [got EXCEPT ![p][o] = result[o]] /\ Top(p) = stack[p][1]
  BY DEF Answer, At, Top
<1>2. done[o] /\ result[o] \in Answers
  BY <1>1, AtFacts DEF Knows, Counted
<1>3. /\ got' \in [Goroutines -> [Onces -> {Absent, Unset} \cup Answers]]
      /\ \A q \in Goroutines, w \in Onces :
            got'[q][w] = IF q = p /\ w = o THEN result[o] ELSE got[q][w]
  <2>1. got \in [Goroutines -> [Onces -> {Absent, Unset} \cup Answers]]
    BY DEF IInv, TypeOK
  <2> QED BY <2>1, <1>1, <1>2
<1>4. \A q \in Goroutines, w \in Onces : Handed(q, w)'
  BY <1>2, <1>3 DEF IInv, Handed
<1>5. s \in Seq(Frame) /\ Len(s) \in {0, 1} /\ (Len(s) = 1 => s[1].at = "fast")
  <2>1. CASE s = <<>>
    BY <2>1
  <2>2. CASE s = <<[once |-> "keyword", at |-> "fast"]>>
    BY <2>2 DEF Frame, Onces, Points
  <2> QED BY <2>1, <2>2 DEF Call
<1>6. stack'[p] = s
  BY StackFacts
<1>7. \A k \in 1..Len(s) : k = 1 /\ Len(s) = 1
  <2>1. \A n \in {0, 1} : \A k \in 1..n : k = 1 /\ n = 1
    OBVIOUS
  <2> QED BY <2>1, <1>5
<1>8. Nested(p)'
  BY <1>5, <1>6, <1>7 DEF Nested
<1>9. \A w \in Onces : Inside(p, w)' <=> Inside(p, w)
  <2>1. \A w \in Onces : ~Inside(p, w)'
    BY <1>5, <1>6, <1>7 DEF Inside
  <2>2. 1..1 = {1}
    OBVIOUS
  <2>3. \A w \in Onces : ~Inside(p, w)
    BY <2>2, <1>1 DEF Inside
  <2> QED BY <2>1, <2>3
<1>10. \A k \in 1..Len(s) : Knows(s[k])
  BY <1>5, <1>7 DEF Knows
<1>11. ~At(p, "loaded")'
  <2>1. s # <<>> => Len(s) = 1
    BY <1>5, EmptySeq
  <2> QED BY <2>1, <1>5, <1>6 DEF At, Top
<1>12. got[p][o] # Absent => got[p][o] = result[o]
  BY DEF IInv, Handed
<1>13. IInv'
  BY <1>3, <1>4, <1>5, <1>8, <1>9, <1>10, <1>11, RestackStep
<1> QED
  BY <1>2, <1>3, <1>12, <1>13

\* Default returns to its caller.
LEMMA DefaultReturnsStep ==
    ASSUME IInv, NEW p \in Goroutines, DefaultReturns(p)
    PROVE  /\ IInv' /\ UNCHANGED result /\ result["default"] \in Answers
           /\ got[p]["default"] # Absent => got[p]["default"] = result["default"]
           /\ \A q \in Goroutines, w \in Onces :
                 got'[q][w] = IF q = p /\ w = "default" THEN result["default"] ELSE got[q][w]
<1>1. PICK s \in {<<>>, <<Call("keyword")>>} : stack' = [stack EXCEPT ![p] = s]
  BY DEF DefaultReturns
<1>2. Answer(p, "default") /\ "default" \in Onces /\ UNCHANGED <<done, holder, result, runs>>
  BY DEF DefaultReturns, Onces
<1> QED
  BY <1>1, <1>2, AnswerStep

\* So do Load and keywords.
LEMMA OthersReturnStep ==
    ASSUME IInv, NEW p \in Goroutines, OthersReturn(p)
    PROVE  IInv' /\ UNCHANGED result /\ \A q \in Goroutines : got'[q]["default"] = got[q]["default"]
<1>1. PICK o \in {"load", "keyword"} : Answer(p, o)
  BY DEF OthersReturn
<1>2. stack' = [stack EXCEPT ![p] = <<>>] /\ UNCHANGED <<done, holder, result, runs>>
  BY DEF OthersReturn
<1>3. o \in Onces /\ "default" \in Onces /\ o # "default" /\ <<>> \in {<<>>, <<Call("keyword")>>}
  BY DEF Onces
<1>4. /\ IInv'
      /\ \A q \in Goroutines, w \in Onces : got'[q][w] = IF q = p /\ w = o THEN result[o] ELSE got[q][w]
  BY <1>1, <1>2, <1>3, AnswerStep
<1> QED
  BY <1>2, <1>3, <1>4

-----------------------------------------------------------------------------
(* The abstract engine. *)

\* A step that neither decides nor replies is a stutter.
LEMMA SameStutters ==
    ASSUME result'["default"] = result["default"],
           \A p \in Goroutines : got'[p]["default"] = got[p]["default"]
    PROVE  UNCHANGED <<result["default"],
                       [p \in Parsers |-> IF got[p]["default"] = Absent THEN Unset ELSE got[p]["default"]]>>
BY DEF Goroutines

\* Compile decides.
LEMMA CompileDecides ==
    ASSUME IInv, NEW p \in Goroutines, Compile(p)
    PROVE  DefaultSpec!Decide
BY CompileStep DEF DefaultSpec!Decide

\* A return from Default replies, unless the goroutine had its answer or
\* does not count.
LEMMA ReturnReplies ==
    ASSUME IInv, NEW p \in Goroutines, DefaultReturns(p)
    PROVE  \/ \E q \in Parsers : DefaultSpec!Reply(q)
           \/ UNCHANGED <<result["default"],
                           [q \in Parsers |-> IF got[q]["default"] = Absent THEN Unset ELSE got[q]["default"]]>>
<1> DEFINE M(g) == IF g = Absent THEN Unset ELSE g
           answer == [q \in Parsers |-> IF got[q]["default"] = Absent THEN Unset ELSE got[q]["default"]]
<1>1. /\ UNCHANGED result /\ result["default"] \in Answers
      /\ got[p]["default"] # Absent => got[p]["default"] = result["default"]
      /\ \A q \in Goroutines : got'[q]["default"] = IF q = p THEN result["default"] ELSE got[q]["default"]
  BY DefaultReturnsStep DEF Onces
<1>2. Parsers \subseteq Goroutines /\ result["default"] # Absent /\ result["default"] # Unset
  BY <1>1, Values DEF Goroutines
<1>3. CASE p \in Parsers /\ got[p]["default"] = Absent
  <2>1. answer[p] = Unset /\ answer' = [answer EXCEPT ![p] = result["default"]]
    BY <1>1, <1>2, <1>3
  <2>2. DefaultSpec!Reply(p)
    BY <2>1, <1>1, <1>2 DEF DefaultSpec!Reply
  <2> QED BY <2>2, <1>3
<1>4. CASE p \notin Parsers \/ got[p]["default"] # Absent
  <2>1. answer' = answer
    BY <1>1, <1>2, <1>4
  <2> QED BY <2>1, <1>1
<1> QED BY <1>3, <1>4

-----------------------------------------------------------------------------
\* Nobody has started.
LEMMA InitStep == Init => IInv /\ DefaultSpec!Init
<1> SUFFICES ASSUME Init PROVE IInv /\ DefaultSpec!Init
  OBVIOUS
<1>1. ASSUME NEW p \in Goroutines
      PROVE  /\ Len(stack[p]) = 1 /\ 1..Len(stack[p]) = {1} /\ stack[p] \in Seq(Frame)
             /\ stack[p][1].at = "fast" /\ stack[p] # <<>> /\ Top(p) = stack[p][1]
  <2>1. PICK o \in Onces : stack[p] = <<[once |-> o, at |-> "fast"]>>
    BY DEF Init, Call, Onces
  <2>2. 1..1 = {1} /\ [once |-> o, at |-> "fast"] \in Frame
    BY DEF Frame, Points
  <2> QED BY <2>1, <2>2 DEF Top
<1>2. stack \in [Goroutines -> Seq(Frame)]
  <2>1. DOMAIN stack = Goroutines /\ stack = [p \in Goroutines |-> stack[p]]
    BY DEF Init
  <2> QED BY <2>1, <1>1
<1>3. TypeOK
  BY <1>2 DEF Init, TypeOK, Frame
<1>4. \A p \in Goroutines : Nested(p)
  BY <1>1 DEF Nested
<1>5. HolderIsInside
  BY <1>1, OnceAssumption DEF Init, HolderIsInside, Inside
<1>6. \A o \in Onces : Counted(o)
  BY DEF Init, Counted
<1>7. \A p \in Goroutines : \A k \in 1..Len(stack[p]) : Knows(stack[p][k])
  BY <1>1 DEF Knows
<1>8. \A p \in Goroutines : At(p, "loaded") => done["load"]
  BY <1>1 DEF At
<1>9. \A p \in Goroutines, o \in Onces : Handed(p, o)
  BY DEF Init, Handed
<1>10. DefaultSpec!Init
  BY DEF Init, DefaultSpec!Init, Onces, Goroutines
<1> QED
  BY <1>3, <1>4, <1>5, <1>6, <1>7, <1>8, <1>9, <1>10 DEF IInv

\* Stuttering.
LEMMA UnchangedIInv ==
    ASSUME IInv, UNCHANGED vars
    PROVE  IInv'
<1>1. UNCHANGED done /\ UNCHANGED holder /\ UNCHANGED result /\ UNCHANGED runs
      /\ UNCHANGED stack /\ UNCHANGED got
  BY DEF vars
<1>2. TypeOK'
  BY <1>1 DEF IInv, TypeOK
<1>3. \A p \in Goroutines : Nested(p)'
  BY <1>1 DEF IInv, Nested
<1>4. HolderIsInside'
  BY <1>1 DEF IInv, HolderIsInside, Inside
<1>5. \A o \in Onces : Counted(o)'
  BY <1>1 DEF IInv, Counted
<1>6. \A p \in Goroutines : \A k \in 1..Len(stack'[p]) : Knows(stack[p][k])'
  BY <1>1 DEF IInv, Knows
<1>7. \A p \in Goroutines : At(p, "loaded")' => done'["load"]
  BY <1>1 DEF IInv, At, Top
<1>8. \A p \in Goroutines, o \in Onces : Handed(p, o)'
  BY <1>1 DEF IInv, Handed
<1> QED
  BY <1>2, <1>3, <1>4, <1>5, <1>6, <1>7, <1>8 DEF IInv

\* Every step keeps the invariant and is a step or a stutter of SharedEngine.
LEMMA NextStep ==
    ASSUME IInv, [Next]_vars
    PROVE  IInv' /\ [DefaultSpec!Next]_<<result["default"],
               [p \in Parsers |-> IF got[p]["default"] = Absent THEN Unset ELSE got[p]["default"]]>>
<1> DEFINE Stutter == UNCHANGED <<result["default"],
               [p \in Parsers |-> IF got[p]["default"] = Absent THEN Unset ELSE got[p]["default"]]>>
<1>1. ASSUME UNCHANGED vars PROVE IInv' /\ Stutter
  BY <1>1, UnchangedIInv, SameStutters DEF vars
<1>2. ASSUME NEW p \in Goroutines, Run(p) PROVE IInv' /\ (Stutter \/ DefaultSpec!Next)
  <2>1. CASE FastPath(p)
    BY <2>1, FastPathStep, SameStutters DEF FastPath
  <2>2. CASE Lock(p)
    BY <2>2, LockStep, SameStutters DEF Lock
  <2>3. CASE Check(p)
    BY <2>3, CheckStep, SameStutters DEF Check
  <2>4. CASE MarkDone(p)
    BY <2>4, MarkDoneStep, SameStutters DEF MarkDone
  <2>5. CASE Unlock(p)
    BY <2>5, UnlockStep, SameStutters DEF Unlock
  <2>6. CASE LoadGrammar(p)
    BY <2>6, LoadGrammarStep, SameStutters
  <2>7. CASE BuildKeywords(p)
    BY <2>7, BuildKeywordsStep, SameStutters
  <2>8. CASE CallLoad(p)
    BY <2>8, CallLoadStep, SameStutters
  <2>9. CASE Compile(p)
    BY <2>9, CompileStep, CompileDecides DEF DefaultSpec!Next
  <2>10. CASE ReturnToDefault(p)
    BY <2>10, ReturnToDefaultStep, SameStutters
  <2>11. CASE DefaultReturns(p)
    BY <2>11, DefaultReturnsStep, ReturnReplies DEF DefaultSpec!Next
  <2>12. CASE OthersReturn(p)
    BY <2>12, OthersReturnStep, SameStutters
  <2> QED
    BY <1>2, <2>1, <2>2, <2>3, <2>4, <2>5, <2>6, <2>7, <2>8, <2>9, <2>10, <2>11, <2>12 DEF Run
<1> QED
  BY <1>1, <1>2 DEF Next

-----------------------------------------------------------------------------
\* Whatever goroutines parse and load first, in whatever order they run.
THEOREM InductiveInvariant == Spec => []IInv
<1>1. IInv /\ [Next]_vars => IInv'
  BY NextStep
<1> QED
  BY <1>1, InitStep, PTL DEF Spec

\* The types, and the mutex of each Once is held exactly by the goroutine
\* inside it.
THEOREM MutexesNest == Spec => [](TypeOK /\ HolderIsInside)
<1>1. IInv => TypeOK /\ HolderIsInside
  BY DEF IInv
<1> QED
  BY <1>1, InductiveInvariant, PTL

\* The grammar is loaded, compiled and the keyword table built at most once.
THEOREM RunsOnce == Spec => []BuiltOnce
<1>1. IInv => BuiltOnce
  BY DEF IInv, BuiltOnce, Counted
<1> QED
  BY <1>1, InductiveInvariant, PTL

\* Nobody gets what is not built yet.
THEOREM NobodyGetsUnset == Spec => []NothingUnset
<1>1. IInv => NothingUnset
  BY DEF IInv, NothingUnset, Handed, Counted, Answers
<1> QED
  BY <1>1, InductiveInvariant, PTL

\* Together, what the callers rely on.
THEOREM EngineInitialised == Spec => []Initialised
<1> QED
  BY MutexesNest, RunsOnce, NobodyGetsUnset, PTL DEF Initialised

\* Default implements SharedEngine: one answer, decided once, for all.
THEOREM ImplementsSharedEngine == Spec => OneAnswerForAll
<1>1. Init => DefaultSpec!Init
  BY InitStep
<1>2. IInv /\ [Next]_vars => [DefaultSpec!Next]_<<result["default"],
               [p \in Parsers |-> IF got[p]["default"] = Absent THEN Unset ELSE got[p]["default"]]>>
  BY NextStep
<1> QED
  BY <1>1, <1>2, InductiveInvariant, PTL DEF Spec, DefaultSpec!Spec, OneAnswerForAll
=============================================================================
