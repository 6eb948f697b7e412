----------------------- MODULE TransformContextProofs -----------------------
(***************************************************************************)
(* Proofs about transformContext, for walks of every depth and length: the *)
(* window scopes follow the nesting of SELECTs, parameters are numbered by *)
(* their first use, and no pivot over data comes after a parameter.        *)
(***************************************************************************)
EXTENDS TransformContext, FiniteSetTheorems, SequenceTheorems, TLAPS

-----------------------------------------------------------------------------
(* Lemmas about stacks. *)

\* What a push does to a stack.
LEMMA Pushed ==
    ASSUME NEW S, NEW s \in Seq(S), NEW e \in S
    PROVE  /\ Append(s, e) \in Seq(S)
           /\ Len(Append(s, e)) = Len(s) + 1
           /\ Append(s, e)[Len(s) + 1] = e
           /\ \A k \in 1..Len(s) : Append(s, e)[k] = s[k]
OBVIOUS

\* What a pop does to a stack.
LEMMA Popped ==
    ASSUME NEW S, NEW s \in Seq(S), s # <<>>
    PROVE  /\ Pop(s) \in Seq(S)
           /\ Len(s) \in Nat \ {0}
           /\ Len(Pop(s)) = Len(s) - 1
           /\ \A k \in 1..(Len(s) - 1) : Pop(s)[k] = s[k]
<1>1. PICK n \in Nat : Len(s) = n + 1
  <2>1. Len(s) \in Nat /\ Len(s) # 0
    BY EmptySeq
  <2>2. QED
    BY <2>1
<1>2. /\ SubSeq(s, 1, n) \in Seq(S) /\ Len(SubSeq(s, 1, n)) = n
      /\ \A k \in 1..n : SubSeq(s, 1, n)[k] = s[k]
  BY <1>1
<1>3. Len(s) - 1 = n /\ Len(s) \in Nat \ {0}
  BY <1>1
<1>4. QED
  BY <1>2, <1>3 DEF Pop

\* What a replacement of the top does to a stack.
LEMMA Replaced ==
    ASSUME NEW S, NEW s \in Seq(S), s # <<>>, NEW e \in S
    PROVE  /\ Append(Pop(s), e) \in Seq(S)
           /\ Len(Append(Pop(s), e)) = Len(s)
           /\ Append(Pop(s), e)[Len(s)] = e
           /\ \A k \in 1..(Len(s) - 1) : Append(Pop(s), e)[k] = s[k]
<1>1. /\ Pop(s) \in Seq(S) /\ Len(s) \in Nat \ {0} /\ Len(Pop(s)) = Len(s) - 1
      /\ \A k \in 1..(Len(s) - 1) : Pop(s)[k] = s[k]
  BY Popped
<1>2. /\ Append(Pop(s), e) \in Seq(S)
      /\ Len(Append(Pop(s), e)) = (Len(s) - 1) + 1
      /\ Append(Pop(s), e)[(Len(s) - 1) + 1] = e
      /\ \A k \in 1..(Len(s) - 1) : Append(Pop(s), e)[k] = Pop(s)[k]
  BY <1>1, Pushed
<1>3. (Len(s) - 1) + 1 = Len(s)
  BY <1>1
<1>4. QED
  BY <1>1, <1>2, <1>3

-----------------------------------------------------------------------------
(* The constructs of a stack, and how many of a kind there are.            *)

\* A construct: a statement, or one of a query's or an expression's parts.
Parts == {"windowClause", "definition", "select", "over", "pivotSource", "pivotColumns", "pivotUsing"}
Frame == [what : Statements \cup Parts, name : WindowNames \cup Statements \cup {""}]

At(s, what)    == {k \in 1..Len(s) : s[k].what \in what}
Count(s, what) == Cardinality(At(s, what))

\* A construct is one.
LEMMA Constructs ==
    ASSUME NEW what \in Statements \cup Parts, NEW name \in WindowNames \cup Statements \cup {""}
    PROVE  /\ Construct(what, name) \in Frame
           /\ Construct(what, name).what = what /\ Construct(what, name).name = name
BY DEF Construct, Frame

\* There are finitely many.
LEMMA CountType ==
    ASSUME NEW s \in Seq(Frame), NEW what
    PROVE  IsFiniteSet(At(s, what)) /\ Count(s, what) \in Nat
<1>1. IsFiniteSet(1..Len(s)) /\ At(s, what) \in SUBSET (1..Len(s))
  BY LenProperties, FS_Interval DEF At
<1>2. QED
  BY <1>1, FS_Subset, FS_CardinalityType DEF Count

\* A push adds the construct, if it is one of those asked for.
LEMMA CountPushed ==
    ASSUME NEW s \in Seq(Frame), NEW what, NEW e \in Frame
    PROVE  /\ At(s, what) \subseteq At(Append(s, e), what)
           /\ e.what \in what => Len(s) + 1 \in At(Append(s, e), what)
           /\ Count(Append(s, e), what) = IF e.what \in what THEN Count(s, what) + 1 ELSE Count(s, what)
<1>1. Len(s) \in Nat
  BY LenProperties
<1>2. /\ Len(Append(s, e)) = Len(s) + 1
      /\ Append(s, e)[Len(s) + 1] = e
      /\ \A k \in 1..Len(s) : Append(s, e)[k] = s[k]
  BY Pushed
<1>3. At(Append(s, e), what) = IF e.what \in what THEN At(s, what) \cup {Len(s) + 1} ELSE At(s, what)
  BY <1>1, <1>2 DEF At
<1>4. Len(s) + 1 \notin At(s, what)
  BY <1>1 DEF At
<1>5. IsFiniteSet(At(s, what))
  BY CountType
<1>6. CASE e.what \in what
  <2>1. At(Append(s, e), what) = At(s, what) \cup {Len(s) + 1}
    BY <1>3, <1>6
  <2>2. Cardinality(At(s, what) \cup {Len(s) + 1}) = Cardinality(At(s, what)) + 1
    BY <1>4, <1>5, FS_AddElement
  <2>3. QED
    BY <1>6, <2>1, <2>2 DEF Count
<1>7. CASE e.what \notin what
  BY <1>3, <1>7 DEF Count
<1>8. QED
  BY <1>6, <1>7

\* A pop takes it away again.
LEMMA CountPopped ==
    ASSUME NEW s \in Seq(Frame), NEW what, s # <<>>
    PROVE  /\ s[Len(s)].what \notin what => At(Pop(s), what) = At(s, what)
           /\ Count(s, what) = IF s[Len(s)].what \in what THEN Count(Pop(s), what) + 1 ELSE Count(Pop(s), what)
<1>1. /\ Pop(s) \in Seq(Frame) /\ Len(s) \in Nat \ {0} /\ Len(Pop(s)) = Len(s) - 1
      /\ \A k \in 1..(Len(s) - 1) : Pop(s)[k] = s[k]
  BY Popped
<1>2. At(s, what) = IF s[Len(s)].what \in what THEN At(Pop(s), what) \cup {Len(s)} ELSE At(Pop(s), what)
  BY <1>1 DEF At
<1>3. Len(s) \notin At(Pop(s), what)
  BY <1>1 DEF At
<1>4. IsFiniteSet(At(Pop(s), what))
  BY <1>1, CountType
<1>5. CASE s[Len(s)].what \in what
  <2>1. At(s, what) = At(Pop(s), what) \cup {Len(s)}
    BY <1>2, <1>5
  <2>2. Cardinality(At(Pop(s), what) \cup {Len(s)}) = Cardinality(At(Pop(s), what)) + 1
    BY <1>3, <1>4, FS_AddElement
  <2>3. QED
    BY <1>5, <2>1, <2>2 DEF Count
<1>6. CASE s[Len(s)].what \notin what
  BY <1>2, <1>6 DEF Count
<1>7. QED
  BY <1>5, <1>6

\* A holder's frame gets the name of the statement met.
LEMMA NamedTop ==
    ASSUME NEW s \in Seq(Frame), s # <<>>, NEW what \in Statements
    PROVE  LET t == [s EXCEPT ![Len(s)].name = what] IN
           /\ t \in Seq(Frame) /\ Len(t) = Len(s)
           /\ \A k \in 1..(Len(s) - 1) : t[k] = s[k]
           /\ t[Len(s)].what = s[Len(s)].what /\ t[Len(s)].name = what
<1>1. Len(s) \in Nat \ {0} /\ s[Len(s)] \in Frame
  <2>1. Len(s) \in Nat \ {0}
    BY Popped
  <2>2. QED
    BY <2>1
<1>2. PICK f \in Frame : /\ f = [s[Len(s)] EXCEPT !.name = what]
                         /\ f.what = s[Len(s)].what /\ f.name = what
  <2>1. [s[Len(s)] EXCEPT !.name = what] \in Frame
    BY <1>1 DEF Frame
  <2>2. /\ [s[Len(s)] EXCEPT !.name = what].what = s[Len(s)].what
        /\ [s[Len(s)] EXCEPT !.name = what].name = what
    BY <1>1 DEF Frame
  <2>3. QED
    BY <2>1, <2>2
<1>3. DEFINE t == [s EXCEPT ![Len(s)] = f]
<1>4. t = [s EXCEPT ![Len(s)].name = what]
  BY <1>2
<1>5. /\ t \in Seq(Frame) /\ Len(t) = Len(s)
      /\ \A k \in 1..Len(s) : t[k] = IF k = Len(s) THEN f ELSE s[k]
  BY <1>1, ExceptSeq
<1>6. f.what = s[Len(s)].what /\ f.name = what
  BY <1>2
<1> HIDE DEF t
<1>7. /\ \A k \in 1..(Len(s) - 1) : t[k] = s[k]
      /\ t[Len(s)].what = s[Len(s)].what /\ t[Len(s)].name = what
  BY <1>1, <1>5, <1>6
<1>8. QED
  BY <1>4, <1>5, <1>7

-----------------------------------------------------------------------------
(* Window scopes. *)

Sel == {"windowClause", "select"}
Def == {"definition", "over"}

\* A definition is being transformed inside of its WINDOW clause.
Clauses(s) ==
    \A k \in 1..Len(s) :
        s[k].what = "definition" => k > 1 /\ s[k - 1].what = "windowClause" /\ s[k].name \in WindowNames

\* The inductive invariant behind WindowsScoped.
WInv ==
    /\ frames \in Seq(Frame) /\ Clauses(frames)
    /\ windows \in Seq(SUBSET WindowNames)
    /\ inWindowDefinition \in BOOLEAN
    /\ Running => /\ Len(windows) = Count(frames, Sel)
                  /\ inWindowDefinition => At(frames, Def) # {}

\* A construct is entered, the statement around it noting which it is.
LEMMA PushKeepsWindows ==
    ASSUME WInv, Running,
           NEW s \in Seq(Frame), Len(s) = Len(frames), \A k \in 1..Len(s) : s[k].what = frames[k].what,
           Clauses(s), NEW e \in Frame, frames' = Append(s, e),
           e.what = "definition" =>
               frames # <<>> /\ frames[Len(frames)].what = "windowClause" /\ e.name \in WindowNames,
           windows' \in Seq(SUBSET WindowNames),
           Len(windows') = IF e.what \in Sel THEN Len(windows) + 1 ELSE Len(windows),
           inWindowDefinition' \in BOOLEAN,
           inWindowDefinition' => inWindowDefinition \/ e.what \in Def
    PROVE  WInv'
<1>1. frames \in Seq(Frame) /\ Len(s) \in Nat /\ (frames # <<>> => Len(s) > 0)
  BY LenProperties, EmptySeq DEF WInv
<1>2. /\ frames' \in Seq(Frame) /\ Len(frames') = Len(s) + 1
      /\ frames'[Len(s) + 1] = e
      /\ \A k \in 1..Len(s) : frames'[k] = s[k]
  BY <1>1, Pushed
<1>3. At(s, Def) = At(frames, Def) /\ Count(s, Sel) = Count(frames, Sel)
  BY DEF At, Count
<1>4. Clauses(frames')
  BY <1>1, <1>2 DEF WInv, Clauses
<1>5. /\ At(s, Def) \subseteq At(frames', Def)
      /\ e.what \in Def => Len(s) + 1 \in At(frames', Def)
      /\ Count(frames', Sel) = IF e.what \in Sel THEN Count(s, Sel) + 1 ELSE Count(s, Sel)
  BY <1>1, CountPushed
<1>6. Len(windows') = Count(frames', Sel)
  BY <1>3, <1>5 DEF WInv
<1>7. inWindowDefinition' => At(frames', Def) # {}
  BY <1>3, <1>5 DEF WInv
<1>8. QED
  BY <1>2, <1>4, <1>6, <1>7 DEF WInv

\* A construct is left.
LEMMA PopKeepsWindows ==
    ASSUME WInv, Running, frames # <<>>, frames' = Pop(frames),
           windows' \in Seq(SUBSET WindowNames),
           Len(windows) = IF Top \in Sel THEN Len(windows') + 1 ELSE Len(windows'),
           inWindowDefinition' \in BOOLEAN,
           inWindowDefinition' => inWindowDefinition /\ Top \notin Def
    PROVE  WInv'
<1>1. frames \in Seq(Frame) /\ Len(frames) \in Nat \ {0}
  BY Popped DEF WInv
<1>2. /\ frames' \in Seq(Frame) /\ Len(frames') = Len(frames) - 1
      /\ \A k \in 1..(Len(frames) - 1) : frames'[k] = frames[k]
  BY <1>1, Popped
<1>3. Clauses(frames')
  BY <1>1, <1>2 DEF WInv, Clauses
<1>4. /\ Top \notin Def => At(frames', Def) = At(frames, Def)
      /\ Count(frames, Sel) = IF Top \in Sel THEN Count(frames', Sel) + 1 ELSE Count(frames', Sel)
  BY <1>1, CountPopped DEF Top
<1>5. Len(windows') = Count(frames', Sel)
  <2>1. Count(frames', Sel) \in Nat /\ Len(windows') \in Nat
    BY <1>2, CountType, LenProperties
  <2>2. QED
    BY <1>4, <2>1 DEF WInv
<1>6. inWindowDefinition' => At(frames', Def) # {}
  BY <1>4 DEF WInv
<1>7. QED
  BY <1>2, <1>3, <1>5, <1>6 DEF WInv

\* A construct goes on to its next part.
LEMMA BecomeKeepsWindows ==
    ASSUME WInv, Running, frames # <<>>, NEW what \in Parts \ Def, Become(what),
           Top \notin Def, Top \in Sel <=> what \in Sel,
           UNCHANGED windowVars
    PROVE  WInv'
<1>1. frames \in Seq(Frame) /\ Len(frames) \in Nat \ {0}
  BY Popped DEF WInv
<1>2. PICK e \in Frame : e = Construct(what, "") /\ e.what = what
  BY Constructs
<1>3. Pop(frames) \in Seq(Frame) /\ frames' = Append(Pop(frames), e)
  <2>1. Pop(frames) \in Seq(Frame)
    BY <1>1, Popped
  <2>2. QED
    BY <1>2, <2>1 DEF Become
<1>4. /\ frames' \in Seq(Frame) /\ Len(frames') = Len(frames)
      /\ frames'[Len(frames)] = e
      /\ \A k \in 1..(Len(frames) - 1) : frames'[k] = frames[k]
  BY <1>1, <1>3, Replaced
<1>5. Clauses(frames')
  <2>1. what # "definition" /\ frames'[Len(frames)].what = what
    BY <1>2, <1>4 DEF Def
  <2>2. ASSUME NEW k \in 1..Len(frames), frames'[k].what = "definition"
        PROVE  k > 1 /\ frames'[k - 1].what = "windowClause" /\ frames'[k].name \in WindowNames
    <3>1. k # Len(frames)
      BY <2>1, <2>2
    <3>2. k \in 1..(Len(frames) - 1) /\ frames[k].what = "definition"
      BY <1>1, <1>4, <2>2, <3>1
    <3>3. k > 1 /\ frames[k - 1].what = "windowClause" /\ frames[k].name \in WindowNames
      BY <1>1, <3>2 DEF WInv, Clauses
    <3>4. k - 1 \in 1..(Len(frames) - 1)
      BY <1>1, <3>2, <3>3
    <3>5. QED
      BY <1>4, <3>2, <3>3, <3>4
  <2>3. QED
    BY <1>4, <2>2 DEF Clauses
<1>6. /\ At(Pop(frames), Def) = At(frames, Def)
      /\ Count(frames, Sel) = IF Top \in Sel THEN Count(Pop(frames), Sel) + 1 ELSE Count(Pop(frames), Sel)
  BY <1>1, CountPopped DEF Top
<1>7. /\ At(Pop(frames), Def) \subseteq At(frames', Def)
      /\ Count(frames', Sel) = IF what \in Sel THEN Count(Pop(frames), Sel) + 1 ELSE Count(Pop(frames), Sel)
  <2>1. e.what = what
    BY <1>2
  <2>2. QED
    BY <1>3, <2>1, CountPushed
<1>8. Len(windows') = Count(frames', Sel) /\ (inWindowDefinition' => At(frames', Def) # {})
  BY <1>6, <1>7 DEF WInv, windowVars
<1>9. QED
  BY <1>4, <1>5, <1>8 DEF WInv, windowVars

\* Nothing the invariant is about changes, or the walk has ended.
LEMMA StutterKeepsWindows ==
    ASSUME WInv, UNCHANGED <<frames, windowVars>>, Running' => Running
    PROVE  WInv'
BY DEF WInv, windowVars, At, Count, Clauses

\* The walk begins with a statement, outside of any SELECT.
LEMMA InitWindows == Init => WInv
<1>1. SUFFICES ASSUME Init PROVE WInv
  OBVIOUS
<1>2. PICK what \in Statements : frames = <<Construct(what, "")>>
  BY <1>1 DEF Init
<1>3. what \notin Sel /\ what # "definition"
  BY DEF Statements, Holders, Explains, Sel
<1>4. frames \in Seq(Frame) /\ Len(frames) = 1 /\ frames[1].what = what
  <2>1. PICK e \in Frame : e = Construct(what, "") /\ e.what = what
    BY Constructs
  <2>2. frames = <<e>> /\ e.what = what
    BY <1>2, <2>1
  <2>3. QED
    BY <2>2
<1>5. At(frames, Sel) = {} /\ Clauses(frames)
  BY <1>3, <1>4 DEF At, Clauses
<1>6. windows \in Seq(SUBSET WindowNames) /\ Len(windows) = 0 /\ inWindowDefinition = FALSE
  BY <1>1, EmptySeq DEF Init
<1>7. QED
  BY <1>4, <1>5, <1>6, FS_EmptySet DEF WInv, Count

\* Every step keeps the scopes and the flag in step with the constructs.
LEMMA StepKeepsWindows == WInv /\ [Next]_vars => WInv'
<1> SUFFICES ASSUME WInv, [Next]_vars PROVE WInv'
  OBVIOUS
<1> USE DEF Keep, Enter, Room, Leave, Inside
<1>1. CASE Anonymous \/ Numbered \/ NamedParam
  BY <1>1, StutterKeepsWindows DEF Anonymous, Numbered, NamedParam, RegisterParam, Running
<1>2. CASE ZeroParam \/ DuplicateWindow \/ OverInDefinition \/ MissingWindow \/ PivotRefused \/ NotPreparable
  BY <1>2, StutterKeepsWindows
     DEF ZeroParam, DuplicateWindow, OverInDefinition, MissingWindow, PivotRefused, NotPreparable, Raise, Running
<1>3. CASE EnterSelect
  <2>1. PICK e \in Frame : e = Construct("windowClause", "") /\ e.what = "windowClause"
    BY Constructs DEF Parts
  <2>2. Running /\ frames' = Append(frames, e)
    BY <1>3, <2>1 DEF EnterSelect
  <2>3. windows' = Append(windows, {}) /\ inWindowDefinition' = inWindowDefinition
    BY <1>3 DEF EnterSelect
  <2>4. windows' \in Seq(SUBSET WindowNames) /\ Len(windows') = Len(windows) + 1
    <3>1. windows \in Seq(SUBSET WindowNames) /\ {} \in SUBSET WindowNames
      BY DEF WInv
    <3>2. QED
      BY <2>3, <3>1, Pushed
  <2>5. e.what \in Sel /\ e.what # "definition"
    BY <2>1 DEF Sel
  <2>6. frames \in Seq(Frame) /\ Clauses(frames) /\ inWindowDefinition \in BOOLEAN
    BY DEF WInv
  <2>7. QED
    BY <2>2, <2>3, <2>4, <2>5, <2>6, PushKeepsWindows
<1>4. ASSUME NEW name \in WindowNames, EnterDefinition(name) PROVE WInv'
  <2>1. PICK e \in Frame : e = Construct("definition", name) /\ e.what = "definition" /\ e.name = name
    BY Constructs DEF Parts
  <2>2. Running /\ frames' = Append(frames, e)
    BY <1>4, <2>1 DEF EnterDefinition
  <2>3. frames # <<>> /\ frames[Len(frames)].what = "windowClause"
    BY <1>4 DEF EnterDefinition, Top
  <2>4. windows' = windows /\ inWindowDefinition' = TRUE
    BY <1>4 DEF EnterDefinition
  <2>5. e.what \notin Sel /\ e.what \in Def /\ e.name \in WindowNames
    BY <2>1 DEF Sel, Def
  <2>6. frames \in Seq(Frame) /\ Clauses(frames) /\ windows \in Seq(SUBSET WindowNames)
    BY DEF WInv
  <2>7. QED
    BY <2>2, <2>3, <2>4, <2>5, <2>6, PushKeepsWindows
<1>5. CASE LeaveDefinition
  <2>1. Running /\ frames # <<>> /\ frames' = Pop(frames) /\ Top = "definition"
    BY <1>5 DEF LeaveDefinition
  <2>2. frames \in Seq(Frame) /\ windows \in Seq(SUBSET WindowNames) /\ Len(windows) = Count(frames, Sel)
    BY <2>1 DEF WInv
  <2>3. windows # <<>>
    <3>1. Len(frames) \in Nat \ {0} /\ Clauses(frames)
      BY <2>1, <2>2, Popped DEF WInv
    <3>2. Len(frames) > 1 /\ frames[Len(frames) - 1].what = "windowClause"
      BY <2>1, <3>1 DEF Clauses, Top
    <3>3. Len(frames) - 1 \in At(frames, Sel)
      BY <3>1, <3>2 DEF At, Sel
    <3>4. IsFiniteSet(At(frames, Sel))
      BY <2>2, CountType
    <3>5. Count(frames, Sel) # 0
      BY <3>3, <3>4, FS_EmptySet DEF Count
    <3>6. QED
      BY <2>2, <3>5, EmptySeq
  <2>4. PICK name \in WindowNames : name = frames[Len(frames)].name
    <3>1. Len(frames) \in Nat \ {0} /\ Clauses(frames)
      BY <2>1, <2>2, Popped DEF WInv
    <3>2. QED
      BY <2>1, <3>1 DEF Clauses, Top
  <2>5. /\ windows' = Append(Pop(windows), Scope \cup {name})
        /\ inWindowDefinition' = FALSE
    BY <1>5, <2>4 DEF LeaveDefinition
  <2>6. Scope \cup {name} \in SUBSET WindowNames
    <3>1. Scope \in SUBSET WindowNames
      BY <2>2, <2>3, Popped DEF Scope
    <3>2. QED
      BY <3>1
  <2>7. windows' \in Seq(SUBSET WindowNames) /\ Len(windows') = Len(windows)
    BY <2>2, <2>3, <2>5, <2>6, Replaced
  <2>8. Top \notin Sel
    BY <2>1 DEF Sel
  <2>9. QED
    BY <2>1, <2>5, <2>7, <2>8, PopKeepsWindows
<1>6. CASE SelectBody
  <2>1. Running /\ frames # <<>> /\ Become("select") /\ UNCHANGED windowVars
    BY <1>6 DEF SelectBody
  <2>2. "select" \in Parts \ Def /\ Top \notin Def /\ (Top \in Sel <=> "select" \in Sel)
    BY <1>6 DEF SelectBody, Parts, Def, Sel
  <2>3. QED
    BY <2>1, <2>2, BecomeKeepsWindows
<1>7. CASE LeaveSelect
  <2>1. Running /\ frames # <<>> /\ frames' = Pop(frames) /\ Top = "select"
    BY <1>7 DEF LeaveSelect
  <2>2. frames \in Seq(Frame) /\ windows \in Seq(SUBSET WindowNames) /\ Len(windows) = Count(frames, Sel)
    BY <2>1 DEF WInv
  <2>3. windows # <<>>
    <3>1. Len(frames) \in At(frames, Sel)
      BY <2>1, <2>2, Popped DEF At, Sel, Top
    <3>2. Count(frames, Sel) # 0
      BY <2>2, <3>1, CountType, FS_EmptySet DEF Count
    <3>3. QED
      BY <2>2, <3>2, EmptySeq
  <2>4. windows' = Pop(windows) /\ inWindowDefinition' = inWindowDefinition
    BY <1>7 DEF LeaveSelect
  <2>5. /\ windows' \in Seq(SUBSET WindowNames)
        /\ Len(windows) \in Nat /\ Len(windows') = Len(windows) - 1
    BY <2>2, <2>3, <2>4, Popped
  <2>6. Top \in Sel /\ Top \notin Def
    BY <2>1 DEF Sel, Def
  <2>7. Len(windows) = Len(windows') + 1 /\ inWindowDefinition \in BOOLEAN
    BY <2>5 DEF WInv
  <2>8. QED
    BY <2>1, <2>4, <2>5, <2>6, <2>7, PopKeepsWindows
<1>8. CASE EnterOver
  <2>1. PICK e \in Frame : e = Construct("over", "") /\ e.what = "over"
    BY Constructs DEF Parts
  <2>2. Running /\ frames' = Append(frames, e)
    BY <1>8, <2>1 DEF EnterOver
  <2>3. windows' = windows /\ inWindowDefinition' = TRUE
    BY <1>8 DEF EnterOver, windowVars
  <2>4. e.what \notin Sel /\ e.what # "definition" /\ (e.what \in Def <=> "over" = "over")
    BY <2>1 DEF Sel, Def
  <2>5. /\ frames \in Seq(Frame) /\ Clauses(frames)
        /\ windows \in Seq(SUBSET WindowNames) /\ inWindowDefinition \in BOOLEAN
    BY DEF WInv
  <2>6. QED
    BY <2>2, <2>3, <2>4, <2>5, PushKeepsWindows
<1>9. CASE LeaveOver
  <2>1. Running /\ frames # <<>> /\ frames' = Pop(frames) /\ Top = "over"
    BY <1>9 DEF LeaveOver
  <2>2. windows' = windows /\ inWindowDefinition' = FALSE /\ Top \notin Sel
    BY <1>9, <2>1 DEF LeaveOver, Sel
  <2>3. windows \in Seq(SUBSET WindowNames)
    BY DEF WInv
  <2>4. QED
    BY <2>1, <2>2, <2>3, PopKeepsWindows
<1>10. CASE EnterPivot
  <2>1. PICK e \in Frame : e = Construct("pivotSource", "") /\ e.what = "pivotSource"
    BY Constructs DEF Parts
  <2>2. Running /\ frames' = Append(frames, e)
    BY <1>10, <2>1 DEF EnterPivot
  <2>3. windows' = windows /\ inWindowDefinition' = inWindowDefinition
    BY <1>10 DEF EnterPivot, windowVars
  <2>4. e.what \notin Sel /\ e.what # "definition" /\ (e.what \in Def <=> "pivotSource" = "over")
    BY <2>1 DEF Sel, Def
  <2>5. /\ frames \in Seq(Frame) /\ Clauses(frames)
        /\ windows \in Seq(SUBSET WindowNames) /\ inWindowDefinition \in BOOLEAN
    BY DEF WInv
  <2>6. QED
    BY <2>2, <2>3, <2>4, <2>5, PushKeepsWindows
<1>11. CASE PivotColumns
  <2>1. Running /\ frames # <<>> /\ Become("pivotColumns") /\ UNCHANGED windowVars
    BY <1>11 DEF PivotColumns
  <2>2. "pivotColumns" \in Parts \ Def /\ Top \notin Def /\ (Top \in Sel <=> "pivotColumns" \in Sel)
    BY <1>11 DEF PivotColumns, Parts, Def, Sel
  <2>3. QED
    BY <2>1, <2>2, BecomeKeepsWindows
<1>12. CASE PivotUsing
  <2>1. Running /\ frames # <<>> /\ Become("pivotUsing") /\ UNCHANGED windowVars
    BY <1>12 DEF PivotUsing
  <2>2. "pivotUsing" \in Parts \ Def /\ Top \notin Def /\ (Top \in Sel <=> "pivotUsing" \in Sel)
    BY <1>12 DEF PivotUsing, Parts, Def, Sel
  <2>3. QED
    BY <2>1, <2>2, BecomeKeepsWindows
<1>13. CASE PivotFromData \/ FinishStatement
  BY <1>13, StutterKeepsWindows DEF PivotFromData, FinishStatement, Raise, Running
<1>14. CASE LeavePivot
  <2>1. CASE frames' = Pop(frames) /\ UNCHANGED windowVars
    <3>1. Running /\ frames # <<>> /\ Top \notin Sel /\ Top \notin Def
      BY <1>14 DEF LeavePivot, Sel, Def, Explains
    <3>2. windows' = windows /\ inWindowDefinition' = inWindowDefinition
      BY <2>1 DEF windowVars
    <3>3. windows \in Seq(SUBSET WindowNames) /\ inWindowDefinition \in BOOLEAN
      BY DEF WInv
    <3>4. QED
      BY <2>1, <3>1, <3>2, <3>3, PopKeepsWindows
  <2>2. QED
    BY <1>14, <2>1 DEF LeavePivot, ClearParameters
<1>15. CASE LeaveQuery
  <2>1. CASE frames' = Pop(frames) /\ UNCHANGED windowVars
    <3>1. Running /\ frames # <<>> /\ Top \notin Sel /\ Top \notin Def
      BY <1>15 DEF LeaveQuery, Sel, Def, Explains
    <3>2. windows' = windows /\ inWindowDefinition' = inWindowDefinition
      BY <2>1 DEF windowVars
    <3>3. windows \in Seq(SUBSET WindowNames) /\ inWindowDefinition \in BOOLEAN
      BY DEF WInv
    <3>4. QED
      BY <2>1, <3>1, <3>2, <3>3, PopKeepsWindows
  <2>2. QED
    BY <1>15, <2>1 DEF LeaveQuery, ClearParameters
<1>16. CASE LeaveCreate
  <2>0. CASE UNCHANGED <<frames, windowVars>> /\ status' = "raised"
    BY <2>0, StutterKeepsWindows DEF Running
  <2>1. CASE frames' = Pop(frames) /\ UNCHANGED windowVars
    <3>1. Running /\ frames # <<>> /\ Top \notin Sel /\ Top \notin Def
      BY <1>16 DEF LeaveCreate, Sel, Def, Explains
    <3>2. windows' = windows /\ inWindowDefinition' = inWindowDefinition
      BY <2>1 DEF windowVars
    <3>3. windows \in Seq(SUBSET WindowNames) /\ inWindowDefinition \in BOOLEAN
      BY DEF WInv
    <3>4. QED
      BY <2>1, <3>1, <3>2, <3>3, PopKeepsWindows
  <2>2. QED
    BY <1>16, <2>0, <2>1 DEF LeaveCreate, Raise, ClearParameters
<1>17. CASE LeaveExplain
  <2>0. CASE UNCHANGED <<frames, windowVars>> /\ status' = "raised"
    BY <2>0, StutterKeepsWindows DEF Running
  <2>1. CASE frames' = Pop(frames) /\ UNCHANGED windowVars
    <3>1. Running /\ frames # <<>> /\ Top \notin Sel /\ Top \notin Def
      BY <1>17 DEF LeaveExplain, Sel, Def, Explains
    <3>2. windows' = windows /\ inWindowDefinition' = inWindowDefinition
      BY <2>1 DEF windowVars
    <3>3. windows \in Seq(SUBSET WindowNames) /\ inWindowDefinition \in BOOLEAN
      BY DEF WInv
    <3>4. QED
      BY <2>1, <3>1, <3>2, <3>3, PopKeepsWindows
  <2>2. QED
    BY <1>17, <2>0, <2>1 DEF LeaveExplain, Raise, ClearParameters
<1>18. CASE LeavePrepare
  <2>1. CASE frames' = Pop(frames) /\ UNCHANGED windowVars
    <3>1. Running /\ frames # <<>> /\ Top \notin Sel /\ Top \notin Def
      BY <1>18 DEF LeavePrepare, Sel, Def, Explains
    <3>2. windows' = windows /\ inWindowDefinition' = inWindowDefinition
      BY <2>1 DEF windowVars
    <3>3. windows \in Seq(SUBSET WindowNames) /\ inWindowDefinition \in BOOLEAN
      BY DEF WInv
    <3>4. QED
      BY <2>1, <3>1, <3>2, <3>3, PopKeepsWindows
  <2>2. QED
    BY <1>18, <2>1 DEF LeavePrepare, ClearParameters
<1>19. ASSUME NEW what \in Statements, EnterStatement(what) PROVE WInv'
  <2>1. PICK e \in Frame : e = Construct(what, "") /\ e.what = what
    BY Constructs
  <2>2. DEFINE s == [frames EXCEPT ![Len(frames)].name = what]
  <2>3. Running /\ frames # <<>> /\ Top \in Holders /\ frames' = Append(s, e)
    BY <1>19, <2>1 DEF EnterStatement
  <2>4. /\ frames \in Seq(Frame) /\ Clauses(frames)
        /\ windows \in Seq(SUBSET WindowNames) /\ inWindowDefinition \in BOOLEAN
    BY DEF WInv
  <2>5. Len(frames) \in Nat \ {0}
    BY <2>3, <2>4, Popped
  <2>6. /\ s \in Seq(Frame) /\ Len(s) = Len(frames)
        /\ \A k \in 1..Len(s) : s[k].what = frames[k].what
        /\ \A k \in 1..Len(s) : k # Len(frames) => s[k].name = frames[k].name
    <3>1. /\ \A k \in 1..(Len(frames) - 1) : s[k] = frames[k]
          /\ s \in Seq(Frame) /\ Len(s) = Len(frames) /\ s[Len(frames)].what = frames[Len(frames)].what
      BY <2>3, <2>4, NamedTop
    <3> HIDE DEF s
    <3>2. QED
      BY <2>5, <3>1
  <2>7. Clauses(s)
    BY <2>3, <2>4, <2>5, <2>6 DEF Clauses, Top, Holders, Explains
  <2>8. windows' = windows /\ inWindowDefinition' = inWindowDefinition
    BY <1>19 DEF EnterStatement, windowVars
  <2>9. e.what \notin Sel /\ e.what # "definition"
    BY <2>1 DEF Statements, Holders, Explains, Sel
  <2> HIDE DEF s
  <2>10. QED
    BY <2>3, <2>4, <2>6, <2>7, <2>8, <2>9, PushKeepsWindows
<1>20. CASE UNCHANGED vars
  BY <1>20, StutterKeepsWindows DEF vars, Running
<1>21. QED
  BY <1>1, <1>2, <1>3, <1>4, <1>5, <1>6, <1>7, <1>8, <1>9, <1>10, <1>11, <1>12,
     <1>13, <1>14, <1>15, <1>16, <1>17, <1>18, <1>19, <1>20 DEF Next

\* transformSimpleSelect and transformOver, for walks of every depth: there is
\* a window scope for each SELECT being transformed, and inWindowDefinition
\* is set only inside of a window definition.
THEOREM WindowsAreScoped == Spec => []WindowsScoped
<1>1. WInv => WindowsScoped
  BY DEF WInv, WindowsScoped, ScopePerSelect, FlagOnlyInDefinition,
         Selects, Definitions, Places, Count, At, Sel, Def
<1>2. QED
  BY InitWindows, StepKeepsWindows, <1>1, PTL DEF Spec

-----------------------------------------------------------------------------
(* The nesting of the walk: a statement is inside of PREPAREs and EXPLAINs *)
(* that have met theirs, and after a PREPARE has forgotten its parameters  *)
(* only these are left, none of them a PREPARE that will do so again.      *)

Closed(f) == f.what \in Holders /\ f.name \in Statements

Ids   == Names \cup {ToString(n) : n \in Int} \cup {""}
Entry == [event : {"anonymous", "numbered", "named", "pivot", "clear"}, id : Ids, number : Int]

Nested(s, n) ==
    /\ \A k \in 1..n : s[k].what \in Holders => s[k].name \in Statements \cup {""}
    /\ \A k \in 1..n : s[k].what \in Statements => \A j \in 1..(k - 1) : Closed(s[j])
    /\ \A k \in 1..(n - 1) : Closed(s[k]) => s[k].name = s[k + 1].what

OnlyHolders(s, n) ==
    \A k \in 1..n : Closed(s[k]) /\ ~(s[k].what = "prepare" /\ s[k].name = "query")

\* The invariant of the nesting and of the length of the log.
FInv ==
    /\ frames \in Seq(Frame) /\ Len(frames) <= MaxFrames
    /\ Nested(frames, Len(frames))
    /\ log \in Seq(Entry)
    /\ Cleared => OnlyHolders(frames, Len(frames))
    /\ Len(log) <= IF Cleared THEN MaxEvents + 1 ELSE MaxEvents
    /\ status \in {"running", "raised", "done"}

\* A statement is none of the other constructs, and none has the empty name.
LEMMA StatementsAndParts ==
    /\ Statements \cap Parts = {} /\ "" \notin Statements
    /\ Holders \subseteq Statements /\ "query" \notin Holders /\ "query" \in Statements
    /\ "prepare" \in Holders
BY DEF Statements, Holders, Explains, Parts

\* Places in a stack that grows by one.
LEMMA Ranges ==
    ASSUME NEW n \in Nat
    PROVE  /\ \A k \in 1..(n + 1) : k \in 1..n \/ k = n + 1
           /\ \A k \in 1..n : k \in 1..(n + 1)
           /\ \A k \in 1..(n + 1) : \A j \in 1..(k - 1) : j \in 1..n
           /\ \A k \in 1..n : \A j \in 1..(k - 1) : j \in 1..n
           /\ \A k \in 1..(n - 1) : k \in 1..n /\ k + 1 \in 1..n
           /\ \A k \in 1..n : k # n => k \in 1..(n - 1)
           /\ n > 0 => n \in 1..n
           /\ \A k \in 1..n : n > 0
           /\ (n + 1) - 1 = n /\ n + 1 \in Nat /\ n + 1 \in 1..(n + 1)
OBVIOUS

\* A part is pushed, or takes the place of another.
LEMMA NestedPart ==
    ASSUME NEW s, NEW t, NEW n \in Nat, Nested(s, n),
           n > 0 => ~Closed(s[n]), \A k \in 1..n : t[k] = s[k], t[n + 1].what \in Parts
    PROVE  Nested(t, n + 1)
<1>1. \A k \in 1..(n + 1) : k # n + 1 => k \in 1..n
  OBVIOUS
<1>2. t[n + 1].what \notin Statements /\ t[n + 1].what \notin Holders
  BY StatementsAndParts
<1>3. \A k \in 1..(n + 1) : t[k].what \in Holders => t[k].name \in Statements \cup {""}
  BY <1>1, <1>2 DEF Nested
<1>4. ASSUME NEW k \in 1..(n + 1), t[k].what \in Statements, NEW j \in 1..(k - 1)
      PROVE  Closed(t[j])
  <2>1. k \in 1..n /\ j \in 1..n
    BY <1>1, <1>2, <1>4
  <2>2. QED
    BY <1>4, <2>1 DEF Nested
<1>5. ASSUME NEW k \in 1..n, Closed(t[k]) PROVE t[k].name = t[k + 1].what
  <2>1. k # n
    BY <1>5
  <2>2. k \in 1..(n - 1) /\ k + 1 \in 1..n
    BY <2>1
  <2>3. QED
    BY <1>5, <2>2 DEF Nested
<1>6. (n + 1) - 1 = n
  BY Ranges
<1>7. QED
  BY <1>3, <1>4, <1>5, <1>6, Zenon DEF Nested

\* A construct is left.
LEMMA NestedPop ==
    ASSUME NEW s, NEW t, NEW n \in Nat, \A k \in 1..n : t[k] = s[k]
    PROVE  /\ Nested(s, n + 1) => Nested(t, n)
           /\ OnlyHolders(s, n + 1) => OnlyHolders(t, n)
<1>1. \A k \in 1..n : k \in 1..(n + 1)
  OBVIOUS
<1>2. ASSUME NEW k \in 1..n, NEW j \in 1..(k - 1) PROVE j \in 1..n
  OBVIOUS
<1>3. ASSUME NEW k \in 1..(n - 1) PROVE k \in 1..n /\ k + 1 \in 1..n
  OBVIOUS
<1>4. ASSUME Nested(s, n + 1) PROVE Nested(t, n)
  <2>1. \A k \in 1..n : t[k].what \in Holders => t[k].name \in Statements \cup {""}
    BY <1>1, <1>4 DEF Nested
  <2>2. \A k \in 1..n : t[k].what \in Statements => \A j \in 1..(k - 1) : Closed(t[j])
    BY <1>1, <1>2, <1>4 DEF Nested
  <2>3. ASSUME NEW k \in 1..(n - 1), Closed(t[k]) PROVE t[k].name = t[k + 1].what
    <3>1. k \in 1..((n + 1) - 1) /\ t[k] = s[k] /\ t[k + 1] = s[k + 1]
      BY <1>3
    <3>2. QED
      BY <1>4, <2>3, <3>1 DEF Nested
  <2>4. QED
    BY <2>1, <2>2, <2>3 DEF Nested
<1>5. ASSUME OnlyHolders(s, n + 1) PROVE OnlyHolders(t, n)
  BY <1>1, <1>5 DEF OnlyHolders
<1>6. QED
  BY <1>4, <1>5

\* A holder has met its statement: every construct is closed.
LEMMA NestedNamed ==
    ASSUME NEW s, NEW t, NEW n \in Nat, Nested(s, n + 1), s[n + 1].what \in Holders,
           \A k \in 1..n : t[k] = s[k],
           t[n + 1].what = s[n + 1].what, t[n + 1].name \in Statements
    PROVE  Nested(t, n + 1) /\ \A k \in 1..(n + 1) : Closed(t[k])
<1>1. \A k \in 1..n : Closed(s[k])
  <2>1. n + 1 \in 1..(n + 1) /\ (n + 1) - 1 = n /\ s[n + 1].what \in Statements
    BY Ranges, StatementsAndParts
  <2>2. \A j \in 1..((n + 1) - 1) : Closed(s[j])
    BY <2>1, Zenon DEF Nested
  <2>3. QED
    BY <2>1, <2>2
<1>2. \A k \in 1..(n + 1) : Closed(t[k])
  <2>1. \A k \in 1..n : Closed(t[k])
    BY <1>1
  <2>2. Closed(t[n + 1])
    BY DEF Closed
  <2>3. QED
    BY <2>1, <2>2, Ranges, Zenon
<1>3. ASSUME NEW k \in 1..n PROVE t[k].name = t[k + 1].what
  <2>1. s[k].name = s[k + 1].what
    <3>1. (n + 1) - 1 = n
      BY Ranges
    <3>2. \A j \in 1..((n + 1) - 1) : Closed(s[j]) => s[j].name = s[j + 1].what
      BY Zenon DEF Nested
    <3>3. QED
      BY <1>1, <3>1, <3>2, Zenon
  <2>2. t[k + 1].what = s[k + 1].what
    <3>1. k + 1 \in 1..n \/ k + 1 = n + 1
      OBVIOUS
    <3>2. QED
      BY <3>1, Zenon
  <2>3. QED
    BY <2>1, <2>2
<1>4. \A k \in 1..(n + 1) : t[k].name \in Statements
  BY <1>2 DEF Closed
<1>5. \A k \in 1..(n + 1) : \A j \in 1..(k - 1) : Closed(t[j])
  <2>1. \A k \in 1..(n + 1) : \A j \in 1..(k - 1) : j \in 1..(n + 1)
    BY Ranges, Zenon
  <2>2. QED
    BY <1>2, <2>1, Zenon
<1>6. (n + 1) - 1 = n
  BY Ranges
<1>7. QED
  BY <1>2, <1>3, <1>4, <1>5, <1>6, Zenon DEF Nested

\* The statement that closed constructs hold is pushed.
LEMMA NestedStatement ==
    ASSUME NEW s, NEW t, NEW n \in Nat, Nested(s, n), \A k \in 1..n : Closed(s[k]),
           n > 0 => s[n].name = t[n + 1].what,
           \A k \in 1..n : t[k] = s[k], t[n + 1].name = ""
    PROVE  Nested(t, n + 1)
<1>1. \A k \in 1..n : Closed(t[k])
  OBVIOUS
<1>2. ASSUME NEW k \in 1..(n + 1) PROVE t[k].name \in Statements \cup {""}
  <2>1. CASE k \in 1..n
    BY <1>1, <2>1 DEF Closed
  <2>2. CASE k = n + 1
    BY <2>2
  <2>3. QED
    BY <2>1, <2>2, Ranges, Zenon
<1>3. \A k \in 1..(n + 1) : \A j \in 1..(k - 1) : Closed(t[j])
  BY <1>1, Ranges, Zenon
<1>4. ASSUME NEW k \in 1..n PROVE t[k].name = t[k + 1].what
  <2>1. CASE k = n
    <3>1. n > 0
      BY Ranges, Zenon
    <3>2. n \in 1..n
      BY <3>1, Ranges, Zenon
    <3>3. t[n] = s[n]
      BY <3>2, Zenon
    <3>4. t[n].name = t[n + 1].what
      BY <3>1, <3>3, Zenon
    <3>5. QED
      BY <2>1, <3>4, Zenon
  <2>2. CASE k # n
    <3>1. k \in 1..(n - 1) /\ k + 1 \in 1..n
      BY <2>2, Ranges, Zenon
    <3>2. s[k].name = s[k + 1].what
      BY <3>1, Zenon DEF Nested
    <3>3. QED
      BY <3>1, <3>2, Zenon
  <2>3. QED
    BY <2>1, <2>2
<1>5. (n + 1) - 1 = n
  BY Ranges
<1>6. QED
  BY <1>2, <1>3, <1>4, <1>5, Zenon DEF Nested

\* What holds a PREPARE is no PREPARE of a query.
LEMMA NestedPrepare ==
    ASSUME NEW s, NEW t, NEW n \in Nat, Nested(s, n + 1), s[n + 1].what = "prepare",
           \A k \in 1..n : t[k] = s[k]
    PROVE  OnlyHolders(t, n)
<1>1. n + 1 \in 1..(n + 1) /\ (n + 1) - 1 = n /\ s[n + 1].what \in Statements
  BY Ranges, StatementsAndParts
<1>2. \A k \in 1..n : Closed(s[k])
  <2>1. \A j \in 1..((n + 1) - 1) : Closed(s[j])
    BY <1>1, Zenon DEF Nested
  <2>2. QED
    BY <1>1, <2>1
<1>3. \A k \in 1..n : s[k].name = s[k + 1].what
  BY <1>1, <1>2, Zenon DEF Nested
<1>4. \A k \in 1..(n + 1) : s[k].what # "query"
  <2>1. \A k \in 1..n : s[k].what # "query"
    BY <1>2, StatementsAndParts DEF Closed
  <2>2. s[n + 1].what # "query"
    OBVIOUS
  <2>3. QED
    BY <2>1, <2>2, Ranges, Zenon
<1>5. \A k \in 1..n : s[k].name # "query"
  <2>1. \A k \in 1..n : k + 1 \in 1..(n + 1)
    OBVIOUS
  <2>2. QED
    BY <1>3, <1>4, <2>1, Zenon
<1>6. \A k \in 1..n : Closed(t[k]) /\ t[k].name # "query"
  BY <1>2, <1>5
<1>7. QED
  BY <1>6 DEF OnlyHolders

\* Where an expression can be, the innermost construct is open.
LEMMA ExpressionsAreOpen ==
    ASSUME InExpression
    PROVE  frames # <<>> /\ ~Closed(frames[Len(frames)])
BY DEF InExpression, Inside, Top, TopName, NameOf, Closed, Statements, Holders, Explains

\* A log entry.
LEMMA Logged ==
    ASSUME log \in Seq(Entry), NEW e \in Entry, log' = Append(log, e)
    PROVE  /\ log' \in Seq(Entry) /\ Len(log) \in Nat /\ Len(log') = Len(log) + 1
           /\ log'[Len(log) + 1] = e
           /\ \A k \in 1..Len(log) : log'[k] = log[k]
           /\ Cleared' <=> Cleared \/ e.event = "clear"
<1>1. /\ log' \in Seq(Entry) /\ Len(log) \in Nat /\ Len(log') = Len(log) + 1
      /\ log'[Len(log) + 1] = e
      /\ \A k \in 1..Len(log) : log'[k] = log[k]
  BY Pushed, LenProperties
<1>2. QED
  BY <1>1 DEF Cleared

\* The stack and its top.
LEMMA Frames ==
    ASSUME FInv, frames # <<>>
    PROVE  /\ frames \in Seq(Frame) /\ MaxFrames \in Nat
           /\ \E n \in Nat : Len(frames) = n + 1 /\ Len(frames) - 1 = n
<1>1. frames \in Seq(Frame) /\ Len(frames) \in Nat \ {0} /\ MaxFrames \in Nat
  BY Popped, BoundAssumption DEF FInv
<1>2. Len(frames) - 1 \in Nat /\ Len(frames) = (Len(frames) - 1) + 1
  BY <1>1
<1>3. QED
  BY <1>1, <1>2

\* After a PREPARE has ended every construct is closed.
LEMMA OpenNotCleared ==
    ASSUME FInv, frames # <<>>, ~Closed(frames[Len(frames)])
    PROVE  ~Cleared
<1>1. Len(frames) \in 1..Len(frames)
  BY Frames
<1>2. QED
  BY <1>1 DEF FInv, OnlyHolders

\* An expression's part is entered.
LEMMA PushKeepsNesting ==
    ASSUME FInv, frames # <<>>, ~Closed(frames[Len(frames)]), Len(frames) < MaxFrames,
           NEW e \in Frame, e.what \in Parts, frames' = Append(frames, e),
           log' = log, status' = status
    PROVE  FInv'
<1>1. PICK n \in Nat : Len(frames) = n + 1
  BY Frames
<1>2. /\ frames' \in Seq(Frame) /\ Len(frames') = (n + 1) + 1
      /\ frames'[(n + 1) + 1] = e
      /\ \A k \in 1..(n + 1) : frames'[k] = frames[k]
  BY <1>1, Frames, Pushed
<1>3. ~Cleared /\ Cleared' = Cleared
  BY OpenNotCleared DEF Cleared
<1>4. Nested(frames', (n + 1) + 1)
  <2>1. Nested(frames, n + 1) /\ n + 1 \in Nat /\ ~Closed(frames[n + 1])
    BY <1>1 DEF FInv
  <2>2. frames'[(n + 1) + 1].what \in Parts
    BY <1>2
  <2>3. QED
    BY <1>2, <2>1, <2>2, NestedPart
<1>5. Len(frames') <= MaxFrames
  BY <1>1, <1>2, Frames
<1>6. QED
  BY <1>2, <1>3, <1>4, <1>5 DEF FInv

\* A construct is left.
LEMMA PopKeepsNesting ==
    ASSUME FInv, frames # <<>>, frames' = Pop(frames), log' = log, status' = status
    PROVE  FInv'
<1>1. PICK n \in Nat : Len(frames) = n + 1 /\ Len(frames) - 1 = n
  BY Frames
<1>2. /\ frames' \in Seq(Frame) /\ Len(frames') = n
      /\ \A k \in 1..n : frames'[k] = frames[k]
  BY <1>1, Frames, Popped
<1>3. Nested(frames', n) /\ (OnlyHolders(frames, n + 1) => OnlyHolders(frames', n))
  <2>1. Nested(frames, n + 1)
    BY <1>1 DEF FInv
  <2>2. QED
    BY <1>2, <2>1, NestedPop
<1>4. Cleared' = Cleared
  BY DEF Cleared
<1>5. Len(frames') <= MaxFrames
  BY <1>1, <1>2, Frames DEF FInv
<1>6. QED
  BY <1>1, <1>2, <1>3, <1>4, <1>5 DEF FInv

\* A construct goes on to its next part.
LEMMA BecomeKeepsNesting ==
    ASSUME FInv, frames # <<>>, Top \in Parts, NEW what \in Parts, Become(what),
           log' = log, status' = status
    PROVE  FInv'
<1>1. PICK n \in Nat : Len(frames) = n + 1 /\ Len(frames) - 1 = n
  BY Frames
<1>2. PICK e \in Frame : e = Construct(what, "") /\ e.what = what
  BY Constructs
<1>3. frames' = Append(Pop(frames), e)
  BY <1>2 DEF Become
<1>4. /\ frames' \in Seq(Frame) /\ Len(frames') = n + 1
      /\ frames'[n + 1] = e
      /\ \A k \in 1..n : frames'[k] = frames[k]
  BY <1>1, <1>3, Frames, Replaced
<1>5. ~Closed(frames[Len(frames)]) /\ frames[n + 1].what \notin Statements
  BY <1>1, StatementsAndParts DEF Closed, Top
<1>6. ~Cleared /\ Cleared' = Cleared
  BY <1>5, OpenNotCleared DEF Cleared
<1>7. Nested(frames', n + 1)
  <2>1. Nested(frames, n + 1)
    BY <1>1 DEF FInv
  <2>2. Nested(frames', n)
    BY <1>4, <2>1, NestedPop
  <2>3. n > 0 => ~Closed(frames'[n])
    <3>1. ASSUME n > 0, Closed(frames[n]) PROVE FALSE
      <4>1. n \in 1..((n + 1) - 1)
        BY <3>1
      <4>2. frames[n].name = frames[n + 1].what
        BY <2>1, <3>1, <4>1 DEF Nested
      <4>3. frames[n].name \in Statements
        BY <3>1 DEF Closed
      <4>4. QED
        BY <1>5, <4>2, <4>3
    <3>2. n > 0 => n \in 1..n
      OBVIOUS
    <3>3. QED
      BY <1>4, <3>1, <3>2
  <2>4. frames'[n + 1].what \in Parts
    <3>1. e.what \in Parts
      BY <1>2
    <3>2. QED
      BY <1>4, <3>1
  <2>5. QED
    BY <2>2, <2>3, <2>4, NestedPart
<1>8. Len(frames') <= MaxFrames
  BY <1>1, <1>4 DEF FInv
<1>9. QED
  BY <1>4, <1>6, <1>7, <1>8 DEF FInv

\* PREPARE or EXPLAIN walks the statement it holds.
LEMMA EnterKeepsNesting ==
    ASSUME FInv, NEW what \in Statements, EnterStatement(what)
    PROVE  FInv'
<1>1. /\ frames # <<>> /\ Top \in Holders /\ TopName = "" /\ Len(frames) < MaxFrames
      /\ frames' = Append([frames EXCEPT ![Len(frames)].name = what], Construct(what, ""))
      /\ log' = log /\ status' = status
  BY DEF EnterStatement, Room, Inside, Keep
<1>2. PICK n \in Nat : Len(frames) = n + 1 /\ Len(frames) - 1 = n
  BY <1>1, Frames
<1>3. PICK s \in Seq(Frame) :
          /\ s = [frames EXCEPT ![Len(frames)].name = what]
          /\ Len(s) = n + 1
          /\ \A k \in 1..n : s[k] = frames[k]
          /\ s[n + 1].what = frames[n + 1].what /\ s[n + 1].name = what
  <2>1. frames \in Seq(Frame) /\ frames # <<>>
    BY <1>1, Frames
  <2>2. PICK s \in Seq(Frame) :
            /\ s = [frames EXCEPT ![Len(frames)].name = what]
            /\ Len(s) = Len(frames)
            /\ \A k \in 1..(Len(frames) - 1) : s[k] = frames[k]
            /\ s[Len(frames)].what = frames[Len(frames)].what /\ s[Len(frames)].name = what
    <3>1. DEFINE u == [frames EXCEPT ![Len(frames)].name = what]
    <3>2. /\ u \in Seq(Frame) /\ Len(u) = Len(frames)
          /\ \A k \in 1..(Len(frames) - 1) : u[k] = frames[k]
          /\ u[Len(frames)].what = frames[Len(frames)].what /\ u[Len(frames)].name = what
      BY <2>1, NamedTop
    <3> HIDE DEF u
    <3>3. \E s \in Seq(Frame) :
             /\ s = u /\ Len(s) = Len(frames)
             /\ \A k \in 1..(Len(frames) - 1) : s[k] = frames[k]
             /\ s[Len(frames)].what = frames[Len(frames)].what /\ s[Len(frames)].name = what
      BY <3>2, Zenon
    <3>4. QED
      BY <3>3 DEF u
  <2>3. QED
    BY <1>2, <2>2, Zenon
<1>4. PICK e \in Frame : e = Construct(what, "") /\ e.what = what /\ e.name = ""
  BY Constructs
<1>5. frames' = Append(s, e)
  BY <1>1, <1>3, <1>4
<1>6. /\ frames' \in Seq(Frame) /\ Len(frames') = (n + 1) + 1
      /\ frames'[(n + 1) + 1] = e
      /\ \A k \in 1..(n + 1) : frames'[k] = s[k]
  <2>1. Len(s) = n + 1
    BY <1>3
  <2>2. QED
    BY <1>5, <2>1, Pushed
<1>7. ~Cleared /\ Cleared' = Cleared
  <2>1. ~Closed(frames[Len(frames)])
    BY <1>1, StatementsAndParts DEF Closed, TopName, NameOf
  <2>2. QED
    BY <1>1, <2>1, OpenNotCleared DEF Cleared
<1>8. Nested(s, n + 1) /\ \A k \in 1..(n + 1) : Closed(s[k])
  <2>1. Nested(frames, n + 1) /\ frames[n + 1].what \in Holders
    BY <1>1, <1>2 DEF FInv, Top
  <2>2. /\ \A k \in 1..n : s[k] = frames[k]
        /\ s[n + 1].what = frames[n + 1].what /\ s[n + 1].name \in Statements
    BY <1>3
  <2>3. QED
    BY <2>1, <2>2, NestedNamed
<1>9. Nested(frames', (n + 1) + 1)
  <2>1. frames'[(n + 1) + 1].what = what /\ frames'[(n + 1) + 1].name = "" /\ s[n + 1].name = what
    BY <1>3, <1>4, <1>6
  <2>2. n + 1 \in Nat
    OBVIOUS
  <2>3. QED
    BY <1>6, <1>8, <2>1, <2>2, NestedStatement
<1>10. Len(frames') <= MaxFrames
  <2>1. MaxFrames \in Nat
    BY BoundAssumption
  <2>2. Len(frames) = n + 1 /\ Len(frames) < MaxFrames /\ Len(frames') = (n + 1) + 1
    BY <1>1, <1>2, <1>6, Zenon
  <2>3. QED
    BY <2>1, <2>2
<1>11. QED
  BY <1>1, <1>6, <1>7, <1>9, <1>10 DEF FInv

\* A PREPARE ends: no construct is open from then on.
LEMMA PrepareKeepsNesting ==
    ASSUME FInv, LeavePrepare
    PROVE  FInv' /\ ~Cleared /\ Cleared'
<1>1. /\ frames # <<>> /\ Top = "prepare" /\ TopName = "query" /\ frames' = Pop(frames)
      /\ status' = status
  BY DEF LeavePrepare, Inside, Leave, Keep
<1>2. PICK n \in Nat : Len(frames) = n + 1 /\ Len(frames) - 1 = n
  BY <1>1, Frames
<1>3. PICK e \in Entry : log' = Append(log, e) /\ e.event = "clear"
  <2>1. Event("clear", "", 0) \in Entry /\ Event("clear", "", 0).event = "clear"
    BY DEF Event, Entry, Ids
  <2>2. log' = Append(log, Event("clear", "", 0))
    BY DEF LeavePrepare, ClearParameters
  <2>3. QED
    BY <2>1, <2>2
<1>4. log \in Seq(Entry) /\ MaxEvents \in Nat
  BY BoundAssumption DEF FInv
<1>5. log' \in Seq(Entry) /\ Len(log) \in Nat /\ Len(log') = Len(log) + 1 /\ Cleared'
  <2>1. e.event = "clear" /\ log' = Append(log, e)
    BY <1>3
  <2>2. QED
    BY <1>4, <2>1, Logged
<1>6. ~Cleared
  <2>1. Len(frames) \in 1..Len(frames)
    BY <1>2
  <2>2. QED
    BY <1>1, <2>1 DEF FInv, OnlyHolders, Top, TopName, NameOf
<1>7. /\ frames' \in Seq(Frame) /\ Len(frames') = n
      /\ \A k \in 1..n : frames'[k] = frames[k]
  BY <1>1, <1>2, Frames, Popped
<1>8. Nested(frames', n) /\ OnlyHolders(frames', n)
  <2>1. Nested(frames, n + 1) /\ frames[n + 1].what = "prepare"
    BY <1>1, <1>2 DEF FInv, Top
  <2>2. QED
    BY <1>7, <2>1, NestedPop, NestedPrepare
<1>9. Len(frames') <= MaxFrames
  BY <1>1, <1>2, <1>7, Frames DEF FInv
<1>10. Len(log') <= MaxEvents + 1
  BY <1>4, <1>5, <1>6 DEF FInv
<1>11. QED
  BY <1>1, <1>5, <1>6, <1>7, <1>8, <1>9, <1>10 DEF FInv

\* A parameter or a pivot over data is logged, where a construct is open.
LEMMA LogKeepsNesting ==
    ASSUME FInv, frames # <<>>, ~Closed(frames[Len(frames)]), Len(log) < MaxEvents,
           NEW e \in Entry, e.event # "clear", log' = Append(log, e),
           frames' = frames, status' = status
    PROVE  FInv' /\ ~Cleared /\ ~Cleared'
<1>1. ~Cleared /\ log \in Seq(Entry) /\ MaxEvents \in Nat
  BY OpenNotCleared, BoundAssumption DEF FInv
<1>2. log' \in Seq(Entry) /\ Len(log) \in Nat /\ Len(log') = Len(log) + 1 /\ ~Cleared'
  BY <1>1, Logged
<1>3. Len(log') <= MaxEvents
  BY <1>1, <1>2
<1>4. QED
  BY <1>1, <1>2, <1>3 DEF FInv

\* The walk stays where it is, or ends.
LEMMA StutterKeepsNesting ==
    ASSUME FInv, UNCHANGED <<frames, log>>, status' \in {status, "raised", "done"}
    PROVE  FInv'
BY DEF FInv, Cleared

\* The steps that neither number a parameter, count a pivot, forget the
\* parameters of a PREPARE nor finish the statement.
Quiet == UNCHANGED <<paramVars, pivotVars, log, namedParams>> /\ status' \in {status, "raised"}

Walks ==
    \/ EnterSelect \/ SelectBody \/ LeaveSelect
    \/ \E name \in WindowNames : EnterDefinition(name)
    \/ LeaveDefinition \/ EnterOver \/ LeaveOver
    \/ EnterPivot \/ PivotColumns \/ PivotUsing \/ LeavePivot
    \/ \E what \in Statements : EnterStatement(what)
    \/ LeaveQuery \/ LeaveCreate \/ LeaveExplain
    \/ ZeroParam \/ DuplicateWindow \/ OverInDefinition \/ MissingWindow \/ PivotRefused \/ NotPreparable

LEMMA WalksAreQuiet == Walks => Quiet
<1> USE DEF Quiet, Keep, Raise
<1>1. EnterSelect \/ SelectBody \/ LeaveSelect => Quiet
  BY DEF EnterSelect, SelectBody, LeaveSelect, windowVars
<1>2. ASSUME NEW name \in WindowNames PROVE EnterDefinition(name) => Quiet
  BY DEF EnterDefinition
<1>3. LeaveDefinition \/ EnterOver \/ LeaveOver => Quiet
  BY DEF LeaveDefinition, EnterOver, LeaveOver
<1>4. EnterPivot \/ PivotColumns \/ PivotUsing \/ LeavePivot => Quiet
  BY DEF EnterPivot, PivotColumns, PivotUsing, LeavePivot
<1>5. ASSUME NEW what \in Statements PROVE EnterStatement(what) => Quiet
  BY DEF EnterStatement
<1>6. LeaveQuery \/ LeaveCreate \/ LeaveExplain => Quiet
  BY DEF LeaveQuery, LeaveCreate, LeaveExplain
<1>7. ZeroParam \/ DuplicateWindow \/ OverInDefinition \/ MissingWindow \/ PivotRefused \/ NotPreparable => Quiet
  BY DEF ZeroParam, DuplicateWindow, OverInDefinition, MissingWindow, PivotRefused, NotPreparable
<1>8. QED
  BY <1>1, <1>2, <1>3, <1>4, <1>5, <1>6, <1>7 DEF Walks

\* Every such step keeps the nesting.
LEMMA WalksKeepNesting == FInv /\ Walks => FInv'
<1> SUFFICES ASSUME FInv, Walks PROVE FInv'
  OBVIOUS
<1>0. Quiet
  BY WalksAreQuiet
<1>1. log' = log
  BY <1>0 DEF Quiet
<1>2. ASSUME NEW what \in Parts, NEW name \in WindowNames \cup {""}, Enter(what, name), Room,
             frames # <<>>, ~Closed(frames[Len(frames)]), Keep
      PROVE  FInv'
  <2>1. PICK e \in Frame : e = Construct(what, name) /\ e.what = what
    BY Constructs
  <2>2. frames' = Append(frames, e) /\ e.what \in Parts /\ status' = status /\ Len(frames) < MaxFrames
    BY <1>2, <2>1 DEF Enter, Keep, Room
  <2>3. QED
    BY <1>1, <1>2, <2>2, PushKeepsNesting
<1>3. ASSUME Leave, Inside, Keep PROVE FInv'
  BY <1>1, <1>3, PopKeepsNesting DEF Leave, Inside, Keep
<1>4. ASSUME NEW what \in Parts, Become(what), Inside, Top \in Parts, Keep PROVE FInv'
  BY <1>1, <1>4, BecomeKeepsNesting DEF Inside, Keep
<1>5. ASSUME Raise PROVE FInv'
  BY <1>5, StutterKeepsNesting DEF Raise
<1>6. CASE EnterSelect \/ EnterOver \/ EnterPivot
  <2>1. frames # <<>> /\ ~Closed(frames[Len(frames)])
    BY <1>6, ExpressionsAreOpen DEF EnterSelect, EnterOver, EnterPivot
  <2>2. QED
    BY <1>2, <1>6, <2>1 DEF EnterSelect, EnterOver, EnterPivot, Parts
<1>7. ASSUME NEW name \in WindowNames, EnterDefinition(name) PROVE FInv'
  <2>1. frames # <<>> /\ ~Closed(frames[Len(frames)])
    BY <1>7, StatementsAndParts DEF EnterDefinition, Inside, Top, Closed, Parts
  <2>2. QED
    BY <1>2, <1>7, <2>1 DEF EnterDefinition, Parts
<1>8. ASSUME NEW what \in Statements, EnterStatement(what) PROVE FInv'
  BY <1>8, EnterKeepsNesting
<1>9. CASE SelectBody \/ PivotColumns \/ PivotUsing
  BY <1>4, <1>9 DEF SelectBody, PivotColumns, PivotUsing, Parts
<1>10. CASE LeaveSelect \/ LeaveDefinition \/ LeaveOver \/ LeavePivot \/ LeaveQuery
  BY <1>3, <1>10 DEF LeaveSelect, LeaveDefinition, LeaveOver, LeavePivot, LeaveQuery
<1>11. CASE LeaveCreate \/ LeaveExplain
  BY <1>3, <1>5, <1>11 DEF LeaveCreate, LeaveExplain
<1>12. CASE \/ ZeroParam \/ DuplicateWindow \/ OverInDefinition
            \/ MissingWindow \/ PivotRefused \/ NotPreparable
  BY <1>5, <1>12
     DEF ZeroParam, DuplicateWindow, OverInDefinition, MissingWindow, PivotRefused, NotPreparable
<1>13. QED
  BY <1>6, <1>7, <1>8, <1>9, <1>10, <1>11, <1>12 DEF Walks

-----------------------------------------------------------------------------
(* Parameters and pivots. *)

\* at lists the members of F upwards.
Upwards(at, F, n) ==
    /\ at \in [1..n -> F]
    /\ \A i, j \in 1..n : i < j => at[i] < at[j]
    /\ \A k \in F : \E i \in 1..n : at[i] = k

\* paramOrder and paramSeen are the parameters in the order of first use.
Used ==
    \E at : /\ Upwards(at, FirstUses, Len(paramOrder))
            /\ \A i \in 1..Len(paramOrder) :
                  /\ log[at[i]].id = paramOrder[i]
                  /\ log[at[i]].number = paramSeen[paramOrder[i]]

\* Until a PREPARE forgets them: numbers are below the high-water mark, and a
\* $name's number is the one its identifier was seen with.
Numbers ==
    /\ paramCount \in 0..(MaxNumber + Len(log))
    /\ \A id \in DOMAIN paramSeen : paramSeen[id] \in 1..paramCount
    /\ \A k \in 1..Len(log) : IsParam(k) =>
          /\ log[k].number \in 1..paramCount
          /\ log[k].id \in DOMAIN paramSeen
          /\ hasNamed \/ hasPosition
    /\ \A k \in 1..Len(log) : log[k].event = "named" => paramSeen[log[k].id] = log[k].number
    /\ Used

\* What the pivots over data have noted.
Pivots ==
    /\ pivotEntries \in 0..MaxEvents
    /\ pivotEntryHasParams \in BOOLEAN
    /\ ~Cleared => pivotEntries <= Len(log)
    /\ \A k \in 1..Len(log) : log[k].event = "pivot" =>
          /\ pivotEntries > 0
          /\ \A j \in 1..(k - 1) : IsParam(j) => pivotEntryHasParams

\* The inductive invariant behind ParametersNumbered, with FInv.
DInv ==
    /\ paramCount \in Int /\ hasNamed \in BOOLEAN /\ hasPosition \in BOOLEAN
    /\ paramOrder \in Seq(Ids)
    /\ DOMAIN paramSeen = {paramOrder[k] : k \in 1..Len(paramOrder)}
    /\ IF Cleared THEN paramOrder = <<>> ELSE Numbers
    /\ AnonymousIsFresh /\ NamedNumberedByFirstUse
    /\ Pivots
    /\ NamedParamsComplete /\ PivotNeverAfterParam

Continues(up, at, F, n, m) ==
    /\ Upwards(up, F \cup {m + 1}, n + 1)
    /\ up[n + 1] = m + 1 /\ \A i \in 1..n : up[i] = at[i]

\* One more first use, after all the others.
LEMMA OneMore ==
    ASSUME NEW at, NEW F, NEW n \in Nat, NEW m \in Nat, F \subseteq 1..m, Upwards(at, F, n)
    PROVE  \E up : Continues(up, at, F, n, m)
<1> DEFINE up == [i \in 1..(n + 1) |-> IF i = n + 1 THEN m + 1 ELSE at[i]]
<1>0. \A i \in 1..n : at[i] \in F /\ at[i] \in 1..m
  BY DEF Upwards
<1>1. up[n + 1] = m + 1 /\ \A i \in 1..n : up[i] = at[i]
  <2>1. n + 1 \in 1..(n + 1)
    OBVIOUS
  <2>2. \A i \in 1..n : i \in 1..(n + 1) /\ i # n + 1
    OBVIOUS
  <2>3. QED
    BY <2>1, <2>2
<1>2. up \in [1..(n + 1) -> F \cup {m + 1}]
  <2>1. \A i \in 1..(n + 1) : i # n + 1 => i \in 1..n
    OBVIOUS
  <2>2. QED
    BY <1>0, <2>1
<1> HIDE DEF up
<1>3. ASSUME NEW i \in 1..(n + 1), NEW j \in 1..(n + 1), i < j PROVE up[i] < up[j]
  <2>1. CASE j = n + 1
    <3>1. i \in 1..n
      BY <1>3, <2>1
    <3>2. up[i] \in 1..m /\ up[j] = m + 1
      BY <1>0, <1>1, <2>1, <3>1
    <3>3. QED
      BY <3>2
  <2>2. CASE j \in 1..n
    <3>1. i \in 1..n
      BY <1>3, <2>2
    <3>2. at[i] < at[j]
      BY <1>3, <2>2, <3>1 DEF Upwards
    <3>3. QED
      BY <1>1, <2>2, <3>1, <3>2
  <2>3. QED
    BY <2>1, <2>2
<1>4. ASSUME NEW k \in F \cup {m + 1} PROVE \E i \in 1..(n + 1) : up[i] = k
  <2>1. CASE k = m + 1
    BY <1>1, <2>1
  <2>2. CASE k \in F
    <3>1. PICK i \in 1..n : at[i] = k
      BY <2>2 DEF Upwards
    <3>2. i \in 1..(n + 1) /\ up[i] = k
      BY <1>1, <3>1
    <3>3. QED
      BY <3>2
  <2>3. QED
    BY <2>1, <2>2
<1>5. Upwards(up, F \cup {m + 1}, n + 1)
  BY <1>2, <1>3, <1>4 DEF Upwards
<1>6. QED
  BY <1>1, <1>5 DEF Continues

\* A log entry's parts.
LEMMA Events ==
    ASSUME NEW event, NEW id, NEW number
    PROVE  /\ Event(event, id, number).event = event
           /\ Event(event, id, number).id = id
           /\ Event(event, id, number).number = number
           /\ Event(event, id, number) \in [event : {event}, id : {id}, number : {number}]
BY DEF Event

\* What registerParam does.
LEMMA Registered ==
    ASSUME DInv, Numbers, log \in Seq(Entry), Len(log) < MaxEvents, MaxNumber + MaxEvents <= MaxInt,
           NEW kind \in {"anonymous", "numbered", "named"}, NEW name, NEW written,
           kind = "numbered" => written \in 1..MaxNumber,
           kind = "named" => name \in Names,
           RegisterParam(kind, name, written)
    PROVE  \E e \in Entry :
              /\ log' = Append(log, e) /\ e.event = kind
              /\ paramCount' \in 0..(MaxNumber + (Len(log) + 1)) /\ paramCount <= paramCount'
              /\ e.number \in 1..paramCount'
              /\ kind = "anonymous" => e.number = paramCount + 1
              /\ DOMAIN paramSeen' = DOMAIN paramSeen \cup {e.id}
              /\ \A id \in DOMAIN paramSeen : paramSeen'[id] = paramSeen[id]
              /\ e.id \in DOMAIN paramSeen => paramOrder' = paramOrder
              /\ e.id \notin DOMAIN paramSeen =>
                    paramSeen'[e.id] = e.number /\ paramOrder' = Append(paramOrder, e.id)
              /\ kind = "named" => paramSeen'[e.id] = e.number
              /\ hasNamed' \in BOOLEAN /\ hasPosition' \in BOOLEAN /\ (hasNamed' \/ hasPosition')
<1> DEFINE number == NumberOf(kind, name, written)
           id     == Identifier(kind, name, number)
           e      == Event(kind, id, number)
<1>1. /\ paramCount' = CountAfter(kind, name, number)
      /\ id \in DOMAIN paramSeen => paramSeen' = paramSeen /\ paramOrder' = paramOrder
      /\ id \notin DOMAIN paramSeen =>
            /\ paramSeen' = [x \in DOMAIN paramSeen \cup {id} |-> IF x = id THEN number ELSE paramSeen[x]]
            /\ paramOrder' = Append(paramOrder, id)
      /\ log' = Append(log, e)
      /\ hasNamed' = (hasNamed \/ kind = "named") /\ hasPosition' = (hasPosition \/ kind # "named")
  BY DEF RegisterParam
<1>2. /\ number = IF kind = "numbered" THEN written
                  ELSE IF kind = "named" /\ name \in DOMAIN paramSeen THEN paramSeen[name]
                  ELSE Increment(paramCount)
      /\ id = IF kind = "named" THEN name ELSE ToString(number)
  BY DEF NumberOf, Identifier
<1>3. e.event = kind /\ e.id = id /\ e.number = number
  BY Events
<1>4. e \in [event : {kind}, id : {id}, number : {number}]
  BY Events
<1> HIDE DEF number, id, e
<1>5. paramCount \in Nat /\ paramCount <= MaxNumber + Len(log) /\ Len(log) \in Nat /\ MaxNumber \in Nat
  BY LenProperties, BoundAssumption DEF Numbers
<1>6. Increment(paramCount) = paramCount + 1
  <2>1. paramCount # MaxInt
    BY <1>5, BoundAssumption
  <2>2. QED
    BY <2>1 DEF Increment
<1>7. /\ paramCount' \in 0..(MaxNumber + (Len(log) + 1)) /\ paramCount <= paramCount'
      /\ number \in 1..paramCount'
      /\ kind = "anonymous" => number = paramCount + 1
  <2>1. CASE kind = "named" /\ name \in DOMAIN paramSeen
    <3>1. number = paramSeen[name] /\ paramCount' = paramCount
      BY <1>1, <1>2, <2>1 DEF CountAfter
    <3>2. number \in 1..paramCount
      BY <2>1, <3>1 DEF Numbers
    <3>3. QED
      BY <1>5, <2>1, <3>1, <3>2
  <2>2. CASE kind = "numbered"
    <3>1. number \in 1..MaxNumber
      BY <1>2, <2>2
    <3>2. paramCount' = IF number <= paramCount THEN paramCount ELSE number
      BY <1>1, <2>2 DEF CountAfter
    <3>3. QED
      BY <1>5, <2>2, <3>1, <3>2
  <2>3. CASE kind # "numbered" /\ ~(kind = "named" /\ name \in DOMAIN paramSeen)
    <3>1. number = paramCount + 1
      BY <1>2, <1>6, <2>3
    <3>2. paramCount' = number
      BY <1>1, <2>3 DEF CountAfter
    <3>3. QED
      BY <1>5, <3>1, <3>2
  <2>4. QED
    BY <2>1, <2>2, <2>3
<1>8. id \in Ids
  <2>1. CASE kind = "named"
    BY <1>2, <2>1 DEF Ids
  <2>2. CASE kind # "named"
    <3>1. number \in Int /\ id = ToString(number)
      BY <1>2, <1>5, <1>7, <2>2
    <3>2. QED
      BY <3>1, Zenon DEF Ids
  <2>3. QED
    BY <2>1, <2>2
<1>9. e \in Entry
  <2>1. number \in Int /\ kind \in {"anonymous", "numbered", "named", "pivot", "clear"}
    BY <1>5, <1>7
  <2>2. QED
    BY <1>4, <1>8, <2>1 DEF Entry
<1>10. /\ DOMAIN paramSeen' = DOMAIN paramSeen \cup {id}
       /\ \A x \in DOMAIN paramSeen : paramSeen'[x] = paramSeen[x]
       /\ id \notin DOMAIN paramSeen => paramSeen'[id] = number
  <2>1. CASE id \in DOMAIN paramSeen
    BY <1>1, <2>1
  <2>2. CASE id \notin DOMAIN paramSeen
    BY <1>1, <2>2
  <2>3. QED
    BY <2>1, <2>2
<1>11. kind = "named" => paramSeen'[id] = number
  <2>1. CASE id \in DOMAIN paramSeen
    BY <1>2, <1>10, <2>1
  <2>2. CASE id \notin DOMAIN paramSeen
    BY <1>10, <2>2
  <2>3. QED
    BY <2>1, <2>2
<1>12. hasNamed' \in BOOLEAN /\ hasPosition' \in BOOLEAN /\ (hasNamed' \/ hasPosition')
  BY <1>1 DEF DInv
<1>13. QED
  BY <1>1, <1>3, <1>7, <1>9, <1>10, <1>11, <1>12

\* The first uses, after another entry.
LEMMA UsesLogged ==
    ASSUME log \in Seq(Entry), NEW e \in Entry, log' = Append(log, e),
           NEW m \in Nat, m = Len(log)
    PROVE  /\ \A k \in 1..m : IsParam(k)' <=> IsParam(k)
           /\ IsParam(m + 1)' <=> e.event \notin {"pivot", "clear"}
           /\ e.event \in {"pivot", "clear"} => FirstUses' = FirstUses
           /\ (\E k \in 1..m : IsParam(k) /\ log[k].id = e.id) => FirstUses' = FirstUses
           /\ e.event \notin {"pivot", "clear"} /\ (\A k \in 1..m : IsParam(k) => log[k].id # e.id)
                 => FirstUses' = FirstUses \cup {m + 1}
<1>1. /\ m \in Nat /\ Len(log') = m + 1 /\ log'[m + 1] = e
      /\ \A k \in 1..m : log'[k] = log[k]
  BY Logged
<1>2. \A k \in 1..m : IsParam(k)' <=> IsParam(k)
  BY <1>1 DEF IsParam
<1>3. IsParam(m + 1)' <=> e.event \notin {"pivot", "clear"}
  BY <1>1 DEF IsParam
<1>4. ASSUME NEW k \in 1..m PROVE k \in FirstUses' <=> k \in FirstUses
  <2>1. k \in FirstUses <=> IsParam(k) /\ \A j \in 1..m : IsParam(j) /\ log[j].id = log[k].id => k <= j
    BY DEF FirstUses, FirstUse, Occurrence
  <2>2. k \in FirstUses' <=>
            IsParam(k)' /\ \A j \in 1..(m + 1) : IsParam(j)' /\ log'[j].id = log'[k].id => k <= j
    <3>1. k \in 1..(m + 1)
      BY <1>1, Ranges
    <3>2. QED
      BY <1>1, <3>1 DEF FirstUses, FirstUse, Occurrence
  <2>3. k <= m + 1 /\ \A j \in 1..(m + 1) : j \in 1..m \/ j = m + 1
    BY <1>1
  <2>4. \A j \in 1..m : j \in 1..(m + 1)
    BY <1>1, Ranges
  <2>5. QED
    BY <1>1, <1>2, <2>1, <2>2, <2>3, <2>4, Zenon
<1>5. m + 1 \in FirstUses' <=>
         e.event \notin {"pivot", "clear"} /\ \A j \in 1..m : IsParam(j) => log[j].id # e.id
  <2>1. m + 1 \in FirstUses' <=>
           IsParam(m + 1)' /\ \A j \in 1..(m + 1) : IsParam(j)' /\ log'[j].id = e.id => m + 1 <= j
    <3>1. m + 1 \in 1..(m + 1)
      BY <1>1, Ranges
    <3>2. QED
      BY <1>1, <3>1 DEF FirstUses, FirstUse, Occurrence
  <2>2. \A j \in 1..(m + 1) : IF j = m + 1 THEN m + 1 <= j ELSE j \in 1..m /\ ~(m + 1 <= j)
    BY <1>1
  <2>3. \A j \in 1..m : j \in 1..(m + 1) /\ j # m + 1
    BY <1>1
  <2>4. QED
    BY <1>1, <1>2, <1>3, <2>1, <2>2, <2>3, Zenon
<1>6. FirstUses \subseteq 1..m /\ FirstUses' \subseteq 1..(m + 1)
  BY <1>1 DEF FirstUses
<1>7. \A k \in 1..(m + 1) : k \in 1..m \/ k = m + 1
  BY <1>1
<1>8. m + 1 \notin FirstUses' => FirstUses' = FirstUses
  <2>1. m + 1 \notin 1..m
    BY <1>1
  <2>2. QED
    BY <1>4, <1>6, <1>7, <2>1
<1>9. m + 1 \in FirstUses' => FirstUses' = FirstUses \cup {m + 1}
  BY <1>4, <1>6, <1>7
<1>10. QED
  BY <1>2, <1>3, <1>5, <1>8, <1>9

\* The identifiers seen are those of the parameters so far.
LEMMA SeenIsUsed ==
    ASSUME DInv, Numbers, NEW id
    PROVE  id \in DOMAIN paramSeen <=> \E k \in 1..Len(log) : IsParam(k) /\ log[k].id = id
<1>1. ASSUME id \in DOMAIN paramSeen PROVE \E k \in 1..Len(log) : IsParam(k) /\ log[k].id = id
  <2>1. PICK i \in 1..Len(paramOrder) : paramOrder[i] = id
    BY <1>1 DEF DInv
  <2>2. PICK at : /\ Upwards(at, FirstUses, Len(paramOrder))
                  /\ \A j \in 1..Len(paramOrder) : log[at[j]].id = paramOrder[j]
    BY DEF Numbers, Used
  <2>3. at[i] \in FirstUses /\ log[at[i]].id = id
    BY <2>1, <2>2 DEF Upwards
  <2>4. QED
    BY <2>3 DEF FirstUses, FirstUse
<1>2. QED
  BY <1>1 DEF Numbers

\* registerParam keeps the parameters in order.
LEMMA RegisterKeepsUsed ==
    ASSUME DInv, Numbers, log \in Seq(Entry), NEW e \in Entry, log' = Append(log, e),
           e.event \notin {"pivot", "clear"},
           \A id \in DOMAIN paramSeen : paramSeen'[id] = paramSeen[id],
           e.id \in DOMAIN paramSeen => paramOrder' = paramOrder,
           e.id \notin DOMAIN paramSeen =>
               paramSeen'[e.id] = e.number /\ paramOrder' = Append(paramOrder, e.id)
    PROVE  Used'
<1>0. PICK m \in Nat, n \in Nat : m = Len(log) /\ n = Len(paramOrder)
  <2>1. Len(log) \in Nat /\ Len(paramOrder) \in Nat
    BY LenProperties DEF DInv
  <2>2. QED
    BY <2>1
<1>1. /\ m \in Nat /\ Len(log') = m + 1 /\ log'[m + 1] = e
      /\ \A k \in 1..m : log'[k] = log[k]
  BY <1>0, Logged
<1>2. n \in Nat /\ paramOrder \in Seq(Ids) /\ \A i \in 1..n : paramOrder[i] \in DOMAIN paramSeen
  BY <1>0 DEF DInv
<1>3. FirstUses \subseteq 1..m
  BY <1>0 DEF FirstUses
<1>4. PICK at : /\ Upwards(at, FirstUses, n)
                /\ \A i \in 1..n : log[at[i]].id = paramOrder[i] /\ log[at[i]].number = paramSeen[paramOrder[i]]
  BY <1>0 DEF Numbers, Used
<1>5. \A i \in 1..n : /\ log'[at[i]].id = paramOrder[i]
                      /\ log'[at[i]].number = paramSeen'[paramOrder[i]]
  <2>1. \A i \in 1..n : at[i] \in 1..m
    BY <1>3, <1>4 DEF Upwards
  <2>2. QED
    BY <1>1, <1>2, <1>4, <2>1
<1>6. CASE e.id \in DOMAIN paramSeen
  <2>1. FirstUses' = FirstUses /\ paramOrder' = paramOrder
    BY <1>0, <1>6, SeenIsUsed, UsesLogged
  <2>2. QED
    BY <1>0, <1>4, <1>5, <2>1 DEF Used
<1>7. CASE e.id \notin DOMAIN paramSeen
  <2>1. FirstUses' = FirstUses \cup {m + 1}
    BY <1>0, <1>7, SeenIsUsed, UsesLogged
  <2>2. PICK up : /\ Upwards(up, FirstUses \cup {m + 1}, n + 1)
                  /\ up[n + 1] = m + 1 /\ \A i \in 1..n : up[i] = at[i]
    <3>1. Upwards(at, FirstUses, n)
      BY <1>4
    <3>2. \E up : Continues(up, at, FirstUses, n, m)
      BY <1>3, <3>1, OneMore
    <3>3. QED
      BY <3>2 DEF Continues
  <2>3. /\ Len(paramOrder') = n + 1 /\ paramOrder'[n + 1] = e.id
        /\ \A i \in 1..n : paramOrder'[i] = paramOrder[i]
    <3>1. e.id \in Ids /\ paramOrder' = Append(paramOrder, e.id)
      BY <1>7 DEF Entry
    <3>2. QED
      BY <1>0, <1>2, <3>1, Pushed
  <2>4. ASSUME NEW i \in 1..(n + 1)
        PROVE  /\ log'[up[i]].id = paramOrder'[i]
               /\ log'[up[i]].number = paramSeen'[paramOrder'[i]]
    <3>1. CASE i \in 1..n
      BY <1>5, <2>2, <2>3, <3>1, Zenon
    <3>2. CASE i = n + 1
      <4>1. log'[up[i]] = e /\ paramOrder'[i] = e.id /\ paramSeen'[e.id] = e.number
        BY <1>1, <1>7, <2>2, <2>3, <3>2, Zenon
      <4>2. QED
        BY <4>1, Zenon
    <3>3. QED
      BY <1>2, <3>1, <3>2, Ranges, Zenon
  <2>5. Upwards(up, FirstUses', Len(paramOrder'))
    BY <2>1, <2>2, <2>3
  <2>6. \A i \in 1..Len(paramOrder') : /\ log'[up[i]].id = paramOrder'[i]
                                        /\ log'[up[i]].number = paramSeen'[paramOrder'[i]]
    BY <2>3, <2>4
  <2>7. QED
    BY <2>5, <2>6, Zenon DEF Used
<1>8. QED
  BY <1>6, <1>7

\* registerParam, wherever an expression can be.
LEMMA RegisterKeepsData ==
    ASSUME FInv, DInv, Running, MaxNumber + MaxEvents <= MaxInt,
           NEW kind \in {"anonymous", "numbered", "named"}, NEW name, NEW written,
           kind = "numbered" => written \in 1..MaxNumber,
           kind = "named" => name \in Names,
           RegisterParam(kind, name, written)
    PROVE  FInv' /\ DInv'
<1>1. /\ frames # <<>> /\ ~Closed(frames[Len(frames)]) /\ Len(log) < MaxEvents
      /\ frames' = frames /\ status' = status /\ UNCHANGED pivotVars
  BY ExpressionsAreOpen DEF RegisterParam, Keep
<1>2. ~Cleared /\ log \in Seq(Entry)
  BY <1>1, OpenNotCleared DEF FInv
<1>3. Numbers
  BY <1>2 DEF DInv
<1>4. PICK e \in Entry :
          /\ log' = Append(log, e) /\ e.event = kind
          /\ paramCount' \in 0..(MaxNumber + (Len(log) + 1)) /\ paramCount <= paramCount'
          /\ e.number \in 1..paramCount'
          /\ kind = "anonymous" => e.number = paramCount + 1
          /\ DOMAIN paramSeen' = DOMAIN paramSeen \cup {e.id}
          /\ \A id \in DOMAIN paramSeen : paramSeen'[id] = paramSeen[id]
          /\ e.id \in DOMAIN paramSeen => paramOrder' = paramOrder
          /\ e.id \notin DOMAIN paramSeen =>
                paramSeen'[e.id] = e.number /\ paramOrder' = Append(paramOrder, e.id)
          /\ kind = "named" => paramSeen'[e.id] = e.number
          /\ hasNamed' \in BOOLEAN /\ hasPosition' \in BOOLEAN /\ (hasNamed' \/ hasPosition')
  BY <1>1, <1>2, <1>3, Registered
<1>5. e.event \notin {"pivot", "clear"}
  BY <1>4
<1>6. FInv' /\ ~Cleared'
  BY <1>1, <1>4, <1>5, LogKeepsNesting
<1>7. PICK m \in Nat : m = Len(log)
  BY <1>2, LenProperties
<1>8. /\ Len(log') = m + 1 /\ log'[m + 1] = e
      /\ \A k \in 1..m : log'[k] = log[k]
  BY <1>2, <1>4, <1>7, Logged
<1>9. \A k \in 1..m : IsParam(k)' <=> IsParam(k)
  BY <1>2, <1>4, <1>7, UsesLogged
<1>10. Numbers'
  <2>1. paramCount' \in 0..(MaxNumber + Len(log'))
    BY <1>4, <1>7, <1>8
  <2>2. ASSUME NEW id \in DOMAIN paramSeen' PROVE paramSeen'[id] \in 1..paramCount'
    <3>1. CASE id \in DOMAIN paramSeen
      <4>1. paramSeen'[id] \in 1..paramCount /\ paramCount \in Nat
        BY <1>3, <1>4, <3>1, BoundAssumption, LenProperties DEF Numbers
      <4>2. paramCount' \in Nat /\ paramCount <= paramCount'
        BY <1>4
      <4>3. QED
        BY <4>1, <4>2
    <3>2. CASE id \notin DOMAIN paramSeen
      BY <1>4, <3>2
    <3>3. QED
      BY <3>1, <3>2
  <2>3. ASSUME NEW k \in 1..(m + 1), IsParam(k)'
        PROVE  log'[k].number \in 1..paramCount' /\ log'[k].id \in DOMAIN paramSeen'
    <3>1. CASE k \in 1..m
      <4>1. log[k].number \in 1..paramCount /\ log[k].id \in DOMAIN paramSeen
        BY <1>3, <1>7, <1>9, <2>3, <3>1 DEF Numbers
      <4>2. log'[k].number \in 1..paramCount /\ log'[k].id \in DOMAIN paramSeen
        BY <1>8, <3>1, <4>1
      <4>3. paramCount \in Nat /\ paramCount' \in Nat /\ paramCount <= paramCount'
        BY <1>3, <1>4 DEF Numbers
      <4>4. log'[k].number \in 1..paramCount'
        BY <4>2, <4>3
      <4>5. QED
        BY <1>4, <4>2, <4>4
    <3>2. CASE k = m + 1
      BY <1>4, <1>8, <3>2
    <3>3. QED
      BY <3>1, <3>2, Ranges, Zenon
  <2>4. ASSUME NEW k \in 1..(m + 1), log'[k].event = "named"
        PROVE  paramSeen'[log'[k].id] = log'[k].number
    <3>1. CASE k \in 1..m
      <4>1. log[k].event = "named" /\ log'[k] = log[k]
        BY <1>8, <2>4, <3>1
      <4>2. log[k].id \in DOMAIN paramSeen /\ paramSeen[log[k].id] = log[k].number
        <5>1. IsParam(k)
          BY <4>1 DEF IsParam
        <5>2. QED
          BY <1>3, <1>7, <3>1, <4>1, <5>1 DEF Numbers
      <4>3. QED
        BY <1>4, <4>1, <4>2
    <3>2. CASE k = m + 1
      BY <1>4, <1>8, <2>4, <3>2
    <3>3. QED
      BY <3>1, <3>2, Ranges, Zenon
  <2>5. Used'
    BY <1>2, <1>3, <1>4, <1>5, RegisterKeepsUsed
  <2>6. hasNamed' \/ hasPosition'
    BY <1>4
  <2>7. QED
    BY <1>8, <2>1, <2>2, <2>3, <2>4, <2>5, <2>6 DEF Numbers
<1>11. /\ paramOrder' \in Seq(Ids)
       /\ DOMAIN paramSeen' = {paramOrder'[k] : k \in 1..Len(paramOrder')}
  <2>1. paramOrder \in Seq(Ids) /\ DOMAIN paramSeen = {paramOrder[k] : k \in 1..Len(paramOrder)}
    BY DEF DInv
  <2>2. CASE e.id \in DOMAIN paramSeen
    BY <1>4, <2>1, <2>2
  <2>3. CASE e.id \notin DOMAIN paramSeen
    <3>1. e.id \in Ids /\ paramOrder' = Append(paramOrder, e.id)
      BY <1>4, <2>3 DEF Entry
    <3>2. PICK n \in Nat : n = Len(paramOrder)
      BY <2>1, LenProperties
    <3>3. /\ paramOrder' \in Seq(Ids) /\ Len(paramOrder') = n + 1 /\ paramOrder'[n + 1] = e.id
          /\ \A k \in 1..n : paramOrder'[k] = paramOrder[k]
      BY <2>1, <3>1, <3>2, Pushed
    <3>4. /\ \A k \in 1..(n + 1) : k \in 1..n \/ k = n + 1
          /\ \A k \in 1..n : k \in 1..(n + 1)
          /\ n + 1 \in 1..(n + 1)
      BY <3>2, Ranges
    <3>5. QED
      BY <1>4, <2>1, <3>2, <3>3, <3>4
  <2>4. QED
    BY <2>2, <2>3
<1>12. AnonymousIsFresh'
  <2>1. ASSUME NEW k \in 1..(m + 1), log'[k].event = "anonymous",
               NEW j \in 1..(k - 1), IsParam(j)'
        PROVE  log'[j].number < log'[k].number
    <3>1. j \in 1..m /\ log'[j] = log[j] /\ IsParam(j)
      BY <1>8, <1>9, <2>1, Ranges
    <3>2. CASE k \in 1..m
      <4>1. log'[k] = log[k] /\ log[k].event = "anonymous"
        BY <1>8, <2>1, <3>2
      <4>2. log[j].number < log[k].number
        BY <1>7, <2>1, <3>1, <3>2, <4>1 DEF DInv, AnonymousIsFresh
      <4>3. QED
        BY <3>1, <4>1, <4>2
    <3>3. CASE k = m + 1
      <4>1. log'[k].number = paramCount + 1
        BY <1>4, <1>8, <2>1, <3>3
      <4>2. log[j].number \in 1..paramCount /\ paramCount \in Int
        BY <1>3, <1>7, <3>1 DEF Numbers, DInv
      <4>3. log[j].number < paramCount + 1
        BY <4>2
      <4>4. QED
        BY <3>1, <4>1, <4>3
    <3>4. QED
      BY <3>2, <3>3, Ranges, Zenon
  <2>2. QED
    BY <1>8, <2>1 DEF AnonymousIsFresh
<1>13. NamedNumberedByFirstUse'
  <2>1. \A k \in 1..Len(log') : log'[k].event = "named" => paramSeen'[log'[k].id] = log'[k].number
    BY <1>10 DEF Numbers
  <2>2. QED
    BY <2>1 DEF NamedNumberedByFirstUse
<1>14. Pivots'
  <2>1. pivotEntries' = pivotEntries /\ pivotEntryHasParams' = pivotEntryHasParams
    BY <1>1 DEF pivotVars
  <2>2. pivotEntries' \in 0..MaxEvents /\ pivotEntryHasParams' \in BOOLEAN /\ pivotEntries <= m
    BY <1>2, <1>7, <2>1 DEF DInv, Pivots
  <2>3. pivotEntries' <= Len(log')
    BY <1>8, <2>1, <2>2, BoundAssumption
  <2>4. ASSUME NEW k \in 1..(m + 1), log'[k].event = "pivot"
        PROVE  pivotEntries' > 0 /\ \A j \in 1..(k - 1) : IsParam(j)' => pivotEntryHasParams'
    <3>1. k # m + 1
      BY <1>5, <1>8, <2>4
    <3>2. k \in 1..m /\ log[k].event = "pivot"
      BY <1>8, <2>4, <3>1, Ranges
    <3>3. \A j \in 1..(k - 1) : j \in 1..m
      BY <3>2
    <3>4. QED
      BY <1>7, <1>9, <2>1, <3>2, <3>3 DEF DInv, Pivots
  <2>5. QED
    BY <1>8, <2>2, <2>3, <2>4 DEF Pivots
<1>15. NamedParamsComplete' /\ PivotNeverAfterParam'
  BY <1>1 DEF Running, NamedParamsComplete, PivotNeverAfterParam
<1>16. paramCount' \in Int
  BY <1>4
<1>17. QED
  BY <1>4, <1>6, <1>10, <1>11, <1>12, <1>13, <1>14, <1>15, <1>16 DEF DInv

\* An entry that is no parameter leaves what was used, and its numbers, as it is.
LEMMA OtherEntries ==
    ASSUME DInv, log \in Seq(Entry), NEW e \in Entry, e.event \in {"pivot", "clear"},
           log' = Append(log, e)
    PROVE  /\ AnonymousIsFresh' /\ NamedNumberedByFirstUse'
           /\ Numbers /\ UNCHANGED paramVars => Numbers'
<1>1. PICK m \in Nat : m = Len(log)
  BY LenProperties
<1>2. /\ Len(log') = m + 1 /\ log'[m + 1] = e
      /\ \A k \in 1..m : log'[k] = log[k]
  BY <1>1, Logged
<1>3. /\ \A k \in 1..m : IsParam(k)' <=> IsParam(k)
      /\ ~IsParam(m + 1)' /\ FirstUses' = FirstUses
  BY <1>1, UsesLogged
<1>4. \A k \in 1..(m + 1) : k \in 1..m \/ k = m + 1
  BY Ranges
<1>5. \A k \in 1..(m + 1) : log'[k].event \in {"named", "anonymous"} \/ IsParam(k)' =>
         k \in 1..m /\ log'[k] = log[k]
  <2>1. log'[m + 1].event \notin {"named", "anonymous"}
    BY <1>2
  <2>2. QED
    BY <1>2, <1>3, <1>4, <2>1
<1>6. AnonymousIsFresh'
  <2>1. ASSUME NEW k \in 1..(m + 1), log'[k].event = "anonymous", NEW j \in 1..(k - 1), IsParam(j)'
        PROVE  log'[j].number < log'[k].number
    <3>1. k \in 1..m /\ log'[k] = log[k]
      BY <1>5, <2>1
    <3>2. j \in 1..m
      BY <3>1
    <3>3. log'[j] = log[j] /\ IsParam(j) /\ log[k].event = "anonymous"
      BY <1>2, <1>3, <2>1, <3>1, <3>2
    <3>4. log[j].number < log[k].number
      BY <1>1, <3>1, <3>3 DEF DInv, AnonymousIsFresh
    <3>5. QED
      BY <3>1, <3>3, <3>4
  <2>2. QED
    BY <1>2, <2>1 DEF AnonymousIsFresh
<1>7. NamedNumberedByFirstUse'
  <2>1. ASSUME NEW j \in 1..(m + 1), NEW k \in 1..(m + 1),
               log'[j].event = "named", log'[k].event = "named", log'[j].id = log'[k].id
        PROVE  log'[j].number = log'[k].number
    <3>1. j \in 1..m /\ k \in 1..m /\ log'[j] = log[j] /\ log'[k] = log[k]
      BY <1>5, <2>1
    <3>2. QED
      BY <1>1, <2>1, <3>1 DEF DInv, NamedNumberedByFirstUse
  <2>2. QED
    BY <1>2, <2>1 DEF NamedNumberedByFirstUse
<1>8. ASSUME Numbers, UNCHANGED paramVars PROVE Numbers'
  <2>1. /\ paramCount' = paramCount /\ paramSeen' = paramSeen /\ paramOrder' = paramOrder
        /\ hasNamed' = hasNamed /\ hasPosition' = hasPosition
    BY <1>8 DEF paramVars
  <2>2. paramCount' \in 0..(MaxNumber + Len(log'))
    <3>1. paramCount \in 0..(MaxNumber + m) /\ MaxNumber \in Nat
      BY <1>1, <1>8, BoundAssumption DEF Numbers
    <3>2. QED
      BY <1>2, <2>1, <3>1
  <2>3. \A id \in DOMAIN paramSeen' : paramSeen'[id] \in 1..paramCount'
    BY <1>8, <2>1 DEF Numbers
  <2>4. ASSUME NEW k \in 1..(m + 1), IsParam(k)'
        PROVE  /\ log'[k].number \in 1..paramCount' /\ log'[k].id \in DOMAIN paramSeen'
               /\ hasNamed' \/ hasPosition'
    <3>1. k \in 1..m /\ log'[k] = log[k]
      BY <1>5, <2>4
    <3>2. IsParam(k)
      BY <1>3, <2>4, <3>1
    <3>3. QED
      BY <1>1, <1>8, <2>1, <3>1, <3>2 DEF Numbers
  <2>5. ASSUME NEW k \in 1..(m + 1), log'[k].event = "named"
        PROVE  paramSeen'[log'[k].id] = log'[k].number
    <3>1. k \in 1..m /\ log'[k] = log[k]
      BY <1>5, <2>5
    <3>2. QED
      BY <1>1, <1>8, <2>1, <2>5, <3>1 DEF Numbers
  <2>6. Used'
    <3>1. PICK at : /\ Upwards(at, FirstUses, Len(paramOrder))
                    /\ \A i \in 1..Len(paramOrder) :
                          /\ log[at[i]].id = paramOrder[i]
                          /\ log[at[i]].number = paramSeen[paramOrder[i]]
      BY <1>8 DEF Numbers, Used
    <3>2. \A i \in 1..Len(paramOrder) : at[i] \in 1..m
      BY <1>1, <3>1 DEF Upwards, FirstUses
    <3>3. \A i \in 1..Len(paramOrder) : log'[at[i]] = log[at[i]]
      BY <1>2, <3>2
    <3>4. Upwards(at, FirstUses', Len(paramOrder'))
      BY <1>3, <2>1, <3>1
    <3>5. \A i \in 1..Len(paramOrder') : /\ log'[at[i]].id = paramOrder'[i]
                                          /\ log'[at[i]].number = paramSeen'[paramOrder'[i]]
      BY <2>1, <3>1, <3>3
    <3>6. QED
      BY <3>4, <3>5, Zenon DEF Used
  <2>7. QED
    BY <1>2, <2>2, <2>3, <2>4, <2>5, <2>6 DEF Numbers
<1>9. QED
  BY <1>6, <1>7, <1>8

\* A pivot over data notes the parameters before it.
LEMMA PivotKeepsData ==
    ASSUME FInv, DInv, PivotFromData
    PROVE  FInv' /\ DInv'
<1>1. /\ Running /\ frames # <<>> /\ Top = "pivotColumns" /\ Len(log) < MaxEvents
      /\ frames' = frames /\ status' = status /\ UNCHANGED paramVars
      /\ pivotEntries' = pivotEntries + 1
      /\ pivotEntryHasParams' = (pivotEntryHasParams \/ paramCount > 0 \/ hasNamed \/ hasPosition)
  BY DEF PivotFromData, Inside, Keep
<1>2. ~Closed(frames[Len(frames)])
  BY <1>1 DEF Top, Closed, Holders, Explains
<1>3. ~Cleared /\ log \in Seq(Entry)
  BY <1>1, <1>2, OpenNotCleared DEF FInv
<1>4. Numbers
  BY <1>3 DEF DInv
<1>5. PICK e \in Entry : log' = Append(log, e) /\ e.event = "pivot"
  <2>1. Event("pivot", "", 0) \in Entry /\ Event("pivot", "", 0).event = "pivot"
    BY DEF Event, Entry, Ids
  <2>2. log' = Append(log, Event("pivot", "", 0))
    BY DEF PivotFromData
  <2>3. QED
    BY <2>1, <2>2
<1>6. e.event \in {"pivot", "clear"} /\ e.event # "clear"
  BY <1>5
<1>7. FInv' /\ ~Cleared'
  BY <1>1, <1>2, <1>5, <1>6, LogKeepsNesting
<1>8. AnonymousIsFresh' /\ NamedNumberedByFirstUse' /\ Numbers'
  BY <1>1, <1>3, <1>4, <1>5, <1>6, OtherEntries
<1>9. PICK m \in Nat : m = Len(log)
  BY <1>3, LenProperties
<1>10. /\ Len(log') = m + 1 /\ log'[m + 1] = e
       /\ \A k \in 1..m : log'[k] = log[k]
  BY <1>3, <1>5, <1>9, Logged
<1>11. \A k \in 1..m : IsParam(k)' <=> IsParam(k)
  BY <1>3, <1>5, <1>9, UsesLogged
<1>12. Pivots'
  <2>1. pivotEntries \in Nat /\ pivotEntries <= m /\ pivotEntryHasParams \in BOOLEAN
    BY <1>3, <1>9 DEF DInv, Pivots
  <2>2. pivotEntries' \in 0..MaxEvents /\ pivotEntries' <= Len(log') /\ pivotEntries' > 0
    BY <1>1, <1>9, <1>10, <2>1, BoundAssumption
  <2>3. pivotEntryHasParams' \in BOOLEAN /\ (pivotEntryHasParams => pivotEntryHasParams')
    BY <1>1, <2>1 DEF DInv
  <2>4. (\E k \in 1..m : IsParam(k)) => pivotEntryHasParams'
    BY <1>1, <1>4, <1>9 DEF Numbers
  <2>5. ASSUME NEW k \in 1..(m + 1), log'[k].event = "pivot", NEW j \in 1..(k - 1), IsParam(j)'
        PROVE  pivotEntryHasParams'
    <3>1. j \in 1..m
      BY Ranges
    <3>2. QED
      BY <1>11, <2>4, <2>5, <3>1
  <2>6. QED
    BY <1>10, <2>2, <2>3, <2>5 DEF Pivots
<1>13. NamedParamsComplete' /\ PivotNeverAfterParam'
  BY <1>1 DEF Running, NamedParamsComplete, PivotNeverAfterParam
<1>14. /\ paramCount' \in Int /\ hasNamed' \in BOOLEAN /\ hasPosition' \in BOOLEAN
       /\ paramOrder' \in Seq(Ids)
       /\ DOMAIN paramSeen' = {paramOrder'[k] : k \in 1..Len(paramOrder')}
  BY <1>1 DEF DInv, paramVars
<1>15. QED
  BY <1>7, <1>8, <1>12, <1>13, <1>14 DEF DInv

\* A PREPARE forgets its parameters, not its pivots.
LEMMA PrepareKeepsData ==
    ASSUME FInv, DInv, LeavePrepare
    PROVE  FInv' /\ DInv'
<1>1. /\ Running /\ status' = status /\ UNCHANGED pivotVars
      /\ paramCount' = 0 /\ paramSeen' = <<>> /\ paramOrder' = <<>>
      /\ hasNamed' = FALSE /\ hasPosition' = FALSE
  BY DEF LeavePrepare, ClearParameters, Keep
<1>2. FInv' /\ ~Cleared /\ Cleared'
  BY PrepareKeepsNesting
<1>3. PICK e \in Entry : log' = Append(log, e) /\ e.event = "clear"
  <2>1. Event("clear", "", 0) \in Entry /\ Event("clear", "", 0).event = "clear"
    BY DEF Event, Entry, Ids
  <2>2. log' = Append(log, Event("clear", "", 0))
    BY DEF LeavePrepare, ClearParameters
  <2>3. QED
    BY <2>1, <2>2
<1>4. log \in Seq(Entry) /\ e.event \in {"pivot", "clear"}
  BY <1>3 DEF FInv
<1>5. AnonymousIsFresh' /\ NamedNumberedByFirstUse'
  BY <1>3, <1>4, OtherEntries
<1>6. PICK m \in Nat : m = Len(log)
  BY <1>4, LenProperties
<1>7. /\ Len(log') = m + 1 /\ log'[m + 1] = e
      /\ \A k \in 1..m : log'[k] = log[k]
  BY <1>3, <1>4, <1>6, Logged
<1>8. \A k \in 1..m : IsParam(k)' <=> IsParam(k)
  BY <1>3, <1>4, <1>6, UsesLogged
<1>9. Pivots'
  <2>1. pivotEntries' = pivotEntries /\ pivotEntryHasParams' = pivotEntryHasParams
    BY <1>1 DEF pivotVars
  <2>2. pivotEntries' \in 0..MaxEvents /\ pivotEntryHasParams' \in BOOLEAN
    BY <2>1 DEF DInv, Pivots
  <2>3. ASSUME NEW k \in 1..(m + 1), log'[k].event = "pivot"
        PROVE  pivotEntries' > 0 /\ \A j \in 1..(k - 1) : IsParam(j)' => pivotEntryHasParams'
    <3>1. k # m + 1
      BY <1>3, <1>7, <2>3
    <3>2. k \in 1..m /\ log[k].event = "pivot"
      BY <1>7, <2>3, <3>1, Ranges
    <3>3. \A j \in 1..(k - 1) : j \in 1..m
      BY <3>2
    <3>4. QED
      BY <1>6, <1>8, <2>1, <3>2, <3>3 DEF DInv, Pivots
  <2>4. QED
    BY <1>2, <1>7, <2>2, <2>3 DEF Pivots
<1>10. NamedParamsComplete' /\ PivotNeverAfterParam'
  BY <1>1 DEF Running, NamedParamsComplete, PivotNeverAfterParam
<1>11. /\ paramOrder' \in Seq(Ids)
       /\ DOMAIN paramSeen' = {paramOrder'[k] : k \in 1..Len(paramOrder')}
  <2>1. DOMAIN <<>> = {} /\ Len(<<>>) = 0 /\ <<>> \in Seq(Ids)
    BY EmptySeq
  <2>2. 1..0 = {}
    OBVIOUS
  <2>3. QED
    BY <1>1, <2>1, <2>2
<1>12. paramCount' \in Int /\ hasNamed' \in BOOLEAN /\ hasPosition' \in BOOLEAN
  <2>1. hasNamed' \in BOOLEAN /\ hasPosition' \in BOOLEAN
    BY <1>1, Zenon
  <2>2. paramCount' = 0
    BY <1>1
  <2>3. paramCount' \in Int
    BY <2>2
  <2>4. QED
    BY <2>1, <2>3
<1>13. IF Cleared' THEN paramOrder' = <<>> ELSE Numbers'
  BY <1>1, <1>2
<1>14. QED
  BY <1>2, <1>5, <1>9, <1>10, <1>11, <1>12, <1>13, Zenon DEF DInv

\* Nothing about the parameters and the pivots changes.
LEMMA SameLog ==
    ASSUME paramCount' = paramCount, paramSeen' = paramSeen, paramOrder' = paramOrder,
           hasNamed' = hasNamed, hasPosition' = hasPosition, log' = log,
           pivotEntries' = pivotEntries, pivotEntryHasParams' = pivotEntryHasParams
    PROVE  /\ Cleared' = Cleared /\ (Numbers => Numbers') /\ (Pivots => Pivots')
           /\ AnonymousIsFresh => AnonymousIsFresh'
           /\ NamedNumberedByFirstUse => NamedNumberedByFirstUse'
<1>1. Cleared' = Cleared
  BY DEF Cleared
<1>2. FirstUses' = FirstUses
  BY DEF FirstUses, FirstUse, Occurrence, IsParam
<1>3. Used => Used'
  BY <1>2 DEF Used
<1>4. Numbers => Numbers'
  BY <1>3 DEF Numbers, IsParam
<1>5. Pivots => Pivots'
  BY <1>1 DEF Pivots, IsParam
<1>6. AnonymousIsFresh => AnonymousIsFresh'
  BY DEF AnonymousIsFresh, IsParam
<1>7. NamedNumberedByFirstUse => NamedNumberedByFirstUse'
  BY DEF NamedNumberedByFirstUse
<1>8. QED
  BY <1>1, <1>4, <1>5, <1>6, <1>7

\* finishStatement attaches the parameters, unless a pivot over data came after one.
LEMMA FinishKeepsData ==
    ASSUME FInv, DInv, FinishStatement
    PROVE  FInv' /\ DInv'
<1>1. UNCHANGED <<paramVars, pivotVars, frames, log>>
  BY DEF FinishStatement, Raise
<1>2. /\ paramCount' = paramCount /\ paramSeen' = paramSeen /\ paramOrder' = paramOrder
      /\ hasNamed' = hasNamed /\ hasPosition' = hasPosition
      /\ pivotEntries' = pivotEntries /\ pivotEntryHasParams' = pivotEntryHasParams
      /\ log' = log /\ frames' = frames
  BY <1>1 DEF paramVars, pivotVars
<1>3. status' \in {"raised", "done"}
  BY DEF FinishStatement, Raise
<1>4. FInv'
  BY <1>2, <1>3, StutterKeepsNesting
<1>5. /\ Cleared' = Cleared /\ (Numbers => Numbers') /\ (Pivots => Pivots')
      /\ (AnonymousIsFresh => AnonymousIsFresh')
      /\ (NamedNumberedByFirstUse => NamedNumberedByFirstUse')
  BY <1>2, SameLog
<1>6. PivotNeverAfterParam'
  <2>1. CASE status' = "raised"
    BY <2>1 DEF PivotNeverAfterParam
  <2>2. CASE status' = "done"
    <3>1. ~(pivotEntries > 0 /\ pivotEntryHasParams)
      BY <2>2 DEF FinishStatement, Raise
    <3>2. \A k \in 1..Len(log) : log[k].event = "pivot" => \A j \in 1..(k - 1) : ~IsParam(j)
      BY <3>1 DEF DInv, Pivots
    <3>3. QED
      BY <1>2, <3>2 DEF PivotNeverAfterParam, IsParam
  <2>3. QED
    BY <1>3, <2>1, <2>2
<1>7. NamedParamsComplete'
  <2>1. CASE status' = "raised"
    BY <2>1 DEF NamedParamsComplete
  <2>2. CASE status' = "done"
    <3>1. namedParams' = [k \in 1..Len(paramOrder) |->
                            [name |-> paramOrder[k], index |-> paramSeen[paramOrder[k]]]]
      BY <2>2 DEF FinishStatement, Raise
    <3>2. CASE Cleared
      <4>1. paramOrder = <<>>
        BY <3>2 DEF DInv
      <4>2. namedParams' = <<>>
        BY <3>1, <4>1
      <4>3. QED
        BY <1>5, <3>2, <4>2 DEF NamedParamsComplete
    <3>3. CASE ~Cleared
      <4>1. PICK n \in Nat : n = Len(paramOrder)
        BY LenProperties DEF DInv
      <4>2. PICK at : /\ Upwards(at, FirstUses, n)
                      /\ \A i \in 1..n : /\ log[at[i]].id = paramOrder[i]
                                         /\ log[at[i]].number = paramSeen[paramOrder[i]]
        BY <3>3, <4>1 DEF DInv, Numbers, Used
      <4>3. /\ Len(namedParams') = n
            /\ \A i \in 1..n : /\ namedParams'[i].name = paramOrder[i]
                               /\ namedParams'[i].index = paramSeen[paramOrder[i]]
        BY <3>1, <4>1
      <4>4. FirstUses' = FirstUses
        BY <1>2 DEF FirstUses, FirstUse, Occurrence, IsParam
      <4>5. /\ at \in [1..Len(namedParams') -> FirstUses']
            /\ \A i, j \in 1..Len(namedParams') : i < j => at[i] < at[j]
            /\ \A k \in FirstUses' : \E i \in 1..Len(namedParams') : at[i] = k
        BY <4>2, <4>3, <4>4 DEF Upwards
      <4>6. \A i \in 1..Len(namedParams') :
               /\ log'[at[i]].id = namedParams'[i].name
               /\ log'[at[i]].number = namedParams'[i].index
        BY <1>2, <4>2, <4>3
      <4>7. InOrderOfUse(namedParams)'
        BY <4>5, <4>6, Zenon DEF InOrderOfUse
      <4>8. QED
        BY <1>5, <3>3, <4>7 DEF NamedParamsComplete
    <3>4. QED
      BY <3>2, <3>3
  <2>3. QED
    BY <1>3, <2>1, <2>2
<1>8. QED
  BY <1>2, <1>4, <1>5, <1>6, <1>7 DEF DInv

\* The steps of the walk leave the parameters and the pivots alone.
LEMMA QuietKeepsData ==
    ASSUME DInv, Quiet
    PROVE  DInv'
<1>1. /\ paramCount' = paramCount /\ paramSeen' = paramSeen /\ paramOrder' = paramOrder
      /\ hasNamed' = hasNamed /\ hasPosition' = hasPosition
      /\ pivotEntries' = pivotEntries /\ pivotEntryHasParams' = pivotEntryHasParams
      /\ log' = log /\ namedParams' = namedParams /\ status' \in {status, "raised"}
  BY DEF Quiet, paramVars, pivotVars
<1>2. /\ Cleared' = Cleared /\ (Numbers => Numbers') /\ (Pivots => Pivots')
      /\ (AnonymousIsFresh => AnonymousIsFresh')
      /\ (NamedNumberedByFirstUse => NamedNumberedByFirstUse')
  BY <1>1, SameLog
<1>3. NamedParamsComplete'
  <2>1. FirstUses' = FirstUses
    BY <1>1 DEF FirstUses, FirstUse, Occurrence, IsParam
  <2>2. InOrderOfUse(namedParams) => InOrderOfUse(namedParams)'
    BY <1>1, <2>1 DEF InOrderOfUse
  <2>3. status' = "done" => status = "done"
    BY <1>1
  <2>4. QED
    BY <1>1, <1>2, <2>2, <2>3 DEF DInv, NamedParamsComplete
<1>4. PivotNeverAfterParam'
  BY <1>1 DEF DInv, PivotNeverAfterParam, IsParam
<1>5. QED
  BY <1>1, <1>2, <1>3, <1>4 DEF DInv

\* A statement begins without parameters, pivots or entries.
LEMMA InitData ==
    ASSUME Init, MaxFrames > 0
    PROVE  FInv /\ DInv
<1>0. hasNamed \in BOOLEAN /\ hasPosition \in BOOLEAN /\ pivotEntryHasParams \in BOOLEAN
  BY Zenon DEF Init
<1>1. paramCount = 0 /\ pivotEntries = 0 /\ status = "running"
  BY DEF Init
<1>2. paramSeen = <<>> /\ paramOrder = <<>> /\ log = <<>>
  BY DEF Init
<1>3. log \in Seq(Entry) /\ Len(log) = 0 /\ paramOrder \in Seq(Ids) /\ Len(paramOrder) = 0 /\ DOMAIN paramSeen = {}
  BY <1>2
<1>4. 1..0 = {} /\ MaxFrames \in Nat /\ MaxEvents \in Nat /\ MaxNumber \in Nat
  BY BoundAssumption
<1>5. ~Cleared /\ FirstUses = {} /\ AnonymousIsFresh /\ NamedNumberedByFirstUse
  BY <1>3, <1>4 DEF Cleared, FirstUses, AnonymousIsFresh, NamedNumberedByFirstUse
<1>6. PICK what \in Statements : frames = <<Construct(what, "")>>
  BY DEF Init
<1>7. PICK e \in Frame : e = Construct(what, "") /\ e.what = what /\ e.name = ""
  BY Constructs
<1>8. frames \in Seq(Frame) /\ Len(frames) = 1 /\ frames[1].name = ""
  <2>1. frames = <<e>>
    BY <1>6, <1>7
  <2>2. frames \in Seq(Frame) /\ Len(frames) = 1 /\ frames[1] = e
    BY <2>1
  <2>3. e.name = ""
    BY <1>7
  <2>4. QED
    BY <2>2, <2>3
<1>9. Nested(frames, 1)
  <2>1. \A k \in 1..1 : k = 1
    OBVIOUS
  <2>2. 1..(1 - 1) = {}
    OBVIOUS
  <2>3. \A k \in 1..1 : frames[k].what \in Holders => frames[k].name \in Statements \cup {""}
    BY <1>8, <2>1, Zenon
  <2>4. \A k \in 1..1 : \A j \in 1..(k - 1) : Closed(frames[j])
    BY <2>1, <2>2, Zenon
  <2>5. \A k \in 1..(1 - 1) : Closed(frames[k]) => frames[k].name = frames[k + 1].what
    BY <2>2, Zenon
  <2>6. QED
    BY <2>3, <2>4, <2>5, Zenon DEF Nested
<1>10. FInv
  <2>1. Len(frames) <= MaxFrames /\ Len(log) <= MaxEvents
    <3>1. Len(frames) = 1 /\ Len(log) = 0
      BY <1>3, <1>8
    <3>2. QED
      BY <1>4, <3>1
  <2>2. QED
    BY <1>1, <1>3, <1>5, <1>8, <1>9, <2>1 DEF FInv
<1>11. Used
  <2>1. Upwards([i \in {} |-> 0], FirstUses, Len(paramOrder))
    BY <1>3, <1>4, <1>5 DEF Upwards
  <2>2. QED
    BY <1>3, <1>4, <2>1 DEF Used
<1>12. Numbers
  BY <1>1, <1>3, <1>4, <1>11 DEF Numbers
<1>13. Pivots
  <2>1. pivotEntries \in 0..MaxEvents /\ pivotEntries <= Len(log)
    <3>1. pivotEntries = 0 /\ Len(log) = 0
      BY <1>1, <1>3
    <3>2. QED
      BY <1>4, <3>1
  <2>2. 1..Len(log) = {}
    <3>1. Len(log) = 0
      BY <1>3
    <3>2. QED
      BY <3>1
  <2>3. QED
    BY <1>0, <2>1, <2>2, Zenon DEF Pivots
<1>14. NamedParamsComplete /\ PivotNeverAfterParam
  BY <1>1 DEF NamedParamsComplete, PivotNeverAfterParam
<1>15. /\ paramCount \in Int /\ hasNamed \in BOOLEAN /\ hasPosition \in BOOLEAN
       /\ DOMAIN paramSeen = {paramOrder[k] : k \in 1..Len(paramOrder)}
  <2>1. paramCount \in Int
    BY <1>1
  <2>2. DOMAIN paramSeen = {} /\ 1..Len(paramOrder) = {}
    <3>1. DOMAIN paramSeen = {} /\ Len(paramOrder) = 0
      BY <1>3
    <3>2. QED
      BY <3>1
  <2>3. QED
    BY <1>0, <2>1, <2>2, Zenon
<1>16. QED
  BY <1>3, <1>5, <1>10, <1>12, <1>13, <1>14, <1>15 DEF DInv

\* Every step keeps the parameters in order.
LEMMA StepKeepsParameters ==
    ASSUME MaxNumber + MaxEvents <= MaxInt
    PROVE  FInv /\ DInv /\ [Next]_vars => FInv' /\ DInv'
<1> SUFFICES ASSUME FInv, DInv, [Next]_vars PROVE FInv' /\ DInv'
  OBVIOUS
<1>1. CASE Anonymous \/ Numbered \/ NamedParam
  <2>1. CASE Anonymous
    BY <2>1, RegisterKeepsData DEF Anonymous, RegisterParam
  <2>2. CASE Numbered
    <3>1. PICK k \in 1..MaxNumber : RegisterParam("numbered", "", k)
      BY <2>2 DEF Numbered
    <3>2. Running
      BY <3>1 DEF RegisterParam
    <3>3. QED
      BY <3>1, <3>2, RegisterKeepsData
  <2>3. CASE NamedParam
    <3>1. PICK name \in Names : RegisterParam("named", name, 0)
      BY <2>3 DEF NamedParam
    <3>2. Running
      BY <3>1 DEF RegisterParam
    <3>3. QED
      BY <3>1, <3>2, RegisterKeepsData
  <2>4. QED
    BY <1>1, <2>1, <2>2, <2>3
<1>2. CASE Walks
  BY <1>2, WalksAreQuiet, WalksKeepNesting, QuietKeepsData
<1>3. CASE PivotFromData
  BY <1>3, PivotKeepsData
<1>4. CASE LeavePrepare
  BY <1>4, PrepareKeepsData
<1>5. CASE FinishStatement
  BY <1>5, FinishKeepsData
<1>6. CASE UNCHANGED vars
  <2>1. UNCHANGED <<frames, log>> /\ status' = status /\ Quiet
    BY <1>6 DEF vars, Quiet
  <2>2. QED
    BY <2>1, StutterKeepsNesting, QuietKeepsData
<1>7. QED
  BY <1>1, <1>2, <1>3, <1>4, <1>5, <1>6 DEF Next, Walks

\* registerParam, ClearParameters and finishStatement, for every statement
\* whose parameter numbers an int can hold: ? takes a fresh number, a $name
\* keeps the number of its first use, finishStatement attaches every
\* parameter in the order of first use, or none after a PREPARE, and no
\* pivot over data comes after a parameter.
THEOREM ParametersAreNumbered ==
    ASSUME MaxNumber + MaxEvents <= MaxInt, MaxFrames > 0
    PROVE  Spec => []ParametersNumbered
<1>1. Init => WInv /\ FInv /\ DInv
  BY InitWindows, InitData
<1>2. WInv /\ FInv /\ DInv /\ [Next]_vars => WInv' /\ FInv' /\ DInv'
  BY StepKeepsWindows, StepKeepsParameters
<1>3. WInv /\ FInv /\ DInv => ParametersNumbered
  <2>1. SUFFICES ASSUME WInv, FInv, DInv PROVE ParametersNumbered
    OBVIOUS
  <2>2. \A k \in 1..Len(windows) : windows[k] \subseteq WindowNames
    <3>1. windows \in Seq(SUBSET WindowNames)
      BY <2>1 DEF WInv
    <3>2. QED
      BY <3>1
  <2>3. Len(log) <= MaxEvents + 1
    BY <2>1, LenProperties, BoundAssumption DEF FInv
  <2>4. TypeOK
    BY <2>1, <2>2, <2>3 DEF WInv, FInv, DInv, Pivots, TypeOK
  <2>5. QED
    BY <2>1, <2>4 DEF DInv, ParametersNumbered
<1>4. QED
  BY <1>1, <1>2, <1>3, PTL DEF Spec
=============================================================================
