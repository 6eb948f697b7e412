-------------------------- MODULE TransformerProofs --------------------------
(***************************************************************************)
(* Proofs about transformers: the options of sequences, for any options in *)
(* any order, and window definitions over others, for any contents and any *)
(* number of windows.                                                      *)
(***************************************************************************)
EXTENDS SequenceOptions, WindowFrames, FiniteSetTheorems, SequenceTheorems, TLAPS

-----------------------------------------------------------------------------
(* Sequence options: the inductive invariant. *)

\* The reasons to refuse a CREATE that come after the look for duplicates,
\* and of those the reasons that are about one option.
OfOne == {"owned", "null", "zero"}
Late  == OfOne \cup {"range"}

\* The options evaluated without an error.
Good == IF why \in OfOne THEN evaluated - 1 ELSE evaluated

SequenceTyped ==
    /\ statement \in {"create", "alter"} /\ evalOK \in BOOLEAN
    /\ Len(options) \in Nat /\ \A k \in 1..Len(options) : options[k] \in Options
    /\ evaluated \in 0..Len(options) /\ Good \in 0..Len(options)
    /\ phase \in {"options", "evaluate", "done", "refused"}
    /\ (why = "none") <=> (phase # "refused")
    /\ why \in {"none", "nonconstant", "noninteger", "duplicate"} \cup Late

\* How far a statement has come, and what that says of it.
Stages ==
    /\ phase = "options" => evaluated = 0
    /\ phase = "evaluate" \/ why \in Late => statement = "create"
    /\ (statement = "create" /\ phase \in {"evaluate", "done"}) \/ why \in Late => ~Duplicates
    /\ (statement = "create" /\ phase = "done") \/ why = "range" => evaluated = Len(options)
    /\ why \in OfOne => evaluated \in 1..Len(options) /\ EvaluateError(options[evaluated]) = why
    /\ why = "range" => evalOK /\ RangeError(Defaults)
    /\ statement = "create" /\ phase = "done" => ~(evalOK /\ RangeError(Defaults))

\* What transforming and evaluating the options has let through.
Fits(opt) == opt.key \in Valued => opt.value.kind \in {"null", "int64", "huge"}
Checked ==
    /\ phase # "refused" \/ why \in Late => \A k \in 1..Len(options) : Fits(options[k])
    /\ \A k \in 1..Good : EvaluateError(options[k]) = "none"

\* The values set are those of the options evaluated.
Sets(k) == options[k].key \in Valued /\ Int64(options[k].value)
ValuesSet ==
    /\ DOMAIN seq = {options[k].key : k \in {j \in 1..Good : Sets(j)}}
    /\ \A k \in 1..Good : Sets(k) => seq[options[k].key] = options[k].value.v
    /\ evalOK <=> \A k \in 1..Good : options[k].key \in Valued => Int64(options[k].value)

SequenceInv == SequenceTyped /\ Stages /\ Checked /\ ValuesSet

-----------------------------------------------------------------------------
(* The invariant is kept. *)

LEMMA InitOptions == InitSequence => SequenceInv
  <1> SUFFICES ASSUME InitSequence PROVE SequenceInv
    OBVIOUS
  <1>1. Len(options) = 0 /\ why = "none" /\ evaluated = 0 /\ Good = 0
    BY DEF InitSequence, Good, OfOne
  <1>2. SequenceTyped
    BY <1>1 DEF InitSequence, SequenceTyped
  <1>3. Stages
    BY <1>1 DEF InitSequence, Stages, OfOne, Late
  <1>4. Checked
    BY <1>1 DEF Checked
  <1>5. ValuesSet
    BY <1>1 DEF InitSequence, ValuesSet
  <1> QED BY <1>2, <1>3, <1>4, <1>5 DEF SequenceInv

LEMMA TransformKeeps ==
    ASSUME SequenceInv, NEW opt \in Options, Transform(opt)
    PROVE  SequenceInv'
  <1>1. /\ phase = "options" /\ evaluated = 0 /\ evaluated' = 0 /\ why = "none"
        /\ UNCHANGED <<statement, seq, evalOK>> /\ options' = Append(options, opt)
    BY DEF Transform, SequenceInv, SequenceTyped, Stages
  <1>2. /\ Len(options') = Len(options) + 1 /\ options'[Len(options) + 1] = opt
        /\ \A k \in 1..Len(options) : options'[k] = options[k]
    BY <1>1 DEF SequenceInv, SequenceTyped
  <1>3. \/ TransformError(opt) = "none" /\ UNCHANGED <<phase, why>>
        \/ /\ TransformError(opt) \in {"nonconstant", "noninteger", "duplicate"}
           /\ phase' = "refused" /\ why' = TransformError(opt)
    BY DEF Transform, TransformError, RefuseSequence
  <1>4. Good = 0 /\ Good' = 0
    BY <1>1, <1>3 DEF Good, OfOne
  <1>5. SequenceTyped'
    BY <1>1, <1>2, <1>3, <1>4 DEF SequenceInv, SequenceTyped, Late, OfOne
  <1>6. Stages'
    BY <1>1, <1>3 DEF Stages, Late, OfOne
  <1>7. Checked'
    <2>1. TransformError(opt) = "none" => Fits(opt)
      BY DEF TransformError, Fits, LiteralIsInteger
    <2>2. CASE TransformError(opt) = "none"
      BY <1>1, <1>2, <1>3, <1>4, <2>1, <2>2 DEF SequenceInv, SequenceTyped, Checked, Fits
    <2>3. CASE TransformError(opt) # "none"
      BY <1>3, <1>4, <2>3 DEF Checked, Late, OfOne
    <2> QED BY <2>2, <2>3
  <1>8. ValuesSet'
    BY <1>1, <1>4 DEF SequenceInv, ValuesSet
  <1> QED BY <1>5, <1>6, <1>7, <1>8 DEF SequenceInv

\* What is left alone keeps what is said of it.
LEMMA SameOptions ==
    ASSUME SequenceInv, UNCHANGED <<statement, options, evaluated, seq, evalOK>>, Good' = Good,
           phase # "refused" \/ why \in Late
    PROVE  Checked' /\ ValuesSet' /\ (Duplicates' <=> Duplicates) /\ Defaults' = Defaults
  <1>1. Checked'
    BY DEF SequenceInv, Checked, Fits, EvaluateError
  <1>2. ValuesSet'
    BY DEF SequenceInv, ValuesSet, Sets
  <1>3. Duplicates' <=> Duplicates
    BY DEF Duplicates, Keys
  <1>4. Defaults' = Defaults
    BY DEF Defaults, Or
  <1> QED BY <1>1, <1>2, <1>3, <1>4

LEMMA AlteredKeeps ==
    ASSUME SequenceInv, Altered
    PROVE  SequenceInv'
  <1>1. /\ UNCHANGED <<statement, options, evaluated, seq, evalOK, why>> /\ why = "none"
        /\ statement = "alter" /\ phase = "options" /\ phase' = "done"
    BY DEF Altered, SequenceInv, SequenceTyped
  <1>2. Good' = Good
    BY <1>1 DEF Good
  <1>3. Checked' /\ ValuesSet'
    BY <1>1, <1>2, SameOptions
  <1>4. SequenceTyped'
    BY <1>1, <1>2 DEF SequenceInv, SequenceTyped
  <1>5. Stages'
    BY <1>1 DEF Stages, Late, OfOne
  <1> QED BY <1>3, <1>4, <1>5 DEF SequenceInv

LEMMA CheckDuplicatesKeeps ==
    ASSUME SequenceInv, CheckDuplicates
    PROVE  SequenceInv'
  <1>1. /\ UNCHANGED <<statement, options, evaluated, seq, evalOK>> /\ why = "none" /\ evaluated = 0
        /\ statement = "create" /\ phase = "options"
        /\ IF Duplicates THEN phase' = "refused" /\ why' = "duplicate" ELSE phase' = "evaluate" /\ why' = why
    BY DEF CheckDuplicates, RefuseSequence, SequenceInv, SequenceTyped, Stages
  <1>2. Good' = Good
    BY <1>1 DEF Good, OfOne
  <1>3. Checked' /\ ValuesSet' /\ (Duplicates' <=> Duplicates)
    BY <1>1, <1>2, SameOptions
  <1>4. SequenceTyped'
    BY <1>1, <1>2 DEF SequenceInv, SequenceTyped, Late, OfOne
  <1>5. Stages'
    BY <1>1, <1>3 DEF Stages, Late, OfOne
  <1> QED BY <1>3, <1>4, <1>5 DEF SequenceInv

LEMMA CheckRangesKeeps ==
    ASSUME SequenceInv, CheckRanges
    PROVE  SequenceInv'
  <1>1. /\ UNCHANGED <<statement, options, evaluated, seq, evalOK>> /\ why = "none"
        /\ statement = "create" /\ phase = "evaluate" /\ evaluated = Len(options)
        /\ IF evalOK /\ RangeError(Defaults) THEN phase' = "refused" /\ why' = "range"
           ELSE phase' = "done" /\ why' = why
    BY DEF CheckRanges, RefuseSequence, SequenceInv, SequenceTyped, Stages
  <1>2. Good' = Good
    BY <1>1 DEF Good, OfOne
  <1>3. Checked' /\ ValuesSet' /\ (Duplicates' <=> Duplicates) /\ Defaults' = Defaults
    BY <1>1, <1>2, SameOptions
  <1>4. SequenceTyped'
    BY <1>1, <1>2 DEF SequenceInv, SequenceTyped, Late, OfOne
  <1>5. RangeError(Defaults)' <=> RangeError(Defaults)
    BY <1>3 DEF RangeError
  <1>6. Stages'
    <2>1. ~Duplicates
      BY <1>1 DEF SequenceInv, Stages
    <2> QED BY <1>1, <1>3, <1>5, <2>1 DEF Stages, Late, OfOne
  <1> QED BY <1>3, <1>4, <1>6 DEF SequenceInv

LEMMA EvaluateKeeps ==
    ASSUME SequenceInv, Evaluate
    PROVE  SequenceInv'
  <1> DEFINE n   == evaluated + 1
             opt == options[n]
  <1>1. /\ UNCHANGED <<statement, options>> /\ why = "none" /\ evaluated' = n /\ n \in 1..Len(options)
        /\ statement = "create" /\ phase = "evaluate" /\ ~Duplicates /\ Good = evaluated
        /\ evaluated \in Nat
    BY DEF Evaluate, SequenceInv, SequenceTyped, Stages, Good, OfOne
  <1>2. /\ Len(options) \in Nat /\ \A k \in 1..Len(options) : options[k] \in Options /\ Fits(options[k])
        /\ \A k \in 1..evaluated : EvaluateError(options[k]) = "none"
    BY <1>1 DEF SequenceInv, SequenceTyped, Checked
  <1>3. Duplicates' <=> Duplicates
    BY <1>1 DEF Duplicates, Keys
  <1>4. CASE EvaluateError(opt) # "none"
    <2>1. /\ UNCHANGED <<seq, evalOK>> /\ phase' = "refused" /\ why' = EvaluateError(opt) /\ why' \in OfOne
      BY <1>1, <1>4 DEF Evaluate, RefuseSequence, EvaluateError, OfOne
    <2>2. Good' = Good
      BY <1>1, <2>1 DEF Good
    <2>3. SequenceTyped'
      BY <1>1, <2>1, <2>2 DEF SequenceInv, SequenceTyped, Late, OfOne
    <2>4. EvaluateError(options[evaluated])' = why'
      BY <1>1, <2>1 DEF EvaluateError
    <2>5. Stages'
      BY <1>1, <1>3, <2>1, <2>4 DEF Stages, Late, OfOne
    <2>6. Checked'
      BY <1>1, <1>2, <2>2 DEF Checked, EvaluateError, Fits
    <2>7. ValuesSet'
      BY <1>1, <2>1, <2>2 DEF SequenceInv, ValuesSet, Sets
    <2> QED BY <2>3, <2>5, <2>6, <2>7 DEF SequenceInv
  <1>5. CASE EvaluateError(opt) = "none"
    <2>1. /\ UNCHANGED <<phase, why>>
          /\ IF opt.key \notin Valued THEN UNCHANGED <<seq, evalOK>>
             ELSE IF Int64(opt.value)
             THEN /\ seq' = [key \in DOMAIN seq \cup {opt.key} |-> IF key = opt.key THEN opt.value.v ELSE seq[key]]
                  /\ UNCHANGED evalOK
             ELSE evalOK' = FALSE /\ UNCHANGED seq
      BY <1>5 DEF Evaluate
    <2>2. Good' = n
      BY <1>1, <2>1 DEF Good, OfOne
    <2>3. evalOK' \in BOOLEAN
      BY <2>1 DEF SequenceInv, SequenceTyped
    <2>4. SequenceTyped'
      BY <1>1, <2>1, <2>2, <2>3 DEF SequenceInv, SequenceTyped
    <2>5. Stages'
      BY <1>1, <1>3, <2>1 DEF Stages, Late, OfOne
    <2>6. Checked'
      <3> SUFFICES ASSUME NEW k \in 1..n PROVE EvaluateError(options[k]) = "none"
        BY <1>1, <1>2, <2>2 DEF Checked, EvaluateError, Fits
      <3> QED BY <1>1, <1>2, <1>5
    <2>7. ValuesSet'
      <3>1. \A k \in 1..evaluated : options[k].key # opt.key
        BY <1>1, <1>2 DEF Duplicates
      <3>2. /\ DOMAIN seq = {options[k].key : k \in {j \in 1..evaluated : Sets(j)}}
            /\ \A k \in 1..evaluated : Sets(k) => seq[options[k].key] = options[k].value.v
            /\ evalOK <=> \A k \in 1..evaluated : options[k].key \in Valued => Int64(options[k].value)
        BY <1>1 DEF SequenceInv, ValuesSet
      <3>3. \A k \in 1..n : k = n \/ k \in 1..evaluated
        BY <1>1
      <3>4. DOMAIN seq' = {options[k].key : k \in {j \in 1..n : Sets(j)}}
        <4> DEFINE set(m) == {j \in 1..m : Sets(j)}
        <4>1. CASE Sets(n)
          <5>1. set(n) = set(evaluated) \cup {n}
            BY <1>1, <3>3, <4>1
          <5>2. DOMAIN seq' = DOMAIN seq \cup {opt.key}
            BY <2>1, <4>1 DEF Sets
          <5> HIDE DEF set
          <5>3. {options[k].key : k \in set(n)} = {options[k].key : k \in set(evaluated)} \cup {opt.key}
            BY <5>1
          <5> QED BY <3>2, <5>2, <5>3 DEF set
        <4>2. CASE ~Sets(n)
          <5>1. set(n) = set(evaluated)
            BY <1>1, <3>3, <4>2
          <5>2. DOMAIN seq' = DOMAIN seq
            BY <2>1, <4>2 DEF Sets
          <5> QED BY <3>2, <5>1, <5>2
        <4> QED BY <4>1, <4>2
      <3>5. ASSUME NEW k \in 1..n, Sets(k)
            PROVE  seq'[options[k].key] = options[k].value.v
        BY <1>1, <2>1, <3>1, <3>2, <3>3, <3>5 DEF Sets
      <3>6. evalOK' <=> \A k \in 1..n : options[k].key \in Valued => Int64(options[k].value)
        BY <1>1, <2>1, <2>3, <3>2, <3>3 DEF SequenceInv, SequenceTyped
      <3> QED BY <1>1, <2>2, <3>4, <3>5, <3>6 DEF ValuesSet, Sets
    <2> QED BY <2>4, <2>5, <2>6, <2>7 DEF SequenceInv
  <1> QED BY <1>4, <1>5

LEMMA SequenceStep == SequenceInv /\ [NextSequence]_sequenceVars => SequenceInv'
  <1> SUFFICES ASSUME SequenceInv, [NextSequence]_sequenceVars PROVE SequenceInv'
    OBVIOUS
  <1>1. CASE UNCHANGED sequenceVars
    <2>1. UNCHANGED <<statement, options, evaluated, seq, evalOK, phase, why>>
      BY <1>1 DEF sequenceVars
    <2> QED BY <2>1 DEF SequenceInv, SequenceTyped, Stages, Checked, ValuesSet, Good, Sets, Fits,
               EvaluateError, Duplicates, Keys, Defaults, Or, RangeError
  <1>2. CASE \E opt \in Options : Transform(opt)
    BY <1>2, TransformKeeps
  <1>3. CASE Altered
    BY <1>3, AlteredKeeps
  <1>4. CASE CheckDuplicates
    BY <1>4, CheckDuplicatesKeeps
  <1>5. CASE Evaluate
    BY <1>5, EvaluateKeeps
  <1>6. CASE CheckRanges
    BY <1>6, CheckRangesKeeps
  <1> QED BY <1>1, <1>2, <1>3, <1>4, <1>5, <1>6 DEF NextSequence

THEOREM SequenceInductive == SpecSequence => []SequenceInv
  BY InitOptions, SequenceStep, PTL DEF SpecSequence

-----------------------------------------------------------------------------
(* What an accepted or refused sequence is. *)

\* Without duplicates a key's value is that of its one option.
LEMMA ValueOf ==
    ASSUME SequenceInv, ~Duplicates
    PROVE  /\ \A k \in 1..Len(options) : Value(options[k].key) = options[k].value
           /\ \A key : key \notin Keys(options) => Value(key) = [kind |-> "absent"]
  <1>1. \A j, k \in 1..Len(options) : options[j].key = options[k].key => j = k
    BY DEF SequenceInv, SequenceTyped, Duplicates
  <1> DEFINE values(key) == {options[k].value : k \in {j \in 1..Len(options) : options[j].key = key}}
  <1>2. \A key : Value(key) = IF values(key) = {} THEN [kind |-> "absent"] ELSE CHOOSE v \in values(key) : TRUE
    BY DEF Value
  <1>3. ASSUME NEW k \in 1..Len(options)
        PROVE  Value(options[k].key) = options[k].value
    <2>1. values(options[k].key) = {options[k].value}
      BY <1>1
    <2> HIDE DEF values
    <2> QED BY <1>2, <2>1
  <1>4. ASSUME NEW key, key \notin Keys(options)
        PROVE  Value(key) = [kind |-> "absent"]
    <2>1. values(key) = {}
      BY <1>4 DEF Keys
    <2> HIDE DEF values
    <2> QED BY <1>2, <2>1
  <1> QED BY <1>3, <1>4

\* An option of an int64 has its value, and it is a number.
LEMMA IntOption ==
    ASSUME NEW opt \in Options, Int64(opt.value)
    PROVE  /\ opt.value = [kind |-> "int64", v |-> opt.value.v]
           /\ opt.value.v \in MinInt..MaxInt /\ opt.value.v \in Int
  <1>1. opt.value \in [kind : {"int64"}, v : MinInt..MaxInt]
    BY OptionsAssumption
  <1> QED BY <1>1, OptionsAssumption

\* Once everything is evaluated the values set are those given, if they are
\* known, and a value that is not known shows.
LEMMA AllEvaluated ==
    ASSUME SequenceInv, statement = "create", phase = "done" \/ why = "range"
    PROVE  /\ evalOK <=> Known
           /\ \A key \in Valued, d \in Int : Given(key, d) \in Int /\ (evalOK => Or(key, d) = Given(key, d))
  <1>1. /\ ~Duplicates /\ Good = Len(options) /\ Len(options) \in Nat
        /\ \A k \in 1..Len(options) : options[k] \in Options
    BY DEF SequenceInv, SequenceTyped, Stages, Good, Late, OfOne
  <1>2. /\ \A k \in 1..Len(options) : Value(options[k].key) = options[k].value
        /\ \A key : key \notin Keys(options) => Value(key) = [kind |-> "absent"]
    BY <1>1, ValueOf
  <1>3. /\ DOMAIN seq = {options[k].key : k \in {j \in 1..Len(options) : Sets(j)}}
        /\ \A k \in 1..Len(options) : Sets(k) => seq[options[k].key] = options[k].value.v
        /\ evalOK <=> \A k \in 1..Len(options) : options[k].key \in Valued => Int64(options[k].value)
    BY <1>1 DEF SequenceInv, ValuesSet
  <1>4. \A key : key \in Keys(options) <=> \E k \in 1..Len(options) : options[k].key = key
    BY DEF Keys
  <1>5. evalOK <=> Known
    <2>1. ASSUME evalOK, NEW key \in Valued
          PROVE  Value(key).kind \in {"int64", "absent"}
      <3>1. CASE key \in Keys(options)
        <4>1. PICK k \in 1..Len(options) : options[k].key = key
          BY <1>4, <3>1
        <4>2. Int64(options[k].value) /\ Value(key) = options[k].value
          BY <1>2, <1>3, <2>1, <4>1
        <4> QED BY <4>2 DEF Int64
      <3>2. CASE key \notin Keys(options)
        BY <1>2, <3>2
      <3> QED BY <3>1, <3>2
    <2>2. ASSUME Known, NEW k \in 1..Len(options), options[k].key \in Valued
          PROVE  Int64(options[k].value)
      <3>1. options[k].value.kind \in {"int64", "absent"}
        BY <1>2, <2>2 DEF Known
      <3>2. options[k].value.kind # "absent"
        BY <1>1, OptionsAssumption
      <3> QED BY <3>1, <3>2 DEF Int64
    <2> QED BY <1>3, <2>1, <2>2 DEF Known
  <1>6. ASSUME NEW key \in Valued, NEW d \in Int
        PROVE  Given(key, d) \in Int /\ (evalOK => Or(key, d) = Given(key, d))
    <2>1. CASE key \in Keys(options)
      <3>1. PICK k \in 1..Len(options) : options[k].key = key
        BY <1>4, <2>1
      <3>2. Value(key) = options[k].value
        BY <1>2, <3>1
      <3>3. CASE Int64(options[k].value)
        <4>1. Sets(k)
          BY <3>1, <3>3 DEF Sets
        <4>2. key \in DOMAIN seq /\ seq[key] = options[k].value.v
          BY <1>3, <3>1, <4>1
        <4>3. options[k].value.v \in Int
          BY <1>1, <3>3, IntOption
        <4> QED BY <3>2, <3>3, <4>2, <4>3 DEF Given, Or
      <3>4. CASE ~Int64(options[k].value)
        <4>1. ~evalOK
          BY <1>3, <3>1, <3>4
        <4> QED BY <3>2, <3>4, <4>1 DEF Given
      <3> QED BY <3>3, <3>4
    <2>2. CASE key \notin Keys(options)
      <3>1. Value(key) = [kind |-> "absent"]
        BY <1>2, <2>2
      <3>2. Given(key, d) = d
        BY <3>1 DEF Given, Int64
      <3>3. key \notin DOMAIN seq
        BY <1>3, <1>4, <2>2
      <3> QED BY <3>2, <3>3 DEF Or
    <2> QED BY <2>1, <2>2
  <1> QED BY <1>5, <1>6

\* And the check of the ranges is a check of the sequence.
LEMMA RangeChecked ==
    ASSUME SequenceInv, statement = "create", phase = "done" \/ why = "range", Known
    PROVE  RangeError(Defaults) <=> ~(Lowest < Highest /\ Initial \in Lowest..Highest)
  <1>1. /\ MinInt \in Int /\ MaxInt \in Int
        /\ \A key \in Valued, d \in Int : Given(key, d) \in Int /\ Or(key, d) = Given(key, d)
    BY AllEvaluated, OptionsAssumption
  <1>2. {"increment", "minvalue", "maxvalue", "start"} \subseteq Valued
    BY DEF Valued
  <1>3. Or("increment", 1) = Given("increment", 1) /\ Given("increment", 1) \in Int
    BY <1>1, <1>2
  <1>4. (Or("increment", 1) < 0) <=> ~Ascending
    BY <1>3 DEF Ascending
  <1>5. Lowest \in Int /\ Or("minvalue", IF Or("increment", 1) < 0 THEN MinInt ELSE 1) = Lowest
    BY <1>1, <1>2, <1>4 DEF Lowest
  <1>6. Highest \in Int /\ Or("maxvalue", IF Or("increment", 1) < 0 THEN -1 ELSE MaxInt) = Highest
    BY <1>1, <1>2, <1>4 DEF Highest
  <1>7. Initial \in Int /\ Or("start", IF Or("increment", 1) < 0 THEN Highest ELSE Lowest) = Initial
    BY <1>1, <1>2, <1>4, <1>5, <1>6 DEF Initial
  <1>8. Defaults = [min |-> Lowest, max |-> Highest, start |-> Initial]
    BY <1>5, <1>6, <1>7 DEF Defaults
  <1> QED BY <1>5, <1>6, <1>7, <1>8 DEF RangeError

LEMMA SequenceIsTyped == SequenceInv => SequenceTypeOK
  <1> SUFFICES ASSUME SequenceInv PROVE SequenceTypeOK
    OBVIOUS
  <1>1. /\ phase \in {"options", "evaluate", "done", "refused"} /\ evaluated \in 0..Len(options)
        /\ (why = "none") <=> (phase # "refused")
        /\ Len(options) \in Nat /\ \A k \in 1..Len(options) : options[k] \in Options
    BY DEF SequenceInv, SequenceTyped
  <1>2. 1..Good \subseteq 1..evaluated /\ 1..Good \subseteq 1..Len(options)
    BY <1>1 DEF Good
  <1>3. /\ DOMAIN seq = {options[k].key : k \in {j \in 1..Good : Sets(j)}}
        /\ \A k \in 1..Good : Sets(k) => seq[options[k].key] = options[k].value.v
    BY DEF SequenceInv, ValuesSet
  <1>4. DOMAIN seq \subseteq Valued \cap {options[k].key : k \in 1..evaluated}
    BY <1>2, <1>3 DEF Sets
  <1>5. ASSUME NEW key \in DOMAIN seq
        PROVE  seq[key] \in MinInt..MaxInt
    <2>1. PICK k \in 1..Good : Sets(k) /\ options[k].key = key
      BY <1>3
    <2>2. options[k] \in Options /\ Int64(options[k].value)
      BY <1>1, <1>2, <2>1 DEF Sets
    <2> QED BY <1>3, <2>1, <2>2, IntOption
  <1> QED BY <1>1, <1>4, <1>5 DEF SequenceTypeOK

LEMMA GivenOnce == SequenceInv => BoundsGivenOnce
  <1> SUFFICES ASSUME SequenceInv, phase = "done", statement = "create"
               PROVE  /\ Cardinality(Keys(options)) = Len(options)
                      /\ ~({"minvalue", "nominvalue"} \subseteq Keys(options))
                      /\ ~({"maxvalue", "nomaxvalue"} \subseteq Keys(options))
    BY DEF BoundsGivenOnce
  <1>1. ~Duplicates /\ Len(options) \in Nat
    BY DEF SequenceInv, SequenceTyped, Stages
  <1>2. \A j, k \in 1..Len(options) : options[j].key = options[k].key => j = k
    BY <1>1 DEF Duplicates
  <1> DEFINE key == [k \in 1..Len(options) |-> options[k].key]
  <1>3. key \in Bijection(1..Len(options), Keys(options))
    <2>1. key \in [1..Len(options) -> Keys(options)]
      BY DEF Keys
    <2>2. \A j, k \in 1..Len(options) : key[j] = key[k] => j = k
      BY <1>2
    <2>3. \A x \in Keys(options) : \E k \in 1..Len(options) : key[k] = x
      BY DEF Keys
    <2> HIDE DEF key
    <2> QED BY <2>1, <2>2, <2>3 DEF Bijection, Injection, Surjection, IsInjective
  <1>4. Cardinality(Keys(options)) = Len(options)
    <2>1. ExistsBijection(1..Len(options), Keys(options))
      <3> HIDE DEF key
      <3> QED BY <1>3 DEF ExistsBijection
    <2> QED BY <1>1, <2>1, FS_CountingElements
  <1>5. \A bound \in {<<"minvalue", "nominvalue">>, <<"maxvalue", "nomaxvalue">>} :
          ~({bound[1], bound[2]} \subseteq Keys(options))
    BY <1>1, Zenon DEF Duplicates
  <1> QED BY <1>4, <1>5

LEMMA OnlyIntegers == SequenceInv => IntegersOnly
  <1> SUFFICES ASSUME SequenceInv, phase = "done", NEW k \in 1..Len(options), options[k].key \in Valued
               PROVE  options[k].value.kind \in {"int64", "huge"} \cup (IF statement = "alter" THEN {"null"} ELSE {})
    BY DEF IntegersOnly
  <1>1. options[k].value.kind \in {"null", "int64", "huge"}
    BY DEF SequenceInv, Checked, Fits
  <1>2. statement = "alter" \/ (statement = "create" /\ Good = Len(options))
    BY DEF SequenceInv, SequenceTyped, Stages, Good, OfOne
  <1>3. CASE statement = "create"
    <2>1. EvaluateError(options[k]) = "none"
      BY <1>2, <1>3 DEF SequenceInv, Checked
    <2>2. options[k].value.kind # "null"
      BY <2>1 DEF EvaluateError
    <2> QED BY <1>1, <2>2
  <1> QED BY <1>1, <1>2, <1>3

\* What evaluation lets through, said of keys.
LEMMA NoErrorMeans ==
    ASSUME SequenceInv, statement = "create", phase = "done" \/ why = "range"
    PROVE  /\ "owned" \notin Keys(options) /\ \A key \in Valued : Value(key).kind # "null"
           /\ Value("increment") # [kind |-> "int64", v |-> 0]
  <1>1. /\ ~Duplicates /\ Good = Len(options) /\ Len(options) \in Nat
    BY DEF SequenceInv, SequenceTyped, Stages, Good, Late, OfOne
  <1>2. /\ \A k \in 1..Len(options) : Value(options[k].key) = options[k].value
        /\ \A key : key \notin Keys(options) => Value(key) = [kind |-> "absent"]
    BY <1>1, ValueOf
  <1>3. \A k \in 1..Len(options) : EvaluateError(options[k]) = "none"
    BY <1>1 DEF SequenceInv, Checked
  <1>4. \A key : key \in Keys(options) <=> \E k \in 1..Len(options) : options[k].key = key
    BY DEF Keys
  <1>5. "owned" \notin Keys(options)
    BY <1>3, <1>4 DEF EvaluateError
  <1>6. ASSUME NEW key \in Valued, Value(key).kind = "null"
        PROVE  FALSE
    <2>1. PICK k \in 1..Len(options) : options[k].key = key
      BY <1>2, <1>4, <1>6
    <2>2. options[k].value.kind = "null"
      BY <1>2, <1>6, <2>1
    <2> QED BY <1>3, <2>1, <2>2 DEF EvaluateError
  <1>7. ASSUME Value("increment") = [kind |-> "int64", v |-> 0]
        PROVE  FALSE
    <2>0. Value("increment").kind = "int64" /\ Value("increment").v = 0
      BY <1>7
    <2>1. PICK k \in 1..Len(options) : options[k].key = "increment"
      BY <1>2, <1>4, <2>0
    <2>2. Int64(options[k].value) /\ options[k].value.v = 0
      BY <1>2, <2>0, <2>1 DEF Int64
    <2> QED BY <1>3, <2>1, <2>2 DEF EvaluateError, Int64
  <1> QED BY <1>5, <1>6, <1>7

LEMMA AcceptedAreSequences == SequenceInv => AcceptedSequences
  <1> SUFFICES ASSUME SequenceInv, phase = "done", statement = "create", Known
               PROVE  /\ Given("increment", 1) # 0
                      /\ Lowest < Highest /\ Initial \in Lowest..Highest
    BY DEF AcceptedSequences
  <1>1. evalOK /\ ~RangeError(Defaults)
    BY AllEvaluated DEF SequenceInv, Stages
  <1>2. Lowest < Highest /\ Initial \in Lowest..Highest
    BY <1>1, RangeChecked
  <1>3. ASSUME Given("increment", 1) = 0
        PROVE  FALSE
    <2>1. Int64(Value("increment")) /\ Value("increment").v = 0
      BY <1>3 DEF Given
    <2>2. ~Duplicates /\ \A k \in 1..Len(options) : options[k] \in Options
      BY DEF SequenceInv, SequenceTyped, Stages
    <2>3. PICK k \in 1..Len(options) : options[k].key = "increment"
      <3>1. "increment" \in Keys(options)
        BY <2>1, <2>2, ValueOf DEF Int64
      <3> QED BY <3>1 DEF Keys
    <2>4. Value("increment") = options[k].value
      BY <2>2, <2>3, ValueOf
    <2>5. Value("increment") = [kind |-> "int64", v |-> 0]
      BY <2>1, <2>2, <2>4, IntOption
    <2> QED BY <2>5, NoErrorMeans
  <1> QED BY <1>2, <1>3

LEMMA NoOrder == SequenceInv => OrderIrrelevant
  <1> SUFFICES ASSUME SequenceInv, statement = "create", phase = "done" \/ why \in Late
               PROVE  phase = "done" <=>
                        /\ "owned" \notin Keys(options) /\ \A key \in Valued : Value(key).kind # "null"
                        /\ Value("increment") # [kind |-> "int64", v |-> 0]
                        /\ Known => Lowest < Highest /\ Initial \in Lowest..Highest
    BY Zenon DEF OrderIrrelevant, Late, OfOne
  <1>1. CASE phase = "done"
    <2>1. Known => ~RangeError(Defaults)
      BY <1>1, AllEvaluated DEF SequenceInv, Stages
    <2>2. Known => Lowest < Highest /\ Initial \in Lowest..Highest
      BY <1>1, <2>1, RangeChecked
    <2> QED BY <1>1, <2>2, NoErrorMeans, Zenon
  <1>2. CASE why = "range"
    <2>1. phase # "done" /\ Known /\ RangeError(Defaults)
      BY <1>2, AllEvaluated DEF SequenceInv, SequenceTyped, Stages
    <2>2. ~(Lowest < Highest /\ Initial \in Lowest..Highest)
      BY <1>2, <2>1, RangeChecked
    <2> QED BY <2>1, <2>2, Zenon
  <1>3. CASE why \in OfOne
    <2> DEFINE opt == options[evaluated]
    <2>1. /\ phase # "done" /\ ~Duplicates /\ evaluated \in 1..Len(options) /\ EvaluateError(opt) = why
          /\ \A k \in 1..Len(options) : options[k] \in Options
      BY <1>3 DEF SequenceInv, SequenceTyped, Stages, Late, OfOne
    <2>2. Value(opt.key) = opt.value /\ opt.key \in Keys(options) /\ opt \in Options
      BY <2>1, ValueOf DEF Keys
    <2> HIDE DEF opt
    <2>3. \/ opt.key = "owned"
          \/ opt.key \in Valued /\ opt.value.kind = "null"
          \/ opt.key = "increment" /\ Int64(opt.value) /\ opt.value.v = 0
      BY <1>3, <2>1 DEF EvaluateError, OfOne
    <2>4. CASE opt.key = "increment" /\ Int64(opt.value) /\ opt.value.v = 0
      <3>1. Value("increment") = [kind |-> "int64", v |-> 0]
        BY <2>2, <2>4, IntOption
      <3> QED BY <2>1, <3>1, Zenon
    <2>5. CASE opt.key = "owned" \/ (opt.key \in Valued /\ opt.value.kind = "null")
      BY <2>1, <2>2, <2>5, Zenon
    <2> QED BY <2>3, <2>4, <2>5
  <1> QED BY <1>1, <1>2, <1>3 DEF Late

\* Whatever options a statement has, and in whatever order: a CREATE SEQUENCE
\* is accepted if and only if what it says, with the defaults of its
\* direction, is a sequence (transformCreateSequence).
THEOREM SequencesAreAlwaysRanges == SpecSequence => []SequencesAreRanges
  <1>1. SequenceInv => SequencesAreRanges
    BY SequenceIsTyped, GivenOnce, OnlyIntegers, AcceptedAreSequences, NoOrder, Zenon DEF SequencesAreRanges
  <1> QED BY <1>1, SequenceInductive, PTL

-----------------------------------------------------------------------------
(* Window definitions: the definitions a window goes back to. *)

\* A definition's base comes before it.
InOrder(defs) ==
    /\ Len(defs) \in Nat
    /\ \A k \in 1..Len(defs) : defs[k].base \in 0..(k - 1) /\ defs[k].contents \in Contents

HasBases(defs, S) == \A j \in S : defs[j].base \in S \cup {0}

\* Bases, of any definitions.
BasesIn(defs, place) ==
    {k \in 1..Len(defs) : \A S \in SUBSET (1..Len(defs)) : place \in S \cup {0} /\ HasBases(defs, S) => k \in S}

LEMMA NoBases ==
    ASSUME NEW defs
    PROVE  BasesIn(defs, 0) = {}
  <1>1. {} \in SUBSET (1..Len(defs)) /\ 0 \in {} \cup {0} /\ HasBases(defs, {})
    BY DEF HasBases
  <1> QED BY <1>1, Zenon DEF BasesIn

LEMMA BasesBefore ==
    ASSUME NEW defs, InOrder(defs), NEW place \in 0..Len(defs)
    PROVE  BasesIn(defs, place) \subseteq 1..place
  <1> DEFINE S == 1..place
  <1>1. S \in SUBSET (1..Len(defs)) /\ place \in S \cup {0}
    BY DEF InOrder
  <1>2. HasBases(defs, S)
    BY DEF InOrder, HasBases
  <1> QED BY <1>1, <1>2, Zenon DEF BasesIn

\* A window goes back to its own definition and to those its base does.
LEMMA BasesUnfold ==
    ASSUME NEW defs, InOrder(defs), NEW place \in 1..Len(defs)
    PROVE  BasesIn(defs, place) = {place} \cup BasesIn(defs, defs[place].base)
  <1> DEFINE base  == defs[place].base
             under == BasesIn(defs, base)
  <1>1. base \in 0..(place - 1) /\ base \in 0..Len(defs) /\ Len(defs) \in Nat
    BY DEF InOrder
  <1>2. under \subseteq 1..Len(defs)
    BY Zenon DEF BasesIn
  <1>3. ASSUME NEW S \in SUBSET (1..Len(defs)), place \in S \cup {0}, HasBases(defs, S)
        PROVE  place \in S /\ under \subseteq S
    <2>1. place \in S
      BY <1>3
    <2>2. base \in S \cup {0}
      BY <1>3, <2>1 DEF HasBases
    <2> QED BY <1>3, <2>1, <2>2, Zenon DEF BasesIn
  <1>4. {place} \cup under \subseteq BasesIn(defs, place)
    BY <1>2, <1>3, Zenon DEF BasesIn
  <1>5. HasBases(defs, {place} \cup under)
    <2> SUFFICES ASSUME NEW j \in {place} \cup under, defs[j].base # 0
                 PROVE  defs[j].base \in under
      BY DEF HasBases
    <2>1. defs[j].base \in 1..Len(defs)
      BY <1>2 DEF InOrder
    <2>2. ASSUME NEW S \in SUBSET (1..Len(defs)), base \in S \cup {0}, HasBases(defs, S)
          PROVE  defs[j].base \in S
      <3>1. CASE j = place
        BY <2>2, <3>1
      <3>2. CASE j \in under
        <4>1. j \in S
          BY <2>2, <3>2, Zenon DEF BasesIn
        <4> QED BY <2>2, <4>1 DEF HasBases
      <3> QED BY <3>1, <3>2
    <2> QED BY <2>1, <2>2, Zenon DEF BasesIn
  <1>6. BasesIn(defs, place) \subseteq {place} \cup under
    <2>1. {place} \cup under \in SUBSET (1..Len(defs)) /\ place \in ({place} \cup under) \cup {0}
      BY <1>2
    <2> QED BY <1>5, <2>1, Zenon DEF BasesIn
  <1> QED BY <1>4, <1>6

\* One more definition changes nothing for those before it.
LEMMA BasesStay ==
    ASSUME NEW defs, InOrder(defs), NEW more, InOrder(more), Len(more) = Len(defs) + 1,
           \A k \in 1..Len(defs) : more[k] = defs[k],
           NEW place \in 0..Len(defs)
    PROVE  BasesIn(more, place) = BasesIn(defs, place)
  <1>1. Len(defs) \in Nat /\ 1..Len(defs) \subseteq 1..Len(more)
    BY DEF InOrder
  <1>2. ASSUME NEW S \in SUBSET (1..Len(defs))
        PROVE  HasBases(defs, S) <=> HasBases(more, S)
    BY DEF HasBases
  <1>3. BasesIn(more, place) \subseteq BasesIn(defs, place)
    <2>1. BasesIn(more, place) \subseteq 1..Len(defs)
      <3>1. place \in 0..Len(more)
        BY <1>1
      <3>2. BasesIn(more, place) \subseteq 1..place
        BY <3>1, BasesBefore
      <3> QED BY <1>1, <3>2
    <2>2. SUBSET (1..Len(defs)) \subseteq SUBSET (1..Len(more))
      BY <1>1
    <2> QED BY <1>2, <2>1, <2>2, Zenon DEF BasesIn
  <1>4. BasesIn(defs, place) \subseteq BasesIn(more, place)
    <2> SUFFICES ASSUME NEW k \in BasesIn(defs, place), NEW S \in SUBSET (1..Len(more)),
                        place \in S \cup {0}, HasBases(more, S)
                 PROVE  k \in S
      BY <1>1, Zenon DEF BasesIn
    <2> DEFINE T == S \cap (1..Len(defs))
    <2>1. T \in SUBSET (1..Len(defs)) /\ place \in T \cup {0}
      BY <1>1
    <2>2. HasBases(defs, T)
      BY <1>1 DEF HasBases, InOrder
    <2>3. k \in T
      <3> HIDE DEF T
      <3> QED BY <2>1, <2>2, Zenon DEF BasesIn
    <2> QED BY <2>3
  <1> QED BY <1>3, <1>4

-----------------------------------------------------------------------------
(* Frames. *)

Ranked(b) ==
    /\ b.kind = "UNBOUNDED_PRECEDING" => Rank(b) = 1
    /\ b.kind = "EXPR_PRECEDING" => Rank(b) = 2
    /\ b.kind = "CURRENT_ROW" => Rank(b) = 3
    /\ b.kind = "EXPR_FOLLOWING" => Rank(b) = 4
    /\ b.kind = "UNBOUNDED_FOLLOWING" => Rank(b) = 5

LEMMA RankOf ==
    ASSUME NEW b
    PROVE  Ranked(b)
  <1>1. /\ Len(Kinds) = 5 /\ Kinds[1] = "UNBOUNDED_PRECEDING" /\ Kinds[2] = "EXPR_PRECEDING"
        /\ Kinds[3] = "CURRENT_ROW" /\ Kinds[4] = "EXPR_FOLLOWING" /\ Kinds[5] = "UNBOUNDED_FOLLOWING"
    BY DEF Kinds
  <1>2. \A k \in 1..Len(Kinds) : k = 1 \/ k = 2 \/ k = 3 \/ k = 4 \/ k = 5
    BY <1>1
  <1>3. \A j, k \in 1..Len(Kinds) : Kinds[j] = Kinds[k] => j = k
    BY <1>1, <1>2
  <1>4. ASSUME NEW j \in 1..Len(Kinds), Kinds[j] = b.kind
        PROVE  Rank(b) = j
    <2>1. Rank(b) \in 1..Len(Kinds) /\ Kinds[Rank(b)] = b.kind
      BY <1>4 DEF Rank
    <2> QED BY <1>3, <1>4, <2>1
  <1>5. {1, 2, 3, 4, 5} \subseteq 1..Len(Kinds)
    BY <1>1
  <1> QED BY <1>1, <1>4, <1>5 DEF Ranked

LEMMA KindsAre ==
    BoundKinds = {"UNBOUNDED_PRECEDING", "EXPR_PRECEDING", "CURRENT_ROW", "EXPR_FOLLOWING", "UNBOUNDED_FOLLOWING"}
  <1>1. /\ Len(Kinds) = 5 /\ Kinds[1] = "UNBOUNDED_PRECEDING" /\ Kinds[2] = "EXPR_PRECEDING"
        /\ Kinds[3] = "CURRENT_ROW" /\ Kinds[4] = "EXPR_FOLLOWING" /\ Kinds[5] = "UNBOUNDED_FOLLOWING"
    BY DEF Kinds
  <1>2. 1..Len(Kinds) = {1, 2, 3, 4, 5}
    BY <1>1
  <1> QED BY <1>1, <1>2 DEF BoundKinds

\* A frame that runs forwards, between bounds inside the partition.
Forward(frame) ==
    /\ {frame.start.kind, frame.end.kind} \subseteq BoundKinds
    /\ {frame.start.framing, frame.end.framing} \subseteq Framings \cup {"none"}
    /\ Rank(frame.start) <= Rank(frame.end)
    /\ frame.start.kind # "UNBOUNDED_FOLLOWING" /\ frame.end.kind # "UNBOUNDED_PRECEDING"

\* transformFrameClause refuses the frames that do not run forwards, and no
\* others.
LEMMA BackwardsAre ==
    ASSUME NEW start \in BoundKinds, NEW end \in BoundKinds, NEW framing
    PROVE  LET first == Bound(start, framing) IN LET last == Bound(end, framing)
           IN  Backwards(start, end) <=>
                   Rank(first) > Rank(last) \/ Rank(last) = 1 \/ Rank(first) = 5
  <1> DEFINE first == Bound(start, framing)
             last  == Bound(end, framing)
  <1>1. first.kind = start /\ last.kind = end
    BY DEF Bound
  <1> HIDE DEF first, last
  <1>2. Ranked(first) /\ Ranked(last)
    BY RankOf, Zenon
  <1>3. Backwards(start, end) <=> Rank(first) > Rank(last) \/ Rank(last) = 1 \/ Rank(first) = 5
    <2>1. CASE start = "UNBOUNDED_PRECEDING"
      BY <1>1, <1>2, <2>1, KindsAre DEF Backwards, Ranked
    <2>2. CASE start = "EXPR_PRECEDING"
      BY <1>1, <1>2, <2>2, KindsAre DEF Backwards, Ranked
    <2>3. CASE start = "CURRENT_ROW"
      BY <1>1, <1>2, <2>3, KindsAre DEF Backwards, Ranked
    <2>4. CASE start = "EXPR_FOLLOWING"
      BY <1>1, <1>2, <2>4, KindsAre DEF Backwards, Ranked
    <2>5. CASE start = "UNBOUNDED_FOLLOWING"
      BY <1>1, <1>2, <2>5, KindsAre DEF Backwards, Ranked
    <2> QED BY <2>1, <2>2, <2>3, <2>4, <2>5, KindsAre
  <1> QED BY <1>3 DEF first, last

\* The frame of every definition that is not refused runs forwards.
LEMMA FramesRunForward ==
    ASSUME NEW c \in Contents, ~FillRefused(c)
    PROVE  Forward(Frame(c.frame))
  <1> DEFINE f == Frame(c.frame)
  <1>1. CASE c.frame = NoFrame
    <2>1. f = DefaultFrame
      BY <1>1 DEF Frame
    <2>2. /\ f.start = [kind |-> "UNBOUNDED_PRECEDING", framing |-> "none"]
          /\ f.end = [kind |-> "CURRENT_ROW", framing |-> "RANGE"]
      BY <2>1 DEF DefaultFrame, Bound
    <2> HIDE DEF f
    <2>3. Rank(f.start) = 1 /\ Rank(f.end) = 3
      <3>1. Ranked(f.start) /\ Ranked(f.end)
        BY RankOf, Zenon
      <3> QED BY <2>2, <3>1 DEF Ranked
    <2>4. Forward(f)
      BY <2>2, <2>3, KindsAre DEF Forward, Framings
    <2> QED BY <2>4 DEF f
  <1>2. CASE c.frame # NoFrame
    <2> DEFINE end == EndOf(c.frame)
    <2>1. /\ c.frame.start \in BoundKinds /\ end \in BoundKinds /\ c.frame.framing \in Framings
          /\ ~Backwards(c.frame.start, end)
      BY <1>2, ContentsAssumption, KindsAre DEF FillRefused, EndOf
    <2>2. f.start = Bound(c.frame.start, c.frame.framing) /\ f.end = Bound(end, c.frame.framing)
      BY <1>2 DEF Frame
    <2> HIDE DEF f, end
    <2>3. Ranked(f.start) /\ Ranked(f.end)
      BY RankOf, Zenon
    <2>4. /\ f.start.kind = c.frame.start /\ f.end.kind = end
          /\ {f.start.framing, f.end.framing} \subseteq Framings \cup {"none"}
      BY <2>1, <2>2 DEF Bound
    <2>5. ~(Rank(f.start) > Rank(f.end) \/ Rank(f.end) = 1 \/ Rank(f.start) = 5)
      BY <2>1, <2>2, BackwardsAre
    <2>6. Rank(f.start) \in 1..5 /\ Rank(f.end) \in 1..5
      BY <2>1, <2>3, <2>4, KindsAre DEF Ranked
    <2>7. Rank(f.start) <= Rank(f.end)
      BY <2>5, <2>6
    <2>8. f.start.kind # "UNBOUNDED_FOLLOWING" /\ f.end.kind # "UNBOUNDED_PRECEDING"
      BY <2>3, <2>5 DEF Ranked
    <2>9. Forward(f)
      BY <2>1, <2>4, <2>7, <2>8 DEF Forward
    <2> QED BY <2>9 DEF f
  <1> QED BY <1>1, <1>2

-----------------------------------------------------------------------------
(* Window definitions: what holds of every window. *)

\* The definitions under a window that have a partition, or an order.
Partitions(defs, place) == {k \in BasesIn(defs, place) : defs[k].contents.partition}
Orders(defs, place)     == {k \in BasesIn(defs, place) : defs[k].contents.order = "keys"}
Only(place) == IF place = 0 THEN {} ELSE {place}

\* A window of the definition at a place, over the windows ws.
Sound(defs, ws, place, w) ==
    /\ w.frame = Frame(defs[place].contents.frame) /\ Forward(w.frame)
    /\ w.partition \in 0..place /\ w.order \in 0..place
    /\ Partitions(defs, place) = Only(w.partition) /\ Orders(defs, place) = Only(w.order)
    /\ \A k \in BasesIn(defs, place) \ {place} : k \in 1..Len(ws) /\ ~HasFrame(ws[k])

LEMMA SoundStays ==
    ASSUME NEW defs, InOrder(defs), NEW more, InOrder(more), Len(more) = Len(defs) + 1,
           \A k \in 1..Len(defs) : more[k] = defs[k],
           NEW ws, NEW wsNew, \A k \in 1..Len(ws) : k \in 1..Len(wsNew) /\ wsNew[k] = ws[k],
           NEW place \in 1..Len(defs), NEW w, Sound(defs, ws, place, w)
    PROVE  Sound(more, wsNew, place, w)
  <1>1. BasesIn(more, place) = BasesIn(defs, place)
    <2>1. place \in 0..Len(defs)
      BY DEF InOrder
    <2> QED BY <2>1, BasesStay
  <1>2. BasesIn(defs, place) \subseteq 1..Len(defs)
    BY Zenon DEF BasesIn
  <1>3. Partitions(more, place) = Partitions(defs, place) /\ Orders(more, place) = Orders(defs, place)
    BY <1>1, <1>2 DEF Partitions, Orders
  <1>4. more[place] = defs[place]
    OBVIOUS
  <1> QED BY <1>1, <1>3, <1>4, Zenon DEF Sound

LEMMA FillIsSound ==
    ASSUME NEW defs, InOrder(defs), NEW place \in 1..Len(defs), defs[place].base = 0,
           ~FillRefused(defs[place].contents), NEW ws
    PROVE  Sound(defs, ws, place, Fill(place, defs[place].contents))
  <1> DEFINE c == defs[place].contents
             w == Fill(place, c)
  <1>1. c \in Contents /\ Len(defs) \in Nat
    BY DEF InOrder
  <1>2. BasesIn(defs, place) = {place}
    BY BasesUnfold, NoBases
  <1>3. w.frame = Frame(c.frame) /\ w.partition = (IF c.partition THEN place ELSE 0)
        /\ w.order = IF c.order = "keys" THEN place ELSE 0
    BY DEF Fill
  <1>4. Forward(Frame(c.frame))
    BY <1>1, FramesRunForward
  <1>5. place # 0 /\ place \in 0..place /\ 0 \in 0..place
    BY <1>1
  <1> HIDE DEF w
  <1>6. Partitions(defs, place) = Only(w.partition) /\ Orders(defs, place) = Only(w.order)
    BY <1>2, <1>3, <1>5 DEF Partitions, Orders, Only
  <1>7. w.partition \in 0..place /\ w.order \in 0..place
    BY <1>3, <1>5
  <1>8. Sound(defs, ws, place, w)
    BY <1>2, <1>3, <1>4, <1>6, <1>7 DEF Sound
  <1> QED BY <1>8 DEF w

LEMMA ExtendIsSound ==
    ASSUME NEW defs, InOrder(defs), NEW place \in 1..Len(defs), NEW ws, Len(ws) \in Nat, place <= Len(ws) + 1,
           NEW base \in 1..(place - 1), defs[place].base = base, Sound(defs, ws, base, ws[base]),
           ~ExtendRefused(ws[base], defs[place].contents)
    PROVE  Sound(defs, ws, place, Extend(ws[base], place, defs[place].contents))
  <1> DEFINE c == defs[place].contents
             b == ws[base]
             w == Extend(b, place, c)
  <1>1. c \in Contents /\ Len(defs) \in Nat /\ base \in 1..Len(defs) /\ base \in 1..Len(ws) /\ place # 0
    BY DEF InOrder
  <1>2. BasesIn(defs, place) = {place} \cup BasesIn(defs, base)
    BY BasesUnfold
  <1>3. /\ w.frame = Frame(c.frame)
        /\ w.partition = IF b.partition = 0 THEN (IF c.partition THEN place ELSE 0) ELSE b.partition
        /\ w.order = IF b.order = 0 THEN (IF c.order = "keys" THEN place ELSE 0) ELSE b.order
    BY DEF Extend, Fill
  <1>4. /\ ~FillRefused(c) /\ ~HasFrame(b)
        /\ b.partition # 0 => ~c.partition
        /\ b.order # 0 => c.order # "keys"
    BY DEF ExtendRefused
  <1>5. Forward(Frame(c.frame))
    BY <1>1, <1>4, FramesRunForward
  <1>6. /\ b.partition \in 0..base /\ b.order \in 0..base
        /\ Partitions(defs, base) = Only(b.partition) /\ Orders(defs, base) = Only(b.order)
        /\ \A k \in BasesIn(defs, base) \ {base} : k \in 1..Len(ws) /\ ~HasFrame(ws[k])
    BY DEF Sound
  <1> HIDE DEF w, b, c
  <1>7. 0..base \subseteq 0..place /\ place \in 0..place
    BY <1>1
  <1>8. w.partition \in 0..place /\ w.order \in 0..place
    BY <1>3, <1>6, <1>7
  <1>9. /\ Partitions(defs, place) = (IF c.partition THEN {place} ELSE {}) \cup Partitions(defs, base)
        /\ Orders(defs, place) = (IF c.order = "keys" THEN {place} ELSE {}) \cup Orders(defs, base)
    BY <1>2 DEF Partitions, Orders, c
  <1>10. Partitions(defs, place) = Only(w.partition)
    BY <1>1, <1>3, <1>4, <1>6, <1>9 DEF Only
  <1>11. Orders(defs, place) = Only(w.order)
    BY <1>1, <1>3, <1>4, <1>6, <1>9 DEF Only
  <1>12. \A k \in BasesIn(defs, place) \ {place} : k \in 1..Len(ws) /\ ~HasFrame(ws[k])
    <2>1. base \in 1..Len(ws) /\ ~HasFrame(ws[base])
      BY <1>1, <1>4 DEF b
    <2> QED BY <1>2, <1>6, <2>1, Zenon
  <1>13. Sound(defs, ws, place, w)
    BY <1>3, <1>5, <1>8, <1>10, <1>11, <1>12 DEF Sound, c
  <1> QED BY <1>13 DEF w, b, c

-----------------------------------------------------------------------------
(* Window definitions: the inductive invariant. *)

WindowsSound ==
    /\ Len(windows) \in Nat /\ Len(windows) < MaxWindows
    /\ InOrder(written)
    /\ Len(windows) <= Len(written)
    /\ \A k \in 1..Len(windows) : Sound(written, windows, k, windows[k])

\* Where the clause stands; OVER has a definition of its own or the window
\* of a name.
ClauseStands ==
    /\ stage \in {"clause", "done", "refused"}
    /\ stage = "clause" => Len(written) = Len(windows)
    /\ stage = "done" =>
         \/ Len(written) = Len(windows) /\ \E k \in 1..Len(windows) : over = windows[k]
         \/ Len(written) = Len(windows) + 1 /\ Sound(written, windows, Len(written), over)
    /\ stage = "refused" /\ Len(windows) = 0 /\ Len(written) = 1 => FillRefused(written[1].contents)

WindowInv == WindowsSound /\ ClauseStands

LEMMA NoWindows == InitWindows => WindowInv
  <1> SUFFICES ASSUME InitWindows PROVE WindowInv
    OBVIOUS
  <1>1. Len(windows) = 0 /\ Len(written) = 0
    BY DEF InitWindows
  <1>2. InOrder(written)
    BY <1>1 DEF InOrder
  <1>3. WindowsSound
    BY <1>1, <1>2, ContentsAssumption DEF WindowsSound
  <1>4. stage = "clause"
    BY DEF InitWindows
  <1> QED BY <1>1, <1>3, <1>4 DEF WindowInv, ClauseStands

\* A definition more, whatever becomes of it: the windows so far are what
\* they were.
LEMMA Written ==
    ASSUME WindowInv, stage = "clause", NEW base \in 0..Len(windows), NEW c \in Contents,
           written' = Append(written, [base |-> base, contents |-> c])
    PROVE  /\ Len(written') = Len(windows) + 1 /\ InOrder(written')
           /\ written'[Len(windows) + 1].base = base /\ written'[Len(windows) + 1].contents = c
           /\ \A k \in 1..Len(windows) : Sound(written', windows, k, windows[k])
  <1>1. Len(written) = Len(windows) /\ InOrder(written) /\ Len(windows) \in Nat
    BY DEF WindowInv, WindowsSound, ClauseStands
  <1> DEFINE new  == [base |-> base, contents |-> c]
             more == written'
  <1>2. /\ Len(more) = Len(written) + 1 /\ more[Len(written) + 1] = new
        /\ \A k \in 1..Len(written) : more[k] = written[k]
    BY <1>1
  <1>3. new.base = base /\ new.contents = c
    OBVIOUS
  <1> HIDE DEF new, more
  <1>4. InOrder(more)
    <2> SUFFICES ASSUME NEW k \in 1..Len(more)
                 PROVE  more[k].base \in 0..(k - 1) /\ more[k].contents \in Contents
      BY <1>1, <1>2 DEF InOrder
    <2>1. CASE k \in 1..Len(written)
      BY <1>1, <1>2, <2>1 DEF InOrder
    <2>2. CASE k = Len(written) + 1
      BY <1>1, <1>2, <1>3, <2>2
    <2> QED BY <1>1, <1>2, <2>1, <2>2
  <1>5. \A k \in 1..Len(windows) : Sound(more, windows, k, windows[k])
    BY <1>1, <1>2, <1>4, SoundStays DEF WindowInv, WindowsSound
  <1> QED BY <1>1, <1>2, <1>3, <1>4, <1>5 DEF more

\* What is not refused is the window the definitions say.
LEMMA DefinitionIsSound ==
    ASSUME WindowInv, stage = "clause", NEW base \in 0..Len(windows), NEW reserved \in BOOLEAN, NEW c \in Contents,
           written' = Append(written, [base |-> base, contents |-> c]), ~Refused(base, reserved, c)
    PROVE  Sound(written', windows, Len(windows) + 1, Definition(base, Len(windows) + 1, c))
  <1> DEFINE place == Len(windows) + 1
             more  == written'
  <1>1. /\ Len(more) = place /\ InOrder(more) /\ more[place].base = base /\ more[place].contents = c
        /\ \A k \in 1..Len(windows) : Sound(more, windows, k, windows[k])
    BY Written
  <1>2. Len(windows) \in Nat
    BY DEF WindowInv, WindowsSound
  <1>3. place \in 1..Len(more)
    BY <1>1, <1>2
  <1> HIDE DEF more
  <1>4. CASE base = 0
    <2>1. ~FillRefused(more[place].contents) /\ Definition(base, place, c) = Fill(place, more[place].contents)
      BY <1>1, <1>4 DEF Refused, Definition
    <2> HIDE DEF place
    <2>2. Sound(more, windows, place, Fill(place, more[place].contents))
      BY <1>1, <1>3, <1>4, <2>1, FillIsSound
    <2> QED BY <2>1, <2>2 DEF place, more
  <1>5. CASE base # 0
    <2>1. /\ ~ExtendRefused(windows[base], more[place].contents)
          /\ Definition(base, place, c) = Extend(windows[base], place, more[place].contents)
      BY <1>1, <1>5 DEF Refused, Definition
    <2>2. base \in 1..(place - 1) /\ place <= Len(windows) + 1 /\ base \in 1..Len(windows)
      BY <1>2, <1>5
    <2> HIDE DEF place
    <2>3. Sound(more, windows, place, Extend(windows[base], place, more[place].contents))
      BY <1>1, <1>2, <1>3, <2>1, <2>2, ExtendIsSound
    <2> QED BY <2>1, <2>3 DEF place, more
  <1> QED BY <1>4, <1>5

\* A definition that is refused leaves the windows there are.
LEMMA RefusedKeeps ==
    ASSUME WindowInv, stage = "clause", NEW base \in 0..Len(windows), NEW reserved \in BOOLEAN, NEW c \in Contents,
           written' = Append(written, [base |-> base, contents |-> c]), Refused(base, reserved, c), RefuseWindow
    PROVE  WindowInv'
  <1>1. /\ Len(written') = Len(windows) + 1 /\ InOrder(written') /\ written'[Len(windows) + 1].contents = c
        /\ \A k \in 1..Len(windows) : Sound(written', windows, k, windows[k])
    BY Written
  <1>2. Len(windows) \in Nat /\ Len(windows) < MaxWindows
    BY DEF WindowInv, WindowsSound
  <1>3. windows' = windows /\ stage' = "refused"
    BY DEF RefuseWindow
  <1>4. WindowsSound'
    BY <1>1, <1>2, <1>3 DEF WindowsSound
  <1>5. Len(windows) = 0 => FillRefused(written'[1].contents)
    BY <1>1 DEF Refused
  <1>6. ClauseStands'
    BY <1>3, <1>5 DEF ClauseStands
  <1> QED BY <1>4, <1>6 DEF WindowInv

LEMMA DefineKeeps ==
    ASSUME WindowInv, NEW base \in 0..Len(windows), NEW reserved \in BOOLEAN, NEW c \in Contents,
           Define(base, reserved, c)
    PROVE  WindowInv'
  <1> DEFINE w == Definition(base, Len(windows) + 1, c)
  <1>1. /\ stage = "clause" /\ Len(windows) + 1 < MaxWindows
        /\ written' = Append(written, [base |-> base, contents |-> c])
    BY DEF Define
  <1>2. CASE Refused(base, reserved, c)
    BY <1>1, <1>2, RefusedKeeps DEF Define
  <1>3. CASE ~Refused(base, reserved, c)
    <2>1. windows' = Append(windows, w) /\ stage' = stage
      BY <1>3 DEF Define
    <2>2. /\ Len(written') = Len(windows) + 1 /\ InOrder(written')
          /\ \A k \in 1..Len(windows) : Sound(written', windows, k, windows[k])
      BY <1>1, Written
    <2>3. Sound(written', windows, Len(windows) + 1, w)
      BY <1>1, <1>3, DefinitionIsSound
    <2>4. Len(windows) \in Nat
      BY DEF WindowInv, WindowsSound
    <2> HIDE DEF w
    <2>5. /\ Len(windows') = Len(windows) + 1 /\ windows'[Len(windows) + 1] = w
          /\ \A k \in 1..Len(windows) : windows'[k] = windows[k]
      BY <2>1, <2>4
    <2>6. ASSUME NEW k \in 1..Len(windows'), NEW v, Sound(written', windows, k, v)
          PROVE  Sound(written', windows', k, v)
      BY <2>4, <2>5, <2>6 DEF Sound
    <2>7. ASSUME NEW k \in 1..Len(windows')
          PROVE  Sound(written', windows', k, windows'[k])
      <3>1. CASE k \in 1..Len(windows)
        BY <2>2, <2>5, <2>6, <3>1
      <3>2. CASE k = Len(windows) + 1
        BY <2>3, <2>5, <2>6, <3>2
      <3> QED BY <2>4, <2>5, <3>1, <3>2
    <2>8. WindowsSound'
      BY <1>1, <2>2, <2>4, <2>5, <2>7 DEF WindowsSound
    <2>9. ClauseStands'
      BY <1>1, <2>1, <2>2, <2>5 DEF ClauseStands
    <2> QED BY <2>8, <2>9 DEF WindowInv
  <1> QED BY <1>2, <1>3

LEMMA OverDefinitionKeeps ==
    ASSUME WindowInv, NEW base \in 0..Len(windows), NEW reserved \in BOOLEAN, NEW c \in Contents,
           OverDefinition(base, reserved, c)
    PROVE  WindowInv'
  <1> DEFINE w == Definition(base, Len(windows) + 1, c)
  <1>1. stage = "clause" /\ written' = Append(written, [base |-> base, contents |-> c])
    BY DEF OverDefinition
  <1>2. CASE Refused(base, reserved, c)
    BY <1>1, <1>2, RefusedKeeps DEF OverDefinition
  <1>3. CASE ~Refused(base, reserved, c)
    <2>1. over' = w /\ stage' = "done" /\ windows' = windows
      BY <1>3 DEF OverDefinition
    <2>2. /\ Len(written') = Len(windows) + 1 /\ InOrder(written')
          /\ \A k \in 1..Len(windows) : Sound(written', windows, k, windows[k])
      BY <1>1, Written
    <2>3. Sound(written', windows, Len(windows) + 1, w)
      BY <1>1, <1>3, DefinitionIsSound
    <2>4. Len(windows) \in Nat /\ Len(windows) < MaxWindows
      BY DEF WindowInv, WindowsSound
    <2> HIDE DEF w
    <2>5. WindowsSound'
      BY <2>1, <2>2, <2>4 DEF WindowsSound
    <2>6. ClauseStands'
      BY <2>1, <2>2, <2>3 DEF ClauseStands
    <2> QED BY <2>5, <2>6 DEF WindowInv
  <1> QED BY <1>2, <1>3

LEMMA NamesKeep ==
    ASSUME WindowInv, NEW name \in 1..Len(windows), OverName(name) \/ OverParens(name)
    PROVE  WindowInv'
  <1>1. stage = "clause" /\ windows' = windows /\ written' = written
    BY DEF OverName, OverParens, RefuseWindow
  <1>2. stage' = "refused" \/ (stage' = "done" /\ over' = windows[name])
    BY DEF OverName, OverParens, RefuseWindow
  <1>3. WindowsSound'
    BY <1>1 DEF WindowInv, WindowsSound
  <1>4. Len(written) = Len(windows) /\ Len(windows) \in Nat
    BY <1>1 DEF WindowInv, WindowsSound, ClauseStands
  <1>5. ClauseStands'
    BY <1>1, <1>2, <1>4 DEF ClauseStands
  <1> QED BY <1>3, <1>5 DEF WindowInv

LEMMA WindowStep == WindowInv /\ [NextWindows]_windowVars => WindowInv'
  <1> SUFFICES ASSUME WindowInv, [NextWindows]_windowVars PROVE WindowInv'
    OBVIOUS
  <1>1. ASSUME NEW base \in 0..Len(windows), NEW reserved \in BOOLEAN, NEW c \in Contents,
               Define(base, reserved, c) \/ OverDefinition(base, reserved, c)
        PROVE  WindowInv'
    BY <1>1, DefineKeeps, OverDefinitionKeeps, Zenon
  <1>2. ASSUME NEW name \in 1..Len(windows), OverName(name) \/ OverParens(name)
        PROVE  WindowInv'
    BY <1>2, NamesKeep, Zenon
  <1>3. CASE UNCHANGED windowVars
    BY <1>3 DEF windowVars, WindowInv, WindowsSound, ClauseStands
  <1> QED BY <1>1, <1>2, <1>3, Zenon DEF NextWindows

\* Every window has its own frame, which runs forwards, and the partition and
\* the order of the only definition under it that has one.
THEOREM WindowsInductive == SpecWindows => []WindowInv
  <1> QED BY NoWindows, WindowStep, PTL DEF SpecWindows

-----------------------------------------------------------------------------
(* Window definitions: what that says of the windows accepted. *)

LEMMA BasesAre ==
    ASSUME NEW place
    PROVE  Bases(place) = BasesIn(written, place)
  <1> QED BY DEF Bases, BasesIn, HasBases

LEMMA AcceptedAreSound ==
    ASSUME WindowInv, NEW w \in Accepted
    PROVE  \E place \in 1..Len(written) : Sound(written, windows, place, w)
  <1>1. Len(windows) \in Nat /\ Len(written) \in Nat /\ Len(windows) <= Len(written)
    BY DEF WindowInv, WindowsSound, InOrder
  <1>2. CASE \E k \in 1..Len(windows) : w = windows[k]
    BY <1>1, <1>2 DEF WindowInv, WindowsSound
  <1>3. CASE stage = "done" /\ w = over /\ Len(written) = Len(windows) + 1 /\ Sound(written, windows, Len(written), over)
    BY <1>1, <1>3
  <1> QED BY <1>2, <1>3 DEF Accepted, WindowInv, ClauseStands

LEMMA DefinedAreSound ==
    ASSUME WindowInv, NEW d \in Defined
    PROVE  d[1] \in 1..Len(written) /\ Sound(written, windows, d[1], d[2])
  <1>1. Len(windows) \in Nat /\ Len(written) \in Nat /\ Len(windows) <= Len(written)
    BY DEF WindowInv, WindowsSound, InOrder
  <1>2. CASE \E k \in 1..Len(windows) : d = <<k, windows[k]>>
    BY <1>1, <1>2 DEF WindowInv, WindowsSound
  <1>3. CASE Own # 0 /\ d = <<Own, over>>
    <2>1. stage = "done" /\ Len(written) > Len(windows) /\ Own = Len(written)
      BY <1>3 DEF Own
    <2>2. Sound(written, windows, Len(written), over)
      BY <1>1, <2>1 DEF WindowInv, ClauseStands
    <2> QED BY <1>1, <1>3, <2>1, <2>2
  <1> QED BY <1>2, <1>3 DEF Defined

LEMMA FramesTyped == WindowInv => FramesTypeOK
  <1> SUFFICES ASSUME WindowInv, NEW w \in Accepted
               PROVE  /\ {w.partition, w.order} \subseteq 0..Len(written)
                      /\ {w.frame.start.kind, w.frame.end.kind} \subseteq BoundKinds
                      /\ {w.frame.start.framing, w.frame.end.framing} \subseteq Framings \cup {"none"}
    BY DEF FramesTypeOK, WindowInv, WindowsSound
  <1>1. PICK place \in 1..Len(written) : Sound(written, windows, place, w)
    BY AcceptedAreSound
  <1>2. w.partition \in 0..place /\ w.order \in 0..place /\ Forward(w.frame)
    BY <1>1 DEF Sound
  <1>3. Len(written) \in Nat
    BY DEF WindowInv, WindowsSound, InOrder
  <1>4. 0..place \subseteq 0..Len(written)
    BY <1>3
  <1> QED BY <1>2, <1>4 DEF Forward

LEMMA RunForward == WindowInv => FramesForward
  <1> SUFFICES ASSUME WindowInv, NEW w \in Accepted PROVE Forward(w.frame)
    BY DEF FramesForward, Forward
  <1> QED BY AcceptedAreSound DEF Sound

LEMMA OnlyBackwardsRefused == WindowInv => ForwardAccepted
  <1> SUFFICES ASSUME WindowInv, stage = "refused", Len(written) = 1, windows = <<>>,
                      written[1].contents.order # "all"
               PROVE  LET c == written[1].contents
                      IN  /\ c.frame # NoFrame
                          /\ LET f == Frame(c.frame)
                             IN  \/ Rank(f.start) > Rank(f.end) \/ Rank(f.end) = 1 \/ Rank(f.start) = Len(Kinds)
    BY DEF ForwardAccepted
  <1> DEFINE c == written[1].contents
             f == Frame(c.frame)
             end == EndOf(c.frame)
  <1>1. Len(windows) = 0
    OBVIOUS
  <1>2. c \in Contents /\ FillRefused(c)
    BY <1>1 DEF WindowInv, WindowsSound, ClauseStands, InOrder
  <1>3. c.frame # NoFrame /\ Backwards(c.frame.start, end)
    BY <1>2 DEF FillRefused
  <1> HIDE DEF c
  <1>4. c.frame.start \in BoundKinds /\ end \in BoundKinds
    BY <1>2, <1>3, ContentsAssumption, KindsAre DEF EndOf
  <1>5. f.start = Bound(c.frame.start, c.frame.framing) /\ f.end = Bound(end, c.frame.framing)
    BY <1>3 DEF Frame
  <1> HIDE DEF f, end
  <1>6. Rank(f.start) > Rank(f.end) \/ Rank(f.end) = 1 \/ Rank(f.start) = 5
    BY <1>3, <1>4, <1>5, BackwardsAre
  <1>7. Len(Kinds) = 5
    BY DEF Kinds
  <1> QED BY <1>3, <1>6, <1>7 DEF f, c

LEMMA NoneOverridden == WindowInv => NothingOverridden
  <1> SUFFICES ASSUME WindowInv, NEW d \in Defined
               PROVE  /\ Partitions(written, d[1]) = (IF d[2].partition = 0 THEN {} ELSE {d[2].partition})
                      /\ Orders(written, d[1]) = (IF d[2].order = 0 THEN {} ELSE {d[2].order})
    BY BasesAre, Zenon DEF NothingOverridden, Partitions, Orders
  <1>1. Sound(written, windows, d[1], d[2])
    BY DefinedAreSound
  <1> QED BY <1>1, Zenon DEF Sound, Only

LEMMA OwnFrame == WindowInv => FrameIsOwn
  <1> SUFFICES ASSUME WindowInv, NEW d \in Defined
               PROVE  /\ d[2].frame = Frame(written[d[1]].contents.frame)
                      /\ \A k \in BasesIn(written, d[1]) \ {d[1]} :
                            [windows[k].frame EXCEPT !.exclude = "noothers"] = DefaultFrame
    BY BasesAre, Zenon DEF FrameIsOwn
  <1>1. Sound(written, windows, d[1], d[2])
    BY DefinedAreSound
  <1>2. ASSUME NEW k \in BasesIn(written, d[1]) \ {d[1]}
        PROVE  [windows[k].frame EXCEPT !.exclude = "noothers"] = DefaultFrame
    <2>1. k \in 1..Len(windows) /\ ~HasFrame(windows[k])
      BY <1>1, <1>2 DEF Sound
    <2>2. windows[k].frame = Frame(written[k].contents.frame)
      BY <2>1 DEF WindowInv, WindowsSound, Sound
    <2> DEFINE f == windows[k].frame
    <2>3. f.start = DefaultFrame.start /\ f.end = DefaultFrame.end
      BY <2>1 DEF HasFrame
    <2>4. f = [start |-> f.start, end |-> f.end, exclude |-> f.exclude]
      BY <2>2 DEF Frame, DefaultFrame
    <2> HIDE DEF f
    <2>5. [f EXCEPT !.exclude = "noothers"] = [start |-> f.start, end |-> f.end, exclude |-> "noothers"]
      BY <2>4
    <2> QED BY <2>3, <2>5 DEF DefaultFrame, f
  <1> QED BY <1>1, <1>2 DEF Sound

\* Whatever the definitions of a WINDOW clause and of OVER have in them, and
\* however they are built on each other: frames run forwards and are the
\* window's own, and of all the definitions under it at most one has a
\* partition and one an order, which are the window's
\* (transformWindowFrameDefinition, transformFrameClause).
THEOREM WindowsAreNeverOverridden == SpecWindows => []WindowsNeverOverridden
  <1>1. WindowInv => WindowsNeverOverridden
    BY FramesTyped, RunForward, OnlyBackwardsRefused, NoneOverridden, OwnFrame, Zenon DEF WindowsNeverOverridden
  <1> QED BY <1>1, WindowsInductive, PTL
=============================================================================
