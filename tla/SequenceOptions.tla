--------------------------- MODULE SequenceOptions --------------------------
(***************************************************************************)
(* The options of CREATE and ALTER SEQUENCE (transformCreateSequence and   *)
(* applySequenceOption, parser/transform_ddl): every option is transformed *)
(* first, then CREATE looks for duplicates, evaluates the options one by   *)
(* one and checks the ranges they and the defaults leave.                  *)
(*                                                                         *)
(* An option has a key and a value: an int64 constant, an integer beyond   *)
(* int64 ("huge") or beyond 128 bits ("wide", which is a double), another  *)
(* constant or an expression; a key without a value has "none".            *)
(***************************************************************************)
EXTENDS Integers, Sequences, FiniteSets

CONSTANTS Options,    \* the options of a statement
          MaxOptions, \* how many of them at most
          MinInt, MaxInt  \* the range of an int64

Valued == {"increment", "minvalue", "maxvalue", "start"}
Int64(value) == value.kind = "int64"

\* A constant of an int64 holds its value.
ASSUME OptionsAssumption ==
    /\ MinInt \in Int /\ MaxInt \in Int
    /\ \A opt \in Options :
          /\ opt.value.kind # "absent"
          /\ Int64(opt.value) => opt.value \in [kind : {"int64"}, v : MinInt..MaxInt]

VARIABLES statement, \* "create" or "alter"
          options,   \* the options transformed
          evaluated, \* how many CREATE has evaluated
          seq,       \* the values evaluated, those that are set
          evalOK,    \* every value so far is an int64
          phase,     \* "options", "evaluate", "done" or "refused"
          why        \* the check that refused
sequenceVars == <<statement, options, evaluated, seq, evalOK, phase, why>>

Keys(opts) == {opts[k].key : k \in 1..Len(opts)}

RefuseSequence(reason) == phase' = "refused" /\ why' = reason

-----------------------------------------------------------------------------
\* numberValue's integer types; a number too wide for them is a DOUBLE.
LiteralIsInteger(value) == value.kind \in {"int64", "huge"}

\* seqConstant, and the check of an ALTER's OWNED BY; CREATE has its own.
TransformError(opt) ==
    IF opt.key \in Valued
    THEN IF opt.value.kind = "expression" THEN "nonconstant"
         ELSE IF opt.value.kind # "null" /\ ~LiteralIsInteger(opt.value) THEN "noninteger" ELSE "none"
    ELSE IF statement = "alter" /\ opt.key = "owned" /\ "owned" \in Keys(options) THEN "duplicate" ELSE "none"

InitSequence ==
    /\ statement \in {"create", "alter"} /\ options = <<>> /\ evaluated = 0
    /\ seq = [key \in {} |-> 0] /\ evalOK = TRUE /\ phase = "options" /\ why = "none"

\* applySequenceOption.
Transform(opt) ==
    /\ phase = "options" /\ Len(options) < MaxOptions
    /\ options' = Append(options, opt)
    /\ IF TransformError(opt) = "none" THEN UNCHANGED <<phase, why>> ELSE RefuseSequence(TransformError(opt))
    /\ UNCHANGED <<statement, evaluated, seq, evalOK>>

\* ALTER has no more checks.
Altered ==
    /\ phase = "options" /\ statement = "alter" /\ options # <<>> /\ phase' = "done"
    /\ UNCHANGED <<statement, options, evaluated, seq, evalOK, why>>

Duplicates ==
    \/ \E j, k \in 1..Len(options) : j < k /\ options[j].key = options[k].key
    \/ \E bound \in {<<"minvalue", "nominvalue">>, <<"maxvalue", "nomaxvalue">>} :
          {bound[1], bound[2]} \subseteq Keys(options)

CheckDuplicates ==
    /\ phase = "options" /\ statement = "create"
    /\ IF Duplicates THEN RefuseSequence("duplicate") ELSE phase' = "evaluate" /\ UNCHANGED why
    /\ UNCHANGED <<statement, options, evaluated, seq, evalOK>>

EvaluateError(opt) ==
    IF opt.key = "owned" THEN "owned"
    ELSE IF opt.key \in Valued /\ opt.value.kind = "null" THEN "null"
    ELSE IF opt.key = "increment" /\ Int64(opt.value) /\ opt.value.v = 0 THEN "zero"
    ELSE "none"

\* The next option of CREATE.
Evaluate ==
    /\ phase = "evaluate" /\ evaluated < Len(options)
    /\ evaluated' = evaluated + 1
    /\ LET opt == options[evaluated + 1]
       IN  IF EvaluateError(opt) # "none" THEN RefuseSequence(EvaluateError(opt)) /\ UNCHANGED <<seq, evalOK>>
           ELSE /\ IF opt.key \notin Valued THEN UNCHANGED <<seq, evalOK>>
                   ELSE IF Int64(opt.value)
                   THEN /\ seq' = [key \in DOMAIN seq \cup {opt.key} |-> IF key = opt.key THEN opt.value.v ELSE seq[key]]
                        /\ UNCHANGED evalOK
                   ELSE evalOK' = FALSE /\ UNCHANGED seq
                /\ UNCHANGED <<phase, why>>
    /\ UNCHANGED <<statement, options>>

Or(key, default) == IF key \in DOMAIN seq THEN seq[key] ELSE default

\* The values with the defaults of the direction.
Defaults ==
    LET down == Or("increment", 1) < 0
        min == Or("minvalue", IF down THEN MinInt ELSE 1)
        max == Or("maxvalue", IF down THEN -1 ELSE MaxInt)
    IN  [min |-> min, max |-> max, start |-> Or("start", IF down THEN max ELSE min)]

\* Mutant: a sequence of one value is let through.
RangeErrorEqual(s) == s.max < s.min \/ s.start < s.min \/ s.start > s.max

RangeError(s) == s.max <= s.min \/ s.start < s.min \/ s.start > s.max

\* The ranges are checked only if every value is known.
CheckRanges ==
    /\ phase = "evaluate" /\ evaluated = Len(options)
    /\ IF evalOK /\ RangeError(Defaults) THEN RefuseSequence("range") ELSE phase' = "done" /\ UNCHANGED why
    /\ UNCHANGED <<statement, options, evaluated, seq, evalOK>>

NextSequence == (\E opt \in Options : Transform(opt)) \/ Altered \/ CheckDuplicates \/ Evaluate \/ CheckRanges
SpecSequence == InitSequence /\ [][NextSequence]_sequenceVars

-----------------------------------------------------------------------------
(* Correctness. *)
\* Reference definition: a CREATE as a set of options, in no order.
Value(key) ==
    LET values == {options[k].value : k \in {j \in 1..Len(options) : options[j].key = key}}
    IN  IF values = {} THEN [kind |-> "absent"] ELSE CHOOSE v \in values : TRUE
Given(key, default) == IF Int64(Value(key)) THEN Value(key).v ELSE default
Ascending == Given("increment", 1) >= 0
Lowest    == Given("minvalue", IF Ascending THEN 1 ELSE MinInt)
Highest   == Given("maxvalue", IF Ascending THEN MaxInt ELSE -1)
Initial   == Given("start", IF Ascending THEN Lowest ELSE Highest)
Known     == \A key \in Valued : Value(key).kind \in {"int64", "absent"}

-----------------------------------------------------------------------------
\* The type invariant; an option that is set is an int64 and was evaluated.
SequenceTypeOK ==
    /\ phase \in {"options", "evaluate", "done", "refused"} /\ evaluated \in 0..Len(options)
    /\ DOMAIN seq \subseteq Valued \cap {options[k].key : k \in 1..evaluated}
    /\ \A key \in DOMAIN seq : seq[key] \in MinInt..MaxInt
    /\ (why = "none") <=> (phase # "refused")

\* An accepted CREATE whose values are all known is a sequence: it moves,
\* has at least two values and starts between its bounds, in the order its
\* direction gives them.
AcceptedSequences ==
    phase = "done" /\ statement = "create" /\ Known =>
        /\ Given("increment", 1) # 0
        /\ Lowest < Highest /\ Initial \in Lowest..Highest

\* The order of the options does not decide: a CREATE is accepted if and only
\* if no key or bound is given twice, nothing is NULL or owned, the increment
\* is not zero, and the range is one, if it is known.
OrderIrrelevant ==
    statement = "create" /\ (phase = "done" \/ why \in {"owned", "null", "zero", "range"}) =>
        (phase = "done" <=>
            /\ "owned" \notin Keys(options) /\ \A key \in Valued : Value(key).kind # "null"
            /\ Value("increment") # [kind |-> "int64", v |-> 0]
            /\ Known => Lowest < Highest /\ Initial \in Lowest..Highest)

\* A bound is given once at most: as a value or as absent.
BoundsGivenOnce ==
    phase = "done" /\ statement = "create" =>
        /\ Cardinality(Keys(options)) = Len(options)
        /\ ~({"minvalue", "nominvalue"} \subseteq Keys(options)) /\ ~({"maxvalue", "nomaxvalue"} \subseteq Keys(options))

\* Every option of a finished statement is an integer, but that ALTER lets
\* NULL through to the binder, and CREATE does not.
IntegersOnly ==
    phase = "done" =>
        \A k \in 1..Len(options) :
            options[k].key \in Valued =>
                options[k].value.kind \in {"int64", "huge"} \cup (IF statement = "alter" THEN {"null"} ELSE {})

\* transformCreateSequence: whatever the order of the options, a sequence is
\* accepted exactly if it is one: no bound twice, no NULL, an increment and
\* a range that has its start in it.
SequencesAreRanges ==
    SequenceTypeOK /\ BoundsGivenOnce /\ IntegersOnly /\ AcceptedSequences /\ OrderIrrelevant
=============================================================================
