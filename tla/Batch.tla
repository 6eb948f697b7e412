------------------------------- MODULE Batch -------------------------------
(***************************************************************************)
(* What runOracle promises its caller: the statements are put to the       *)
(* oracle in some order, each at most once, and then either the verdict of *)
(* every one is returned, at once and as the oracle gave it, or, if one    *)
(* could not be had, an error.                                             *)
(***************************************************************************)
CONSTANTS Stmts, Verdicts, Failed

VARIABLES
    answered,    \* the oracle's answers so far
    outcome,     \* "running", "ok", "error"
    verdicts     \* what was returned

bvars == <<answered, outcome, verdicts>>

Init == answered = <<>> /\ outcome = "running" /\ verdicts = <<>>

Ask(s) ==
    /\ s \notin DOMAIN answered
    /\ \E a \in Verdicts \cup {Failed} :
          answered' = [t \in DOMAIN answered \cup {s} |-> IF t = s THEN a ELSE answered[t]]
    /\ UNCHANGED <<outcome, verdicts>>

Succeed ==
    /\ outcome = "running" /\ DOMAIN answered = Stmts
    /\ \A s \in Stmts : answered[s] # Failed
    /\ outcome' = "ok" /\ verdicts' = answered /\ UNCHANGED answered

Fail ==
    /\ outcome = "running" /\ \E s \in DOMAIN answered : answered[s] = Failed
    /\ outcome' = "error" /\ UNCHANGED <<answered, verdicts>>

Next == Succeed \/ Fail \/ \E s \in Stmts : Ask(s)

Safety == Init /\ [][Next]_bvars

\* The batch goes on until it has an outcome, and then has one.
Spec == /\ Safety
        /\ WF_bvars(outcome = "running" /\ \E s \in Stmts : Ask(s))
        /\ WF_bvars(Succeed \/ Fail)
=============================================================================
