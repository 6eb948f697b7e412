----------------------------- MODULE SharedEngine -----------------------------
(***************************************************************************)
(* What Default promises its callers: one answer for the whole process,    *)
(* decided once, the same for every caller whenever it calls, and every    *)
(* caller gets it.                                                         *)
(***************************************************************************)
CONSTANTS Callers, Answers, None

VARIABLES value, answer

Init == value = None /\ answer = [p \in Callers |-> None]

Decide ==
    /\ value = None
    /\ value' \in Answers
    /\ UNCHANGED answer

Reply(p) ==
    /\ value # None /\ answer[p] = None
    /\ answer' = [answer EXCEPT ![p] = value]
    /\ UNCHANGED value

Next == Decide \/ \E p \in Callers : Reply(p)

Spec == Init /\ [][Next]_<<value, answer>>

AllAnswered == <>(\A p \in Callers : answer[p] # None)
=============================================================================
