--------------------------- MODULE OraclePoolProofs ---------------------------
(***************************************************************************)
(* Proofs about runOracle, for any statements and any number of workers:   *)
(* the channels are closed in order and drained, every answer is accounted *)
(* for, and, but for liveness, the pool does what Batch says.              *)
(***************************************************************************)
EXTENDS OraclePool, FiniteSetTheorems, SequenceTheorems, TLAPS

-----------------------------------------------------------------------------
(* Lemmas. *)

\* The feeder's next statement was never handed out before.
LEMMA NextIsNew ==
    ASSUME next \in 1..(Len(Work) + 1), next <= Len(Work)
    PROVE  Work[next] \in Stmts /\ Work[next] \notin Handed
  <1>1. Len(Work) \in Nat
    BY WorkAssumption
  <1> QED
    BY <1>1, WorkAssumption DEF Stmts, Handed

LEMMA HandedAreStmts ==
    ASSUME next \in 1..(Len(Work) + 1)
    PROVE  Handed \subseteq Stmts /\ (next = Len(Work) + 1 => Handed = Stmts)
  <1>1. Len(Work) \in Nat
    BY WorkAssumption
  <1> QED
    BY <1>1 DEF Stmts, Handed

\* What a worker's state may be set to.
WorkerState == [at : {"receive", "run", "send", "done"}, stmt : Stmts \cup {"none"}]

-----------------------------------------------------------------------------
(* The inductive invariant is PoolDrains without what follows from it. *)
IInv == TypeOK /\ Accounted /\ ClosedInOrder

LEMMA InitIInv == Init => IInv
  <1> SUFFICES ASSUME Init PROVE IInv
    OBVIOUS
  <1>1. Len(Work) \in Nat
    BY WorkAssumption
  <1>2. \A w \in Workers : worker[w] = Waiting
    BY DEF Init
  <1>3. TypeOK
    <2>1. worker \in [Workers -> WorkerState]
      BY DEF Init, WorkerState, Waiting
    <2>2. /\ answered \in [DOMAIN answered -> Verdicts \cup {Failed}]
          /\ verdicts \in [DOMAIN verdicts -> Verdicts]
      BY DEF Init
    <2>3. /\ next = 1 /\ jobsClosed = FALSE /\ resultsClosed = FALSE /\ collector = "ranging"
          /\ \A w \in Workers : worker[w].at = "receive"
      BY <1>2 DEF Init, Waiting
    <2>4. next \in 1..(Len(Work) + 1)
      BY <1>1, <2>3
    <2>5. \A w \in Workers : worker[w].at # "done"
      BY <2>3
    <2> QED
      BY <1>2, <2>1, <2>2, <2>3, <2>4, <2>5, Zenon DEF TypeOK, WorkerState
  <1>4. Accounted
    BY <1>2 DEF Init, Accounted, Handed, Has, Waiting
  <1>5. ClosedInOrder
    BY <1>2 DEF Init, ClosedInOrder, None, Waiting
  <1> QED
    BY <1>3, <1>4, <1>5 DEF IInv

LEMMA HandKeepsIInv ==
    ASSUME IInv, NEW w \in Workers, Hand(w)
    PROVE  IInv'
  <1>0. PICK s0 : s0 = Work[next]
    OBVIOUS
  <1> DEFINE new == [at |-> "run", stmt |-> s0]
  <1>1. TypeOK /\ Accounted /\ ClosedInOrder
    BY DEF IInv
  <1>2. /\ next <= Len(Work) /\ worker[w] = Waiting /\ next' = next + 1
        /\ worker' = [worker EXCEPT ![w] = new]
        /\ UNCHANGED <<jobsClosed, resultsClosed, answered, verdicts, collector>>
    BY <1>0 DEF Hand
  <1>3. Len(Work) \in Nat
    BY WorkAssumption
  <1>4. s0 \in Stmts /\ s0 \notin Handed
    BY <1>0, <1>1, <1>2, NextIsNew DEF TypeOK
  <1>5. worker'[w] = new /\ \A v \in Workers : v # w => worker'[v] = worker[v]
    BY <1>1, <1>2 DEF TypeOK
  <1>6. Handed' = Handed \cup {s0}
    BY <1>0, <1>1, <1>2, <1>3 DEF Handed, TypeOK
  <1>7. TypeOK'
    <2>1. next' \in 1..(Len(Work) + 1)
      BY <1>1, <1>2, <1>3 DEF TypeOK
    <2>2. worker' \in [Workers -> WorkerState]
      BY <1>1, <1>2, <1>4 DEF TypeOK, WorkerState
    <2> QED
      BY <1>1, <1>2, <1>5, <2>1, <2>2 DEF TypeOK, WorkerState
  <1>8. Accounted'
    <2>1. ASSUME NEW v \in Workers, NEW s \in Handed
          PROVE  Has(v, s)' <=> Has(v, s)
      <3>1. CASE v = w
        BY <1>2, <1>4, <1>5, <3>1 DEF Has, Waiting
      <3>2. CASE v # w
        BY <1>5, <3>2 DEF Has
      <3> QED
        BY <3>1, <3>2
    <2>2. ASSUME NEW v \in Workers PROVE Has(v, s0)' <=> v = w
      <3>1. CASE v = w
        BY <1>5, <3>1 DEF Has
      <3>2. CASE v # w
        BY <1>1, <1>4, <1>5, <3>2 DEF Has, Accounted
      <3> QED
        BY <3>1, <3>2
    <2>3. /\ DOMAIN verdicts' \subseteq DOMAIN answered' /\ DOMAIN answered' \subseteq Handed'
          /\ \A s \in DOMAIN verdicts' : verdicts'[s] = answered'[s]
          /\ collector' = "error" => \E s \in DOMAIN answered' : answered'[s] = Failed
      BY <1>1, <1>2, <1>6 DEF Accounted
    <2>4. \A v \in Workers :
            /\ worker'[v].at = "run" => worker'[v].stmt \in Handed' \ DOMAIN answered'
            /\ worker'[v].at = "send" => worker'[v].stmt \in DOMAIN answered' \ DOMAIN verdicts'
      BY <1>1, <1>2, <1>4, <1>5, <1>6 DEF Accounted
    <2>5. \A s \in Handed', u, v \in Workers : Has(u, s)' /\ Has(v, s)' => u = v
      BY <1>1, <1>6, <2>1, <2>2 DEF Accounted
    <2>6. \A s \in Handed' : \/ s \in DOMAIN verdicts' \/ collector' = "error"
                             \/ \E v \in Workers : Has(v, s)'
      BY <1>1, <1>2, <1>6, <2>1, <2>2 DEF Accounted
    <2> QED
      BY <2>3, <2>4, <2>5, <2>6 DEF Accounted
  <1>9. ClosedInOrder'
    BY <1>1, <1>2, <1>3, <1>5 DEF ClosedInOrder, TypeOK, None, Waiting
  <1> QED
    BY <1>7, <1>8, <1>9 DEF IInv

LEMMA AnswerKeepsIInv ==
    ASSUME IInv, NEW w \in Workers, Answer(w)
    PROVE  IInv' /\ worker[w].stmt \in Stmts \ DOMAIN answered
  <1>0. PICK s0 : s0 = worker[w].stmt
    OBVIOUS
  <1>a. PICK a \in Verdicts \cup {Failed} : answered' = Put(answered, s0, a)
    BY <1>0 DEF Answer
  <1>b. /\ worker[w].at = "run" /\ worker' = [worker EXCEPT ![w].at = "send"]
        /\ UNCHANGED <<next, jobsClosed, resultsClosed, verdicts, collector>>
    BY DEF Answer
  <1>1. TypeOK /\ Accounted /\ ClosedInOrder
    BY DEF IInv
  <1>2. s0 \in Handed \ DOMAIN answered
    BY <1>0, <1>1, <1>b DEF Accounted
  <1>3. s0 \in Stmts
    BY <1>1, <1>2, HandedAreStmts DEF TypeOK
  <1>4. /\ DOMAIN answered' = DOMAIN answered \cup {s0}
        /\ answered' \in [DOMAIN answered \cup {s0} -> Verdicts \cup {Failed}]
        /\ answered'[s0] = a
        /\ \A x \in DOMAIN answered : answered'[x] = answered[x]
    <2>1. answered \in [DOMAIN answered -> Verdicts \cup {Failed}]
      BY <1>1 DEF TypeOK
    <2>2. answered' = Put(answered, s0, a) /\ s0 \notin DOMAIN answered
      BY <1>2, <1>a
    <2> QED
      BY <2>1, <2>2 DEF Put
  <1>5. /\ worker'[w].at = "send" /\ worker'[w].stmt = s0
        /\ \A v \in Workers : v # w => worker'[v] = worker[v]
    BY <1>0, <1>1, <1>b DEF TypeOK
  <1>6. Handed' = Handed
    BY <1>b DEF Handed
  <1>7. TypeOK'
    <2>1. worker' \in [Workers -> WorkerState]
      BY <1>1, <1>b DEF TypeOK, WorkerState
    <2>2. answered' \in [DOMAIN answered' -> Verdicts \cup {Failed}]
      BY <1>4
    <2> QED
      BY <1>1, <1>5, <1>b, <2>1, <2>2 DEF TypeOK, WorkerState
  <1>8. Accounted'
    <2>1. \A v \in Workers, s \in Handed : Has(v, s)' <=> Has(v, s)
      BY <1>0, <1>5, <1>b DEF Has
    <2>2. /\ DOMAIN verdicts' \subseteq DOMAIN answered' /\ DOMAIN answered' \subseteq Handed'
          /\ \A s \in DOMAIN verdicts' : verdicts'[s] = answered'[s]
          /\ collector' = "error" => \E s \in DOMAIN answered' : answered'[s] = Failed
      BY <1>1, <1>2, <1>4, <1>6, <1>b DEF Accounted
    <2>3. ASSUME NEW v \in Workers
          PROVE  /\ worker'[v].at = "run" => worker'[v].stmt \in Handed' \ DOMAIN answered'
                 /\ worker'[v].at = "send" => worker'[v].stmt \in DOMAIN answered' \ DOMAIN verdicts'
      <3>1. CASE v = w
        BY <1>1, <1>2, <1>4, <1>5, <1>b, <3>1 DEF Accounted
      <3>2. CASE v # w
        <4>1. worker'[v] = worker[v]
          BY <1>5, <3>2
        <4>2. worker[v].at = "run" => worker[v].stmt # s0
          BY <1>0, <1>1, <1>2, <1>b, <3>2 DEF Accounted, Has
        <4>3. /\ worker[v].at = "run" => worker[v].stmt \in Handed \ DOMAIN answered
              /\ worker[v].at = "send" => worker[v].stmt \in DOMAIN answered \ DOMAIN verdicts
          BY <1>1 DEF Accounted
        <4>4. Handed' = Handed /\ DOMAIN answered' = DOMAIN answered \cup {s0} /\ verdicts' = verdicts
          BY <1>4, <1>6, <1>b
        <4> QED
          BY <4>1, <4>2, <4>3, <4>4
      <3> QED
        BY <3>1, <3>2
    <2>5. \A s \in Handed', u, v \in Workers : Has(u, s)' /\ Has(v, s)' => u = v
      BY <1>1, <1>6, <1>b, <2>1 DEF Accounted
    <2>6. \A s \in Handed' : \/ s \in DOMAIN verdicts' \/ collector' = "error"
                             \/ \E v \in Workers : Has(v, s)'
      BY <1>1, <1>6, <1>b, <2>1 DEF Accounted
    <2> QED
      BY <2>2, <2>3, <2>5, <2>6 DEF Accounted
  <1>9. ClosedInOrder'
    BY <1>1, <1>5, <1>b DEF ClosedInOrder, None
  <1> QED
    BY <1>0, <1>2, <1>3, <1>7, <1>8, <1>9 DEF IInv

\* A worker that is not waiting for the oracle or the collector any more.
LEMMA CollectKeepsIInv ==
    ASSUME IInv, NEW w \in Workers, Collect(w)
    PROVE  IInv'
  <1>0. PICK s0 : s0 = worker[w].stmt
    OBVIOUS
  <1>1. TypeOK /\ Accounted /\ ClosedInOrder
    BY DEF IInv
  <1>2. /\ worker[w].at = "send" /\ collector = "ranging"
        /\ worker' = [worker EXCEPT ![w] = Waiting]
        /\ UNCHANGED <<next, jobsClosed, resultsClosed, answered>>
    BY DEF Collect
  <1>3. s0 \in DOMAIN answered \ DOMAIN verdicts /\ s0 \in Handed
    BY <1>0, <1>1, <1>2 DEF Accounted
  <1>4. worker'[w] = Waiting /\ \A v \in Workers : v # w => worker'[v] = worker[v]
    BY <1>1, <1>2 DEF TypeOK
  <1>5. Handed' = Handed
    BY <1>2 DEF Handed
  <1>6. \A v \in Workers, s \in Handed : s # s0 => (Has(v, s)' <=> Has(v, s))
    <2> SUFFICES ASSUME NEW v \in Workers, NEW s \in Handed, s # s0
                 PROVE  Has(v, s)' <=> Has(v, s)
      OBVIOUS
    <2>1. CASE v = w
      BY <1>0, <1>4, <2>1 DEF Has, Waiting
    <2>2. CASE v # w
      BY <1>4, <2>2 DEF Has
    <2> QED
      BY <2>1, <2>2
  <1>7. \A v \in Workers : ~Has(v, s0)'
    <2> SUFFICES ASSUME NEW v \in Workers PROVE ~Has(v, s0)'
      OBVIOUS
    <2>1. CASE v = w
      BY <1>4, <2>1 DEF Has, Waiting
    <2>2. CASE v # w
      <3>1. ~Has(v, s0)
        BY <1>0, <1>1, <1>2, <1>3, <2>2 DEF Has, Accounted
      <3> QED
        BY <1>4, <2>2, <3>1 DEF Has
    <2> QED
      BY <2>1, <2>2
  <1>8. worker' \in [Workers -> WorkerState]
    BY <1>1, <1>2 DEF TypeOK, WorkerState, Waiting
  <1>9. ASSUME NEW v \in Workers
        PROVE  /\ worker'[v].at = "run" => worker'[v].stmt \in Handed \ DOMAIN answered
               /\ worker'[v].at = "send" =>
                      worker'[v].stmt \in DOMAIN answered \ (DOMAIN verdicts \cup {s0})
    <2>1. CASE v = w
      BY <1>4, <2>1 DEF Waiting
    <2>2. CASE v # w
      <3>1. worker'[v] = worker[v]
        BY <1>4, <2>2
      <3>2. worker[v].at = "send" => worker[v].stmt # s0
        BY <1>0, <1>1, <1>2, <1>3, <2>2 DEF Accounted, Has
      <3> QED
        BY <1>1, <3>1, <3>2 DEF Accounted
    <2> QED
      BY <2>1, <2>2
  <1>10. \A s \in Handed, u, v \in Workers : Has(u, s)' /\ Has(v, s)' => u = v
    <2>1. \A s \in Handed, u, v \in Workers : Has(u, s) /\ Has(v, s) => u = v
      BY <1>1 DEF Accounted
    <2> HIDE DEF Has
    <2> QED
      BY <1>6, <1>7, <2>1
  <1>11. CASE answered[s0] = Failed
    <2>1. collector' = "error" /\ verdicts' = verdicts
      BY <1>0, <1>11 DEF Collect
    <2>2. TypeOK'
      BY <1>1, <1>2, <1>4, <1>8, <2>1 DEF TypeOK, WorkerState, Waiting, None
    <2>3. Accounted'
      BY <1>1, <1>2, <1>3, <1>5, <1>9, <1>10, <1>11, <2>1 DEF Accounted
    <2>4. ClosedInOrder'
      BY <1>1, <1>2, <1>4, <2>1 DEF ClosedInOrder, Waiting, None
    <2> QED
      BY <2>2, <2>3, <2>4 DEF IInv
  <1>12. CASE answered[s0] # Failed
    <2>1. verdicts' = Put(verdicts, s0, answered[s0]) /\ collector' = collector
      BY <1>0, <1>12 DEF Collect
    <2>2. answered[s0] \in Verdicts
      BY <1>1, <1>3, <1>12 DEF TypeOK
    <2>3. /\ DOMAIN verdicts' = DOMAIN verdicts \cup {s0}
          /\ verdicts' \in [DOMAIN verdicts \cup {s0} -> Verdicts]
          /\ verdicts'[s0] = answered[s0]
          /\ \A x \in DOMAIN verdicts : verdicts'[x] = verdicts[x]
      <3>1. verdicts \in [DOMAIN verdicts -> Verdicts] /\ s0 \notin DOMAIN verdicts
        BY <1>1, <1>3 DEF TypeOK
      <3> QED
        BY <2>1, <2>2, <3>1 DEF Put
    <2>4. TypeOK'
      <3>1. verdicts' \in [DOMAIN verdicts' -> Verdicts]
        BY <2>3
      <3> QED
        BY <1>1, <1>2, <1>4, <1>8, <2>1, <3>1 DEF TypeOK, WorkerState, Waiting, None
    <2>5. Accounted'
      <3>1. /\ DOMAIN verdicts' \subseteq DOMAIN answered' /\ DOMAIN answered' \subseteq Handed'
            /\ \A s \in DOMAIN verdicts' : verdicts'[s] = answered'[s]
            /\ collector' # "error"
        BY <1>1, <1>2, <1>3, <1>5, <2>1, <2>3 DEF Accounted
      <3>2. \A s \in Handed' : \/ s \in DOMAIN verdicts' \/ \E v \in Workers : Has(v, s)'
        BY <1>1, <1>2, <1>5, <1>6, <2>3 DEF Accounted
      <3> QED
        BY <1>2, <1>5, <1>9, <1>10, <2>3, <3>1, <3>2 DEF Accounted
    <2>6. ClosedInOrder'
      BY <1>1, <1>2, <1>4, <2>1 DEF ClosedInOrder, Waiting, None
    <2> QED
      BY <2>4, <2>5, <2>6 DEF IInv
  <1> QED
    BY <1>11, <1>12

LEMMA WorkerDoneKeepsIInv ==
    ASSUME IInv, NEW w \in Workers, WorkerDone(w)
    PROVE  IInv'
  <1>1. TypeOK /\ Accounted /\ ClosedInOrder
    BY DEF IInv
  <1>2. /\ worker[w] = Waiting /\ jobsClosed /\ worker' = [worker EXCEPT ![w] = None]
        /\ UNCHANGED <<next, jobsClosed, resultsClosed, answered, verdicts, collector>>
    BY DEF WorkerDone
  <1>3. worker'[w] = None /\ \A v \in Workers : v # w => worker'[v] = worker[v]
    BY <1>1, <1>2 DEF TypeOK
  <1>4. TypeOK'
    <2>1. worker' \in [Workers -> WorkerState]
      BY <1>1, <1>2 DEF TypeOK, WorkerState, None
    <2> QED
      BY <1>1, <1>2, <1>3, <2>1 DEF TypeOK, WorkerState, Waiting, None
  <1>5. Accounted'
    <2>1. \A v \in Workers, s \in Handed : Has(v, s)' <=> Has(v, s)
      BY <1>2, <1>3 DEF Has, Waiting, None
    <2>2. Handed' = Handed
      BY <1>2 DEF Handed
    <2>3. \A v \in Workers :
            /\ worker'[v].at = "run" => worker'[v].stmt \in Handed \ DOMAIN answered
            /\ worker'[v].at = "send" => worker'[v].stmt \in DOMAIN answered \ DOMAIN verdicts
      BY <1>1, <1>3 DEF Accounted, None
    <2>4. \A s \in Handed, u, v \in Workers : Has(u, s)' /\ Has(v, s)' => u = v
      BY <1>1, <2>1 DEF Accounted
    <2>5. \A s \in Handed : \/ s \in DOMAIN verdicts \/ collector = "error"
                            \/ \E v \in Workers : Has(v, s)'
      BY <1>1, <2>1 DEF Accounted
    <2> QED
      BY <1>1, <1>2, <2>2, <2>3, <2>4, <2>5 DEF Accounted
  <1>6. ClosedInOrder'
    BY <1>1, <1>2, <1>3 DEF ClosedInOrder, Waiting, None
  <1> QED
    BY <1>4, <1>5, <1>6 DEF IInv

\* When the collector's range ends, every statement has been collected.
LEMMA RangeEndsComplete ==
    ASSUME IInv, resultsClosed, collector = "ranging"
    PROVE  DOMAIN answered = Stmts /\ verdicts = answered /\ \A s \in Stmts : answered[s] # Failed
  <1>1. TypeOK /\ Accounted /\ ClosedInOrder
    BY DEF IInv
  <1>2. Handed = Stmts
    BY <1>1, HandedAreStmts DEF ClosedInOrder, TypeOK
  <1>3. \A s \in Handed : s \in DOMAIN verdicts
    BY <1>1 DEF Accounted, ClosedInOrder, Has, None
  <1>4. DOMAIN answered = Stmts /\ DOMAIN verdicts = Stmts
    BY <1>1, <1>2, <1>3 DEF Accounted
  <1>5. verdicts \in [Stmts -> Verdicts] /\ answered \in [Stmts -> Verdicts \cup {Failed}]
    BY <1>1, <1>4 DEF TypeOK
  <1>6. \A s \in Stmts : verdicts[s] = answered[s]
    BY <1>1, <1>4 DEF Accounted
  <1>7. verdicts = answered
    BY <1>5, <1>6
  <1> QED
    BY <1>4, <1>5, <1>6, <1>7, WorkAssumption

LEMMA StepIInv == IInv /\ [Next]_vars => IInv'
  <1> SUFFICES ASSUME IInv, [Next]_vars PROVE IInv'
    OBVIOUS
  <1>1. TypeOK /\ Accounted /\ ClosedInOrder
    BY DEF IInv
  <1>2. ASSUME UNCHANGED <<next, worker, answered, verdicts>>,
               jobsClosed' \in BOOLEAN, resultsClosed' \in BOOLEAN,
               collector' \in {"ranging", "ok", "error"},
               collector' = "error" <=> collector = "error"
        PROVE  TypeOK' /\ Accounted'
    BY <1>1, <1>2 DEF TypeOK, Accounted, Handed, Has
  <1>3. CASE CloseJobs
    <2>1. ClosedInOrder'
      BY <1>1, <1>3, WorkAssumption DEF CloseJobs, ClosedInOrder, TypeOK
    <2> QED
      BY <1>1, <1>2, <1>3, <2>1 DEF CloseJobs, IInv, TypeOK
  <1>4. CASE CloseResults
    <2>1. ClosedInOrder'
      BY <1>1, <1>4 DEF CloseResults, ClosedInOrder
    <2> QED
      BY <1>1, <1>2, <1>4, <2>1 DEF CloseResults, IInv, TypeOK
  <1>5. CASE RangeEnds
    <2>1. ClosedInOrder'
      BY <1>1, <1>5 DEF RangeEnds, ClosedInOrder
    <2> QED
      BY <1>1, <1>2, <1>5, <2>1 DEF RangeEnds, IInv, TypeOK
  <1>6. ASSUME NEW w \in Workers, Hand(w) PROVE IInv'
    BY <1>6, HandKeepsIInv
  <1>7. ASSUME NEW w \in Workers, Answer(w) PROVE IInv'
    BY <1>7, AnswerKeepsIInv
  <1>8. ASSUME NEW w \in Workers, Collect(w) PROVE IInv'
    BY <1>8, CollectKeepsIInv
  <1>9. ASSUME NEW w \in Workers, WorkerDone(w) PROVE IInv'
    BY <1>9, WorkerDoneKeepsIInv
  <1>10. CASE UNCHANGED vars
    <2>1. ClosedInOrder'
      BY <1>1, <1>10 DEF vars, ClosedInOrder
    <2> QED
      BY <1>1, <1>2, <1>10, <2>1 DEF vars, IInv, TypeOK
  <1> QED
    BY <1>3, <1>4, <1>5, <1>6, <1>7, <1>8, <1>9, <1>10 DEF Next

-----------------------------------------------------------------------------
(* The refinement. *)

LEMMA InitRefines == Init => Abstract!Init
  BY DEF Init, Abstract!Init

\* Giving an answer is Ask, failing to collect one is Fail, the end of the
\* collector's range is Succeed, and the rest is not Batch's to see.
LEMMA StepRefines == IInv /\ [Next]_vars => [Abstract!Next]_(Abstract!bvars)
  <1> SUFFICES ASSUME IInv, [Next]_vars PROVE [Abstract!Next]_(Abstract!bvars)
    OBVIOUS
  <1>1. TypeOK /\ Accounted /\ ClosedInOrder
    BY DEF IInv
  <1>2. ASSUME UNCHANGED <<answered, collector>>, verdicts' = verdicts \/ collector # "ok"
        PROVE  UNCHANGED Abstract!bvars
    BY <1>2 DEF Abstract!bvars
  <1>3. CASE CloseJobs \/ CloseResults \/ UNCHANGED vars
    BY <1>2, <1>3 DEF CloseJobs, CloseResults, vars
  <1>4. CASE RangeEnds
    <2>1. /\ DOMAIN answered = Stmts /\ verdicts = answered
          /\ \A s \in Stmts : answered[s] # Failed
      BY <1>4, RangeEndsComplete DEF RangeEnds
    <2>2. Abstract!Succeed
      BY <1>4, <2>1 DEF RangeEnds, Abstract!Succeed
    <2> QED
      BY <2>2 DEF Abstract!Next
  <1>5. ASSUME NEW w \in Workers, Hand(w) \/ WorkerDone(w)
        PROVE  UNCHANGED Abstract!bvars
    BY <1>2, <1>5 DEF Hand, WorkerDone
  <1>6. ASSUME NEW w \in Workers, Answer(w)
        PROVE  Abstract!Next
    <2>1. PICK a \in Verdicts \cup {Failed} : answered' = Put(answered, worker[w].stmt, a)
      BY <1>6 DEF Answer
    <2>2. worker[w].stmt \in Stmts \ DOMAIN answered
      BY <1>6, AnswerKeepsIInv
    <2>3. Abstract!Ask(worker[w].stmt)
      BY <1>6, <2>1, <2>2 DEF Answer, Abstract!Ask, Put
    <2> QED
      BY <2>2, <2>3 DEF Abstract!Next
  <1>7. ASSUME NEW w \in Workers, Collect(w)
        PROVE  [Abstract!Next]_(Abstract!bvars)
    <2>1. CASE answered[worker[w].stmt] = Failed
      <3>1. worker[w].stmt \in DOMAIN answered
        BY <1>1, <1>7 DEF Collect, Accounted
      <3>2. Abstract!Fail
        BY <1>7, <2>1, <3>1 DEF Collect, Abstract!Fail
      <3> QED
        BY <3>2 DEF Abstract!Next
    <2>2. CASE answered[worker[w].stmt] # Failed
      BY <1>2, <1>7, <2>2 DEF Collect
    <2> QED
      BY <2>1, <2>2
  <1> QED
    BY <1>3, <1>4, <1>5, <1>6, <1>7 DEF Next

-----------------------------------------------------------------------------
THEOREM InductiveInvariant == Spec => []IInv
  BY InitIInv, StepIInv, PTL DEF Spec

\* However many workers there are and whichever of them the channels serve:
\* no one sends on a closed channel, and a batch that succeeds leaves no
\* goroutine and no answer behind.
THEOREM PoolIsDrained == Spec => []PoolDrains
  <1>1. IInv => PoolDrains
    <2> SUFFICES ASSUME IInv PROVE PoolDrains
      OBVIOUS
    <2>1. TypeOK /\ Accounted /\ ClosedInOrder
      BY DEF IInv
    <2>2. ASSUME collector = "ok" PROVE DOMAIN verdicts = DOMAIN answered
      <3>1. \A w \in Workers : worker[w].at = "done"
        BY <2>1, <2>2 DEF ClosedInOrder, None
      <3>2. \A s \in Handed : s \in DOMAIN verdicts
        BY <2>1, <2>2, <3>1 DEF Accounted, Has
      <3> QED
        BY <2>1, <3>2 DEF Accounted
    <2> QED
      BY <2>1, <2>2 DEF PoolDrains, ClosedInOrder, None
  <1> QED
    BY <1>1, InductiveInvariant, PTL

\* runOracle answers like Batch: each statement is put to the oracle once,
\* and the map it returns has every statement's own verdict, or there is an
\* error because one could not be had.
THEOREM PoolImplementsBatch == Spec => Abstract!Safety
  BY InitRefines, StepRefines, InductiveInvariant, PTL DEF Spec, Abstract!Safety
=============================================================================
