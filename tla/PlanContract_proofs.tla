------------------------- MODULE PlanContract_proofs -------------------------
(***************************************************************************)
(* What the contract of a plan's run is worth to its callers, for every    *)
(* set of actions and every order: the orders the trust layer compares     *)
(* under (PredecessorsDone) and the meaning of a status (EndsClean).  That  *)
(* the runner implements the contract is proved in PlanRunner_proofs.       *)
(***************************************************************************)
EXTENDS PlanContract, TLAPS

LEMMA InitInvariant == Init => TypeOK /\ OneOutcome
BY DEF Init, TypeOK, OneOutcome

LEMMA StepInvariant ==
    ASSUME TypeOK, OneOutcome, [Next]_vars
    PROVE  TypeOK' /\ OneOutcome'
<1>1. ASSUME NEW a \in Action, Start(a) PROVE TypeOK' /\ OneOutcome'
    BY <1>1 DEF Start, TypeOK, OneOutcome
<1>2. ASSUME NEW a \in Action, Succeed(a) PROVE TypeOK' /\ OneOutcome'
    BY <1>2 DEF Succeed, Running, TypeOK, OneOutcome
<1>3. ASSUME NEW a \in Action, Fail(a) PROVE TypeOK' /\ OneOutcome'
    BY <1>3 DEF Fail, Running, TypeOK, OneOutcome
<1>4. ASSUME NEW a \in Action, Drop(a) PROVE TypeOK' /\ OneOutcome'
    BY <1>4 DEF Drop, Running, TypeOK, OneOutcome
<1>5. CASE End
    BY <1>5 DEF End, TypeOK, OneOutcome
<1>6. CASE UNCHANGED vars
    BY <1>6 DEF vars, TypeOK, OneOutcome
<1> QED
    BY <1>1, <1>2, <1>3, <1>4, <1>5, <1>6 DEF Next

\* An action has exactly one outcome, and only if it began.
THEOREM OutcomesWellFormed == Spec => [](TypeOK /\ OneOutcome)
BY InitInvariant, StepInvariant, PTL DEF Spec

LEMMA StepPredecessorsDone ==
    ASSUME PredecessorsDone, [Next]_vars
    PROVE  PredecessorsDone'
<1>1. ASSUME NEW a \in Action, Start(a) PROVE PredecessorsDone'
    BY <1>1 DEF Start, PredecessorsDone
<1>2. ASSUME NEW a \in Action, Succeed(a) \/ Fail(a) \/ Drop(a) PROVE PredecessorsDone'
    BY <1>2 DEF Succeed, Fail, Drop, PredecessorsDone
<1>3. CASE End \/ UNCHANGED vars
    BY <1>3 DEF End, vars, PredecessorsDone
<1> QED
    BY <1>1, <1>2, <1>3 DEF Next

\* Whatever fails or is cancelled, an action has begun only after everything the
\* plan puts before it has succeeded.
THEOREM BeginsInOrder == Spec => []PredecessorsDone
<1>1. Init => PredecessorsDone
    BY DEF Init, PredecessorsDone
<1> QED
    BY <1>1, StepPredecessorsDone, PTL DEF Spec

LEMMA StepEndsClean ==
    ASSUME TypeOK, EndsClean, [Next]_vars
    PROVE  EndsClean'
<1>1. ASSUME NEW a \in Action, Start(a) \/ Succeed(a) \/ Fail(a) PROVE EndsClean'
    BY <1>1 DEF Start, Succeed, Fail, Open, EndsClean, Running, TypeOK
<1>2. ASSUME NEW a \in Action, Drop(a) PROVE EndsClean'
    BY <1>2 DEF Drop, Open, EndsClean, Running
<1>3. CASE End
    <2>1. CASE verdict' = "ok" /\ done = Action
        BY <1>3, <2>1 DEF End, EndsClean, Running, TypeOK
    <2>2. CASE verdict' \in {"error", "unreported"} /\ Running = {}
        BY <1>3, <2>2 DEF End, EndsClean, Running
    <2>3. CASE verdict' = "cancelled"
        BY <1>3, <2>3 DEF End, EndsClean
    <2> QED
        BY <1>3, <2>1, <2>2, <2>3 DEF End
<1>4. CASE UNCHANGED vars
    BY <1>4 DEF vars, EndsClean, Running
<1> QED
    BY <1>1, <1>2, <1>3, <1>4 DEF Next

\* "ok" means the whole plan succeeded, and an ended call left nothing running.
THEOREM EndIsClean == Spec => []EndsClean
<1>1. Init => EndsClean
    BY DEF Init, EndsClean
<1> QED
    BY <1>1, InitInvariant, StepInvariant, StepEndsClean, PTL DEF Spec
=============================================================================
