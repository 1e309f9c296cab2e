--------------------------- MODULE TrustLoop_proofs ---------------------------
(***************************************************************************)
(* The repair loop for every step bound and parallelism: what it returns   *)
(* belongs together, level 3 never reads a taken-apart plan, and a verdict *)
(* short of the step bound is one under the final plan's own scopes.  The  *)
(* rollback log, read from the last new schedule on, describes the plan.   *)
(***************************************************************************)
EXTENDS TrustLoop, TLAPS

\* The plans the loop holds, and how they hang together with the DAG.
PlansKept ==
    /\ plan \in Plan /\ reference \in Plan
    /\ dag \in SUBSET {"rules", "constraints"}
    /\ ResultBelongsTogether
    /\ ReferenceIsStructured

LEMMA ScheduledFacts ==
    ASSUME NEW d \in SUBSET {"rules", "constraints"}, NEW p \in Scheduled(d)
    PROVE  p \in Plan /\ p.dag = d /\ p.patches = {}
BY DEF Scheduled

\* A level-1 strategy changes a plan into a plan scheduled under the same DAG.
LEMMA ChangedFacts ==
    ASSUME NEW p \in Plan, NEW s \in Strategies
    PROVE  /\ Changed(p, s) \in Plan
           /\ Changed(p, s).dag = p.dag /\ Changed(p, s).patches = p.patches
<1> MaxParallel \in Nat \ {0}
    BY LoopAssumption
<1>1. CASE s = "reduce_parallelism"
    <2> DEFINE limit == IF p.limit > 1 THEN p.limit - 1 ELSE 1
    <2>1. p.limit \in 1 .. MaxParallel /\ p.width \in 1 .. MaxParallel
        BY DEF Plan
    <2>2. limit \in 1 .. MaxParallel
        BY <2>1
    <2>3. Smaller(p.width, limit) \in 1 .. MaxParallel
        BY <2>1, <2>2 DEF Smaller
    <2>4. Changed(p, s) = [p EXCEPT !.limit = limit, !.width = Smaller(p.width, limit)]
        BY <1>1 DEF Changed, Plan
    <2> HIDE DEF limit
    <2> QED
        BY <2>2, <2>3, <2>4 DEF Plan
<1>2. CASE s = "disable_session_reuse"
    BY <1>2 DEF Changed, Plan
<1>3. CASE s = "disable_batching"
    <2>1. 1 \in 1 .. MaxParallel
        OBVIOUS
    <2>2. Changed(p, s) = [p EXCEPT !.width = 1, !.reuse = FALSE, !.spaced = FALSE]
        BY <1>3 DEF Changed
    <2> QED
        BY <2>1, <2>2 DEF Plan
<1>4. CASE s = "enforce_min_gap_no_overlap"
    BY <1>4 DEF Changed, Plan
<1> QED
    BY <1>1, <1>2, <1>3, <1>4 DEF Strategies

LEMMA NextLevel1Strategies == NextLevel1 \subseteq Strategies
<1>1. \A i \in 1 .. 4 : Chain[i] \in Strategies
    <2>1. CASE signal = "order"
        BY <2>1 DEF Chain, Strategies
    <2>2. CASE signal = "timeout"
        BY <2>2 DEF Chain, Strategies
    <2>3. CASE signal \notin {"order", "timeout"}
        BY <2>3 DEF Chain, Strategies
    <2> QED
        BY <2>1, <2>2, <2>3
<1> QED
    BY <1>1 DEF NextLevel1

LEMMA InitPlans == Init => PlansKept
<1> SUFFICES ASSUME Init PROVE PlansKept
    OBVIOUS
<1>1. plan \in Plan /\ plan.dag = {} /\ plan.patches = {}
    BY ScheduledFacts DEF Init
<1> QED
    BY <1>1 DEF Init, PlansKept, ResultBelongsTogether, ReferenceIsStructured

LEMMA Level1Plans == PlansKept /\ Level1 => PlansKept'
<1> SUFFICES ASSUME PlansKept, Level1 PROVE PlansKept'
    OBVIOUS
<1>1. PICK s \in NextLevel1 : Replay([Changed(plan, s) EXCEPT !.patches = @ \union {s}])
    BY DEF Level1
<1>2. s \in Strategies /\ plan \in Plan
    BY NextLevel1Strategies DEF PlansKept
<1>3. Changed(plan, s) \in Plan /\ Changed(plan, s).dag = plan.dag
    BY <1>2, ChangedFacts
<1> DEFINE p == [Changed(plan, s) EXCEPT !.patches = @ \union {s}]
<1>4. p \in Plan /\ p.dag = plan.dag
    BY <1>2, <1>3 DEF Plan
<1>5. plan' = p /\ replayed' = p
    BY <1>1 DEF Replay
<1> HIDE DEF p
<1>6. UNCHANGED << canReplan, reference, dag >>
    BY DEF Level1, given
<1> QED
    BY <1>4, <1>5, <1>6 DEF PlansKept, ResultBelongsTogether, ReferenceIsStructured

LEMMA Level2Plans == PlansKept /\ Level2 => PlansKept'
<1> SUFFICES ASSUME PlansKept, Level2 PROVE PlansKept'
    OBVIOUS
<1>1. dag' \in SUBSET {"rules", "constraints"} /\ UNCHANGED canReplan
    BY DEF Level2, PlansKept, given
<1>2. CASE canReplan
    <2>1. PICK p \in Scheduled(dag') : Replay(p) /\ reference' = p
        BY <1>2 DEF Level2
    <2>2. p \in Plan /\ p.dag = dag' /\ p.patches = {}
        BY <1>1, ScheduledFacts
    <2> QED
        BY <1>1, <2>1, <2>2 DEF Replay, PlansKept, ResultBelongsTogether, ReferenceIsStructured
<1>3. CASE ~canReplan
    <2>1. Replay(plan) /\ UNCHANGED reference
        BY <1>3 DEF Level2
    <2> QED
        BY <1>1, <1>3, <2>1 DEF Replay, PlansKept, ResultBelongsTogether, ReferenceIsStructured
<1> QED
    BY <1>2, <1>3

LEMMA Level3Plans == PlansKept /\ Level3 => PlansKept'
<1> SUFFICES ASSUME PlansKept, Level3 PROVE PlansKept'
    OBVIOUS
<1>1. dag' \in SUBSET {"rules", "constraints"} /\ UNCHANGED << canReplan, reference >>
    BY DEF Level3, PlansKept, given
<1>2. PICK p \in Scheduled(dag') : Replay(p)
    BY DEF Level3
<1>3. p \in Plan /\ p.dag = dag'
    BY <1>1, ScheduledFacts
<1> QED
    BY <1>1, <1>2, <1>3 DEF Replay, PlansKept, ResultBelongsTogether, ReferenceIsStructured

LEMMA StepPlans == PlansKept /\ [Next]_vars => PlansKept'
<1> SUFFICES ASSUME PlansKept, [Next]_vars PROVE PlansKept'
    OBVIOUS
<1>1. CASE Compare \/ StepsExhausted \/ Finalize \/ GiveUp \/ Done \/ UNCHANGED vars
    <2>1. UNCHANGED << canReplan, plan, reference, dag, replayed >>
        BY <1>1 DEF Compare, StepsExhausted, Finalize, GiveUp, Done, vars, given, plans
    <2> QED
        BY <2>1 DEF PlansKept, ResultBelongsTogether, ReferenceIsStructured
<1> QED
    BY <1>1, Level1Plans, Level2Plans, Level3Plans DEF Next

\* The plan, the DAG and the replay results evaluate returns are of one piece.
THEOREM OneResult == Spec => []ResultBelongsTogether
<1>1. Init => PlansKept
    BY InitPlans
<1>2. PlansKept /\ [Next]_vars => PlansKept'
    BY StepPlans
<1>3. PlansKept => ResultBelongsTogether
    BY DEF PlansKept
<1> QED
    BY <1>1, <1>2, <1>3, PTL DEF Spec

\* The reference of level 3 never carries a level-1 patch.
THEOREM StructuredReference == Spec => []ReferenceIsStructured
<1>1. Init => PlansKept
    BY InitPlans
<1>2. PlansKept /\ [Next]_vars => PlansKept'
    BY StepPlans
<1>3. PlansKept => ReferenceIsStructured
    BY DEF PlansKept
<1> QED
    BY <1>1, <1>2, <1>3, PTL DEF Spec

-----------------------------------------------------------------------------
\* Why a verdict short of the step bound is fresh: a round that ends the loop
\* has compared and patched nothing since.
ScopesFollow ==
    /\ steps \in Nat
    /\ phase = "patch" => scopes = plan
    /\ phase \in {"finalize", "done"} /\ steps < MaxSteps => scopes = plan

LEMMA StepScopes == ScopesFollow /\ [Next]_vars => ScopesFollow'
<1> SUFFICES ASSUME ScopesFollow, [Next]_vars PROVE ScopesFollow'
    OBVIOUS
<1> MaxSteps \in Nat
    BY LoopAssumption
<1>1. CASE Compare
    BY <1>1 DEF Compare, plans, tries, ScopesFollow
<1>2. CASE StepsExhausted
    BY <1>2 DEF StepsExhausted, plans, tries, ScopesFollow
<1>3. CASE Level1 \/ Level2 \/ Level3
    <2>1. PICK p : Replay(p)
        BY <1>3 DEF Level1, Level2, Level3
    <2> QED
        BY <2>1 DEF Replay, ScopesFollow
<1>4. CASE GiveUp
    BY <1>4 DEF GiveUp, plans, ScopesFollow
<1>5. CASE Finalize
    BY <1>5 DEF Finalize, plans, tries, ScopesFollow
<1>6. CASE Done \/ UNCHANGED vars
    BY <1>6 DEF Done, vars, plans, tries, ScopesFollow
<1> QED
    BY <1>1, <1>2, <1>3, <1>4, <1>5, <1>6 DEF Next

\* A verdict reached before the step bound uses the final plan's parallel scopes.
THEOREM FreshVerdict == Spec => []VerdictUnderOwnScopes
<1>1. Init => ScopesFollow
    BY DEF Init, ScopesFollow
<1>2. ScopesFollow /\ [Next]_vars => ScopesFollow'
    BY StepScopes
<1>3. ScopesFollow => VerdictUnderOwnScopes
    BY DEF ScopesFollow, VerdictUnderOwnScopes
<1> QED
    BY <1>1, <1>2, <1>3, PTL DEF Spec

-----------------------------------------------------------------------------
\* The rollback log, read back: what the plan carries is what it says since the
\* last entry that stands for a new schedule.
Entry == Strategies \union {"rule_patch", "constraint_patch"}

LogKept == PlansKept /\ log \in Seq(Entry) /\ LogDescribesPlan

\* An entry that stands for no new schedule adds its strategy, if it is one.
LEMMA LogGrows ==
    ASSUME LogKept, NEW e \in Entry, log' = Append(log, e), canReplan' = canReplan,
           ~(e = "constraint_patch" \/ (e = "rule_patch" /\ canReplan)),
           plan'.patches = plan.patches \union ({e} \intersect Strategies)
    PROVE  LogDescribesPlan'
<1>0. PICK n \in Nat : n = Len(log)
    BY DEF LogKept
<1>1. DOMAIN log = 1 .. n /\ DOMAIN log' = 1 .. n + 1
    BY <1>0 DEF LogKept
<1>2. (\A i \in 1 .. n : log'[i] = log[i]) /\ log'[n + 1] = e
    BY <1>0 DEF LogKept
<1>3. \A k \in 1 .. n : ReplansAt(k)' <=> ReplansAt(k)
    BY <1>2 DEF ReplansAt
<1>4. ~ReplansAt(n + 1)'
    BY <1>2 DEF ReplansAt
<1>5. \A i \in 1 .. n :
          (\A k \in DOMAIN log' : ReplansAt(k)' => k < i) <=> (\A k \in DOMAIN log : ReplansAt(k) => k < i)
    BY <1>1, <1>3, <1>4
<1>6. \A k \in DOMAIN log' : ReplansAt(k)' => k < n + 1
    BY <1>1, <1>4
<1>7. ASSUME NEW x
      PROVE  x \in plan'.patches <=>
             \E i \in DOMAIN log' : /\ x = log'[i] /\ log'[i] \in Strategies
                                    /\ \A k \in DOMAIN log' : ReplansAt(k)' => k < i
  <2>1. x \in plan.patches <=>
            \E i \in 1 .. n : /\ x = log[i] /\ log[i] \in Strategies
                              /\ \A k \in DOMAIN log : ReplansAt(k) => k < i
      BY <1>1 DEF LogKept, LogDescribesPlan
  <2>2. x \in plan.patches <=>
            \E i \in 1 .. n : /\ x = log'[i] /\ log'[i] \in Strategies
                              /\ \A k \in DOMAIN log' : ReplansAt(k)' => k < i
      BY <1>2, <1>5, <2>1
  <2>3. x \in plan'.patches <=> x \in plan.patches \/ (x = e /\ e \in Strategies)
      OBVIOUS
  <2>4. DOMAIN log' = 1 .. n \union {n + 1}
      BY <1>1
  <2> QED
      BY <1>2, <1>6, <2>2, <2>3, <2>4
<1>8. plan'.patches = {log'[i] : i \in {j \in DOMAIN log' :
          log'[j] \in Strategies /\ \A k \in DOMAIN log' : ReplansAt(k)' => k < j}}
    BY <1>7
<1> QED
    BY <1>8 DEF LogDescribesPlan

\* An entry that stands for a new schedule closes the log before it.
LEMMA LogReplans ==
    ASSUME LogKept, NEW e \in Entry, log' = Append(log, e), canReplan' = canReplan,
           e = "constraint_patch" \/ (e = "rule_patch" /\ canReplan),
           plan'.patches = {}
    PROVE  LogDescribesPlan'
<1>0. PICK n \in Nat : n = Len(log)
    BY DEF LogKept
<1>1. DOMAIN log' = 1 .. n + 1 /\ log'[n + 1] = e
    BY <1>0 DEF LogKept
<1>2. ReplansAt(n + 1)' /\ e \notin Strategies
    BY <1>1 DEF ReplansAt, Strategies
<1>3. \A j \in DOMAIN log' : log'[j] \in Strategies => ~(n + 1 < j) /\ j # n + 1
    BY <1>1, <1>2
<1>4. \A j \in DOMAIN log' :
          ~(log'[j] \in Strategies /\ \A k \in DOMAIN log' : ReplansAt(k)' => k < j)
    BY <1>1, <1>2, <1>3
<1> QED
    BY <1>4 DEF LogDescribesPlan

LEMMA Level1Log == LogKept /\ Level1 => LogDescribesPlan' /\ log' \in Seq(Entry)
<1> SUFFICES ASSUME LogKept, Level1 PROVE LogDescribesPlan' /\ log' \in Seq(Entry)
    OBVIOUS
<1>1. PICK s \in NextLevel1 : /\ Replay([Changed(plan, s) EXCEPT !.patches = @ \union {s}])
                              /\ log' = Append(log, s)
    BY DEF Level1
<1>2. s \in Strategies /\ plan \in Plan /\ canReplan' = canReplan
    BY NextLevel1Strategies DEF LogKept, PlansKept, Level1, given
<1>3. Changed(plan, s) \in Plan /\ Changed(plan, s).patches = plan.patches
    BY <1>2, ChangedFacts
<1>4. plan'.patches = plan.patches \union {s}
    BY <1>1, <1>3 DEF Replay, Plan
<1>5. s \in Entry /\ s \notin {"rule_patch", "constraint_patch"}
    BY <1>2 DEF Entry, Strategies
<1> QED
    BY <1>1, <1>2, <1>4, <1>5, LogGrows DEF LogKept

LEMMA Level2Log == LogKept /\ Level2 => LogDescribesPlan' /\ log' \in Seq(Entry)
<1> SUFFICES ASSUME LogKept, Level2 PROVE LogDescribesPlan' /\ log' \in Seq(Entry)
    OBVIOUS
<1>1. /\ dag' \in SUBSET {"rules", "constraints"} /\ canReplan' = canReplan
      /\ "rule_patch" \in Entry /\ log' = Append(log, "rule_patch")
    BY DEF Level2, LogKept, PlansKept, given, Entry
<1>2. CASE canReplan
  <2>1. PICK p \in Scheduled(dag') : Replay(p)
      BY <1>2 DEF Level2
  <2>2. plan'.patches = {}
      BY <1>1, <2>1, ScheduledFacts DEF Replay
  <2> QED
      BY <1>1, <1>2, <2>2, LogReplans DEF LogKept
<1>3. CASE ~canReplan
  <2>1. plan' = plan /\ "rule_patch" \notin Strategies
      BY <1>3 DEF Level2, Replay, Strategies
  <2>2. plan'.patches = plan.patches \union ({"rule_patch"} \intersect Strategies)
      BY <2>1
  <2> QED
      BY <1>1, <1>3, <2>2, LogGrows DEF LogKept
<1> QED
    BY <1>2, <1>3

LEMMA Level3Log == LogKept /\ Level3 => LogDescribesPlan' /\ log' \in Seq(Entry)
<1> SUFFICES ASSUME LogKept, Level3 PROVE LogDescribesPlan' /\ log' \in Seq(Entry)
    OBVIOUS
<1>1. /\ dag' \in SUBSET {"rules", "constraints"} /\ canReplan' = canReplan
      /\ "constraint_patch" \in Entry /\ log' = Append(log, "constraint_patch")
    BY DEF Level3, LogKept, PlansKept, given, Entry
<1>2. PICK p \in Scheduled(dag') : Replay(p)
    BY DEF Level3
<1>3. plan'.patches = {}
    BY <1>1, <1>2, ScheduledFacts DEF Replay
<1> QED
    BY <1>1, <1>3, LogReplans DEF LogKept

LEMMA StepLog == LogKept /\ [Next]_vars => LogKept'
<1> SUFFICES ASSUME LogKept, [Next]_vars PROVE LogKept'
    OBVIOUS
<1>1. PlansKept'
    BY StepPlans DEF LogKept
<1>2. CASE Compare \/ StepsExhausted \/ Finalize \/ GiveUp \/ Done \/ UNCHANGED vars
  <2>1. UNCHANGED << canReplan, plan, log >>
      BY <1>2 DEF Compare, StepsExhausted, Finalize, GiveUp, Done, vars, given, plans, tries
  <2> QED
      BY <1>1, <2>1 DEF LogKept, LogDescribesPlan, ReplansAt
<1>3. CASE Level1 \/ Level2 \/ Level3
    BY <1>1, <1>3, Level1Log, Level2Log, Level3Log DEF LogKept
<1> QED
    BY <1>2, <1>3 DEF Next

\* For every step bound: the rollback log says which level-1 patches the final plan
\* carries, if it is read from the last new schedule on.
THEOREM LogTellsPlan == Spec => []LogDescribesPlan
<1>1. Init => LogKept
  <2> SUFFICES ASSUME Init PROVE LogKept
      OBVIOUS
  <2>1. PlansKept /\ plan.patches = {} /\ log = << >>
      BY InitPlans, ScheduledFacts DEF Init
  <2> QED
      BY <2>1 DEF LogKept, LogDescribesPlan
<1>2. LogKept /\ [Next]_vars => LogKept'
    BY StepLog
<1>3. LogKept => LogDescribesPlan
    BY DEF LogKept
<1> QED
    BY <1>1, <1>2, <1>3, PTL DEF Spec
=============================================================================
