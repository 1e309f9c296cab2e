------------------------------ MODULE TrustLoop ------------------------------
(***************************************************************************)
(* The repair loop of the trust layer (TrustLayer.evaluate,                *)
(* src/optimizer/m6_trust.py).  The replays of the current plan are        *)
(* compared with the baseline; while counterexamples remain, a patch is    *)
(* applied and the patched plan is replayed again:                         *)
(*   level 1  a strategy that changes the plan, each tried once;           *)
(*   level 2  a rule patch, laid over the DAG, after which it is replanned;*)
(*   level 3  order constraints added to the DAG, and replanned.           *)
(* Scheduler, replay and comparison are parameters of the code or other    *)
(* components: what they return is any value they can return.              *)
(*                                                                         *)
(* A plan is reduced to what the patches change and the comparison reads:  *)
(* its parallelism limits and widest group, session reuse, the minimal-gap *)
(* rows, the DAG patches it was scheduled under and, as history, the       *)
(* level-1 strategies applied to it.                                       *)
(***************************************************************************)
EXTENDS Integers, Sequences, FiniteSets, SequencesExt

CONSTANTS
    MaxSteps,      \* max_steps, at least 1
    MaxParallel,   \* bound: the parallelism limit of a scheduled plan
    ManyActions,   \* the plan has more than one action
    NoPlan

ASSUME LoopAssumption ==
    MaxSteps \in Nat \ {0} /\ MaxParallel \in Nat \ {0} /\ ManyActions \in BOOLEAN

Strategies == {"reduce_parallelism", "disable_session_reuse", "disable_batching",
               "enforce_min_gap_no_overlap"}

Plan == [limit : 1 .. MaxParallel, width : 1 .. MaxParallel, reuse : BOOLEAN, spaced : BOOLEAN,
         dag : SUBSET {"rules", "constraints"}, patches : SUBSET Strategies]

\* What the scheduler may return for a DAG.
Scheduled(d) == {p \in Plan : p.dag = d /\ p.patches = {} /\ p.width <= p.limit}

\* The strongest signal among the counterexamples: an order violation, a timeout
\* or back-off, any other difference, or no counterexample.
Signal == {"order", "timeout", "other", "none"}

VARIABLES
    canReplay,   \* an execution plan and replay_with_plan were given
    canReplan,   \* replan_with_dag was given
    phase,       \* "compare", "patch", "finalize" or "done"
    plan,        \* current_plan
    reference,   \* level3_reference_plan
    dag,         \* patches in current_dag
    replayed,    \* the plan current_replay_results come from
    scopes,      \* the plan compare_config was derived from
    signal,      \* what the last comparison found
    current,     \* summary_is_current
    tried,       \* tried_level1
    level2, level3,   \* level2_applied, level3_applied
    steps,       \* applied_steps
    log          \* rollback_log: strategy names, "rule_patch", "constraint_patch"

given == << canReplay, canReplan >>
plans == << plan, reference, dag, replayed >>
tries == << tried, level2, level3, steps, log >>
vars  == << given, phase, plans, scopes, signal, current, tries >>

Init ==
    /\ canReplay \in BOOLEAN /\ canReplan \in BOOLEAN
    /\ phase = "compare"
    /\ plan \in Scheduled({})
    /\ reference = plan /\ replayed = plan /\ dag = {}
    /\ scopes = NoPlan /\ signal = "none" /\ current = FALSE
    /\ tried = {} /\ level2 = FALSE /\ level3 = FALSE /\ steps = 0 /\ log = << >>

-----------------------------------------------------------------------------
(* Comparison                                                              *)

\* Mutant of Compare: the comparison is configured once, before the loop.
CompareConfiguredOnce ==
    /\ phase = "compare" /\ steps < MaxSteps
    /\ scopes' = IF scopes = NoPlan THEN plan ELSE scopes
    /\ signal' \in Signal
    /\ current' = TRUE
    /\ phase' = IF signal' = "none" \/ ~canReplay THEN "finalize" ELSE "patch"
    /\ UNCHANGED << given, plans, tries >>

\* The loop's head: the parallel scopes are those of the current plan.
Compare ==
    /\ phase = "compare" /\ steps < MaxSteps
    /\ scopes' = plan
    /\ signal' \in Signal
    /\ current' = TRUE
    /\ phase' = IF signal' = "none" \/ ~canReplay THEN "finalize" ELSE "patch"
    /\ UNCHANGED << given, plans, tries >>

StepsExhausted ==
    /\ phase = "compare" /\ steps >= MaxSteps
    /\ phase' = "finalize"
    /\ UNCHANGED << given, plans, scopes, signal, current, tries >>

\* After the loop: results not compared yet are compared now, under the
\* compare_config of the loop's last round.
Finalize ==
    /\ phase = "finalize"
    /\ phase' = "done"
    /\ IF current THEN UNCHANGED signal ELSE signal' \in Signal
    /\ UNCHANGED << given, plans, scopes, current, tries >>

-----------------------------------------------------------------------------
(* Level 1                                                                 *)

\* _level1_strategy_chain: what the counterexamples point at comes first.
Chain ==
    IF signal = "order"
    THEN << "enforce_min_gap_no_overlap", "reduce_parallelism", "disable_session_reuse",
            "disable_batching" >>
    ELSE IF signal = "timeout"
    THEN << "reduce_parallelism", "disable_batching", "disable_session_reuse",
            "enforce_min_gap_no_overlap" >>
    ELSE << "reduce_parallelism", "disable_session_reuse", "disable_batching",
            "enforce_min_gap_no_overlap" >>

\* The first strategy of the chain that has not been tried, if one is left.
NextLevel1 ==
    {Chain[i] : i \in {k \in 1 .. 4 : /\ Chain[k] \notin tried
                                   /\ \A j \in 1 .. k - 1 : Chain[j] \in tried}}

\* It counts as tried whether it helps or not.
TriedNow == tried \union NextLevel1

Smaller(x, y) == IF x < y THEN x ELSE y

\* _apply_level1_patch, as a change of the plan.  Disabling batching makes new
\* batches of one action each, without guards and session reuse.
Changed(p, strategy) ==
    CASE strategy = "reduce_parallelism" ->
           LET limit == IF p.limit > 1 THEN p.limit - 1 ELSE 1
           IN [p EXCEPT !.limit = limit, !.width = Smaller(@, limit)]
      [] strategy = "disable_session_reuse" -> [p EXCEPT !.reuse = FALSE]
      [] strategy = "disable_batching" -> [p EXCEPT !.width = 1, !.reuse = FALSE, !.spaced = FALSE]
      [] strategy = "enforce_min_gap_no_overlap" -> [p EXCEPT !.spaced = TRUE]

Changes(strategy) ==
    IF strategy = "disable_batching" THEN ManyActions ELSE Changed(plan, strategy) # plan

Level1Applies == \E strategy \in NextLevel1 : Changes(strategy)

\* The patched plan is replayed, and the loop goes on with the next round.
Replay(p) ==
    /\ plan' = p /\ replayed' = p
    /\ phase' = "compare" /\ current' = FALSE
    /\ steps' = steps + 1

\* Mutant of Level1: the reference plan follows the patched one.
Level1MovesReference ==
    /\ phase = "patch"
    /\ \E strategy \in NextLevel1 :
          /\ Changes(strategy)
          /\ Replay([Changed(plan, strategy) EXCEPT !.patches = @ \union {strategy}])
          /\ log' = Append(log, strategy)
    /\ tried' = TriedNow
    /\ reference' = plan'
    /\ UNCHANGED << given, dag, scopes, signal, level2, level3 >>

Level1 ==
    /\ phase = "patch"
    /\ \E strategy \in NextLevel1 :
          /\ Changes(strategy)
          /\ Replay([Changed(plan, strategy) EXCEPT !.patches = @ \union {strategy}])
          /\ log' = Append(log, strategy)
    /\ tried' = TriedNow
    /\ UNCHANGED << given, reference, dag, scopes, signal, level2, level3 >>

-----------------------------------------------------------------------------
(* Level 2 and level 3.  A strategy that changes nothing falls through to   *)
(* them, although others may be left to try.                                *)

\* Mutant of Level2: the plan is scheduled before the DAG is patched.
Level2OldDag ==
    /\ phase = "patch" /\ ~Level1Applies /\ ~level2
    /\ level2' = TRUE /\ tried' = TriedNow
    /\ dag' \in {dag, dag \union {"rules"}}
    /\ IF canReplan
       THEN \E p \in Scheduled(dag) : Replay(p) /\ reference' = p
       ELSE Replay(plan) /\ UNCHANGED reference
    /\ log' = Append(log, "rule_patch")
    /\ UNCHANGED << given, scopes, signal, level3 >>

\* A rule is involved in the counterexamples: it is disabled or its guard
\* tightened; the DAG may have no constraint of that rule.
Level2 ==
    /\ phase = "patch" /\ ~Level1Applies /\ ~level2
    /\ level2' = TRUE /\ tried' = TriedNow
    /\ dag' \in {dag, dag \union {"rules"}}
    /\ IF canReplan
       THEN \E p \in Scheduled(dag') : Replay(p) /\ reference' = p
       ELSE Replay(plan) /\ UNCHANGED reference
    /\ log' = Append(log, "rule_patch")
    /\ UNCHANGED << given, scopes, signal, level3 >>

\* Mutant of Level3: the plan is left as it is and replayed again.
Level3NotReplanned ==
    /\ phase = "patch" /\ ~Level1Applies
    /\ ~level3 /\ canReplan /\ signal = "order"
    /\ level2' = TRUE /\ level3' = TRUE /\ tried' = TriedNow
    /\ dag' = dag \union {"constraints"}
    /\ Replay([plan EXCEPT !.dag = dag'])
    /\ log' = Append(log, "constraint_patch")
    /\ UNCHANGED << given, reference, scopes, signal >>

\* Reached with level 2 done, or attempted in this round with no rule involved.
Level3 ==
    /\ phase = "patch" /\ ~Level1Applies
    /\ ~level3 /\ canReplan /\ signal = "order"
    /\ level2' = TRUE /\ level3' = TRUE /\ tried' = TriedNow
    /\ dag' = dag \union {"constraints"}
    /\ \E p \in Scheduled(dag') : Replay(p)
    /\ log' = Append(log, "constraint_patch")
    /\ UNCHANGED << given, reference, scopes, signal >>

\* No patch in this round: no rule was involved or level 2 was done, and level 3
\* does not apply, is done or added nothing.
GiveUp ==
    /\ phase = "patch" /\ ~Level1Applies
    /\ level2' = TRUE /\ tried' = TriedNow
    /\ level3' = (level3 \/ (canReplan /\ signal = "order"))
    /\ phase' = "finalize"
    /\ UNCHANGED << given, plans, scopes, signal, current, steps, log >>

Done == phase = "done" /\ UNCHANGED vars

Next ==
    \/ Compare \/ StepsExhausted \/ Level1 \/ Level2 \/ Level3 \/ GiveUp \/ Finalize \/ Done

Spec == Init /\ [][Next]_vars

-----------------------------------------------------------------------------
(* Properties                                                              *)

\* final_plan, the DAG the certificate proves acyclic and the replay results it
\* sums up belong together: the results are the final plan's, and the plan was
\* scheduled under every patch of the DAG (if it can be replanned at all).
ResultBelongsTogether ==
    /\ replayed = plan
    /\ canReplan => plan.dag = dag

ReplansAt(i) == log[i] = "constraint_patch" \/ (log[i] = "rule_patch" /\ canReplan)

\* Of the patches rollback_applied_kinds lists, the final plan carries the
\* level-1 patches since it was last scheduled; the ones before are gone.
LogDescribesPlan ==
    plan.patches = {log[i] : i \in {j \in DOMAIN log :
        log[j] \in Strategies /\ \A k \in DOMAIN log : ReplansAt(k) => k < j}}

\* Level 3 takes the action order from a scheduled plan, never from one a level-1
\* patch has taken apart.
ReferenceIsStructured == reference.patches = {}

\* A verdict reached before the step bound was reached under the parallel scopes
\* of the final plan.  (At the bound it is reached under those of the plan before.)
VerdictUnderOwnScopes == phase = "done" /\ steps < MaxSteps => scopes = plan

=============================================================================
