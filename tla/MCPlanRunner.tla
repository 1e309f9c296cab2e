---------------------------- MODULE MCPlanRunner ----------------------------
(* Two batches: in the first a mixed group whose cloud action b is guarded *)
(* and a group of the same coalescing bucket; in the second an ordered     *)
(* pair.  The target may lack an action of the gather beside others or the *)
(* second action of the pair.                                              *)
EXTENDS PlanRunner

CONSTANTS a, b, c, d, e, g, h

MCProtocol == [x \in Action |-> IF x \in {b, d} THEN "CLOUD" ELSE IF x = a THEN "BLE" ELSE "LOCAL"]

\* c is unknown beside a (and b), h when e has succeeded.
MCTargets == {{a, b, c, d, e, h}, {a, b, d, e, h}, {a, b, c, d, e}}

MCBucketOf == [x \in Action |-> "bucket"]

MCPlan == <<
    [groups   |-> << <<a, b, c>>, <<d>> >>,
     fallback |-> << >>,
     guards   |-> {[scope |-> {b}, token |-> g]},
     rules    |-> << [scope |-> {a, b, c, d}, wait |-> 40, size |-> 4] >>],
    [groups   |-> << <<e, h>> >>,
     fallback |-> << [mode |-> "preserve_action_order", scope |-> {h}, size |-> 0] >>,
     guards   |-> {},
     rules    |-> << >>] >>

\* The plan is one of those the theorem of PlanRunner_proofs is about.
ASSUME MCPlansOnce == PlansOnce
=============================================================================
