----------------------------- MODULE GroupLayout -----------------------------
(***************************************************************************)
(* How a batch of the execution plan is laid out: which of its actions run *)
(* together and which one after the other.  Two parts of the system decide *)
(* it, each with code of its own:                                          *)
(*   - the generated PlanRunner, when it runs the batch                    *)
(*     (src/optimizer/m7_component_assembler.py);                          *)
(*   - the trust layer, when it derives the order and the parallel scopes  *)
(*     it compares the traces under (src/optimizer/m6_trust.py).           *)
(* This module holds both, over the same rows.                             *)
(*                                                                         *)
(* A group is a sequence of actions.  A fallback row is a record with the  *)
(* mode (its "action" field), the scope ({} is the code's empty list: the  *)
(* whole group) and size, the row's new_max_batch_size.                    *)
(***************************************************************************)
EXTENDS ActionLists

CONSTANT Protocol   \* [Action -> protocol of the action]

BatchModes     == {"shrink_batch_not_disable", "disable_batching_use_singleton_calls"}
OrderModes     == {"preserve_action_order", "force_topological_local_order"}
SerialModes    == {"preserve_action_order", "force_pick_despite_soft_conflicts"}
CloudModes     == {"reduce_parallelism", "reduce_qps_and_parallelism"}
BleModes       == {"set_ble_parallelism_to_1", "serialize_ble_ops_and_disable_reuse"}
Modes          == BatchModes \union OrderModes \union SerialModes \union CloudModes \union BleModes

FallbackRow == [mode : Modes, scope : SUBSET Action, size : Nat]

\* The actions of a group a row speaks of: an empty scope means all of them.
Within(scope, group) == LET hit == scope \intersect ToSet(group)
                        IN IF hit = {} THEN ToSet(group) ELSE hit

\* _rows_for_group: a row is relevant when its scope is empty or meets the group.
Relevant(scope, group) == scope = {} \/ scope \intersect ToSet(group) # {}

RelevantRows(group, rows) == {row \in ToSet(rows) : Relevant(row.scope, group)}

-----------------------------------------------------------------------------
(* _reshape_groups_for_fallbacks: cutting groups into smaller ones         *)

ChunkSize(row) == IF row.mode = "disable_batching_use_singleton_calls" \/ row.size < 1
                  THEN 1 ELSE row.size

\* Mutant of PlaceAction: a chunk may grow to one action more than its size.
PlaceActionOneMore(segs, a, scope, size) ==
    IF /\ a \in scope
       /\ segs # << >>
       /\ Len(Last(segs)) <= size
       /\ ToSet(Last(segs)) \subseteq scope
    THEN [segs EXCEPT ![Len(segs)] = Append(@, a)]
    ELSE Append(segs, << a >>)

\* Mutant of PlaceAction: an action joins the last chunk at its front.
PlaceActionInFront(segs, a, scope, size) ==
    IF /\ a \in scope
       /\ segs # << >>
       /\ Len(Last(segs)) < size
       /\ ToSet(Last(segs)) \subseteq scope
    THEN [segs EXCEPT ![Len(segs)] = << a >> \o @]
    ELSE Append(segs, << a >>)

\* Where the next action of a segment that is being cut goes: onto the last
\* chunk while that has room and lies within the scope, else into a chunk of its
\* own.  The last chunk may be one an earlier segment left behind.
PlaceAction(segs, a, scope, size) ==
    IF /\ a \in scope
       /\ segs # << >>
       /\ Len(Last(segs)) < size
       /\ ToSet(Last(segs)) \subseteq scope
    THEN [segs EXCEPT ![Len(segs)] = Append(@, a)]
    ELSE Append(segs, << a >>)

\* A segment with at most one action in scope is left whole.
CutSegment(segs, segment, scope, size) ==
    IF Len(Only(segment, scope)) <= 1
    THEN Append(segs, segment)
    ELSE FoldLeft(LAMBDA acc, a : PlaceAction(acc, a, scope, size), segs, segment)

ApplyRow(group, segs, row) ==
    LET scope == IF row.scope = {} THEN ToSet(group) ELSE row.scope
    IN IF row.mode \notin BatchModes THEN segs
       ELSE FoldLeft(LAMBDA acc, segment : CutSegment(acc, segment, scope, ChunkSize(row)),
                     << >>, segs)

ReshapeGroup(group, rows) ==
    FoldLeft(LAMBDA segs, row : ApplyRow(group, segs, row), << group >>, rows)

Reshape(groups, rows) ==
    FoldLeft(LAMBDA acc, group : acc \o ReshapeGroup(group, rows), << >>, groups)

-----------------------------------------------------------------------------
(* _run_group: what of a group runs in parallel and what serially          *)

RequiresOrder(group, rows) ==
    \E i \in DOMAIN rows : /\ rows[i].mode \in OrderModes
                           /\ Relevant(rows[i].scope, group)

OfProtocol(S, p) == {a \in S : Protocol[a] = p}

\* The part of its targets a relevant row takes out of the parallel set.
RowSerialises(group, row) ==
    LET targets == Within(row.scope, group) IN
    IF row.mode \in SerialModes THEN targets
    ELSE IF row.mode \in CloudModes THEN OfProtocol(targets, "CLOUD")
    ELSE IF row.mode \in BleModes   THEN OfProtocol(targets, "BLE")
    ELSE {}

\* Mutant of SerializeTargets: a guard counts only where its scope is all of the group.
SerializeTargetsWholeGuards(group, failedScopes, rows) ==
    UNION ({scope \in failedScopes : scope = ToSet(group)}
           \union {RowSerialises(group, row) : row \in RelevantRows(group, rows)})

\* _serialize_targets, with failedScopes the scopes of the guards that failed.
SerializeTargets(group, failedScopes, rows) ==
    UNION ({Within(scope, group) : scope \in {s \in failedScopes : Relevant(s, group)}}
           \union {RowSerialises(group, row) : row \in RelevantRows(group, rows)})

SerialIds(group, failedScopes, rows) ==
    IF RequiresOrder(group, rows) THEN group
    ELSE Only(group, SerializeTargets(group, failedScopes, rows))

\* Mutant of ParallelIds: the parallel set of an order-preserving group is not emptied.
ParallelIdsUnordered(group, failedScopes, rows) ==
    ToSet(group) \ SerializeTargets(group, failedScopes, rows)

ParallelIds(group, failedScopes, rows) ==
    ToSet(group) \ ToSet(SerialIds(group, failedScopes, rows))

\* The waves a batch runs in: a wave is a set of actions that run together, and
\* starts only when the one before it is finished.
GroupWaves(parallel, serial) ==
    (IF parallel = {} THEN << >> ELSE << parallel >>) \o [i \in DOMAIN serial |-> {serial[i]}]

RuntimeWaves(groups, failedScopes, rows) ==
    FoldLeft(LAMBDA acc, g : acc \o GroupWaves(ParallelIds(g, failedScopes, rows),
                                               SerialIds(g, failedScopes, rows)),
             << >>, Reshape(groups, rows))

-----------------------------------------------------------------------------
(* The trust layer's own layout: no reshaping, no guards, and only the     *)
(* SerialModes serialise.                                                  *)

\* Mutant of ValidatorSerialIds: order preservation forgotten.
ValidatorSerialIdsNoOrder(group, rows) ==
    LET serial == {row \in RelevantRows(group, rows) : row.mode \in SerialModes}
    IN  Only(group, UNION {Within(row.scope, group) : row \in serial})

ValidatorSerialIds(group, rows) ==
    LET serial == {row \in RelevantRows(group, rows) : row.mode \in SerialModes}
    IN IF RequiresOrder(group, rows) THEN group
       ELSE Only(group, UNION {Within(row.scope, group) : row \in serial})

\* _plan_execution_order and _parallel_action_scopes, as waves: any order is
\* tolerated inside a parallel scope, and the serial actions come after it.
ValidatorWaves(groups, rows) ==
    FoldLeft(LAMBDA acc, g :
                 LET serial == ValidatorSerialIds(g, rows)
                 IN acc \o GroupWaves(ToSet(g) \ ToSet(serial), serial),
             << >>, groups)

-----------------------------------------------------------------------------
(* Orders promised by a sequence of waves                                  *)

WaveOf(waves, a) == CHOOSE i \in DOMAIN waves : a \in waves[i]

\* a is finished before b starts.
Precedes(waves, a, b) == WaveOf(waves, a) < WaveOf(waves, b)
=============================================================================
