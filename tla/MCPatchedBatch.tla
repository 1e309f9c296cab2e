--------------------------- MODULE MCPatchedBatch ---------------------------
(* One group of four actions and one of two; rows over a few scopes; three   *)
(* guards at a time with every sequence of rows, and some six hundred guard  *)
(* expressions by themselves with one row.                                   *)
EXTENDS PatchedBatch

CONSTANTS a, b, c, d, e, f

MCProtocol == [x \in Action |-> IF x \in {a, e} THEN "BLE" ELSE IF x \in {b, c} THEN "CLOUD" ELSE "LOCAL"]

MCGroups == << <<a, b, c, d>>, <<e, f>> >>

ASSUME MCGroupsOnce == GroupsOnce

MCScopes == {{}, {b, c}, {a, b, d}}

MCRows == [mode : {"shrink_batch_not_disable"}, scope : MCScopes, size : {2, 3}]
          \union [mode : {"disable_batching_use_singleton_calls"}, scope : MCScopes, size : {4}]
          \union [mode : {"preserve_action_order", "force_pick_despite_soft_conflicts",
                         "reduce_parallelism", "set_ble_parallelism_to_1"},
                 scope : {{}, {c}, {a, b, d}}, size : {1}]

\* Two names the metrics decide, and one that they may not know.
MCNames == {"low", "busy", "near"}
MCFlags == {m \in [MCNames -> {"true", "false", "unknown"}] : "unknown" \notin {m["low"], m["busy"]}}

Low == Named("low")
Busy == Named("busy")
Near == Named("near")

\* Atoms, two of them, in parentheses, negated; and these in others.
Atoms == {Low, Busy, Near, Not(Low), Not(Near)}
Boths == {Both(x, y) : x, y \in Atoms}
Eithers == {Either(x, y) : x, y \in Atoms}
Groups == {Grouped(x) : x \in Eithers} \cup {Not(Grouped(x)) : x \in Boths}
Nested == {Both(x, Grouped(y)) : x \in Atoms, y \in Eithers}
Longer ==
    {Both(x, y) : x \in Groups, y \in {Low, Not(Busy)}}
        \cup {Both(x, y) : x \in {Near, Not(Low)}, y \in Groups}
        \cup {Both(Grouped(Either(Low, Busy)), x) : x \in Groups}
Wider == {Either(x, y) : x \in {Both(Low, Busy), Grouped(Near)}, y \in Groups}

MCFactors ==
    Atoms \cup {Not(Busy), Grouped(Near)} \cup Groups
        \cup {Grouped(x) : x \in Boths \cup Nested} \cup {Grouped(Grouped(x)) : x \in Nested}
MCTerms == MCFactors \cup Boths \cup Nested \cup Longer
MCSums == MCTerms \cup Eithers \cup Wider \cup {Either(Both(Low, Busy), Not(Low))}

Expressions ==
    Atoms \cup Boths \cup Eithers \cup Groups \cup Longer \cup Wider
        \cup {Grouped(Grouped(x)) : x \in Nested}

ThreeGuards ==
    {[scope |-> {}, expr |-> Not(Grouped(Both(Low, Near)))],
     [scope |-> {b, c}, expr |-> Both(Grouped(Either(Low, Near)), Not(Busy))],
     [scope |-> {d, e}, expr |-> Either(Both(Low, Busy), Not(Low))]}

MCGuardSets ==
    {ThreeGuards} \cup {{[scope |-> {b, c}, expr |-> x]} : x \in Expressions}

MCRowBound == [gs \in MCGuardSets |-> IF gs = ThreeGuards THEN 3 ELSE 1]
=============================================================================
