----------------------------- MODULE MCTypedDag -----------------------------
(* Three cloud reads that share requests of two, two local reads that go      *)
(* together, a fat control action and a critical verification of unknown       *)
(* protocol that the control action may depend on.  The control action has two *)
(* MSSUs, and one MSSU serves two of the cloud reads.                          *)
EXTENDS TypedDag

CONSTANTS q1, q2, q3, h1, h2, c, w,
          mq, mh, mg, mc, md, ms, mw

MCAction == {q1, q2, q3, h1, h2, c, w}
MCMssu == {mq, mh, mg, mc, md, ms, mw}

MCActionsOf == [m \in MCMssu |->
    CASE m = mq -> {q1} [] m \in {mh, mg} -> {h1} [] m \in {mc, md} -> {c}
      [] m = ms -> {q2, q3} [] OTHER -> {w}]
MCRepresentative == [a \in MCAction |->
    CASE a = q1 -> {mq} [] a = h1 -> {mg} [] a = c -> {mc} [] a = w -> {mw} [] OTHER -> {}]

Row(m, n, kind, why, semantic, scoped) ==
    [src |-> m, dst |-> n, kind |-> kind, why |-> why, semantic |-> semantic, scoped |-> scoped]

\* Data that goes both ways between two actions, and within one; templates against
\* an order of the target and against data; an edge of two actions that lies on no
\* cycle by itself.
MCRows == {Row(mh, mc, "HARD_DATA", "io", FALSE, FALSE),
           Row(md, mg, "HARD_DATA", "io", FALSE, FALSE),
           Row(mc, mq, "HARD_LIFECYCLE", "rule_template", FALSE, FALSE),
           Row(md, mc, "HARD_DATA", "candidate", FALSE, FALSE),
           Row(mc, md, "HARD_DATA", "rule_template", FALSE, FALSE),
           Row(mc, md, "HARD_LIFECYCLE", "rule_template", TRUE, FALSE),
           Row(ms, mh, "HARD_CONTROL", "rule_template", FALSE, TRUE)}

\* The second is between writebacks, the third against data.
MCDependencies == {<< q1, h1 >>, << w, c >>, << c, h1 >>}
MCMustHappen == {<< q1, c >>, << q3, q3 >>}
MCEdges == MCAction \X MCAction

MCResource == [a \in MCAction |->
    CASE a \in {q1, q2, q3} -> "CLOUD" [] a \in {h1, h2} -> "LOCAL"
      [] a = c -> "BLE" [] OTHER -> "UNKNOWN"]
MCPhase == [a \in MCAction |->
    CASE a = w -> "verification" [] a = c -> "control" [] OTHER -> "acquisition"]
MCSlot == [a \in MCAction |-> [bucket |-> IF a \in {q1, q2, q3} THEN q1 ELSE a,
                               size |-> IF a \in {q1, q2, q3} THEN 2 ELSE 1]]
MCSoftOrder == {<< q1, q2 >>, << h2, w >>}
MCMinGap == {<< q1, q2 >>}
MCBudgets == {[scope |-> {q3, h2}, limit |-> 1]}
MCNoOverlap == {{h1, q2}}

\* The theorem on the limits of a batch holds for this instance.
ASSUME MCSlotsAgree == SlotsAgree
=============================================================================
