----------------------------- MODULE TraceCompare -----------------------------
(***************************************************************************)
(* compare_traces (src/runtime/trace.py): the verdict of the trust layer on  *)
(* two traces of a scenario.  Both traces are brought into canonical form    *)
(* and walked side by side.  Where the events differ, the run of events      *)
(* that may commute, or the run of events of one parallel scope, must be     *)
(* the same up to its order in both.                                         *)
(*                                                                           *)
(* An event is [phase, op, target, action, endpoint, stamp]: action and      *)
(* endpoint are the parameters the comparison looks at, stamp stands for     *)
(* what differs from run to run (times, request ids).  The configuration     *)
(* has the rules [policy, ops, key] of the observation and the scopes: the   *)
(* sets of actions that a group of the plan runs at a time.                  *)
(***************************************************************************)
EXTENDS Integers, Sequences, FiniteSets, SequencesExt

CONSTANT Comparisons      \* [base, opt, rules, scopes], a scope per group of the plan

ASSUME ComparisonsAssumption ==
    \A c \in Comparisons :
        /\ c.base \in Seq(Range(c.base)) /\ c.opt \in Seq(Range(c.opt))
        /\ c.scopes \in Seq(Range(c.scopes))
        /\ \A i \in DOMAIN c.scopes : "none" \notin c.scopes[i]

VARIABLES
    base, opt,       \* the canonical traces
    config,
    idx,              \* the next event to look at
    verdict          \* "walking", "strict", "tolerant" or "different"

vars == << base, opt, config, idx, verdict >>

-----------------------------------------------------------------------------
(* Canonical form                                                          *)

Aliases ==
    [BLE_OP |-> "BLE_GATT_OP", CLOUD_OP |-> "CLOUD_HTTP_CALL", CLOUD_CALL |-> "CLOUD_HTTP_CALL",
     RETRY_BACKOFF |-> "CLOUD_BACKOFF_SLEEP"]

\* normalize_op_name
Normalized(op) == IF op \in DOMAIN Aliases THEN Aliases[op] ELSE op

\* canonicalize_event
Canonical(e) ==
    [phase |-> e.phase, op |-> Normalized(e.op), target |-> e.target,
     action |-> e.action, endpoint |-> e.endpoint]

CanonicalTrace(t) == [i \in DOMAIN t |-> Canonical(t[i])]

-----------------------------------------------------------------------------
(* Rules and scopes                                                        *)

Ops(rule) == {Normalized(op) : op \in rule.ops}
CommuteRules == {rule \in config.rules : rule.policy = "commute"}
KeyedRules == {rule \in CommuteRules : rule.key # "none"}

\* COMMUTABLE_OPS and TraceCompareConfig.from_observation
Commutable == {"STATE_WRITE", "COORD_REFRESH"} \cup UNION {Ops(rule) : rule \in CommuteRules}

Commutes(e) == e.op \in Commutable

\* _event_group_value
GroupValue(e, key) ==
    IF key = "endpoint" /\ e.endpoint # "none" THEN e.endpoint
    ELSE IF key \in {"target", "endpoint"} THEN e.target ELSE "none"

\* The places of the scopes an action belongs to.
Places(action) ==
    {i \in DOMAIN config.scopes : action \in config.scopes[i] /\ Cardinality(config.scopes[i]) >= 2}

\* _parallel_scope_lookup: a later scope takes an action from an earlier one.
IsScopeOf(s, action) ==
    \E i \in Places(action) : s = config.scopes[i] /\ \A j \in Places(action) : j <= i

-----------------------------------------------------------------------------
(* Windows                                                                 *)

Larger(a, b) == IF a >= b THEN a ELSE b

\* The positions from at to k are the ones from at on that are in the set without a gap.
RunOf(k, t, positions) ==
    /\ k \in idx .. Len(t) /\ idx .. k \subseteq positions
    /\ k < Len(t) => k + 1 \notin positions

Onto(p, S) == \A j \in S : \E i \in S : p[i] = j

\* Mutant of SameEvents: the events, but not how often they occur.
SameEventsOnce(k, l) == {base[i] : i \in idx .. k} = {opt[i] : i \in idx .. l}

\* Counter(base_window) == Counter(opt_window)
SameEvents(k, l) ==
    /\ k = l
    /\ \E p \in [idx .. k -> idx .. k] : (\A i \in idx .. k : opt[p[i]] = base[i]) /\ Onto(p, idx .. k)

OfRule(t, from, to, rule) == {i \in from .. to : t[i].op \in Ops(rule)}

\* base_signature == opt_signature: from the position on up to k and l, the events of
\* the rule correspond one to one, in their order, and agree in op and group.
SameSignature(from, k, l, rule) ==
    LET left == OfRule(base, from, k, rule)  right == OfRule(opt, from, l, rule)
    IN  \E q \in [left -> right] :
            /\ \A j \in right : \E i \in left : q[i] = j
            /\ \A i, j \in left : i < j => q[i] < q[j]
            /\ \A i \in left :
                  /\ base[i].op = opt[q[i]].op
                  /\ GroupValue(base[i], rule.key) = GroupValue(opt[q[i]], rule.key)

\* _grouped_commutation_ok
GroupsKept(k, l) == \A rule \in KeyedRules : SameSignature(idx, k, l, rule)

CommutablePositions(t) == {i \in DOMAIN t : Commutes(t[i])}
ScopePositions(t, scope) == {i \in DOMAIN t : t[i].action \in scope}

-----------------------------------------------------------------------------
Init ==
    \E c \in Comparisons :
        /\ base = CanonicalTrace(c.base) /\ opt = CanonicalTrace(c.opt)
        /\ config = [rules |-> c.rules, scopes |-> c.scopes]
        /\ idx = 1 /\ verdict = "walking"

Decide(v) == verdict' = v /\ UNCHANGED << base, opt, config, idx >>
MoveTo(i) == idx' = i /\ UNCHANGED << base, opt, config, verdict >>

StrictlyEqual == verdict = "walking" /\ base = opt /\ Decide("strict")

LengthsDiffer == verdict = "walking" /\ Len(base) # Len(opt) /\ Decide("different")

\* The traces are being walked; the next events are the same, or they are not.
Walking == verdict = "walking" /\ base # opt /\ Len(base) = Len(opt) /\ idx <= Len(base)
AtDifference == Walking /\ base[idx] # opt[idx]

Same == Walking /\ base[idx] = opt[idx] /\ MoveTo(idx + 1)

BothCommute == Commutes(base[idx]) /\ Commutes(opt[idx]) /\ base[idx].phase = opt[idx].phase

\* Both events may commute: so may the runs they begin, whatever their phase.
CompareCommutable ==
    /\ AtDifference /\ BothCommute
    /\ \E k, l \in idx .. Len(base) :
        /\ RunOf(k, base, CommutablePositions(base)) /\ RunOf(l, opt, CommutablePositions(opt))
        /\ IF SameEvents(k, l) /\ GroupsKept(k, l)
           THEN MoveTo(Larger(k, l) + 1) ELSE Decide("different")

\* Mutant of OneScope: both events are of one action.
OneAction(s) == IsScopeOf(s, base[idx].action) /\ base[idx].action = opt[idx].action

OneScope(s) == IsScopeOf(s, base[idx].action) /\ IsScopeOf(s, opt[idx].action)

\* Both events are of one parallel scope: so are the runs they begin.
CompareScope ==
    /\ AtDifference /\ ~BothCommute
    /\ \E s \in Range(config.scopes), k, l \in idx .. Len(base) :
        /\ OneScope(s)
        /\ RunOf(k, base, ScopePositions(base, s)) /\ RunOf(l, opt, ScopePositions(opt, s))
        /\ IF SameEvents(k, l) THEN MoveTo(Larger(k, l) + 1) ELSE Decide("different")

NeitherApplies ==
    /\ AtDifference /\ ~BothCommute /\ \A s \in Range(config.scopes) : ~OneScope(s)
    /\ Decide("different")

WalkedThrough ==
    verdict = "walking" /\ base # opt /\ Len(base) = Len(opt) /\ idx > Len(base) /\ Decide("tolerant")

Next ==
    \/ StrictlyEqual \/ LengthsDiffer \/ Same \/ CompareCommutable \/ CompareScope
    \/ NeitherApplies \/ WalkedThrough

Spec == Init /\ [][Next]_vars

-----------------------------------------------------------------------------
(* Reference: which traces are equivalent                                  *)

InOneScope(x, y) ==
    \E s \in Range(config.scopes) : Cardinality(s) >= 2 /\ {x.action, y.action} \subseteq s

Independent(x, y) == InOneScope(x, y) \/ (Commutes(x) /\ Commutes(y))

\* opt is base, rearranged: only independent events change places.
Rearranged ==
    /\ Len(base) = Len(opt)
    /\ \E p \in [1 .. Len(base) -> 1 .. Len(base)] :
        /\ \A i \in 1 .. Len(base) : opt[p[i]] = base[i]
        /\ Onto(p, 1 .. Len(base))
        /\ \A i, j \in 1 .. Len(base) : i < j /\ p[j] < p[i] => Independent(base[i], base[j])

\* The groups of the rule come in the same order.
GroupOrderKept(rule) == SameSignature(1, Len(base), Len(opt), rule)

Events == Range(base) \cup Range(opt)

-----------------------------------------------------------------------------
(* Properties                                                              *)

\* Traces that pass have the same events; two of them only changed places where both
\* commute or a parallel scope has both; and the groups of a rule kept their order,
\* unless some of their events are of a scope.
PassedIsEquivalent ==
    verdict \in {"strict", "tolerant"} =>
        /\ Rearranged
        /\ \A rule \in KeyedRules :
               GroupOrderKept(rule) \/ \E x \in Events : x.op \in Ops(rule) /\ Places(x.action) # {}

\* Equivalent traces pass, unless an action of a scope has events that commute, events
\* that commute have different phases, or an action is in two scopes.
EquivalentPasses ==
    verdict = "different" =>
        \/ \E x \in Events : Commutes(x) /\ Places(x.action) # {}
        \/ \E x, y \in Events : Commutes(x) /\ Commutes(y) /\ x.phase # y.phase
        \/ \E x \in Events : Cardinality(Places(x.action)) > 1
        \/ ~Rearranged
        \/ \E rule \in KeyedRules : ~GroupOrderKept(rule)
=============================================================================
