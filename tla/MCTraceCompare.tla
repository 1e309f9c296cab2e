---------------------------- MODULE MCTraceCompare ----------------------------
(***************************************************************************)
(* All traces of up to four events of two small alphabets, compared with     *)
(* their rearrangements and with traces that differ from those in an event.  *)
(***************************************************************************)
EXTENDS TraceCompare

Event(phase, op, target, action, endpoint) ==
    [phase |-> phase, op |-> op, target |-> target, action |-> action, endpoint |-> endpoint]

Stamped(e, n) ==
    [phase |-> e.phase, op |-> e.op, target |-> e.target, action |-> e.action,
     endpoint |-> e.endpoint, stamp |-> n]

write1 == Event("RUNTIME", "STATE_WRITE", "s1", "none", "none")
write2 == Event("RUNTIME", "STATE_WRITE", "s2", "none", "none")
setup == Event("SETUP", "STATE_WRITE", "s1", "none", "none")
call1 == Event("RUNTIME", "CLOUD_CALL", "h", "none", "e1")
call2 == Event("RUNTIME", "CLOUD_CALL", "h", "none", "e2")
readA == Event("RUNTIME", "BLE_OP", "d1", "a", "none")
readB == Event("RUNTIME", "BLE_OP", "d2", "b", "none")
readC == Event("RUNTIME", "BLE_OP", "d3", "c", "none")
writeA == Event("RUNTIME", "STATE_WRITE", "s1", "a", "none")

Rule(policy, ops, key) == [policy |-> policy, ops |-> ops, key |-> key]

\* What is told apart by the rules, and by the scopes.
RuleEvents == << write1, write2, setup, call1, call2 >>
ScopeEvents == << readA, readB, readC, writeA, write1 >>

Case(events, rules, scopes) == [events |-> events, rules |-> rules, scopes |-> scopes]

Cases ==
    {Case(RuleEvents, {Rule("commute", {"CLOUD_OP"}, "endpoint")}, << >>),
     Case(RuleEvents, {Rule("commute", {"CLOUD_HTTP_CALL", "STATE_WRITE"}, "target"),
                       Rule("strict", {"BLE_OP"}, "none")}, << >>),
     Case(ScopeEvents, {}, << {"a", "b"} >>),
     Case(ScopeEvents, {}, << {"a", "b"}, {"b", "c"} >>)}

Rearranging(t, p) == [i \in DOMAIN t |-> t[p[i]]]

\* Traces of the first to the fifth event of a case.
Pairs ==
    {<< s, Rearranging(s, p) >> : s \in [1 .. 4 -> 1 .. 5], p \in Permutations(1 .. 4)} \cup
    {<< s, [Rearranging(s, p) EXCEPT ![i] = e] >> :
        s \in [1 .. 3 -> 1 .. 5], p \in Permutations(1 .. 3), i \in 1 .. 3, e \in 1 .. 5} \cup
    ([1 .. 2 -> 1 .. 5] \X [1 .. 1 -> 1 .. 5])

Compare(p, c) ==
    [base |-> [i \in DOMAIN p[1] |-> Stamped(c.events[p[1][i]], 1)],
     opt |-> [i \in DOMAIN p[2] |-> Stamped(c.events[p[2][i]], 2)],
     rules |-> c.rules, scopes |-> c.scopes]

MCComparisons == {Compare(p, c) : p \in Pairs, c \in Cases}
=============================================================================
