---------------------------- MODULE MCBatchGroups ----------------------------
(* Three cloud reads, two local reads and an action of another kind, picked   *)
(* in three orders; rules that overlap, that name another key or size, that   *)
(* want idempotent actions; soft-order pairs with and without a cycle.        *)
EXTENDS BatchGroups

CONSTANTS q1, q2, q3, h1, h2, w

MCAction == {q1, q2, q3, h1, h2, w}

MCGroupValue == [
    host |-> [a \in MCAction |-> IF a \in {q1, q2, q3} THEN q1 ELSE NoBucket],
    endpoint |-> [a \in MCAction |-> IF a \in {q1, q3} THEN q1 ELSE IF a = q2 THEN q2 ELSE NoBucket]]

MCOrders == {<< q1, q2, q3, h1, w, h2 >>, << h1, h2, q3, q1, w, q2 >>, << q2, h1, h2, q1 >>}

RuleOf(scope, key, size, idempotentOnly) ==
    [scope |-> scope, key |-> key, size |-> size, idempotentOnly |-> idempotentOnly]

MCBatchRuleLists == {
    << >>,
    << RuleOf({q1, q2, q3, h1}, "host", 2, FALSE) >>,
    << RuleOf(MCAction, "host", 2, TRUE) >>,
    << RuleOf({q1, q3}, "endpoint", 1, FALSE), RuleOf({q2, h2}, "host", 3, FALSE) >>,
    << RuleOf({q1, q2}, "host", 2, FALSE), RuleOf({q2, q3}, "host", 2, FALSE) >>}

MCSessionRuleLists == {<< >>, << RuleOf({q1, q2, q3}, "host", 1, FALSE) >>}

MCSoftOrders == SUBSET {<< q1, q2 >>, << q2, q3 >>, << q3, q2 >>, << h1, w >>, << q3, h2 >>}

MCRanks == {[a \in MCAction |-> CASE a = q1 -> 1 [] a = q2 -> 2 [] a = q3 -> 3
                                 [] a = h1 -> 4 [] a = w -> 5 [] OTHER -> 6],
            [a \in MCAction |-> CASE a = w -> 1 [] a = h2 -> 2 [] a = q3 -> 3
                                 [] a = q1 -> 4 [] a = h1 -> 5 [] OTHER -> 6]}
=============================================================================
