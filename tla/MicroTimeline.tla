---------------------------- MODULE MicroTimeline ----------------------------
(***************************************************************************)
(* What the BLE and the API micro-refinement share: a line is what one      *)
(* action or batch does, a function from its phases to spans of time (in    *)
(* ms); a corridor becomes a sequence of lines.                             *)
(***************************************************************************)
EXTENDS Integers, Sequences, FiniteSets, Functions

None == ""                              \* a key the target does not give

Larger(a, b)  == IF a >= b THEN a ELSE b
Smaller(a, b) == IF a <= b THEN a ELSE b

Known(k) == k # None
SameKnown(k, l) == Known(k) /\ k = l

\* int(round(n / d)): halves go to the even neighbour.
Rounded(n, d) ==
    LET q == n \div d  r == n % d
    IN  IF 2 * r > d \/ (2 * r = d /\ q % 2 = 1) THEN q + 1 ELSE q

Span(t, ms) == [from |-> t, to |-> t + ms]

Length(s) == s.to - s.from

\* The time t lies in s, as the sweeps of the validators see it.
Covers(s, t) == s.from <= t /\ t < s.to

Spans(line) == Range(line)
Busy(line, t) == \E s \in Spans(line) : Covers(s, t)
End(line) == CHOOSE t \in {s.to : s \in Spans(line)} : \A s \in Spans(line) : s.to <= t

\* One phase ends before the next begins.
InOrder(line, order) ==
    \A i \in 1 .. Len(order) - 1 : line[order[i]].to <= line[order[i + 1]].from

\* The moments at which the lines change, and how many lines are busy at a time.
Moments(lines) ==
    UNION {{s.from : s \in Spans(lines[i])} \cup {s.to : s \in Spans(lines[i])} : i \in DOMAIN lines}
Depth(lines, t) == Cardinality({i \in DOMAIN lines : Busy(lines[i], t)})

\* Sorting by end and then by id gives the given order back.
CompletionKept(end, id) ==
    \A i, j \in DOMAIN end :
        i < j => end[i] < end[j] \/ (end[i] = end[j] /\ id[i] < id[j])
=============================================================================
