------------------------------- MODULE ApiMicro -------------------------------
(***************************************************************************)
(* ConservativeAPIMicroRefiner (src/optimizer/api_micro_refinement.py): the  *)
(* phases of a batch of cloud requests or of local requests, which of them   *)
(* the next batch may run while the one before waits for its answer, the     *)
(* line the next batch of a corridor gets, and the validator that looks at   *)
(* the lines afterwards.                                                     *)
(*                                                                           *)
(* A step is a record [id, lane, class, latency, host, session, backoff]:    *)
(* one batch of requests.  A policy is the part of APIMicroRefinementPolicy  *)
(* that decides about overlaps and backoff; the keys of endpoints and        *)
(* buckets, which by default are not required, and the switches that keep    *)
(* their defaults are left out.                                              *)
(***************************************************************************)
EXTENDS MicroTimeline

-----------------------------------------------------------------------------
(* The phases of one batch: the least each lasts, and its share of the rest. *)

CloudPhases == << "auth", "budget", "prepare", "session", "send", "recv",
                  "backoff", "parse", "aggregate", "commit", "write" >>
HttpPhases == << "resolve", "session", "send", "recv", "parse", "cache", "write" >>

CloudSpecs(backoffWait) ==
    [auth      |-> [least |-> 10, weight |-> 5],
     budget    |-> [least |-> 8, weight |-> 4],
     prepare   |-> [least |-> 14, weight |-> 8],
     session   |-> [least |-> 8, weight |-> 4],
     send      |-> [least |-> 24, weight |-> 18],
     recv      |-> [least |-> 24, weight |-> 16],
     backoff   |-> [least |-> backoffWait, weight |-> 0],
     parse     |-> [least |-> 12, weight |-> 8],
     aggregate |-> [least |-> 10, weight |-> 6],
     commit    |-> [least |-> 8, weight |-> 4],
     write     |-> [least |-> 8, weight |-> 3]]

HttpSpecs ==
    [resolve |-> [least |-> 12, weight |-> 8],
     session |-> [least |-> 10, weight |-> 6],
     send    |-> [least |-> 18, weight |-> 14],
     recv    |-> [least |-> 18, weight |-> 12],
     parse   |-> [least |-> 12, weight |-> 8],
     cache   |-> [least |-> 10, weight |-> 5],
     write   |-> [least |-> 8, weight |-> 3]]

ApiPhases(s) == IF s.lane = "cloud" THEN CloudPhases ELSE HttpPhases

Specs(p, s) ==
    IF s.lane = "cloud" THEN CloudSpecs(IF s.backoff THEN p.backoffWait ELSE 0) ELSE HttpSpecs

\* _allocate_phase_durations: the least times scaled down when they do not fit,
\* else the rest by weight; the writing, which comes last, takes up what rounding leaves.
Allocate(total, specs) ==
    LET leastSum == SumFunction([phase \in DOMAIN specs |-> specs[phase].least])
        weightSum == SumFunction([phase \in DOMAIN specs |-> specs[phase].weight])
        share == [phase \in DOMAIN specs \ {"write"} |->
                    IF total <= leastSum THEN Rounded(specs[phase].least * total, leastSum)
                    ELSE specs[phase].least
                           + Rounded((total - leastSum) * specs[phase].weight, weightSum)]
    IN  [phase \in DOMAIN specs |->
            IF phase = "write" THEN total - SumFunction(share) ELSE share[phase]]

Durations(p, s) == Allocate(s.latency, Specs(p, s))

-----------------------------------------------------------------------------
(* What may overlap                                                        *)

SameHost(l, r) == SameKnown(l.host, r.host)

\* _cloud_prepare_overlap_admission and _local_prepare_overlap_admission
PrepareAdmitted(p, l, r) ==
    IF r.lane = "cloud"
    THEN /\ p.cloudOverlap /\ Known(l.host) /\ Known(r.host)
         /\ ~(l.backoff /\ SameHost(l, r))
    ELSE p.localOverlap /\ Known(l.session) /\ Known(r.session)

\* The phases that r may run while l waits for its answer.
Preparing(p, l, r) ==
    IF ~PrepareAdmitted(p, l, r) THEN {}
    ELSE IF r.lane = "http" THEN {"resolve", "session"}
    ELSE {"prepare"} \cup (IF p.authBudget THEN {"auth", "budget"} ELSE {})

-----------------------------------------------------------------------------
(* _expand_refined_steps                                                   *)

EarlierThan(phases, phase) ==
    {phases[i] : i \in {i \in DOMAIN phases : \E j \in DOMAIN phases : i < j /\ phases[j] = phase}}

\* The phases of the set from t on, one after the other.
Consecutive(phases, set, d, t) ==
    [phase \in set |-> Span(t + SumFunctionOnSet(d, set \cap EarlierThan(phases, phase)), d[phase])]

\* The line of the step after those that have one: what may be prepared ends with
\* the answer to the step before, the rest begins when that one has been written.
NextApiLine(p, steps, lines) ==
    LET k == Len(lines) + 1
        d == Durations(p, steps[k])
        phases == ApiPhases(steps[k])
        before == lines[k - 1]
        early == Preparing(p, steps[k - 1], steps[k])
        prepareTime == SumFunctionOnSet(d, early)
        prepared == Consecutive(phases, early, d, Larger(before.send.from, before.recv.to - prepareTime))
        others == Consecutive(phases, Range(phases) \ early, d, before.write.to)
    IN  IF k = 1 THEN Consecutive(phases, Range(phases), d, 0)
        ELSE [phase \in Range(phases) |-> IF phase \in early THEN prepared[phase] ELSE others[phase]]

-----------------------------------------------------------------------------
(* validate_refined_corridor                                               *)

ParseMax == 220        \* parse_async_safe_max_ms
AggregateMax == 180    \* aggregate_async_safe_max_ms
Lookahead == 1         \* max_lookahead_steps

ApiPhasesValid(s, line) ==
    /\ InOrder(line, ApiPhases(s))
    /\ Length(line.parse) <= ParseMax
    /\ Length(IF s.lane = "cloud" THEN line.aggregate ELSE line.cache) <= AggregateMax

First(s, line) == IF s.lane = "cloud" THEN line.auth ELSE line.resolve
Prepared(s, line) == IF s.lane = "cloud" THEN {line.budget, line.prepare} ELSE {line.session}

\* Of two neighbours, the right one begins before the left one has been written
\* only as admitted, while the left one waits for its answer, and after its backoff.
ApiPairValid(p, l, r, left, right) ==
    /\ First(r, right).from < left.write.to =>
           /\ PrepareAdmitted(p, l, r)
           /\ left.send.from <= First(r, right).from
           /\ \A s \in Prepared(r, right) : s.to <= left.recv.to
           /\ l.lane = "cloud" /\ Length(left.backoff) > 0 =>
                  left.backoff.to <= First(r, right).from
    /\ left.write.to <= right.send.from

ApiValid(p, steps, lines) ==
    /\ \A i \in DOMAIN lines : ApiPhasesValid(steps[i], lines[i])
    /\ CompletionKept([i \in DOMAIN lines |-> End(lines[i])], [i \in DOMAIN lines |-> steps[i].id])
    /\ \A t \in Moments(lines) : Depth(lines, t) <= Lookahead + 1
    /\ \A i \in 1 .. Len(lines) - 1 :
           ApiPairValid(p, steps[i], steps[i + 1], lines[i], lines[i + 1])
=============================================================================
