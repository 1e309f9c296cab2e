----------------------------- MODULE BatchGroups -----------------------------
(***************************************************************************)
(* CrossProtocolScheduler._build_parallel_groups                           *)
(* (src/optimizer/m5_scheduler.py): the selected actions of a batch become *)
(* groups, which the generated runner takes one after the other and whose  *)
(* members it runs together.                                               *)
(*                                                                         *)
(* Soft-order pairs split the selection into layers.  In a layer, cloud    *)
(* reads that a rule lets share a request are chunked into buckets, local  *)
(* reads that stand next to each other stay together, and whatever is left *)
(* runs by itself.  With conservative grouping there is one layer, and its *)
(* groups are sorted by the rank of their first action.                    *)
(***************************************************************************)
EXTENDS ActionLists

CONSTANTS
    CloudRead,       \* cloud actions that are no writebacks
    LocalRead,       \* local actions that are batch-safe and no writebacks
    Idempotent,
    GroupValue,      \* group key -> action -> the bucket it names, or NoBucket
    NoBucket,
    Orders,          \* the selections to group: sequences of distinct actions
    BatchRuleLists,  \* lists of rules [scope, key, size, idempotentOnly]
    SessionRuleLists,
    SoftOrders,      \* sets of pairs (before, after)
    Ranks            \* per action, its place among the selection; conservative mode

Rule == [scope : SUBSET Action, key : DOMAIN GroupValue, size : Nat \ {0}, idempotentOnly : BOOLEAN]

ASSUME GroupsAssumption ==
    /\ CloudRead \cup LocalRead \cup Idempotent \subseteq Action
    /\ CloudRead \cap LocalRead = {}
    /\ \A s \in Orders : s \in Seq(Action) \ {<< >>} /\ IsInjective(s)
    /\ BatchRuleLists \cup SessionRuleLists \subseteq Seq(Rule)
    /\ \A pairs \in SoftOrders : pairs \subseteq Action \X Action
    /\ Ranks \subseteq [Action -> Nat]

VARIABLES
    conservative,
    selected,
    batchRules, sessionRules,
    soft,
    indegree,    \* per action, soft predecessors not in a layer yet
    remaining,   \* selected actions not in a layer yet
    groups

config    == << conservative, selected, batchRules, sessionRules, soft >>
groupVars == << config, indegree, remaining, groups >>

\* adjacency: the pairs between two different selected actions
SoftBefore(x, a) == << x, a >> \in soft /\ x # a /\ {x, a} \subseteq ToSet(selected)

GroupsInit ==
    /\ conservative \in BOOLEAN /\ selected \in Orders
    /\ batchRules \in BatchRuleLists /\ sessionRules \in SessionRuleLists
    /\ soft \in SoftOrders
    /\ indegree = [a \in Action |-> Cardinality({x \in Action : SoftBefore(x, a)})]
    /\ remaining = ToSet(selected)
    /\ groups = << >>

-----------------------------------------------------------------------------
(* Buckets: the cloud reads of a layer that share requests                 *)

Batchable(rule, a) ==
    /\ a \in rule.scope \cap CloudRead
    /\ rule.idempotentOnly => a \in Idempotent
    /\ GroupValue[rule.key][a] # NoBucket

Members(rule, layer, a) ==
    Only(layer, {x \in Action : Batchable(rule, x) /\ GroupValue[rule.key][x] = GroupValue[rule.key][a]})

\* The buckets of two and more, each where its first member stands.
Buckets(rule, layer, size) ==
    LET leaders == Only(layer, {a \in Action : /\ Batchable(rule, a)
                                               /\ Len(Members(rule, layer, a)) > 1
                                               /\ Members(rule, layer, a)[1] = a})
    IN  [k \in DOMAIN leaders |-> [members |-> Members(rule, layer, leaders[k]), size |-> size]]

\* A session rule borrows the smallest size of the batching rules it meets.
SessionSize(rule, layer) ==
    LET met == {r \in ToSet(batchRules) : r.scope \cap rule.scope \cap ToSet(layer) # {}}
    IN  IF met = {} THEN 4 ELSE Min({r.size : r \in met})

BatchingBuckets(layer) ==
    LET own == [k \in DOMAIN batchRules |-> Buckets(batchRules[k], layer, batchRules[k].size)]
        session == [k \in DOMAIN sessionRules |->
                       Buckets(sessionRules[k], layer, SessionSize(sessionRules[k], layer))]
    IN  IF FlattenSeq(own) # << >> THEN FlattenSeq(own) ELSE FlattenSeq(session)

Chunks(bucket) ==
    [k \in 1 .. ((Len(bucket.members) + bucket.size - 1) \div bucket.size) |->
        SubSeq(bucket.members, (k - 1) * bucket.size + 1,
                               Min({k * bucket.size, Len(bucket.members)}))]

-----------------------------------------------------------------------------
(* Groups                                                                  *)

\* Mutant of Leftover: the local reads pending at the end are forgotten.
LeftoverNoTail(layer, assigned) ==
    LET joins(i)  == i \in DOMAIN layer /\ layer[i] \in LocalRead \ assigned
        starts    == {i \in DOMAIN layer : layer[i] \notin assigned /\ ~(joins(i) /\ joins(i - 1))}
        last(i)   == IF joins(i) THEN Max({j \in i .. Len(layer) : \A k \in i .. j : joins(k)}) ELSE i
        kept      == {i \in starts : ~joins(i) \/ last(i) < Len(layer)}
        order     == Ranked(kept, {p \in kept \X kept : p[1] < p[2]})
    IN  [n \in DOMAIN order |-> SubSeq(layer, order[n], last(order[n]))]

\* Mutant of Leftover: actions that have a bucket get a group besides.
LeftoverAssignedToo(layer, assigned) == [i \in DOMAIN layer |-> << layer[i] >>]

\* append_unassigned_groups: a run of local reads is a group, others stand alone.
Leftover(layer, assigned) ==
    LET joins(i) == i \in DOMAIN layer /\ layer[i] \in LocalRead \ assigned
        starts   == {i \in DOMAIN layer : layer[i] \notin assigned /\ ~(joins(i) /\ joins(i - 1))}
        last(i)  == IF joins(i) THEN Max({j \in i .. Len(layer) : \A k \in i .. j : joins(k)}) ELSE i
        order    == Ranked(starts, {p \in starts \X starts : p[1] < p[2]})
    IN  [n \in DOMAIN order |-> SubSeq(layer, order[n], last(order[n]))]

GroupSelected(layer) ==
    IF layer = << >> THEN << >>
    ELSE IF batchRules = << >> /\ sessionRules = << >> THEN << layer >>
    ELSE LET buckets == BatchingBuckets(layer)
             chunks  == FlattenSeq([k \in DOMAIN buckets |-> Chunks(buckets[k])])
         IN  chunks \o Leftover(layer, ToSet(FlattenSeq(chunks)))

\* groups.sort: stable, by the least rank in the group
Sorted(gs, rank) ==
    LET least(i) == Min({rank[a] : a \in ToSet(gs[i])})
        ahead    == {p \in (DOMAIN gs) \X (DOMAIN gs) :
                        \/ least(p[1]) < least(p[2])
                        \/ least(p[1]) = least(p[2]) /\ p[1] < p[2]}
        order    == Ranked(DOMAIN gs, ahead)
    IN  [n \in DOMAIN gs |-> gs[order[n]]]

GroupConservatively ==
    /\ conservative /\ remaining # {}
    /\ \E rank \in Ranks : groups' = Sorted(GroupSelected(selected), rank)
    /\ remaining' = {}
    /\ UNCHANGED << config, indegree >>

\* Mutant of Layer: an action goes with its last predecessor.
LayerOneEarly(rest) == Only(selected, {a \in rest : indegree[a] <= 1})

\* The actions nothing holds back; on a cycle of soft-order pairs, the first one left.
Layer(rest) ==
    LET free == Only(selected, {a \in rest : indegree[a] = 0})
    IN  IF free # << >> THEN free
        ELSE << Only(selected, rest)[1] >>

GroupLayer ==
    /\ ~conservative /\ remaining # {}
    /\ LET layer == Layer(remaining) IN
        /\ groups' = groups \o GroupSelected(layer)
        /\ remaining' = remaining \ ToSet(layer)
        /\ indegree' = [a \in Action |->
              Max({0, indegree[a] - Cardinality({x \in ToSet(layer) : SoftBefore(x, a)})})]
    /\ UNCHANGED config

Stopped == remaining = {} /\ UNCHANGED groupVars

Grouping == GroupConservatively \/ GroupLayer

GroupsNext == Grouping \/ Stopped

GroupsSpec == GroupsInit /\ [][GroupsNext]_groupVars

-----------------------------------------------------------------------------
(* Properties                                                              *)

\* No action is batched by two rules.
Disjoint(rules) ==
    \A i, j \in DOMAIN rules : i # j =>
        \A a \in Action : ~(Batchable(rules[i], a) /\ Batchable(rules[j], a))

Once == Lists(groups, ToSet(selected) \ remaining)

\* Buckets, chunks, local runs and single groups together leave no selected action
\* out, bring none in that is not selected, leave no group empty (the runner would
\* look up the first action of one) and, unless two rules claim the same action,
\* take every action once.
PlacedOnce ==
    /\ ToSet(FlattenSeq(groups)) = ToSet(selected) \ remaining
    /\ << >> \notin ToSet(groups)
    /\ Disjoint(batchRules) /\ Disjoint(sessionRules) => Once

\* An action that a cycle of soft-order pairs leads to: going back along the pairs
\* need not come to an end.
Tangled(a) ==
    \E S \in SUBSET ToSet(selected) :
        a \in S /\ \A y \in S : \E x \in S : SoftBefore(x, y)

\* Breaking a cycle of soft-order pairs costs only the actions the cycle leads to:
\* every other pair of the batch is kept by the groups, buckets or not.
SoftOrderKept ==
    ~conservative =>
        \A x, y \in Action : SoftBefore(x, y) /\ ~Tangled(y) =>
            \A i, j \in DOMAIN groups :
                x \in ToSet(groups[i]) /\ y \in ToSet(groups[j]) => i < j

\* tests/test_m5_scheduler.py:252 flattens the plan and expects every action once; an
\* action that two batching rules claim comes out in two groups.
GroupedOnce == Once
=============================================================================
