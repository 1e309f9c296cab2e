--------------------------- MODULE BatchScheduler ---------------------------
(***************************************************************************)
(* CrossProtocolScheduler.schedule (src/optimizer/m5_scheduler.py): from a  *)
(* graph of hard edges between actions to a sequence of batches.  The graph *)
(* is refused when it has a cycle, edges that others imply are removed, and *)
(* a ready list is then packed into batches, one action at a time, under    *)
(* limits on what a batch may hold.                                         *)
(*                                                                          *)
(* Which of the allowed actions is taken next, and when a batch that could  *)
(* take more is closed, is left open: the sort key, the corridor search and *)
(* the vetoes of the conservative mode only choose among what is allowed    *)
(* here, and every veto lets an empty batch take an action.                 *)
(***************************************************************************)
EXTENDS Integers, FiniteSets, FiniteSetsExt

CONSTANTS
    Action,
    CandidateEdges,  \* the pairs that may be hard edges, self-loops included
    Resource,        \* Action -> "BLE", "CLOUD", "LOCAL", "HA" or "UNKNOWN"
    ActionPhase,     \* Action -> "acquisition", "control", "verification", "writeback"
    BatchSafe,       \* actions that are batch-safe and no writebacks
    Fat,             \* actions with more MSSUs than the threshold
    Critical,        \* actions marked critical
    Slot,            \* Action -> [bucket, size]: the cloud request it may share
    SoftOrder,       \* pairs (before, after) the schedule prefers to keep
    MinGap,          \* the pairs of SoftOrder with a minimal gap
    Budgets,         \* BUDGET_K rules [scope, limit]
    NoOverlap,       \* NO_OVERLAP scopes
    TotalLimit, BleLimit, CloudLimit, LocalLimit, UnknownLimit,
    EdgeCap          \* transitive reduction is skipped above it (256)

ASSUME SchedulerAssumption ==
    /\ IsFiniteSet(Action)
    /\ CandidateEdges \subseteq Action \X Action
    /\ Resource \in [Action -> {"BLE", "CLOUD", "LOCAL", "HA", "UNKNOWN"}]
    /\ ActionPhase \in [Action -> {"acquisition", "control", "verification", "writeback"}]
    /\ BatchSafe \subseteq Action /\ Fat \subseteq Action /\ Critical \subseteq Action
    /\ \A a \in Action : Slot[a].size \in Nat \ {0}
    /\ SoftOrder \subseteq Action \X Action /\ MinGap \subseteq SoftOrder
    /\ {TotalLimit, BleLimit, CloudLimit, LocalLimit, UnknownLimit} \subseteq Nat \ {0}
    /\ \A r \in Budgets : r.scope \subseteq Action /\ r.limit \in Nat \ {0}
    /\ EdgeCap \in Nat

VARIABLES
    stage,       \* "project", "reduce", "batch", "done" or "rejected"
    given,       \* the hard edges of the input
    out,         \* the edges left in the graph
    todo,        \* the edges transitive reduction has still to look at
    indegree,    \* per action, edges from actions not done
    ready,       \* actions not done with indegree 0
    selected,    \* the batch being filled
    occupancy,   \* total_occupancy of that batch
    cloudCount,  \* cloud_count of that batch
    batchOf,     \* the batch an action is in; 0: not done
    batches,     \* number of batches closed
    forced       \* the batches that hold a forced pick

graph == << given, out, todo >>
batch == << selected, occupancy, cloudCount >>
plan  == << batchOf, batches, forced >>
vars  == << stage, graph, indegree, ready, batch, plan >>

Done == {a \in Action : batchOf[a] # 0}

\* A hard edge from an action to itself is dropped when the graph is built.
Proper(edges) == {e \in edges : e[1] # e[2]}

Before(edges, a) == {x \in Action : << x, a >> \in edges}

\* A cycle: a set of actions each of which has a predecessor in the set.
Cyclic(edges) ==
    \E S \in (SUBSET Action) \ {{}} : \A a \in S : Before(edges, a) \cap S # {}

\* A path of at least one edge leads from a to b: b is in every set that holds
\* the successors of a and is closed under the edges.
Reaches(edges, a, b) ==
    \A S \in SUBSET Action :
        (\A e \in edges : (e[1] = a \/ e[1] \in S) => e[2] \in S) => b \in S

-----------------------------------------------------------------------------
(* The graph                                                               *)

Init ==
    /\ stage = "project"
    /\ given \in SUBSET CandidateEdges
    /\ out = {} /\ todo = {}
    /\ indegree = [a \in Action |-> 0]
    /\ ready = {} /\ selected = {} /\ occupancy = 0 /\ cloudCount = 0
    /\ batchOf = [a \in Action |-> 0] /\ batches = 0 /\ forced = {}

\* The graph is projected on the actions; a cycle ends the call with an error.
ProjectHardGraph ==
    /\ stage = "project"
    /\ out' = Proper(given)
    /\ indegree' = [a \in Action |-> Cardinality(Before(out', a))]
    /\ stage' = IF Cyclic(out') THEN "rejected" ELSE "reduce"
    /\ todo' = IF Cyclic(out') \/ Cardinality(out') > EdgeCap THEN {} ELSE out'
    /\ UNCHANGED << given, ready, batch, plan >>

\* Mutant of Implied: the search does not skip the edge it looks at.
ImpliedByItself(e) == Reaches(out, e[1], e[2])

Implied(e) == Reaches(out \ {e}, e[1], e[2])

\* Mutant of TransitiveReduce: the edge goes, the counter stays.
TransitiveReduceStaleIndegree ==
    /\ stage = "reduce"
    /\ \E e \in todo :
        /\ todo' = todo \ {e}
        /\ out' = IF Implied(e) THEN out \ {e} ELSE out
    /\ UNCHANGED << stage, given, indegree, ready, batch, plan >>

\* Mutant of TransitiveReduce: the counter goes, the edge stays.
TransitiveReduceKeepsEdge ==
    /\ stage = "reduce"
    /\ \E e \in todo :
        /\ todo' = todo \ {e}
        /\ indegree' = IF Implied(e) THEN [indegree EXCEPT ![e[2]] = Max({0, @ - 1})]
                                     ELSE indegree
    /\ UNCHANGED << stage, given, out, ready, batch, plan >>

\* An edge is looked at against what the earlier ones left.
TransitiveReduce ==
    /\ stage = "reduce"
    /\ \E e \in todo :
        /\ todo' = todo \ {e}
        /\ out' = IF Implied(e) THEN out \ {e} ELSE out
        /\ indegree' = IF Implied(e) THEN [indegree EXCEPT ![e[2]] = Max({0, @ - 1})]
                                     ELSE indegree
    /\ UNCHANGED << stage, given, ready, batch, plan >>

BeginBatches ==
    /\ stage = "reduce" /\ todo = {}
    /\ ready' = {a \in Action : indegree[a] = 0}
    /\ stage' = IF Action = {} THEN "done" ELSE "batch"
    /\ UNCHANGED << graph, indegree, batch, plan >>

-----------------------------------------------------------------------------
(* What a batch may hold                                                   *)

Of(resource) == {a \in selected : Resource[a] = resource}

\* Mutant of CloudIncrement: the request is opened one action late.
CloudIncrementLate(a) ==
    LET inBucket == {x \in Of("CLOUD") : Slot[x].bucket = Slot[a].bucket}
    IN  IF (Cardinality(inBucket) + 1) % Slot[a].size = 0 THEN 1 ELSE 0

\* _cloud_request_increment: the action opens a new request of its bucket.
CloudIncrement(a) ==
    LET inBucket == {x \in Of("CLOUD") : Slot[x].bucket = Slot[a].bucket}
    IN  IF Cardinality(inBucket) % Slot[a].size = 0 THEN 1 ELSE 0

\* _local_frontier_increment: local reads that go together count once.
GoTogether(a, x) ==
    /\ x \in BatchSafe /\ ActionPhase[x] = ActionPhase[a]
    /\ << x, a >> \notin SoftOrder /\ << a, x >> \notin SoftOrder

LocalIncrement(a) ==
    IF /\ a \in BatchSafe /\ Of("LOCAL") # {}
       /\ \A x \in Of("LOCAL") : GoTogether(a, x)
    THEN 0 ELSE 1

Increment(a) ==
    IF Resource[a] = "CLOUD" THEN CloudIncrement(a)
    ELSE IF Resource[a] = "LOCAL" THEN LocalIncrement(a)
    ELSE 1

\* Mutant of PhaseBarrier: verification waits for the ready control actions only.
PhaseBarrierReadyOnly(a) ==
    \/ /\ ActionPhase[a] = "verification"
       /\ \E k \in ready : ActionPhase[k] = "control"
    \/ /\ ActionPhase[a] = "control"
       /\ \E v \in selected : ActionPhase[v] = "verification"

\* Mutant of PhaseBarrier: control actions wait for ready verification too.
PhaseBarrierBothWays(a) ==
    \/ /\ ActionPhase[a] = "verification"
       /\ \E c \in Action \ Done : ActionPhase[c] = "control"
    \/ /\ ActionPhase[a] = "control"
       /\ \E v \in ready : ActionPhase[v] = "verification"

\* _phase_barrier_blocks: verification waits for every control action, and no
\* control action joins a batch that verifies.
PhaseBarrier(a) ==
    \/ /\ ActionPhase[a] = "verification"
       /\ \E c \in Action \ Done : c # a /\ ActionPhase[c] = "control"
    \/ /\ ActionPhase[a] = "control"
       /\ \E v \in selected : ActionPhase[v] = "verification"

\* _candidate_allowed_in_batch
Allowed(a) ==
    /\ selected # {} => /\ Cardinality(Of("UNKNOWN")) < UnknownLimit
                        /\ selected \cap Fat = {} /\ a \notin Fat
                        /\ Resource[a] # "UNKNOWN"
    /\ ~PhaseBarrier(a)
    /\ occupancy + Increment(a) <= TotalLimit
    /\ Resource[a] = "BLE" => Cardinality(Of("BLE")) < BleLimit
    /\ Resource[a] = "CLOUD" => cloudCount + Increment(a) <= CloudLimit
    /\ Resource[a] = "LOCAL" => Cardinality(Of("LOCAL")) < LocalLimit
    /\ \A r \in Budgets : a \in r.scope => Cardinality(selected \cap r.scope) < r.limit
    /\ \A scope \in NoOverlap : a \in scope => selected \cap scope = {}
    /\ \A x \in selected : << x, a >> \notin MinGap

-----------------------------------------------------------------------------
(* Filling and closing batches                                             *)

Pick(a) ==
    /\ stage = "batch" /\ a \in ready \ selected /\ Allowed(a)
    /\ selected' = selected \cup {a}
    /\ occupancy' = occupancy + Increment(a)
    /\ cloudCount' = IF Resource[a] = "CLOUD" THEN cloudCount + Increment(a) ELSE cloudCount
    /\ UNCHANGED << stage, graph, indegree, ready, plan >>

\* Mutant of Close: what becomes ready replaces what was ready.
CloseForgetsReady(S) ==
    /\ batches' = batches + 1
    /\ batchOf' = [a \in Action |-> IF a \in S THEN batches + 1 ELSE batchOf[a]]
    /\ indegree' = [a \in Action |-> indegree[a] - Cardinality(Before(out, a) \cap S)]
    /\ ready' = {a \in Action : indegree[a] > 0 /\ indegree'[a] = 0}
    /\ stage' = IF \A a \in Action : batchOf'[a] # 0 THEN "done" ELSE "batch"
    /\ selected' = {} /\ occupancy' = 0 /\ cloudCount' = 0
    /\ UNCHANGED graph

\* Actions S become the next batch, and what waited only for them is ready.
Close(S) ==
    /\ batches' = batches + 1
    /\ batchOf' = [a \in Action |-> IF a \in S THEN batches + 1 ELSE batchOf[a]]
    /\ indegree' = [a \in Action |-> indegree[a] - Cardinality(Before(out, a) \cap S)]
    /\ ready' = (ready \ S) \cup {a \in Action : indegree[a] > 0 /\ indegree'[a] = 0}
    /\ stage' = IF \A a \in Action : batchOf'[a] # 0 THEN "done" ELSE "batch"
    /\ selected' = {} /\ occupancy' = 0 /\ cloudCount' = 0
    /\ UNCHANGED graph

CloseBatch ==
    /\ stage = "batch" /\ selected # {}
    /\ Close(selected)
    /\ UNCHANGED forced

\* _candidate_soft_blockers of an empty batch: soft predecessors not done.
Blockers(a) == {x \in Action \ Done : << x, a >> \in SoftOrder}

\* No ready action is allowed: the one with the fewest blockers, critical ones
\* first, is put into a batch of its own.
ForcedPick(a) ==
    /\ stage = "batch" /\ selected = {} /\ a \in ready
    /\ \A x \in ready : ~Allowed(x)
    /\ \A x \in ready :
        \/ Cardinality(Blockers(a)) < Cardinality(Blockers(x))
        \/ /\ Cardinality(Blockers(a)) = Cardinality(Blockers(x))
           /\ x \in Critical => a \in Critical
    /\ Close({a})
    /\ forced' = forced \cup {batches'}

Stopped == stage \in {"done", "rejected"} /\ UNCHANGED vars

Schedule ==
    \/ ProjectHardGraph \/ TransitiveReduce \/ BeginBatches
    \/ \E a \in Action : Pick(a) \/ ForcedPick(a)
    \/ CloseBatch

Next == Schedule \/ Stopped

Spec == Init /\ [][Next]_vars

\* schedule is a loop of one synchronous call.
FairSpec == Spec /\ WF_vars(Schedule)

-----------------------------------------------------------------------------
(* Properties                                                              *)

\* The counters of the loop (indegree, occupancy, cloud_count) stay in range and
\* the batch being filled is taken from the ready list.
TypeOK ==
    /\ stage \in {"project", "reduce", "batch", "done", "rejected"}
    /\ given \subseteq CandidateEdges /\ out \subseteq Proper(given) /\ todo \subseteq out
    /\ indegree \in [Action -> Nat]
    /\ ready \subseteq Action /\ selected \subseteq ready
    /\ occupancy \in 0 .. TotalLimit /\ cloudCount \in 0 .. CloudLimit
    /\ batchOf \in [Action -> 0 .. batches] /\ batches \in Nat
    /\ forced \subseteq 1 .. batches

\* Every hard edge of the input, those that transitive reduction took out of the
\* graph included, is kept by the batches: what comes before is in an earlier one.
HardOrderKept ==
    \A e \in Proper(given) :
        batchOf[e[2]] # 0 => batchOf[e[1]] # 0 /\ batchOf[e[1]] < batchOf[e[2]]

\* The error "unresolved hard-edge cycle" of the batch loop cannot be reached:
\* while actions remain, one is ready.
NeverStuck == stage = "batch" => ready # {}

\* The requests a set of actions sends: of every bucket one per Slot.size actions.
Members(S, b) == {a \in S : Resource[a] = "CLOUD" /\ Slot[a].bucket = b}
SizeOf(S, b)  == Max({Slot[a].size : a \in Members(S, b)})

RequestsOf(S) ==
    UNION {{b} \X (0 .. (Cardinality(Members(S, b)) - 1) \div SizeOf(S, b))
              : b \in {Slot[a].bucket : a \in {x \in S : Resource[x] = "CLOUD"}}}

Requests(S) == Cardinality(RequestsOf(S))

\* The actions of a bucket agree on its size, as they do under the rules of one provider.
SlotsAgree ==
    \A a, x \in Action :
        /\ Resource[a] = "CLOUD" /\ Resource[x] = "CLOUD" /\ Slot[a].bucket = Slot[x].bucket
        => Slot[a].size = Slot[x].size

\* What runs at once: those requests, the local reads as one, and every other action.
Units(S) ==
    Requests(S) + Cardinality({a \in S : Resource[a] \notin {"CLOUD", "LOCAL"}})
                + (IF \E a \in S : Resource[a] = "LOCAL" THEN 1 ELSE 0)

\* The counters of the loop are incremental; measured afresh on the whole batch, the
\* cloud requests keep to cloud_limit and everything together to total_limit.
LimitsKept == Requests(selected) <= CloudLimit /\ Units(selected) <= TotalLimit

\* A verification that does not come after every control action was forced, and the
\* plan says so: by itself, picking never puts it into an earlier batch or the same.
VerificationAfterControl ==
    \A v, c \in Action :
        /\ ActionPhase[v] = "verification" /\ ActionPhase[c] = "control"
        /\ batchOf[v] # 0 /\ (batchOf[c] = 0 \/ batchOf[v] <= batchOf[c])
        => batchOf[v] \in forced

\* A pick is forced only against a real contradiction of the input: an unfinished
\* control action that hard edges put after a verification that is ready.
ForcedOnlyWhenBlocked ==
    [][forced' # forced =>
        \E v \in ready, c \in Action \ Done :
            /\ ActionPhase[v] = "verification" /\ ActionPhase[c] = "control"
            /\ Reaches(given, v, c)]_vars

\* Every input gets an answer: a full plan, or the error for a cycle.
ScheduleEnds == <>(stage \in {"done", "rejected"})
=============================================================================
