----------------------------- MODULE PatchedBatch -----------------------------
(***************************************************************************)
(* A batch of the plan as the scheduler and the trust layer change it:     *)
(* rows are appended to batch.fallback, each once (_append_fallback), and  *)
(* every row is read by the generated runner in that order.  Whether a     *)
(* guard holds is known only when the batch runs.                          *)
(***************************************************************************)
EXTENDS GroupLayout, GuardExpr

CONSTANTS
    InitialGroups,   \* parallel_groups of the batch
    Rows,            \* the fallback rows that may be appended
    GuardSets,       \* the guards [scope, expr] a batch may have, as sets
    RowBound         \* bound: rows appended to a batch with such guards

ASSUME PatchAssumption ==
    /\ InitialGroups \in Seq(Seq(Action))
    /\ Rows \subseteq FallbackRow
    /\ \A gs \in GuardSets : gs \subseteq [scope : SUBSET Action, expr : Sums]
    /\ RowBound \in [GuardSets -> Nat]

\* No action is in two groups of the batch, and no group is empty.  Grouping can break
\* the first where two batching rules claim one action (see BatchGroups).
GroupsOnce == Lists(InitialGroups, ToSet(FlattenSeq(InitialGroups)))

VARIABLES
    guards,     \* batch.guards
    fallback,   \* batch.fallback
    flags       \* what the metrics of the call make of the names

batchVars == << guards, fallback, flags >>

BatchInit == guards \in GuardSets /\ fallback = << >> /\ flags \in Flags

\* _append_fallback: "if row not in batch.fallback: append".
AppendFallback(row) ==
    /\ Len(fallback) < RowBound[guards]
    /\ row \notin ToSet(fallback)
    /\ fallback' = Append(fallback, row)
    /\ UNCHANGED << guards, flags >>

\* Every call of the service brings metrics of its own.
ObserveGuards ==
    /\ flags' \in Flags
    /\ UNCHANGED << guards, fallback >>

BatchNext == (\E row \in Rows : AppendFallback(row)) \/ ObserveGuards

BatchSpec == BatchInit /\ [][BatchNext]_batchVars

-----------------------------------------------------------------------------
(* Properties                                                              *)

\* failed_guards.  A group with a guard that raises is not run at all.
failed   == {g.scope : g \in {h \in guards : GuardOk(h.expr.text, flags) = "false"}}
segments == Reshape(InitialGroups, fallback)
runtime  == RuntimeWaves(InitialGroups, failed, fallback)

\* Cutting a batch neither loses, repeats nor reorders an action: the segments
\* laid end to end are the groups laid end to end, whatever rows in whatever order.
OrderKept == FlattenSeq(segments) = FlattenSeq(InitialGroups)

\* The row read last is obeyed: a segment that still holds two actions of its
\* scope from one group is no longer than its chunk size.
LastRowObeyed ==
    fallback # << >> /\ Last(fallback).mode \in BatchModes =>
        LET row == Last(fallback)
            cut == segments
        IN \A i \in DOMAIN cut : \A g \in ToSet(InitialGroups) :
              LET scope == IF row.scope = {} THEN ToSet(g) ELSE row.scope
                  hit   == ToSet(cut[i]) \intersect ToSet(g) \intersect scope
              IN Cardinality(hit) >= 2 => Len(cut[i]) <= ChunkSize(row)

\* Every action of the batch runs in exactly one wave: _run_group finds a result
\* for each action id when it builds its return value.
EachActionOnce ==
    LET waves == runtime
    IN \A a \in ToSet(FlattenSeq(InitialGroups)) :
          Cardinality({i \in DOMAIN waves : a \in waves[i]}) = 1

\* No two actions that a guard which does not hold speaks of run in one wave:
\* however it is written, and whatever rows cut the groups and take actions out of
\* the parallel set, what it was to serialise is serialised.
SerialisedApart ==
    LET waves == runtime
    IN \A g \in guards : g.expr.says[flags] = "false" =>
          \A i \in DOMAIN waves :
              Cardinality(IF g.scope = {} THEN waves[i] ELSE waves[i] \intersect g.scope) <= 1

\* The runner reads what the guard says, an unknown name where it is reached
\* included; and the scheduler, that copies the text, reads the same as long as it is
\* written with AND and OR only and says something.
GuardsReadAlike ==
    \A g \in guards :
        LET said == g.expr.says[flags]
        IN  /\ GuardOk(g.expr.text, flags) = said
            /\ PlainText(g.expr) /\ said # "unknown" =>
                   (GuardActive(g.expr.text, flags) <=> said = "true")

Plain == /\ \A g \in guards : g.expr.says[flags] = "true"
         /\ \A i \in DOMAIN fallback : fallback[i].mode \in OrderModes \union SerialModes

\* The orders the runner can produce are orders the trust layer tolerates: what
\* the validator puts first, the runner finishes first.
FollowsRuntime ==
    LET validator == ValidatorWaves(InitialGroups, fallback)
        waves     == runtime
        actions   == ToSet(FlattenSeq(InitialGroups))
    IN \A a, b \in actions : Precedes(validator, a, b) => Precedes(waves, a, b)

\* It holds while no guard fails and no row cuts groups or serialises a protocol.
FollowsRuntimeWhenPlain == Plain => FollowsRuntime
=============================================================================
