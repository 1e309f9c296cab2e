# FloWeaver in TLA+

FloWeaver turns a Home Assistant automation ("virtual device" routine) into an
execution plan of batches and parallel groups, checks the plan against replays of
the original, repairs it, and renders an integration that executes it.  This
directory models the parts of it in which order, interleaving and bookkeeping
decide correctness, checks them with TLC on small instances, and proves the
central facts with TLAPS for all values of the constants.

All paths below are relative to `src/`; m4, m5, m6, m7 stand for
`optimizer/m4_typed_dag.py`, `optimizer/m5_scheduler.py`, `optimizer/m6_trust.py` and
`optimizer/m7_component_assembler.py`.

## 1. The system

The program is a pipeline.  Each stage takes the JSON artefact of the one before it;
only the rendered integration runs concurrently.

| part | code | state it keeps | operations | models |
|---|---|---|---|---|
| scoping (M-1), observation (M0) | `optimizer/m_minus1_scoping.py`, `m0_observation.py` | none beyond its output | normalise a target; record a baseline trace | - |
| markers (M1), detector builder | `optimizer/m1_*.py` | detector cache (LLM) | match syntax trees; ask an endpoint, retry, cache | planned (retry and cache) |
| reduction (M2), MSSU (M3) | `optimizer/m2_reduction.py`, `m3_mssu.py` | graphs | reduce, close, claim, prune | planned |
| typed DAG (M4) | m4 | hard edges between MSSUs, demoted edges | collect, replace, break cycles, hand over | `TypedDag` |
| scheduler (M5) | m5 | hard graph, indegree, ready list, the batch being filled with its counters | cycle check, transitive reduction, pick, force, close; grouping | `BatchScheduler`, `BatchGroups` |
| micro refinements | `optimizer/ble_micro_refinement.py`, `api_micro_refinement.py`, `combined_micro_refinement.py` | corridors, lines, savings, timeline | find, build, validate, resolve, walk, validate | `MicroTimeline`, `BleMicro`, `ApiMicro`, `MicroRefinement` |
| trust layer (M6) | m6 | plan, replays, DAG, patch history | compare, patch, replan, finalise | `TrustLoop`, `GroupLayout`, `PatchedBatch`, `GuardExpr` |
| assembler (M7) | m7 | none (renders text) | render the files of an integration | the rendered code, see below |
| rendered runner | text in m7 | tasks, guards, waits, event trace, rate controller | run a plan | `PlanRunner`, `PlanContract`, `RateController` |
| rendered service | text in m7 | `hass.data` runtime, service, shared trace, trace file | set up, unload, call, export | `VDevService` |
| trace comparison | `runtime/trace.py` | place in two traces | canonical form; walk with commutable runs and parallel scopes | `TraceCompare` |
| profile builder | `profile_builder/` | evidence bank, rule life cycle | discover, cluster, gate, harden | planned (gate, hardening) |
| alignment and counterexample layers | `alignment_layer/`, `counterexample_layer/` | search frontiers | align; symbolic witnesses | planned |
| CLI, scripts, data, vendored snapshots | `floweaver_cli.py`, `scripts/`, `data/` | - | - | out of scope |

How they interact.  M4 hands a graph without cycles to M5, and the target its orders to both.
M5 produces batches of groups, and rows (`fallback`, `guards`,
`batching_rules`) that say how a group is to be altered when it runs.  M6 replays the
plan through callbacks, appends rows, or asks M5 for another plan, and compares traces
(`compare_traces`) under the orders it believes the runner keeps.  The pipeline may then let the
micro refinements overlap neighbouring batches; if their last validation fails it keeps the
plan as it was, without a word.  M7 writes the plan into an
integration; there one `PlanRunner` per config entry runs every call, its tasks share
one event trace and, per batch, one `RateController`.

What is hard here, and what makes each part correct:

- *Rate controller*: tasks that sleep for the same token wake together; 429s change
  rates and backoffs of two buckets at once.  Right when no bucket is overdrawn, no
  window of time lets more calls through than the configuration earns, no
  backoff is cut short, and nobody waits for ever.
- *Batch layout*: rows are appended in any order by two components and read by two
  pieces of code that must agree.  Right when nothing is lost, doubled or reordered,
  guards still separate what they were to separate, however they are written, and the two
  layouts, and the two parsers of guards, agree.
- *Plan runner*: failure and cancellation arrive between any two awaits.  Right when a
  call leaves no task behind, reports honestly, always ends, and keeps the plan's order.
- *Service*: calls overlap, entries unload and reload, exports are written by threads,
  a restart happens anywhere.  Right when the trace shown is the trace written, and an
  export is of the run it is named after.
- *Repair loop*: five variables (plan, replays, DAG, scopes, log) are updated apart.
  Right when what it returns belongs together, and the log tells what the plan carries.
- *Trace comparison*: two traces are walked by hand with windows of two kinds.  Right when what
  passes is a rearrangement the rules allow, and what the rules allow passes.
- *Typed DAG*: cycles are broken twice, at two levels, by edges of different worth, and the
  scheduler then adds orders again.  Right when data gives way last, only edges on cycles
  give way, and a refusal has a reason.
- *Micro refinements*: three files compute the same times, not quite alike, and two validators check
  what two generators built.  Right when the overlaps are harmless, the time saved is no less than promised,
  conflicts are won by the larger saving, and refinements are not thrown away for nothing.
- *Scheduler*: edges, indegrees, ready list and batch counters are maintained by hand
  and incrementally.  Right when every hard edge of the input, removed ones included, is
  kept, the limits hold, verification comes last, and the loop always ends.
- *Grouping*: layers, buckets, chunks, runs of local reads and leftovers are assembled
  by index arithmetic.  Right when each action is in one group and soft order holds.

`PROJECT.json` lists every component (`components`), each hazard at its line with the
properties aimed at it (`hazards`), and the lines every definition models (`map`).

## 2. The modules

```
 TypedDag --EXTENDS--> BatchScheduler ... BatchGroups     M4, M5: edges, batches, groups of a batch
                                             |  (a plan)   BatchGroups, GroupLayout --EXTENDS--> ActionLists
                         +...................+
                         |                   |
 MicroRefinement --EXTENDS--> BleMicro,      |            overlaps of neighbouring batches
                              ApiMicro --EXTENDS--> MicroTimeline
                                             |
 PatchedBatch --EXTENDS--> GroupLayout <--EXTENDS-- PlanRunner --INSTANCE--> PlanContract
      +--EXTENDS--> GuardExpr                          |           (refinement)
 TrustLoop (patches the plan)                          +... RateController (inside acquire)
     +... TraceCompare (its verdict)                   +... VDevService (around run)
```
Solid arrows are module dependencies; dotted ones say where a component sits.

**RateController** (m7, `_render_executor_py`).  `tokens`, `age`, `qps`, `backoff`,
`backoffMs` are the fields of a bucket, one per host and the global one; the
absolute times `updated_at` and `backoff_until` are kept as ages, so that the state
space is finite.  `acquire` is a loop: `AcquireWait` is a pass through the lock that ends
in a sleep, `AcquireGrant` one that takes a token from every bucket, `PassLocal`
the early return of a local action.  Nothing awaits under the lock, so a pass is atomic.
`NoteRateLimit` is the 429 handler, `Finish`, `Raise` and `Cancel` what a task may
do otherwise, `Tick` the clock.  A tick is not urgent: a task may wake late.  Units:
a token is `Token` units so that all arithmetic is integral (the code's is floating
point); rates are in hundredths of a call per second.

**GroupLayout** is both readings of the rows, as operators: the runner's
(`Reshape`, `SerializeTargets`, `ParallelIds`, `RuntimeWaves`) and the trust
layer's (`ValidatorWaves`).  A wave is the set of actions that run together.
**ActionLists** is what lists of actions need on both sides: `Only`, the list comprehension that
picks members, `Lists` (every action of a set in one list, once) and `Ranked`, a set in its order.
**GuardExpr** is both readings of a guard, a text of words: the scheduler's (`GuardActive`, which
splits at every OR, then at every AND) and the runner's (`GuardOk`, with parentheses, NOT,
short circuits and an error for a name it does not know).  Both readers call themselves on shorter
texts; the depth of the calls is a number, at most that of the words, and `CallActive` and `CallOk`
are one call over what the calls below it say.  Beside them the grammar: `Factors`, `Terms` and `Sums`
are sets of texts with what they say, of which `GrammarAssumption` asks that each be put
together from shorter ones (TLC evaluates it on the 580 of `batch`).
**PatchedBatch** makes a state machine of the two: a batch has guards, rows are appended one by
one, each once, and the metrics of a call then decide which guards hold.

**PlanContract** is what a run of a plan promises, without the runner: an action begins
once and after everything the plan puts before it has succeeded; "ok" means all
succeeded; a call that was not cancelled leaves nothing running.  A call has four ends:
"ok", "error" (of an action), "cancelled", and "unreported", when the export of its trace
raised, which says nothing of the actions.
**PlanRunner** is the runner: one step is what happens between two awaits.  `phase` is
where `run` is; `task[a]` where `_run_action` of `a` is; `asked` are tasks whose
cancellation has been requested but not yet delivered, since asyncio delivers it when
the task next runs.  `RunGroup`, `GatherRaises`, `Drained`, `GoOn`, `SerialDone`,
`SerialRaises`, `PlanDone` and `Finish` are `_run_group` and `run`; `StartAcquire`, `BeginExecution`,
`Succeeds`, `Raises`, `RateLimited`, `RaisesAfterBackoff`, `UnknownAction`, `Cancelled`
a task; `ExportRaises` is `_maybe_export_trace` raising in the `finally` block, so that
RUN_END is skipped and its exception takes the place of the outcome; `CancelCall`,
`CancelledGather` and `CancelExport` are the cancellation of the call, with the difference between a gather that is pending (its
children are cancelled) and one that is done.  What the plan promises is read off its
layout place by place (`Places`, `RunsAt`, `Before`, `PromisedOrder`): a place is a batch, a
group of the reshaped batch and a position in it.  The inside of `acquire` and of a
service call is one stage of a task each.

**VDevService** is what surrounds a run: `SetUp`, `SetUpEntry`, `UnloadEntry`, `Restart`
over `runtime`, `handler` and `entry`; per call `RunBegin`, `Emit`, `EndRun`, the export
with its thread (`BeginExport`, `OpenFile`, `WriteFile`, `WriteFails`, `EndExport`,
`ExportRaises`, `CancelExport`), and the tasks a cancelled call leaves (`LeavePlan`,
`Settle`).  Events are pairs of call and number: enough to see whose trace it is.

**TrustLoop** is `TrustLayer.evaluate`: `Compare`, `Chain` (the elif chain of the three
levels of patches), `StepsExhausted`, `GiveUp`, `Finalize`.  A plan is an abstract record
(parallelism limit and width, session reuse, spacing, the patches it carries and the DAG it was
scheduled from).  Scheduler, replay and comparison return any value they can return.

**BatchScheduler** is `CrossProtocolScheduler.schedule`: `ProjectHardGraph`,
`TransitiveReduce` (one edge per step, up to the cap on edges), `Pick`, `ForcedPick`,
`CloseBatch`.  `Allowed` is the conjunction of the admission tests, with the counters
as the code increments them.  Which allowed action is taken, and when a batch that could
take more is closed, is left open: the sort key, corridor search and conservative vetoes
choose among what is allowed here, and every one of them lets an empty batch take an action.
The limits, slots and scopes the constraint policy derives are constants.  `RequestsOf` counts
the requests of a batch afresh; that the rules of a provider agree about a bucket's size
(`SlotsAgree`) is a hypothesis, not part of the specification.

**TypedDag** (m4) extends `BatchScheduler` and runs before it: `Collect` gathers the hard edges
(those of the target replace others with the same key), `BreakActionCycle` and
`ActionCyclesBroken` are the two ends of `_break_action_level_cycles`, `BreakCycle` is a turn of
`_break_cycles` with its ranks; `HandOver` projects the edges on actions, adds
the orders of the target as `schedule` does, and `ScheduleDag` is any step of the scheduler.
Which edges candidates, templates and data flow give is any subset of `Rows`.  Once batches are
filled no one reads the edges, so the model forgets them and does not multiply the states.

**BatchGroups** is `_build_parallel_groups`: layers of soft-order pairs (`GroupLayer`,
with the break of a cycle), buckets of batching and session rules, chunks, runs of local
reads, single leftovers; in conservative mode one layer, sorted (`GroupConservatively`).
The bucket metadata rows written beside the groups are left out.

**MicroTimeline, BleMicro, ApiMicro** are the arithmetic of the refinements in ms, as
operators: how a latency is split into phases, from where in the line of the batch before
the next may prepare, the next line, and the two validators.  **MicroRefinement** is the combined
refiner: `Expand` and `Refine` build and judge one corridor line by line, `Resolve` decides about
the candidate that saves most, `WalkBatch` and `WalkCorridor` lay the timeline of the plan,
`Conclude` is the combined validation and what the pipeline makes of it.  `BatchLatency` and the operators
below it take the file as a parameter: `api_micro_refinement.py` takes a local action for the reading of a last
message by its kind, its service or its target `mqtt:...`, the other two by its kind alone.  A corridor is
chosen, built and promised by its refiner's measure (`Original`) and walked by the combined one (`Segment`).

**TraceCompare** is `compare_traces` after canonicalisation: `Same`, `CompareCommutable`,
`CompareScope`, `NeitherApplies`, `WalkedThrough` are the branches of the loop in their order;
a window of events is compared as a bag, by a bijection of its places, and the signatures of a
keyed rule by one that keeps the order.

`MC*` modules give the constants values; `*_proofs` modules hold the theorems.
Operators that are not used by the specification but differ from one of its operators in
one place (`RefilledUncapped`, `EnsureRuntimeAlways`, `PhaseBarrierBothWays`, ...) are
plausible mistakes: each property is checked to fail when one of them takes the place of
the definition it is a variant of.

## 3. The runs

| run | distinct states | what it checks |
|---|---|---|
| `rate` | 547,676 | `TypeOK`, `WindowBound` (a token-bucket contract stated without buckets), `BackoffNotShortened`, `AcquireTerminates` |
| `batch` | 254,184 | `OrderKept`, `LastRowObeyed`, `EachActionOnce`, `SerialisedApart`, `GuardsReadAlike`, `FollowsRuntimeWhenPlain` |
| `batch_layout` | violated | `FollowsRuntime` (finding 1) |
| `runner` | 7,761 | `NoTaskLeftBehind`, `BeginsAreClosed`, `CallEnds`, and `KeepsContract`: the runner implements `PlanContract`, so "ok" means the whole plan succeeded, and a failed export leaves nothing running |
| `service` | 396,409 | `DebugTraceIsLive`, `FileOfOneExport`, `LoneRunExportsItself`, `CallsEnd` |
| `trust` | 89,586 | `ResultBelongsTogether`, `LogDescribesPlan`, `ReferenceIsStructured`, `VerdictUnderOwnScopes` |
| `compare` | 135,428 | `PassedIsEquivalent`, `EquivalentPasses` |
| `schedule` | 132,204 | M4 and M5 together: `LimitsKept` (counters against the batch measured as a whole), `HardOrderKept`, `NeverStuck`, `VerificationAfterControl`, `ForcedOnlyWhenBlocked`, `ScheduleEnds`, `DataDemotedLast`, `RefusedForAReason` |
| `dag_demotion` | violated | `DemotedWasOnCycle` (finding 3) |
| `groups` | 5,964 | `PlacedOnce`, `SoftOrderKept` |
| `groups_once` | violated | `GroupedOnce` (finding 2) |
| `micro` | 111,852 | `BuiltIsValid`, `OneAtATime`, `OverlapsAreHarmless`, `SavedAsPromised`, `HighestSavingWins`, `GivenUpForAReason` |

Every property that passes fails under at least one of the variants of section 2
(`mutants` in `PROJECT.json`).  The runs check for deadlock; where a component comes
to rest, its specification has an action that says so (`Ended`, `Terminated`, `Done`, `Stopped`).
Only `compare` does not: each of its comparisons stops at its verdict.  Nothing is gained by
a liveness property there or in `micro`: every step moves forward in finite data.

### Bounds, and why they are enough

- `rate`: three cloud tasks on two hosts, so that two tasks share a host and all share
  the global bucket, and a local one; burst 1 and 10 calls/s make a token 100 ms, with a clock of
  50 ms, so that half-filled buckets occur.  `BaseBackoff` 300 lies where the global bucket's
  halving and its floor of 100 differ.  `AgeCap` 200 is how far `WindowBound` looks back
  (three calls in less than 200 ms are the most that could break it) and the time a
  token takes at half the rate: the rate of a host that still has a task waiting has been
  halved once at most.
- `batch`: a group of four and one of two, up to three rows of every mode the two readers know,
  scopes that are empty, straddle a segment or most of a group; three guards with scopes that
  are empty, inside a group and across two.  Three rows is the least in which a row meets
  segments that two different rows made.  Beside them 580 expressions with two levels of
  parentheses, each the guard of a batch with at most one row, under all twelve
  values of three names of which one may be unknown.
- `runner`: two batches; a group with a BLE, a guarded cloud and a local action, then a
  group that shares its coalescing bucket, then an ordered pair.  All service outcomes,
  cancellation at any await, without an export and with one that may raise, and a target that
  defines every action, all but one of a gather, or all but the last.
- `service`: two calls of at most one event each beside RUN_BEGIN; every fact is about one call
  and another.  Restarts, unloads and set-ups are unbounded (the state space is finite, since a
  set-up makes no second runtime).
- `trust`: `MaxSteps` 6 is the default and the number of different patches there are;
  parallelism 2 is the least that can be reduced.
- `schedule`, `dag_demotion`: seven actions and seven MSSUs, one action with two MSSUs and one MSSU
  with two actions; seven edges (data both ways between two actions and within one,
  templates against data and against an order of the target, a scoped edge) and three orders of
  the target, each present or not: 1,024 inputs, with cycles between actions that are none
  between MSSUs, and cycles no edge may leave.  Three cloud reads that share requests of two, two local
  reads that go together, a fat BLE action and a verification of unknown protocol go against limits
  3, 1, 1, 2, 1, a budget, a minimal gap and a no-overlap pair.  `EdgeCap` 4 lies inside the range
  of edge counts, so that reduction is both done and skipped.
- `micro`: every plan of up to four batches of nine kinds (three BLE, a BLE connection and a
  subscription, two hosts, a backoff, a local request, one no corridor takes), which has corridors
  of two and of three batches, neighbours on one device, session or host, and thresholds met and
  missed; longer plans in which corridors are close enough to conflict; two policies.  A tenth kind is a
  local batch that the refiner measures as 100 ms and the walk as 120 ms, in corridors that are accepted.
- `compare`: all traces of four events out of five against all their rearrangements, of three
  against rearrangements with an event exchanged, of two against one; two lists of rules (one
  with a key), one scope and two that share an action.  Two windows after one another, or one
  within which three events rotate, fit into four.
- `groups`: three selections, five lists of batching rules (overlapping, other key, other
  size, idempotent only), two of session rules, all 32 subsets of five soft-order
  pairs (one cycle), two rank functions, both modes.

### Fairness

Only what the scheduling of the code provides is assumed.  `RateController`: time passes and
each task that can step does (the event loop resumes sleepers, and a service call
returns); 429s and cancellations are never forced.  `PlanRunner`: the
runner and every task are resumed when what they await is there; failures, rate limits and
cancellations are never forced one by one, only that each task, and the export, has some outcome.
`VDevService`: each call, and its export thread, goes on.  `TypedDag` with `BatchScheduler` is
one sequence of synchronous calls, which keeps running.  All are weak fairness.

## 4. Findings

1. *The trust layer's layout is not the runner's* (m6:1000).  `_group_execution_layout`
   knows order preservation and two row modes; the runner also cuts groups by shrink and disable
   rows and serialises by failed guards and by the BLE and cloud rows.  Then the trust layer
   puts an action before one that the runner may run at the same time or first.
   Without such rows and failed guards the two agree (`FollowsRuntimeWhenPlain`).
2. *An action two batching rules claim is placed twice* (m5:1303), and the runner runs every
   group.  With rules that do not meet, every action is placed once.
3. *Breaking one cycle may cost an edge that lies on none* (m4:1047): while there is a cycle,
   the edge of lowest rank of the whole graph is demoted, under the warning "Hard cycle detected".
   What data needs is still demoted last (`DataDemotedLast`).

Divergences met while modelling that have no run of their own, with what bounds them:

- A guard with parentheses, NOT or a name the metrics do not know means different things to M5
  (false, or split in the wrong place) and to the runner (its value, or an error).  Otherwise
  the two agree (`GuardsReadAlike`, proved for every guard the grammar derives).
- Overlapping calls share a trace (m7:1063), and the export of one may hold events of another,
  while `services.yaml` promises the run's trace.  A call that nothing overlapped exports its own
  (`LoneRunExportsItself`).
- A forced pick may take a verification no control action waits for (m5:3956): recorded in
  the plan (`VerificationAfterControl`), provoked by the input (`ForcedOnlyWhenBlocked`).
- M4 keeps a dependency between writebacks soft, or demotes it, and `schedule` adds it again as
  hard (m5:342): M5 may then refuse a graph M4 made acyclic.  `RefusedForAReason` states when.
- `api_micro_refinement.py:322` and `combined_micro_refinement.py:190` disagree about local actions whose
  target or service, but not whose kind, is MQTT (80 or 100 ms).  An accepted corridor with a batch for which that
  matters saves more than it promised, `reported_saving_mismatch` (line 697) follows, and the refinement of
  the whole plan is given up (the last disjunct of `GivenUpForAReason`).  Never is less saved than promised.
- An export that raises (m7:1057-1058, awaited in the `finally` block at 1129) takes the place of the call's
  outcome and skips RUN_END, also when every action succeeded: the end "unreported" of `PlanContract`.
- The validators of the micro refinements refuse what the generators build when connections
  may overlap, authentication and budget are not overlapped, a batch waits for a backoff, a corridor
  mixes latencies, or a batch is so long that its parsing does not count as short (the exceptions of
  `BuiltIsValid`; the last was met in the proof, no plan of `micro` is that long); the combined validation fails as soon as a
  candidate was rejected, though `docs/combined_micro_refinement.md` has conflicts resolved by
  `highest_saving_wins`, for a backoff between requests to one host, and for neighbours that stayed serial
  (`GivenUpForAReason`).  `optimizer/pipeline.py` then falls back in silence.
- M4's first loop (m4:1138) takes edges between actions of a cycle whether or not they help: an
  edge between two MSSUs of one action orders no pair, and is demoted all the same.
- `compare_traces`: a keyed rule compares only the sequence of (operation, group), so that an
  event may pass events of other groups if another of its group takes its place; a scope
  ignores keyed rules and the order of one action's events; state writes inside a scope
  are tried as commutable and refused; a window of commutable events runs across phases although
  entry requires equal ones; an action in two scopes belongs to the last.  `PassedIsEquivalent`
  and `EquivalentPasses` name these, and that there are no others is proved for every trace.

## 5. Theorems

All are proved for every value of the constants that meets the named `ASSUME`s of
their module (finite sets of actions, positive limits, rates not below the code's own floor, and so on).

| theorem | statement | argument |
|---|---|---|
| `RateController_proofs!TypeCorrect` | `Spec => []TypeOK` | inductive; a grant requires a whole token in each bucket it charges |
| `RateController_proofs!BackoffKept` | `Spec => BackoffNotShortened` | needs `BackoffWithinLength`: the global bucket's backoff has a single length, a host's has no longer to go than its recorded length, and the next is no shorter than that |
| `PlanRunner_proofs!NothingLeftBehind` | `Spec => []NoTaskLeftBehind` | `TasksAccountedFor` says for each phase where live tasks may be; nothing about how a group is split is needed |
| `PlanContract_proofs!OutcomesWellFormed`, `BeginsInOrder`, `EndIsClean` | what the contract gives its callers | `TypeOK /\ OneOutcome`, then the order and the end |
| `VDevService_proofs!LiveDebugTrace` | `Spec => []DebugTraceIsLive` | `OneRuntime`: the service is bound to the runtime of `hass.data` or to none, which the early return of `_ensure_runtime` preserves |
| `TrustLoop_proofs!OneResult`, `StructuredReference` | result belongs together; level 3 reads a scheduled plan | `PlansKept` |
| `TrustLoop_proofs!FreshVerdict` | `VerdictUnderOwnScopes` | `ScopesFollow`: in the patch and finalise phases the scopes are the plan's |
| `TrustLoop_proofs!LogTellsPlan` | `LogDescribesPlan` | `LogKept`: each level either appends what it adds to the plan or records the replan |
| `PlanRunner_proofs!EveryBeginClosed` | `Spec => []BeginsAreClosed` | `BeginsAccountedFor` on top of `TasksAccountedFor`: a task past its BEGIN is live, or has closed it, or was cancelled |
| `VDevService_proofs!MixedOnlyByOverlap` | `Spec => []FileOfOneExport` | `WritesKept`: what the file holds was opened by a write that nothing has truncated since, unless writes overlapped |
| `VDevService_proofs!LatestComesFirst` | `Spec => []LatestRunFirst` | `TraceKept`: the shared trace is what was emitted since the last RUN_BEGIN, which cleared it |
| `VDevService_proofs!LoneExport` | `Spec => LoneRunExportsItself` | `ServiceInv`: the trace of a call without overlap is its own events, as many as it counted |
| `BatchScheduler_proofs!TypeCorrect`, `OrderKept`, `LoopNeverStuck` | the scheduler's counters, order and progress | see below |
| `BatchScheduler_proofs!ControlFirst` | `Spec => []VerificationAfterControl` | `PhasesKept`: while a batch is filled, what it holds passed the barrier or was forced, and nothing that passed it can be invalidated before the batch is closed |
| `BatchScheduler_proofs!ForcedByInput` | `Spec => ForcedOnlyWhenBlocked` | `EmptyKept`: an empty batch has empty counters, so only the barrier can refuse; `WaitsForReady`: what is not ready is reached from something ready |
| `BatchScheduler_proofs!DagScheduled` | the same order, progress and phases for `DagSpec` | `NotBegun`, `EdgesKept`: until the hand-over the scheduler is in its initial state, and what it is handed is one of the graphs its invariants hold for |
| `BatchScheduler_proofs!DataGivesWayLast` | `DagSpec => []DataDemotedLast` | a data edge is cheapest only among data edges (`DataIsDear`), and the first loop never takes one |
| `MicroRefinement_proofs!WinnersSaveMost` | `Spec => []HighestSavingWins` | `ResolutionInv`: candidates are decided in the order of their savings, and corridors are maximal runs, so two that share a batch have one beginning |
| `MicroRefinement_proofs!RefinedInTime` | `Spec => []SavedAsPromised` | `RefinementInv`: how far the assembly has walked is the serial time of what it has passed, less what the corridors in it save, or less still where the walk measures a batch as longer than its refiner did (`BatchMeasured`: never as shorter); a corridor saves what its line was shorter than its serial phases, which a valid line makes positive |
| `MicroRefinement_proofs!NoTwoAtATime`, `OverlapsHarmNothing` | `Spec => []OneAtATime`, `Spec => []OverlapsAreHarmless` | see below |
| `MicroRefinement_proofs!AlwaysForAReason` | `Spec => []GivenUpForAReason` | `CandidatesInv`, `TodoInv`, `ChoiceInv`: what was resolved are the valid corridors, each decided once, so that a refiner gives up only with no corridor or with one refused; the savings agree where the measures do (`SegmentMeasuredAlike`) |
| `MicroRefinement_proofs!NothingInVain` | `Spec => []BuiltIsValid` | `LinesMade`: the lines are what the generators lay, whose phases never begin before those of the line before by less than the generator's step; the corridors the validators refuse are the named exceptions |
| `PlanRunner_proofs!OnePlaceEach` | `PlansOnce` gives every action exactly one place | `ReshapeKeeps`, `OnlyKeeps`: cutting by rows and splitting by guards lose nothing and double nothing; induction along the rows, segments and actions of the folds |
| `PlanRunner_proofs!RunnerKeepsContract` | `PlansOnce => (Spec => KeepsContract)`: every step of the runner is one of the contract or none | `ContractInv`, see below |
| `PlanRunner_proofs!RunnerInOrder` | the runner begins an action only after everything before it succeeded; "ok" means all succeeded | the refinement and the theorems of `PlanContract_proofs`, instantiated |
| `BatchScheduler_proofs!RefusalsHaveReasons` | `DagSpec => []RefusedForAReason` | see below |
| `BatchScheduler_proofs!BatchesKeepLimits` | `SlotsAgree => (DagSpec => []LimitsKept)` | `LimitsInv`: the loop's counters never fall behind what is counted on the whole batch; an action adds a request exactly when the size of its bucket divides its members |
| `RateController_proofs!WindowsBounded` | `Spec => []WindowBound` | `WindowKept`: of a bucket looked at within the window, what it let through and what it holds come from the burst and what was earned before that look |
| `TraceCompare_proofs!PassingOnlyReorders` | `Spec => []PassedIsRearranged`, for traces of any length | `WalkInv`: what has been walked over is rearranged by a bijection that exchanges only independent events; a window appends its own bijection |
| `TraceCompare_proofs!PassingIsSound` | `Spec => []PassedIsEquivalent` | `SignatureInv` besides: the signatures of the rules no scope meddles with are the same up to where the walk is |
| `TraceCompare_proofs!ComparisonIsComplete` | `Spec => []EquivalentPasses` | see below |
| `PlanRunner_proofs!CutInOrder` | `BatchSpec => []OrderKept` | `ReshapeFlat`: cutting a group, by any row, leaves the actions as they are when laid end to end |
| `PlanRunner_proofs!LastRowRules` | `BatchSpec => []LastRowObeyed` | `RowShort`, `SegmentOf`: what the last row made is not touched again, and a piece with two actions of its scope is no longer than its chunks |
| `PlanRunner_proofs!EachOnceWhenListed` | `GroupsOnce => (BatchSpec => []EachActionOnce)` | `WavesApart`: waves of one segment share no action, nor do those of two; the hypothesis is that of finding 2, and TLC evaluates it in `batch` (`MCGroupsOnce`) |
| `PlanRunner_proofs!ReadAlike` | `BatchSpec => []GuardsReadAlike`, for guards of any length and nesting | see below |
| `PlanRunner_proofs!KeptApart` | `BatchSpec => []SerialisedApart` | `WavesBelong`: a wave of more than one action is a parallel part, which has none that is serialised; `RunnerReads` says which guards fail |
| `PlanRunner_proofs!FollowsPlainly` | `BatchSpec => []FollowsRuntimeWhenPlain` | `ReshapeUncut`, `PlainSerial`: with such rows and guards the two layers cut alike and serialise alike |
| `PlanRunner_proofs!GroupsPlaceOnce` | `GroupsSpec => []PlacedOnce` | `LayerKeeps`: buckets, chunks, runs of local reads and leftovers hold the actions of the layer, each once where no two rules meet |
| `PlanRunner_proofs!SoftOrderInGroups` | `GroupsSpec => []SoftOrderKept` | `GroupingInv`: `indegree` counts the soft predecessors without a layer, so an action gets one after them, or nothing left is free and a cycle leads to it |

The scheduler's invariant `IInv` has four parts.  `BooksKept`: `indegree` counts the
predecessors not done and `ready` is exactly what has none.  `CountersKept`:
occupancy and cloud count stay within limits.  `OutKept`: the batches keep the edges left in
the graph.  `PathsKept`: each edge of the input is still joined by a path of edges left,
and these are acyclic.  `OutKept` alone does not give the order along the edges that transitive
reduction removed; a path is what every closed set of successors contains, the reduced graph
has the same closed sets as before, and the actions not in the first *k* batches
are closed, so the removed edge is kept too.  `LoopNeverStuck` follows from
acyclicity: the actions not done would otherwise all have a predecessor among them.

*The runner implements its contract.*  The contract sees the actions and the promised order, the runner
a plan and a position in it.  `ContractInv` ties the two together: the position lies in the plan and what
is left of the group is the end of its queue (`PositionKept`); everything before the runner's place has succeeded
and nothing behind it has begun (`WalkKept`); an action has a task only when everything before it in
the promised order has succeeded (`StartsKept`); the status says what became of the tasks (`StatusKept`);
and which stages of a task lie before its BEGIN and which behind it (`StagesKept`).  Going from
the position to the order needs that an action is at one place only, which is `OnePlaceEach`.
The hypothesis `PlansOnce` says that the plan names every action once in groups that are not
empty.  The code justifies it only for rules that do not meet: with finding 2 the runner runs an action
twice, and no contract that lets an action begin once is kept.  The instance of `runner` meets it
(`MCPlansOnce` is assumed there, so TLC evaluates it).

*Induction without induction theorems.*  The library's induction takes an operator, which cannot be
instantiated here.  What takes its place is that the strict subsets of finite sets are well founded,
which the library states of a relation: a claim that fails somewhere fails at a least place
(`MinimalFinite`, `LeastNat`, `PrefixInduction`).  From it follow the steps of a fold
(`FoldExists`, `RunExists`) and so what `Reshape` does to groups of any length; and that a set in which every
action has a predecessor contains a least one (`LeastCircleExists`).  In a least circle no action
can be spared, so it is a cycle in the sense of M4, and each of its edges is one M4 may not demote: that is
`RefusalsHaveReasons`.

*The micro refinements.*  Times are integers of milliseconds, and what a batch takes is the sum of its phases, a sum
over a finite set; `SumAdd` and `SumInterval` give its steps, by the same induction.  A line says when
each phase of a batch begins.  That its phases follow one another at distances no shorter than they last
is a lemma per protocol (`BlePhasesSpread`, `DurationsSpread`), as is what two neighbouring
lines may share (`BleGoesOn`, `ApiGoesOn`).  A corridor that passed its validator is in order and never behind
the serial plan (`Paced`, `Neat`); the timeline is built of such corridors and of serial
batches (`WalkedTo` in `RefinementInv`), so that what is not allowed to overlap does not (`OneAtATime`) and
what overlaps are only phases the policies name (`OverlapsAreHarmless`), over the whole plan and not only in a corridor.
`NothingInVain` goes the other way, from the generators to the validators: what `_build_corridor` lays keeps
the distances the validator asks for (`LeavesTime`, `Steady`, `BleMadeValid`, `ApiMadeValid`), but for the exceptions.
`BlePolicy` and `ApiPolicy` assume what no caller in `src/` changes: a lookahead of one step, and a wait for a
backoff of at most 434 ms (it is 220; with a longer one the API generator may have less than nothing left for
the last phase of a batch).

*The comparison is complete.*  Equivalent traces are rearranged by some bijection of all their places.
`RestInv` says that a bijection of what lies ahead is left wherever the walk is.  Equal events can be
made each other's partner (`RestBehindSame`).  Where events differ, somebody passed somebody, so
the two are independent, and one of the two windows applies (`DifferentAreIndependent`, `SomeWindow`); in
clear cases independence leads out of neither the commuting events nor a scope (`Closed`), so nobody can have
passed the first event behind the window, and both windows end at the same place with the same events
(`RunsMatch`).  That keyed signatures agree inside the window, when they do on the whole traces, is a matter of
counting: the rearranged prefix has as many events of the rule in both (`SameCount`, `SignatureCut`).

*Guards are read as they are meant.*  Both readers look for an operator by walking along the words with
a depth of parentheses.  `Shape` says of every text the grammar derives, by induction on its length
(`ByLength`), that its depth never falls below zero and comes back to it, and that no
operator weaker than its level stands outside parentheses.  So the walk over a text without the operator
gives the text itself (`SplitWhole`), one over `u OP v` gives `u` and what `v` gives (`SplitMore`), and the
parts are the ones the grammar joined.  `StripParenthesised` does the same for parentheses around the whole: they are
taken off as long as the first closes with the last, and never too many.  A call at
depth *n* reads right every guard of at most *n* words if the call below reads right
the shorter ones (`CallReads`, `CallTells`), which is the induction along the depth (`DepthsRead`,
`DepthsTell`).  What stops `any` and `all` (an error in a later part is not raised) is `FirstOfMore`.
The scheduler's reader is right for AND and OR alone and knows no errors (`PlainText`, `Told`).

*Nothing is lost or doubled in the groups.*  `GroupList` says that a list of groups has no empty one and holds
the actions of a set, and, if no two rules share an action, each once.  It holds of the
pieces of one bucket (`ChunksKeep`), of the buckets of a rule (`BucketsKeep`: one per value of the
key, in some order `Ranked` gives), of all rules, and of what they leave over (`LeftoverKeeps`), and is kept when
lists are joined (`GroupListConcat`).

Model-checked only: the liveness properties (`AcquireTerminates`, `CallEnds`, `CallsEnd`,
`ScheduleEnds`), since fairness and ENABLED are beyond the prover.  Every other property that passes is
stated by a theorem.  The three runs that end in a violation show counterexamples and have nothing to prove.

## 6. Not modelled

- Rendering (m7 outside the rendered text), CLI, scripts, data classes, vendored and recorded
  data: no state or order of their own.
- `execute_action`: its outcomes (success, error, 429) are modelled, its templates and the kinds of
  call are not.  `_wait_state` reads and subscribes without an await in between.
- How single names in guards get their values from metrics (`_guard_flag`'s table), which differs a
  little between scheduler and runner; in `PlanRunner` a whole guard is true, false or unknown.
- The order in which M5 tries allowed actions, and the derivation of its limits.  One size
  per cloud bucket is assumed in `schedule`.
- The order a minimal gap declares is directional in M5, as a test of the repository says,
  and the rendered runner does not read gaps at all.
- Which hard edges M4's filters, templates and data flow give, and its soft constraints other than
  demoted edges.
- The micro refiners' reading of keys from target dictionaries, the endpoint and bucket keys that
  are not required by default, and policies that change capabilities.
- The trace recorder, the simulated runtime, the diff hunks and `assert_trace_contract`.
- Stages M-1 to M3, the profile builder, alignment and counterexample layers.

## 7. Plan

Order of construction: rate controller; layout; contract and runner; service; repair
loop; scheduler; grouping; guard expressions; micro refinements; trace comparison; typed DAG (all done).  Next, most
important first (pure operators share a run with the machine that uses them):

1. What exists is proved but for liveness; what is added below is to be proved as it comes.
2. The constraint policy of M5 with buckets of mixed size; `naive_topo_parallel` beside it.
3. Several rate controllers over one host (one per batch and call).
4. Detector builder (retry and cache); M2 and M3; rule hardening and gate; alignment
   and counterexample layers; pipeline switches.

## 8. Running

```
tlc -workers 2 -config MCTypedDag.cfg MCTypedDag         # any row of section 3
tlapm BatchScheduler_proofs.tla                          # any proof module
```
