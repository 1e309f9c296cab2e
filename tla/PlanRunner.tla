------------------------------ MODULE PlanRunner ------------------------------
(***************************************************************************)
(* One call of the generated run service: PlanRunner.run and everything it *)
(* awaits (src/optimizer/m7_component_assembler.py).  The runner walks     *)
(* through the batches and, within a batch, through the groups the         *)
(* fallback rows leave (GroupLayout); of a group it starts the parallel    *)
(* actions as tasks, gathers them, and then awaits the serial actions one  *)
(* by one.  The first exception cancels the tasks that are not done, is    *)
(* summarised and ends the call; so does a cancellation of the call.       *)
(*                                                                         *)
(* A step of this module is what happens between two awaits.  Tasks and    *)
(* runner interleave: after a task has failed, and before the runner is    *)
(* resumed by gather, the other tasks go on.  The rate controller's delays *)
(* (module RateController) are the steps acquiring and noting, which may   *)
(* take any time.                                                          *)
(***************************************************************************)
EXTENDS GroupLayout

CONSTANTS
    Plan,          \* sequence of batches: [groups, fallback, guards, rules]
    GuardToken,    \* names used in guard expressions
    Targets,       \* the sets of actions the target may define; the plan may name others
    BucketOf,      \* [Action -> coalescing bucket of the action]
    Exports,       \* whether the call may ask for a trace export
    Cancellable    \* whether the call may be cancelled from outside

BatchRecord ==
    [groups   : Seq(Seq(Action)), fallback : Seq(FallbackRow),
     guards   : SUBSET [scope : SUBSET Action, token : GuardToken],
     rules    : Seq([scope : SUBSET Action, wait : Nat, size : Nat])]

ASSUME PlanAssumption ==
    /\ Plan \in Seq(BatchRecord)
    /\ Protocol \in [Action -> {"BLE", "CLOUD", "LOCAL", "HA"}]
    /\ Targets \subseteq SUBSET Action
    /\ Exports \subseteq BOOLEAN /\ Cancellable \in BOOLEAN

VARIABLES
    guardValue,  \* what the call's service_data makes of every guard name
    order,       \* history: the order the plan promises this call
    export,      \* the call asks for a trace export
    known,       \* the actions the target defines
    phase,       \* where the runner is
    batch, group,\* position in the plan, from 1
    parallel,    \* the tasks of the current gather
    serial,      \* the serial actions of the current group still to run
    waited,      \* waited_buckets of the current batch
    task,        \* [Action -> where its _run_action is]
    asked,       \* tasks whose cancellation has been requested
    began,       \* actions whose BEGIN event was emitted
    status,      \* summary["status"]
    cancelled,   \* a CancelledError has reached run()
    runEnd       \* status in the RUN_END event, or "none" when it was not emitted

callVars == << guardValue, order, export, known >>
pos      == << batch, group, waited >>
taskVars == << task, asked, began >>
outcome  == << status, cancelled, runEnd >>
vars     == << guardValue, order, export, known, phase, batch, group, parallel, serial, waited,
               task, asked, began, status, cancelled, runEnd >>

LiveStage == {"created", "acquiring", "executing", "noting"}
TaskStage == LiveStage \union {"new", "ok", "error", "cancelled"}
Phase     == {"idle", "group", "coalescing", "parallel", "draining", "cancelling",
              "serial", "exporting", "ended"}
Live(a)   == task[a] \in LiveStage

-----------------------------------------------------------------------------
(* The plan                                                                *)

Segments(b) == Reshape(Plan[b].groups, Plan[b].fallback)

RelevantGuards(b, ids) == {g \in Plan[b].guards : Relevant(g.scope, ids)}

\* _guard_ok: a name nobody defines raises; otherwise the guard holds or fails.
GuardRaises(b, ids) == \E g \in RelevantGuards(b, ids) : guardValue[g.token] = "unknown"
FailedScopes(b)     == {g.scope : g \in {h \in Plan[b].guards : guardValue[h.token] = "false"}}

Parallel(b, ids) == ParallelIds(ids, FailedScopes(b), Plan[b].fallback)
Serial(b, ids)   == SerialIds(ids, FailedScopes(b), Plan[b].fallback)

\* _batch_rule_for_group: the first rule whose scope covers the group.
RuleIndices(b, ids) == {i \in DOMAIN Plan[b].rules : ToSet(ids) \subseteq Plan[b].rules[i].scope}
RuleFor(b, ids)     == Plan[b].rules[Min(RuleIndices(b, ids))]
HasBucket(b, ids)   == ids # << >> /\ RuleIndices(b, ids) # {}

\* _apply_batch_coalescing_wait: once per bucket of a batch, and only while the
\* group is not full and a later group of the batch has the same bucket.
MustCoalesce(b, i) ==
    LET ids == Segments(b)[i] IN
    /\ HasBucket(b, ids)
    /\ RuleFor(b, ids).wait > 0
    /\ BucketOf[ids[1]] \notin waited
    /\ Len(ids) < RuleFor(b, ids).size
    /\ \E j \in DOMAIN Segments(b) :
          /\ j > i /\ HasBucket(b, Segments(b)[j])
          /\ BucketOf[Segments(b)[j][1]] = BucketOf[ids[1]]

\* Where an action runs: batch, segment, and the place among the serial actions of
\* the segment, 0 being its parallel part.
Places ==
    UNION {UNION {{<< b, i, k >> : k \in 0 .. Len(Serial(b, Segments(b)[i]))}
                     : i \in DOMAIN Segments(b)} : b \in DOMAIN Plan}

RunsAt(p) ==
    LET ids == Segments(p[1])[p[2]]
    IN IF p[3] = 0 THEN Parallel(p[1], ids) ELSE {Serial(p[1], ids)[p[3]]}

Before(p, q) ==
    \/ p[1] < q[1]
    \/ p[1] = q[1] /\ p[2] < q[2]
    \/ p[1] = q[1] /\ p[2] = q[2] /\ p[3] < q[3]

\* The order the plan promises under these guard values: batch by batch, segment
\* by segment, the parallel part first.
PromisedOrder ==
    UNION {RunsAt(x[1]) \X RunsAt(x[2]) : x \in {y \in Places \X Places : Before(y[1], y[2])}}

\* The plan names every action once, in groups that are not empty.  The scheduler sees
\* to it unless two batching rules claim an action (PlacedOnce in BatchGroups).
ActionsOf(b) == UNION {ToSet(ids) : ids \in ToSet(Plan[b].groups)}

PlansOnce ==
    /\ \A b \in DOMAIN Plan : Lists(Plan[b].groups, ActionsOf(b))
    /\ \A b, c \in DOMAIN Plan : b # c => ActionsOf(b) \intersect ActionsOf(c) = {}
    /\ Action = UNION {ActionsOf(b) : b \in DOMAIN Plan}

-----------------------------------------------------------------------------
Init ==
    /\ guardValue \in [GuardToken -> {"true", "false", "unknown"}]
    /\ order = PromisedOrder
    /\ export \in Exports
    /\ known \in Targets
    /\ phase = "idle"
    /\ batch = 1 /\ group = 1
    /\ parallel = {} /\ serial = << >> /\ waited = {}
    /\ task = [a \in Action |-> "new"]
    /\ asked = {} /\ began = {}
    /\ status = "ok" /\ cancelled = FALSE /\ runEnd = "none"

(* The runner                                                              *)

\* The service call arrives: run() enters the loop over the batches.
Call ==
    /\ phase = "idle"
    /\ phase' = "group"
    /\ UNCHANGED << callVars, pos, parallel, serial, taskVars, outcome >>

\* The groups of a batch are exhausted: a new batch has new waited_buckets.
NextBatch ==
    /\ phase = "group"
    /\ batch <= Len(Plan)
    /\ group > Len(Segments(batch))
    /\ batch' = batch + 1 /\ group' = 1 /\ waited' = {}
    /\ UNCHANGED << callVars, phase, parallel, serial, taskVars, outcome >>

Coalesce ==
    /\ phase = "group"
    /\ batch <= Len(Plan) /\ group <= Len(Segments(batch))
    /\ MustCoalesce(batch, group)
    /\ waited' = waited \union {BucketOf[Segments(batch)[group][1]]}
    /\ phase'  = "coalescing"
    /\ UNCHANGED << callVars, batch, group, parallel, serial, taskVars, outcome >>

ReadyToRun ==
    /\ batch <= Len(Plan) /\ group <= Len(Segments(batch))
    /\ phase \in {"group", "coalescing"}
    /\ phase = "group" => ~MustCoalesce(batch, group)

\* Mutant of RunGroup: the serial actions do not wait for the parallel ones.
RunGroupAtOnce ==
    LET ids == Segments(batch)[group] IN
    /\ ReadyToRun
    /\ ~GuardRaises(batch, ids)
    /\ parallel' = Parallel(batch, ids) \union
                   (IF Serial(batch, ids) = << >> THEN {} ELSE {Serial(batch, ids)[1]})
    /\ serial'   = IF Serial(batch, ids) = << >> THEN << >> ELSE Tail(Serial(batch, ids))
    /\ task'     = [a \in Action |-> IF a \in parallel' THEN "created" ELSE task[a]]
    /\ phase'    = "parallel"
    /\ UNCHANGED << callVars, pos, asked, began, outcome >>

\* _run_group: the guards are evaluated, the group is split, and a task is
\* created for every parallel action.
RunGroup ==
    LET ids == Segments(batch)[group] IN
    /\ ReadyToRun
    /\ ~GuardRaises(batch, ids)
    /\ parallel' = Parallel(batch, ids)
    /\ serial'   = Serial(batch, ids)
    /\ task'     = [a \in Action |-> IF a \in parallel' THEN "created" ELSE task[a]]
    /\ phase'    = "parallel"
    /\ UNCHANGED << callVars, pos, asked, began, outcome >>

\* _guard_ok raises "Unknown guard token": nothing of the group is started.
GuardUnknown ==
    /\ ReadyToRun
    /\ GuardRaises(batch, Segments(batch)[group])
    /\ status' = "error"
    /\ phase'  = "exporting"
    /\ UNCHANGED << callVars, pos, parallel, serial, taskVars, cancelled, runEnd >>

\* Awaiting the next serial action, or going on to the next group.
GoOn(queue) ==
    IF queue = << >>
    THEN /\ phase' = "group" /\ group' = group + 1
         /\ UNCHANGED << batch, waited, task >>
    ELSE /\ phase' = "serial"
         /\ task' = [task EXCEPT ![Head(queue)] = "created"]
         /\ UNCHANGED pos

\* gather returns: every parallel action of the group has succeeded (or there
\* was none and _run_parallel was not called).
Gathered ==
    /\ phase = "parallel"
    /\ \A a \in parallel : task[a] = "ok"
    /\ GoOn(serial)
    /\ UNCHANGED << callVars, parallel, serial, asked, began, outcome >>

\* Mutant of GatherRaises: the exception is raised again at once.
GatherRaisesNoDrain ==
    /\ phase = "parallel"
    /\ \E a \in parallel : task[a] = "error"
    /\ asked' = asked \union {a \in parallel : Live(a)}
    /\ status' = "error"
    /\ phase' = "exporting"
    /\ UNCHANGED << callVars, pos, parallel, serial, task, began, cancelled, runEnd >>

\* gather raises the first exception: the tasks that are not done are cancelled
\* and the runner waits for all of them.
GatherRaises ==
    /\ phase = "parallel"
    /\ \E a \in parallel : task[a] = "error"
    /\ asked' = asked \union {a \in parallel : Live(a)}
    /\ phase' = "draining"
    /\ UNCHANGED << callVars, pos, parallel, serial, task, began, outcome >>

\* Mutant of Drained: only a cancelled or failed task counts as settled.
DrainedAllCancelled ==
    /\ phase = "draining"
    /\ \A a \in parallel : task[a] \in {"cancelled", "error"}
    /\ status' = IF cancelled THEN status ELSE "error"
    /\ phase'  = "exporting"
    /\ UNCHANGED << callVars, pos, parallel, serial, taskVars, cancelled, runEnd >>

\* The tasks have settled: EXCEPTION_SUMMARY, and the exception leaves run's try.
\* When the call was cancelled meanwhile, CancelledError leaves it instead.
Drained ==
    /\ phase = "draining"
    /\ \A a \in parallel : ~Live(a)
    /\ status' = IF cancelled THEN status ELSE "error"
    /\ phase'  = "exporting"
    /\ UNCHANGED << callVars, pos, parallel, serial, taskVars, cancelled, runEnd >>

\* Mutant of SerialDone: the loop takes the next action without awaiting this one.
SerialDoneEarly ==
    /\ phase = "serial"
    /\ task[Head(serial)] \in {"ok", "executing"}
    /\ serial' = Tail(serial)
    /\ GoOn(Tail(serial))
    /\ UNCHANGED << callVars, parallel, asked, began, outcome >>

SerialDone ==
    /\ phase = "serial"
    /\ task[Head(serial)] = "ok"
    /\ serial' = Tail(serial)
    /\ GoOn(Tail(serial))
    /\ UNCHANGED << callVars, parallel, asked, began, outcome >>

SerialRaises ==
    /\ phase = "serial"
    /\ task[Head(serial)] = "error"
    /\ status' = "error"
    /\ phase'  = "exporting"
    /\ UNCHANGED << callVars, pos, parallel, serial, taskVars, cancelled, runEnd >>

\* The loop over the batches is over: on to the finally block.
PlanDone ==
    /\ phase = "group"
    /\ batch > Len(Plan)
    /\ phase' = "exporting"
    /\ UNCHANGED << callVars, pos, parallel, serial, taskVars, outcome >>

\* finally: the trace is exported (awaited only when asked for) and RUN_END
\* carries the status.
Finish ==
    /\ phase = "exporting"
    /\ phase'  = "ended"
    /\ runEnd' = status
    /\ UNCHANGED << callVars, pos, parallel, serial, taskVars, status, cancelled >>

\* Making the trace's directory or writing its file raises in the finally block:
\* RUN_END is skipped, and this exception ends the call in place of its summary,
\* of the exception of an action or of the call's cancellation.
ExportRaises ==
    /\ phase = "exporting" /\ export
    /\ phase' = "ended"
    /\ UNCHANGED << callVars, pos, parallel, serial, taskVars, outcome >>

-----------------------------------------------------------------------------
(* The tasks                                                               *)

\* A task makes a step of its own unless its cancellation has been requested.
Steps(a, from, to) ==
    /\ task[a] = from
    /\ a \notin asked
    /\ task' = [task EXCEPT ![a] = to]
    /\ UNCHANGED << callVars, phase, pos, parallel, serial, asked, outcome >>

\* _run_action: an action the target does not define raises before acquire.
UnknownAction(a) == a \notin known /\ Steps(a, "created", "error") /\ UNCHANGED began

StartAcquire(a) == a \in known /\ Protocol[a] = "CLOUD" /\ Steps(a, "created", "acquiring")
                   /\ UNCHANGED began

\* execute_action emits BEGIN and awaits the service call, state or timer.
BeginExecution(a) ==
    /\ a \in known
    /\ Steps(a, IF Protocol[a] = "CLOUD" THEN "acquiring" ELSE "created", "executing")
    /\ began' = began \union {a}

Succeeds(a) == Steps(a, "executing", "ok") /\ UNCHANGED began

Raises(a) == Steps(a, "executing", "error") /\ UNCHANGED began

\* A 429 of a cloud action: note_rate_limit sleeps before the error is raised again.
RateLimited(a) == Protocol[a] = "CLOUD" /\ Steps(a, "executing", "noting") /\ UNCHANGED began

RaisesAfterBackoff(a) == Steps(a, "noting", "error") /\ UNCHANGED began

\* CancelledError is thrown into the task at its await; neither execute_action
\* nor _run_action catches it.
Cancelled(a) ==
    /\ a \in asked /\ Live(a)
    /\ task' = [task EXCEPT ![a] = "cancelled"]
    /\ UNCHANGED << callVars, phase, pos, parallel, serial, asked, began, outcome >>

TaskStep(a) ==
    \/ UnknownAction(a) \/ StartAcquire(a) \/ BeginExecution(a) \/ Succeeds(a)
    \/ Raises(a) \/ RateLimited(a) \/ RaisesAfterBackoff(a) \/ Cancelled(a)

-----------------------------------------------------------------------------
(* The call is cancelled from outside                                      *)

\* Cancelling the runner's task cancels what it awaits.  A gather that is pending
\* passes it on to every child that is not done.  A gather that is done, because
\* all children succeeded or one failed, does not: CancelledError reaches the
\* runner in place of the outcome, and the children go on by themselves.
CancelCall ==
    /\ Cancellable /\ ~cancelled
    /\ \/ /\ phase = "coalescing"
          /\ phase' = "exporting" /\ UNCHANGED << asked, task >>
       \/ /\ phase = "parallel"
          /\ \E a \in parallel : Live(a)
          /\ asked' = asked \union {a \in parallel : Live(a)}
          /\ phase' = "cancelling" /\ UNCHANGED task
       \/ /\ phase = "parallel" /\ parallel # {}
          /\ (\E a \in parallel : task[a] = "error") \/ (\A a \in parallel : ~Live(a))
          /\ phase' = "exporting" /\ UNCHANGED << asked, task >>
       \/ /\ phase = "draining"
          /\ UNCHANGED << asked, phase, task >>
       \/ /\ phase = "serial" /\ Live(Head(serial))
          /\ task' = [task EXCEPT ![Head(serial)] = "cancelled"]
          /\ phase' = "exporting" /\ UNCHANGED asked
    /\ cancelled' = TRUE
    /\ UNCHANGED << callVars, pos, parallel, serial, began, status, runEnd >>

\* The cancelled gather: an exception a child had already raised is what the
\* runner sees, and the cancellation is lost; otherwise the first cancelled child
\* ends the gather, although others may not have settled.
CancelledGather ==
    /\ phase = "cancelling"
    /\ \/ /\ \E a \in parallel : task[a] = "error"
          /\ cancelled' = FALSE
          /\ phase' = "draining"
       \/ /\ \A a \in parallel : task[a] # "error"
          /\ \E a \in parallel : task[a] = "cancelled"
          /\ phase' = "exporting"
          /\ UNCHANGED cancelled
    /\ UNCHANGED << callVars, pos, parallel, serial, taskVars, status, runEnd >>

\* The export is awaited in the finally block: a cancellation there skips RUN_END.
CancelExport ==
    /\ Cancellable /\ ~cancelled
    /\ phase = "exporting" /\ export
    /\ cancelled' = TRUE
    /\ phase' = "ended"
    /\ UNCHANGED << callVars, pos, parallel, serial, taskVars, status, runEnd >>

-----------------------------------------------------------------------------
RunnerStep ==
    \/ NextBatch \/ Coalesce \/ RunGroup \/ GuardUnknown \/ Gathered \/ GatherRaises
    \/ Drained \/ SerialDone \/ SerialRaises \/ PlanDone \/ Finish \/ ExportRaises
    \/ CancelledGather

Ended == phase = "ended" /\ (\A a \in Action : ~Live(a)) /\ UNCHANGED vars

Next ==
    \/ Call \/ RunnerStep \/ CancelCall \/ CancelExport
    \/ \E a \in Action : TaskStep(a)
    \/ Ended

Spec == Init /\ [][Next]_vars

\* The event loop resumes the runner and every task; service calls return or
\* raise, waits have timeouts, and the export returns or raises.  Nothing forces a call or a cancellation.
FairSpec == Spec /\ WF_vars(RunnerStep) /\ \A a \in Action : WF_vars(TaskStep(a))

-----------------------------------------------------------------------------
(* Properties                                                              *)

\* Once the runner has left a gather, none of its tasks is left behind: a later
\* group, the export and RUN_END never overlap an action of a group before.
\* (A call cancelled from outside leaves its gather with the first child.)
NoTaskLeftBehind ==
    phase \notin {"parallel", "draining", "cancelling"} /\ ~cancelled =>
        \A a \in Action : Live(a) => phase = "serial" /\ a = Head(serial)

\* Why: where a live task can be in every phase of the runner.
TasksAccountedFor ==
    /\ task \in [Action -> TaskStage]
    /\ phase \in Phase
    /\ phase \in {"idle", "group", "coalescing"} => \A a \in Action : ~Live(a)
    /\ phase \in {"parallel", "draining", "cancelling"} => \A a \in Action : Live(a) => a \in parallel
    /\ phase = "cancelling" => cancelled
    /\ phase = "serial" => \A a \in Action : Live(a) => a = Head(serial)
    /\ phase \in {"exporting", "ended"} /\ ~cancelled => \A a \in Action : ~Live(a)

\* An EXCEPTION or END event closes every BEGIN of a call that was not itself
\* cancelled, except for the actions the runner cancelled because another failed.
BeginsAreClosed ==
    phase = "ended" /\ ~cancelled =>
        \A a \in began : task[a] \in {"ok", "error"}
                         \/ (a \in asked /\ \E b \in parallel : task[b] = "error")

\* The call ends, whatever fails or is cancelled: gather and the drain after it
\* never wait for a task that waits for them.
CallEnds == phase # "idle" ~> phase = "ended"

-----------------------------------------------------------------------------
(* The runner keeps the contract.                                          *)

\* Without RUN_END a call that was not cancelled ended by the exception of its export.
HowItEnds ==
    IF phase # "ended" THEN "running"
    ELSE IF cancelled THEN "cancelled"
    ELSE IF runEnd = "none" THEN "unreported" ELSE runEnd

Contract == INSTANCE PlanContract WITH
    before  <- order,
    started <- began,
    done    <- {a \in Action : task[a] = "ok"},
    failed  <- {a \in began : task[a] = "error"},
    dropped <- {a \in began : task[a] = "cancelled"},
    verdict <- HowItEnds

KeepsContract == Contract!Spec
=============================================================================
