----------------------------- MODULE VDevService -----------------------------
(***************************************************************************)
(* The generated Home Assistant component around the plan runner           *)
(* (src/optimizer/m7_component_assembler.py): set-up and unload, and the   *)
(* calls of its one service.  All calls of a Home Assistant process share  *)
(* the runner and its event trace; each call clears the trace, appends its *)
(* events, and at its end may export the trace to the file of the device.  *)
(*                                                                         *)
(* What a call does inside (module PlanRunner) is here the number of       *)
(* events it emits.  A cancelled call may leave tasks behind that go on    *)
(* emitting.  Events are pairs <<call, n>>, numbered from RUN_BEGIN = 0.   *)
(***************************************************************************)
EXTENDS Integers, Sequences, FiniteSets, SequencesExt

CONSTANTS
    Call,        \* the service calls of a behaviour, each made at most once
    NoCall,
    MaxEvents    \* bound: events a call emits between RUN_BEGIN and RUN_END

ASSUME ServiceAssumption == NoCall \notin Call /\ MaxEvents \in Nat

VARIABLES
    entry,      \* the config entry is loaded
    runtime,    \* hass.data[DOMAIN]["runtime"]: which of traces it holds, or 0
    handler,    \* the runtime the registered service is bound to, or 0
    traces,     \* the event_trace of every runtime made since the process started
    state,      \* [Call -> where run() is]
    home,       \* [Call -> the runtime the call runs in, or 0]
    sent,       \* [Call -> events emitted since RUN_BEGIN]
    behind,     \* cancelled calls with tasks still alive
    saved,      \* [Call -> the trace in the call's export payload]
    writer,     \* [Call -> the thread that writes the export]
    file,       \* calls whose export the trace file has bytes of
    latest,     \* history: the call that began last in this process
    disturbed,  \* history: calls that overlapped another before their export
    clash       \* history: calls whose write overlapped another's

lifecycle == << entry, runtime, handler >>
exports   == << saved, writer, file, clash >>
history   == << latest, disturbed >>
vars      == << lifecycle, traces, state, home, sent, behind, exports, history >>

State  == {"none", "running", "exporting", "ended", "lost"}
Writer == {"none", "queued", "open", "done", "failed"}
Event  == Call \X (0 .. MaxEvents + 2)

\* The calls whose events may still reach the trace.
Active == {c \in Call : state[c] \in {"running", "exporting"}} \union behind

Init ==
    /\ entry = FALSE /\ runtime = 0 /\ handler = 0 /\ traces = << >>
    /\ state = [c \in Call |-> "none"] /\ home = [c \in Call |-> 0]
    /\ sent = [c \in Call |-> 0] /\ behind = {}
    /\ saved = [c \in Call |-> << >>] /\ writer = [c \in Call |-> "none"]
    /\ file = {}
    /\ latest = NoCall /\ disturbed = {} /\ clash = {}

-----------------------------------------------------------------------------
(* Set-up and unload                                                       *)

\* Mutant of EnsureRuntime: the early return is missing.
EnsureRuntimeAlways ==
    /\ traces' = Append(traces, << >>)
    /\ runtime' = Len(traces) + 1
    /\ handler' = Len(traces) + 1

\* _ensure_runtime returns early when there is a runtime, registered or not.
EnsureRuntime ==
    IF runtime # 0 THEN UNCHANGED << traces, runtime, handler >>
    ELSE /\ traces' = Append(traces, << >>)
         /\ runtime' = Len(traces) + 1
         /\ handler' = Len(traces) + 1

\* async_setup: once per process, before any entry.
SetUp ==
    /\ runtime = 0
    /\ EnsureRuntime
    /\ UNCHANGED << entry, state, home, sent, behind, exports, history >>

SetUpEntry ==
    /\ runtime # 0 /\ ~entry
    /\ entry' = TRUE
    /\ EnsureRuntime
    /\ UNCHANGED << state, home, sent, behind, exports, history >>

\* async_unload_entry removes the service and leaves the runtime in hass.data.
UnloadEntry ==
    /\ entry
    /\ entry' = FALSE
    /\ handler' = IF runtime # 0 THEN 0 ELSE handler
    /\ UNCHANGED << runtime, traces, state, home, sent, behind, exports, history >>

\* The process restarts: everything but the file is gone.  A write under way
\* ends with the bytes it had got out.
Restart ==
    /\ runtime # 0
    /\ entry' = FALSE /\ runtime' = 0 /\ handler' = 0 /\ traces' = << >>
    /\ state' = [c \in Call |-> IF state[c] \in {"running", "exporting"} THEN "lost" ELSE state[c]]
    /\ behind' = {}
    /\ writer' = [c \in Call |-> IF writer[c] \in {"queued", "open"} THEN "failed" ELSE writer[c]]
    /\ latest' = NoCall
    /\ UNCHANGED << home, sent, saved, file, disturbed, clash >>

-----------------------------------------------------------------------------
(* A call                                                                  *)

Emitted(c, events) == traces' = [traces EXCEPT ![home[c]] = @ \o events]

\* Mutant of RunBegin: the trace of the run before is not cleared.
RunBeginKeepsTrace(c) ==
    /\ state[c] = "none" /\ handler # 0
    /\ state'  = [state EXCEPT ![c] = "running"]
    /\ home'   = [home EXCEPT ![c] = handler]
    /\ traces' = [traces EXCEPT ![handler] = Append(@, << c, 0 >>)]
    /\ latest' = c
    /\ disturbed' = IF Active = {} THEN disturbed ELSE disturbed \union Active \union {c}
    /\ UNCHANGED << lifecycle, sent, behind, exports >>

\* _handle_run and the head of run(): the trace is cleared, RUN_BEGIN emitted.
RunBegin(c) ==
    /\ state[c] = "none" /\ handler # 0
    /\ state'  = [state EXCEPT ![c] = "running"]
    /\ home'   = [home EXCEPT ![c] = handler]
    /\ traces' = [traces EXCEPT ![handler] = << << c, 0 >> >>]
    /\ latest' = c
    /\ disturbed' = IF Active = {} THEN disturbed ELSE disturbed \union Active \union {c}
    /\ UNCHANGED << lifecycle, sent, behind, exports >>

\* An action, the rate controller or the runner emits an event; so does a task
\* a cancelled call has left behind.
Emit(c) ==
    /\ state[c] = "running" \/ c \in behind
    /\ sent[c] < MaxEvents
    /\ sent' = [sent EXCEPT ![c] = @ + 1]
    /\ Emitted(c, << << c, sent[c] + 1 >> >>)
    /\ UNCHANGED << lifecycle, state, home, behind, exports, history >>

\* The finally block without an export: RUN_END, and the call returns or raises.
EndRun(c) ==
    /\ state[c] = "running"
    /\ state' = [state EXCEPT ![c] = "ended"]
    /\ Emitted(c, << << c, MaxEvents + 2 >> >>)
    /\ UNCHANGED << lifecycle, home, sent, exports, history >>

\* _maybe_export_trace: the payload copies the trace, a thread is to write it.
BeginExport(c) ==
    /\ state[c] = "running"
    /\ state'  = [state EXCEPT ![c] = "exporting"]
    /\ saved'  = [saved EXCEPT ![c] = traces[home[c]]]
    /\ writer' = [writer EXCEPT ![c] = "queued"]
    /\ UNCHANGED << lifecycle, traces, home, sent, file, clash, history >>

\* A call leaves the plan by itself, or cancelled with tasks left behind.
LeavePlan(c) ==
    /\ EndRun(c) \/ BeginExport(c)
    /\ behind' \in {behind, behind \union {c}}

Settle(c) ==
    /\ c \in behind
    /\ behind' = behind \ {c}
    /\ UNCHANGED << lifecycle, traces, state, home, sent, exports, history >>

\* Mutant of EndExport: the call waits until the file holds its own export.
EndExportChecked(c) ==
    /\ state[c] = "exporting" /\ writer[c] = "done" /\ file = {c}
    /\ state' = [state EXCEPT ![c] = "ended"]
    /\ Emitted(c, << << c, MaxEvents + 1 >>, << c, MaxEvents + 2 >> >>)
    /\ UNCHANGED << lifecycle, home, sent, behind, exports, history >>

\* The thread is done: TRACE_EXPORTED and RUN_END.
EndExport(c) ==
    /\ state[c] = "exporting" /\ writer[c] = "done"
    /\ state' = [state EXCEPT ![c] = "ended"]
    /\ Emitted(c, << << c, MaxEvents + 1 >>, << c, MaxEvents + 2 >> >>)
    /\ UNCHANGED << lifecycle, home, sent, behind, exports, history >>

\* The write raised: the exception leaves the finally block before RUN_END.
ExportRaises(c) ==
    /\ state[c] = "exporting" /\ writer[c] = "failed"
    /\ state' = [state EXCEPT ![c] = "ended"]
    /\ UNCHANGED << lifecycle, traces, home, sent, behind, exports, history >>

\* A cancellation while the export is awaited; the thread goes on.
CancelExport(c) ==
    /\ state[c] = "exporting"
    /\ state' = [state EXCEPT ![c] = "ended"]
    /\ UNCHANGED << lifecycle, traces, home, sent, behind, exports, history >>

-----------------------------------------------------------------------------
(* The thread: write_text opens the file of the device and writes it       *)

Writing == {d \in Call : writer[d] = "open"}

\* Mutant of OpenFile: the file is opened for appending.
OpenFileAppend(c) ==
    /\ writer[c] = "queued"
    /\ writer' = [writer EXCEPT ![c] = "open"]
    /\ clash' = IF Writing = {} THEN clash ELSE clash \union Writing \union {c}
    /\ UNCHANGED << lifecycle, traces, state, home, sent, behind, saved, file, history >>

OpenFile(c) ==
    /\ writer[c] = "queued"
    /\ writer' = [writer EXCEPT ![c] = "open"]
    /\ file' = {}
    /\ clash' = IF Writing = {} THEN clash ELSE clash \union Writing \union {c}
    /\ UNCHANGED << lifecycle, traces, state, home, sent, behind, saved, history >>

WriteFile(c) ==
    /\ writer[c] = "open"
    /\ writer' = [writer EXCEPT ![c] = "done"]
    /\ file' = file \union {c}
    /\ UNCHANGED << lifecycle, traces, state, home, sent, behind, saved, clash, history >>

\* The file cannot be opened, or not written to its end.
WriteFails(c) ==
    /\ writer[c] \in {"queued", "open"}
    /\ writer' = [writer EXCEPT ![c] = "failed"]
    /\ UNCHANGED << lifecycle, traces, state, home, sent, behind, saved, file, clash, history >>

-----------------------------------------------------------------------------
CallStep(c) ==
    \/ Emit(c) \/ LeavePlan(c) \/ Settle(c) \/ EndExport(c) \/ ExportRaises(c)
    \/ OpenFile(c) \/ WriteFile(c) \/ WriteFails(c)

Next ==
    \/ SetUp \/ SetUpEntry \/ UnloadEntry \/ Restart
    \/ \E c \in Call : RunBegin(c) \/ CallStep(c) \/ CancelExport(c)

Spec == Init /\ [][Next]_vars

\* The event loop and the thread pool go on; a run ends (module PlanRunner).
FairSpec == Spec /\ \A c \in Call : WF_vars(CallStep(c))

-----------------------------------------------------------------------------
(* Properties                                                              *)

\* The trace of hass.data, which install.md tells the user to look at, is the one
\* the running calls write to, however entries are unloaded and set up meanwhile.
DebugTraceIsLive ==
    \A c \in Call : state[c] \in {"running", "exporting"} => home[c] = runtime

\* That trace begins with the RUN_BEGIN of the call that began last, whatever
\* calls and leftover tasks write into it.
LatestRunFirst ==
    latest # NoCall => traces[home[latest]][1] = << latest, 0 >>

\* Only exports whose writes overlapped are mixed in the file.
FileOfOneExport == Cardinality(file) > 1 => file \subseteq clash

OwnTrace(c) == [i \in 1 .. sent[c] + 1 |-> << c, i - 1 >>]

\* A call that no other call and no leftover task overlapped before its export
\* exports its own events, all of them and in order.
LoneRunExportsItself ==
    [][\A c \in Call : saved'[c] # saved[c] /\ c \notin disturbed => saved'[c] = OwnTrace(c)]_vars

\* Every call ends or is lost with the process, and its leftover tasks settle.
CallsEnd == \A c \in Call : state[c] = "running" ~> state[c] \in {"ended", "lost"} /\ c \notin behind
=============================================================================
