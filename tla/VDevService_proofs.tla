-------------------------- MODULE VDevService_proofs --------------------------
(***************************************************************************)
(* For any number of calls, events and restarts: the calls that are under  *)
(* way write to the trace hass.data shows.  The early return of            *)
(* _ensure_runtime is what keeps it so when an entry is set up again.      *)
(* Then what is in the trace (TraceKept) and in the file (WritesKept).     *)
(***************************************************************************)
EXTENDS VDevService, FiniteSetTheorems, SequenceTheorems, TLAPS

\* The service is bound to the runtime of hass.data or to none, and a call that
\* is under way runs in it; without a runtime there is no such call.
OneRuntime ==
    /\ state \in [Call -> State] /\ DOMAIN home = Call
    /\ handler \in {0, runtime}
    /\ DebugTraceIsLive
    /\ \A c \in Call : state[c] \in {"running", "exporting"} => runtime # 0

LEMMA InitOneRuntime == Init => OneRuntime
BY DEF Init, OneRuntime, DebugTraceIsLive, State

LEMMA EnsureRuntimeKeeps ==
    ASSUME OneRuntime, EnsureRuntime, UNCHANGED << state, home >>
    PROVE  OneRuntime'
<1>1. CASE runtime # 0
    BY <1>1 DEF EnsureRuntime, OneRuntime, DebugTraceIsLive
<1>2. CASE runtime = 0
    <2>1. handler' = runtime'
        BY <1>2 DEF EnsureRuntime
    <2>2. \A c \in Call : state[c] \notin {"running", "exporting"}
        BY <1>2 DEF OneRuntime
    <2> QED
        BY <2>1, <2>2 DEF OneRuntime, DebugTraceIsLive
<1> QED
    BY <1>1, <1>2

LEMMA LifecycleStep ==
    ASSUME OneRuntime, SetUp \/ SetUpEntry \/ UnloadEntry \/ Restart
    PROVE  OneRuntime'
<1>1. CASE SetUp \/ SetUpEntry
    BY <1>1, EnsureRuntimeKeeps DEF SetUp, SetUpEntry
<1>2. CASE UnloadEntry
    BY <1>2 DEF UnloadEntry, OneRuntime, DebugTraceIsLive
<1>3. CASE Restart
    BY <1>3 DEF Restart, OneRuntime, DebugTraceIsLive, State
<1> QED
    BY <1>1, <1>2, <1>3

LEMMA RunBeginStep ==
    ASSUME OneRuntime, NEW c \in Call, RunBegin(c)
    PROVE  OneRuntime'
<1>1. /\ handler # 0 /\ UNCHANGED << runtime, handler >>
      /\ state' = [state EXCEPT ![c] = "running"]
      /\ home' = [home EXCEPT ![c] = handler]
    BY DEF RunBegin, lifecycle
<1>2. handler = runtime
    BY <1>1 DEF OneRuntime
<1> QED
    BY <1>1, <1>2 DEF OneRuntime, DebugTraceIsLive, State

\* A call's later steps leave the runtime alone and begin no call.
LEMMA CallStepKeeps ==
    ASSUME OneRuntime, NEW c \in Call, CallStep(c) \/ CancelExport(c)
    PROVE  OneRuntime'
<1>1. UNCHANGED << runtime, handler, home >>
    BY DEF CallStep, CancelExport, Emit, LeavePlan, EndRun, BeginExport, Settle, EndExport,
           ExportRaises, OpenFile, WriteFile, WriteFails, lifecycle
<1>2. \/ UNCHANGED state
      \/ state' = [state EXCEPT ![c] = "ended"]
      \/ state[c] = "running" /\ state' = [state EXCEPT ![c] = "exporting"]
    BY DEF CallStep, CancelExport, Emit, LeavePlan, EndRun, BeginExport, Settle, EndExport,
           ExportRaises, OpenFile, WriteFile, WriteFails
<1> QED
    BY <1>1, <1>2 DEF OneRuntime, DebugTraceIsLive, State

LEMMA StepOneRuntime == OneRuntime /\ [Next]_vars => OneRuntime'
<1> SUFFICES ASSUME OneRuntime, [Next]_vars PROVE OneRuntime'
    OBVIOUS
<1>1. CASE UNCHANGED vars
    BY <1>1 DEF vars, lifecycle, OneRuntime, DebugTraceIsLive
<1> QED
    BY <1>1, LifecycleStep, RunBeginStep, CallStepKeeps DEF Next

\* hass.data[DOMAIN]["runtime"]["event_trace"] is the trace running calls write to.
THEOREM LiveDebugTrace == Spec => []DebugTraceIsLive
<1>1. Init => OneRuntime
    BY InitOneRuntime
<1>2. OneRuntime /\ [Next]_vars => OneRuntime'
    BY StepOneRuntime
<1>3. OneRuntime => DebugTraceIsLive
    BY DEF OneRuntime
<1> QED
    BY <1>1, <1>2, <1>3, PTL DEF Spec

-----------------------------------------------------------------------------
\* Two exports in the file, two threads at the file, or one at it and one in it:
\* their writes overlapped.
WritesKept ==
    /\ writer \in [Call -> Writer]
    /\ file \subseteq Call
    /\ \A c, d \in Writing \union file : c # d => {c, d} \subseteq clash

LEMMA StepWrites == WritesKept /\ [Next]_vars => WritesKept'
<1> SUFFICES ASSUME WritesKept, [Next]_vars PROVE WritesKept'
    OBVIOUS
<1> USE DEF WritesKept, Writing, Writer
<1>1. CASE UNCHANGED << writer, file, clash >>
    BY <1>1
<1>2. CASE Restart
    BY <1>2 DEF Restart
<1>3. ASSUME NEW c \in Call, OpenFile(c)
      PROVE  WritesKept'
    BY <1>3 DEF OpenFile
<1>4. ASSUME NEW c \in Call, WriteFile(c)
      PROVE  WritesKept'
    BY <1>4 DEF WriteFile
<1>5. ASSUME NEW c \in Call, WriteFails(c)
      PROVE  WritesKept'
    BY <1>5 DEF WriteFails
<1>6. ASSUME NEW c \in Call, BeginExport(c)
      PROVE  WritesKept'
    BY <1>6 DEF BeginExport
<1>7. ASSUME NEW c \in Call, RunBegin(c) \/ Emit(c) \/ EndRun(c) \/ Settle(c) \/ EndExport(c)
                             \/ ExportRaises(c) \/ CancelExport(c)
      PROVE  UNCHANGED << writer, file, clash >>
    BY <1>7 DEF RunBegin, Emit, EndRun, Settle, EndExport, ExportRaises, CancelExport, exports
<1>8. CASE SetUp \/ SetUpEntry \/ UnloadEntry \/ UNCHANGED vars
    BY <1>1, <1>8 DEF SetUp, SetUpEntry, UnloadEntry, vars, exports
<1> QED
    BY <1>1, <1>2, <1>3, <1>4, <1>5, <1>6, <1>7, <1>8 DEF Next, CallStep, LeavePlan

\* The trace file holds bytes of two exports only when their writes overlapped,
\* whatever fails, is cancelled or is cut off by a restart.
THEOREM MixedOnlyByOverlap == Spec => []FileOfOneExport
<1>1. Init => WritesKept
    BY DEF Init, WritesKept, Writing, Writer
<1>2. WritesKept /\ [Next]_vars => WritesKept'
    BY StepWrites
<1>3. WritesKept => FileOfOneExport
  <2> SUFFICES ASSUME WritesKept, Cardinality(file) > 1, NEW c \in file
               PROVE  c \in clash
      BY DEF FileOfOneExport
  <2>1. Cardinality({c}) = 1
      BY FS_Singleton
  <2>2. file # {c}
      BY <2>1
  <2>3. PICK d \in file : d # c
      BY <2>2
  <2> QED
      BY <2>3 DEF WritesKept
<1> QED
    BY <1>1, <1>2, <1>3, PTL DEF Spec

-----------------------------------------------------------------------------
\* The runtime of the call that began last has a trace, and it begins with that
\* call's RUN_BEGIN; every other event was appended.
TraceKept ==
    /\ traces \in Seq(Seq(Event))
    /\ handler \in 0 .. Len(traces)
    /\ home \in [Call -> Nat] /\ sent \in [Call -> 0 .. MaxEvents]
    /\ latest # NoCall =>
          /\ latest \in Call /\ home[latest] \in 1 .. Len(traces)
          /\ traces[home[latest]] # << >> /\ traces[home[latest]][1] = << latest, 0 >>

LEMMA EmittedKeeps ==
    ASSUME TraceKept, NEW c \in Call, NEW events \in Seq(Event), Emitted(c, events),
           UNCHANGED << handler, home, latest >>, sent' \in [Call -> 0 .. MaxEvents]
    PROVE  TraceKept'
<1>1. traces' = [traces EXCEPT ![home[c]] = traces[home[c]] \o events]
    BY DEF Emitted
<1>2. traces \in Seq(Seq(Event))
    BY DEF TraceKept
<1>3. CASE home[c] \notin 1 .. Len(traces)
  <2>1. traces' = traces
      BY <1>1, <1>2, <1>3
  <2> QED
      BY <2>1 DEF TraceKept
<1>4. CASE home[c] \in 1 .. Len(traces)
  <2>1. PICK h \in 1 .. Len(traces) : h = home[c]
      BY <1>4
  <2>2. PICK t \in Seq(Event) : t = traces[h]
      BY <1>2
  <2>3. t \o events \in Seq(Event)
      BY ConcatProperties
  <2>4. traces' = [traces EXCEPT ![h] = t \o events]
      BY <1>1, <2>1, <2>2
  <2>5. traces' \in Seq(Seq(Event)) /\ Len(traces') = Len(traces)
      BY <1>2, <2>3, <2>4
  <2>6. traces'[h] = t \o events /\ \A i \in 1 .. Len(traces) : i # h => traces'[i] = traces[i]
      BY <1>2, <2>4
  <2>7. t # << >> => t \o events # << >> /\ (t \o events)[1] = t[1]
    <3>1. SUFFICES ASSUME t # << >>
                   PROVE  t \o events # << >> /\ (t \o events)[1] = t[1]
        OBVIOUS
    <3>2. Len(t) \in Nat \ {0}
        BY <3>1, EmptySeq
    <3>3. Len(t \o events) = Len(t) + Len(events) /\ Len(events) \in Nat
        BY ConcatProperties
    <3> QED
        BY <3>2, <3>3
  <2>8. ASSUME latest # NoCall
        PROVE  traces'[home[latest]] # << >> /\ traces'[home[latest]][1] = << latest, 0 >>
    <3>1. /\ home[latest] \in 1 .. Len(traces)
          /\ traces[home[latest]] # << >> /\ traces[home[latest]][1] = << latest, 0 >>
        BY <2>8 DEF TraceKept
    <3>2. CASE home[latest] = h
        BY <2>2, <2>6, <2>7, <3>1, <3>2
    <3>3. CASE home[latest] # h
        BY <2>6, <3>1, <3>3
    <3> QED
        BY <3>2, <3>3
  <2> QED
      BY <2>5, <2>8 DEF TraceKept
<1> QED
    BY <1>3, <1>4

LEMMA StepTrace == TraceKept /\ [Next]_vars => TraceKept'
<1> SUFFICES ASSUME TraceKept, [Next]_vars PROVE TraceKept'
    OBVIOUS
<1> MaxEvents \in Nat /\ NoCall \notin Call
    BY ServiceAssumption
<1>1. ASSUME UNCHANGED << traces, handler, home, sent, latest >>
      PROVE  TraceKept'
    BY <1>1 DEF TraceKept
<1>2. CASE SetUp \/ SetUpEntry
  <2>1. EnsureRuntime /\ UNCHANGED << home, sent, latest >>
      BY <1>2 DEF SetUp, SetUpEntry, history
  <2>2. CASE runtime # 0
      BY <1>1, <2>1, <2>2 DEF EnsureRuntime
  <2>3. CASE runtime = 0
    <3>1. traces' = Append(traces, << >>) /\ handler' = Len(traces) + 1
        BY <2>1, <2>3 DEF EnsureRuntime
    <3>2. /\ traces' \in Seq(Seq(Event)) /\ Len(traces') = Len(traces) + 1
          /\ \A i \in 1 .. Len(traces) : traces'[i] = traces[i]
        BY <3>1 DEF TraceKept
    <3> QED
        BY <2>1, <3>1, <3>2 DEF TraceKept
  <2> QED
      BY <2>2, <2>3
<1>3. CASE UnloadEntry
    BY <1>3 DEF UnloadEntry, history, TraceKept
<1>4. CASE Restart
    BY <1>4 DEF Restart, TraceKept
<1>5. ASSUME NEW c \in Call, RunBegin(c)
      PROVE  TraceKept'
  <2>1. /\ handler # 0 /\ home' = [home EXCEPT ![c] = handler]
        /\ traces' = [traces EXCEPT ![handler] = << << c, 0 >> >>]
        /\ latest' = c /\ UNCHANGED << handler, sent >>
      BY <1>5 DEF RunBegin, lifecycle
  <2>2. << c, 0 >> \in Event
      BY DEF Event
  <2>3. handler \in 1 .. Len(traces) /\ << << c, 0 >> >> \in Seq(Event)
      BY <2>1, <2>2 DEF TraceKept
  <2>4. traces' \in Seq(Seq(Event)) /\ Len(traces') = Len(traces)
        /\ traces'[handler] = << << c, 0 >> >>
      BY <2>1, <2>3 DEF TraceKept
  <2> QED
      BY <2>1, <2>3, <2>4 DEF TraceKept
<1>6. ASSUME NEW c \in Call, Emit(c)
      PROVE  TraceKept'
  <2>1. sent[c] < MaxEvents /\ sent' = [sent EXCEPT ![c] = @ + 1] /\ sent[c] \in 0 .. MaxEvents
      BY <1>6 DEF Emit, TraceKept
  <2>2. sent' \in [Call -> 0 .. MaxEvents] /\ << c, sent[c] + 1 >> \in Event
      BY <2>1 DEF TraceKept, Event
  <2> QED
      BY <1>6, <2>2, EmittedKeeps DEF Emit, lifecycle, history
<1>7. ASSUME NEW c \in Call, EndRun(c) \/ EndExport(c)
      PROVE  TraceKept'
  <2>1. << c, MaxEvents + 1 >> \in Event /\ << c, MaxEvents + 2 >> \in Event
      BY DEF Event
  <2>2. /\ << << c, MaxEvents + 2 >> >> \in Seq(Event)
        /\ << << c, MaxEvents + 1 >>, << c, MaxEvents + 2 >> >> \in Seq(Event)
      BY <2>1
  <2>3. UNCHANGED << handler, home, latest, sent >>
      BY <1>7 DEF EndRun, EndExport, lifecycle, history
  <2>4. \E e \in Seq(Event) : Emitted(c, e)
      BY <1>7, <2>2 DEF EndRun, EndExport
  <2> QED
      BY <2>3, <2>4, EmittedKeeps DEF TraceKept
<1>8. ASSUME NEW c \in Call, BeginExport(c) \/ Settle(c) \/ ExportRaises(c) \/ CancelExport(c)
                             \/ OpenFile(c) \/ WriteFile(c) \/ WriteFails(c)
      PROVE  TraceKept'
    BY <1>1, <1>8 DEF BeginExport, Settle, ExportRaises, CancelExport, OpenFile, WriteFile,
                      WriteFails, lifecycle, history
<1>9. CASE UNCHANGED vars
    BY <1>1, <1>9 DEF vars, lifecycle, history
<1> QED
    BY <1>2, <1>3, <1>4, <1>5, <1>6, <1>7, <1>8, <1>9 DEF Next, CallStep, LeavePlan

\* For any number of overlapping calls, leftover tasks and exports: the trace of the
\* runtime begins with the call that began last.
THEOREM LatestComesFirst == Spec => []LatestRunFirst
<1>1. Init => TraceKept
    BY ServiceAssumption DEF Init, TraceKept
<1>2. TraceKept /\ [Next]_vars => TraceKept'
    BY StepTrace
<1>3. TraceKept => LatestRunFirst
    BY DEF TraceKept, LatestRunFirst
<1> QED
    BY <1>1, <1>2, <1>3, PTL DEF Spec

-----------------------------------------------------------------------------
\* A call that is undisturbed is the only one active, and the trace it runs in is its own.
LoneKept ==
    /\ behind \subseteq Call /\ DOMAIN saved = Call
    /\ runtime \in 0 .. Len(traces)
    /\ behind # {} => runtime # 0
    /\ \A c \in Call : state[c] = "none" => sent[c] = 0 /\ c \notin behind
    /\ \A c \in Call : state[c] = "running" /\ c \notin disturbed =>
           Active = {c} /\ traces[home[c]] = OwnTrace(c)

ServiceInv == OneRuntime /\ TraceKept /\ LoneKept

LEMMA LoneLifecycle ==
    ASSUME ServiceInv, SetUp \/ SetUpEntry \/ UnloadEntry \/ Restart
    PROVE  LoneKept'
<1>1. CASE SetUp \/ SetUpEntry
  <2>1. EnsureRuntime /\ UNCHANGED << state, home, sent, behind, saved, disturbed >>
      BY <1>1 DEF SetUp, SetUpEntry, history, exports
  <2>2. CASE runtime # 0
      BY <2>1, <2>2 DEF EnsureRuntime, ServiceInv, LoneKept, Active, OwnTrace
  <2>3. CASE runtime = 0
    <3>1. runtime' = Len(traces) + 1 /\ Len(traces) \in Nat /\ Len(traces') = Len(traces) + 1
        BY <2>1, <2>3 DEF EnsureRuntime, ServiceInv, TraceKept
    <3>2. \A c \in Call : state[c] # "running"
        BY <2>3 DEF ServiceInv, OneRuntime
    <3> QED
        BY <2>1, <3>1, <3>2 DEF ServiceInv, LoneKept
  <2> QED
      BY <2>2, <2>3
<1>2. CASE UnloadEntry
    BY <1>2 DEF UnloadEntry, history, exports, ServiceInv, LoneKept, Active, OwnTrace
<1>3. CASE Restart
    BY <1>3 DEF Restart, ServiceInv, OneRuntime, LoneKept
<1> QED
    BY <1>1, <1>2, <1>3

LEMMA LoneRunBegin ==
    ASSUME ServiceInv, NEW c \in Call, RunBegin(c)
    PROVE  LoneKept'
<1>1. /\ state[c] = "none" /\ handler # 0
      /\ state' = [state EXCEPT ![c] = "running"] /\ home' = [home EXCEPT ![c] = handler]
      /\ traces' = [traces EXCEPT ![handler] = << << c, 0 >> >>]
      /\ disturbed' = IF Active = {} THEN disturbed ELSE disturbed \union Active \union {c}
      /\ UNCHANGED << runtime, sent, behind, saved >>
    BY DEF RunBegin, lifecycle, exports
<1>2. /\ state \in [Call -> State] /\ home \in [Call -> Nat] /\ traces \in Seq(Seq(Event))
      /\ handler \in 1 .. Len(traces) /\ sent[c] = 0
    BY <1>1 DEF ServiceInv, OneRuntime, TraceKept, LoneKept
<1>3. Active' = Active \union {c}
    BY <1>1, <1>2 DEF Active
<1>4. Len(traces') = Len(traces) /\ traces'[home'[c]] = << << c, 0 >> >>
    BY <1>1, <1>2
<1>5. OwnTrace(c)' = << << c, 0 >> >>
    BY <1>1, <1>2 DEF OwnTrace
<1>6. ASSUME NEW d \in Call, state'[d] = "running", d \notin disturbed'
      PROVE  Active' = {d} /\ traces'[home'[d]] = OwnTrace(d)'
  <2>1. Active = {} /\ d = c
      BY <1>1, <1>2, <1>6 DEF Active
  <2> QED
      BY <1>3, <1>4, <1>5, <2>1
<1>7. \A d \in Call : state'[d] = "none" => sent'[d] = 0 /\ d \notin behind'
    BY <1>1, <1>2 DEF ServiceInv, LoneKept
<1>8. behind' \subseteq Call /\ DOMAIN saved' = Call /\ runtime' \in 0 .. Len(traces')
      /\ (behind' # {} => runtime' # 0)
    BY <1>1, <1>4 DEF ServiceInv, LoneKept
<1> QED
    BY <1>6, <1>7, <1>8 DEF LoneKept

\* A call only adds to the trace it runs in.
LEMMA EmittedLength ==
    ASSUME TraceKept, NEW c, NEW events, Emitted(c, events)
    PROVE  Len(traces') = Len(traces)
BY DEF Emitted, TraceKept

\* The events of a call, and the next one.
LEMMA EventsAppended ==
    ASSUME NEW c, NEW n \in Nat
    PROVE  [i \in 1 .. n + 1 |-> << c, i - 1 >>] \o << << c, n + 1 >> >>
               = [i \in 1 .. n + 2 |-> << c, i - 1 >>]
<1> DEFINE S == {c} \X Int
           s == [i \in 1 .. n + 1 |-> << c, i - 1 >>]
           u == << << c, n + 1 >> >>
           t == [i \in 1 .. n + 2 |-> << c, i - 1 >>]
<1>1. s \in Seq(S) /\ Len(s) = n + 1 /\ u \in Seq(S) /\ Len(u) = 1 /\ u[1] = << c, n + 1 >>
    OBVIOUS
<1>2. t \in Seq(S) /\ Len(t) = n + 2
    OBVIOUS
<1>3. \A i \in 1 .. n + 1 : s[i] = t[i]
    OBVIOUS
<1>4. t[n + 2] = << c, n + 1 >>
    OBVIOUS
<1> HIDE DEF s, u, t, S
<1>5. s \o u \in Seq(S) /\ Len(s \o u) = n + 2
    BY <1>1, ConcatProperties
<1>6. \A i \in 1 .. n + 2 : (s \o u)[i] = IF i <= n + 1 THEN s[i] ELSE u[i - (n + 1)]
    BY <1>1, ConcatProperties
<1>7. ASSUME NEW i \in 1 .. n + 2
      PROVE  (s \o u)[i] = t[i]
  <2>1. CASE i <= n + 1
    <3>1. i \in 1 .. n + 1
        BY <2>1
    <3>2. (s \o u)[i] = s[i]
        BY <1>6, <2>1
    <3> QED
        BY <1>3, <3>1, <3>2
  <2>2. CASE ~(i <= n + 1)
    <3>1. i = n + 2 /\ i - (n + 1) = 1
        BY <2>2
    <3> QED
        BY <1>1, <1>4, <1>6, <2>2, <3>1
  <2> QED
      BY <2>1, <2>2
<1>8. s \o u = t
    BY <1>2, <1>5, <1>7, SeqEqual
<1> QED
    BY <1>8 DEF s, u, t

LEMMA LoneEmit ==
    ASSUME ServiceInv, NEW c \in Call, Emit(c)
    PROVE  LoneKept'
<1>1. /\ c \in Active /\ sent' = [sent EXCEPT ![c] = @ + 1]
      /\ state[c] = "running" \/ c \in behind
      /\ traces' = [traces EXCEPT ![home[c]] = @ \o << << c, sent[c] + 1 >> >>]
      /\ UNCHANGED << runtime, state, home, behind, saved, disturbed >>
    BY DEF Emit, Emitted, Active, lifecycle, exports, history
<1>2. /\ sent \in [Call -> 0 .. MaxEvents] /\ traces \in Seq(Seq(Event)) /\ MaxEvents \in Nat
      /\ Len(traces') = Len(traces) /\ runtime \in 0 .. Len(traces)
    BY EmittedLength, ServiceAssumption DEF Emit, ServiceInv, TraceKept, LoneKept
<1>3. Active' = Active
    BY <1>1 DEF Active
<1>4. ASSUME NEW d \in Call, state[d] = "running", d \notin disturbed
      PROVE  Active' = {d} /\ traces'[home[d]] = OwnTrace(d)'
  <2>1. Active = {d} /\ c = d /\ traces[home[d]] = OwnTrace(d)
      BY <1>1, <1>4 DEF ServiceInv, LoneKept
  <2>2. home[d] = runtime /\ runtime # 0
      BY <1>4 DEF ServiceInv, OneRuntime, DebugTraceIsLive
  <2>3. home[d] \in 1 .. Len(traces)
      BY <1>2, <2>2
  <2>4. PICK n \in Nat : n = sent[d]
      BY <1>2
  <2>5. traces'[home[d]] = OwnTrace(d) \o << << d, n + 1 >> >>
      BY <1>1, <1>2, <2>1, <2>3, <2>4
  <2>6. OwnTrace(d)' = [i \in 1 .. n + 2 |-> << d, i - 1 >>]
      BY <1>1, <1>2, <2>1, <2>4 DEF OwnTrace
  <2>7. OwnTrace(d) = [i \in 1 .. n + 1 |-> << d, i - 1 >>]
      BY <2>4 DEF OwnTrace
  <2>8. [i \in 1 .. n + 1 |-> << d, i - 1 >>] \o << << d, n + 1 >> >>
            = [i \in 1 .. n + 2 |-> << d, i - 1 >>]
      BY EventsAppended
  <2> QED
      BY <1>3, <2>1, <2>5, <2>6, <2>7, <2>8
<1>5. \A d \in Call : state[d] = "none" => sent'[d] = 0 /\ d \notin behind
  <2>1. state[c] # "none"
      BY <1>1 DEF ServiceInv, LoneKept, OneRuntime
  <2> QED
      BY <1>1, <1>2, <2>1 DEF ServiceInv, LoneKept
<1> QED
    BY <1>1, <1>2, <1>4, <1>5 DEF ServiceInv, LoneKept

LEMMA LoneLeave ==
    ASSUME ServiceInv, NEW c \in Call, LeavePlan(c)
    PROVE  LoneKept'
<1>1. /\ state[c] = "running" /\ behind' \in {behind, behind \union {c}}
      /\ state' \in {[state EXCEPT ![c] = "ended"], [state EXCEPT ![c] = "exporting"]}
      /\ UNCHANGED << runtime, home, sent, disturbed >>
      /\ DOMAIN saved' = DOMAIN saved
    BY DEF LeavePlan, EndRun, BeginExport, lifecycle, exports, history
<1>2. Len(traces') = Len(traces)
    BY EmittedLength DEF LeavePlan, EndRun, BeginExport, ServiceInv
<1>3. state \in [Call -> State] /\ runtime # 0
    BY <1>1 DEF ServiceInv, OneRuntime
<1>4. c \in Active
    BY <1>1 DEF Active
<1>5. ASSUME NEW d \in Call, state'[d] = "running", d \notin disturbed'
      PROVE  FALSE
  <2>1. state[d] = "running" /\ d # c
      BY <1>1, <1>3, <1>5
  <2>2. Active = {d}
      BY <1>1, <1>5, <2>1 DEF ServiceInv, LoneKept
  <2> QED
      BY <1>4, <2>1, <2>2
<1>6. \A d \in Call : state'[d] = "none" => sent'[d] = 0 /\ d \notin behind'
    BY <1>1, <1>3 DEF ServiceInv, LoneKept
<1> QED
    BY <1>1, <1>2, <1>3, <1>5, <1>6 DEF ServiceInv, LoneKept

\* The end of a call disturbs no lone one, for it would not be alone.
LEMMA LoneEnd ==
    ASSUME ServiceInv, NEW c \in Call, EndExport(c) \/ ExportRaises(c) \/ CancelExport(c)
    PROVE  LoneKept'
<1>1. /\ state[c] = "exporting" /\ state' = [state EXCEPT ![c] = "ended"]
      /\ UNCHANGED << runtime, home, sent, behind, saved, disturbed >>
    BY DEF EndExport, ExportRaises, CancelExport, lifecycle, exports, history
<1>2. Len(traces') = Len(traces)
    BY EmittedLength DEF EndExport, ExportRaises, CancelExport, ServiceInv
<1>3. state \in [Call -> State] /\ c \in Active
    BY <1>1 DEF ServiceInv, OneRuntime, Active
<1>4. ASSUME NEW d \in Call, state'[d] = "running", d \notin disturbed
      PROVE  FALSE
  <2>1. state[d] = "running" /\ d # c
      BY <1>1, <1>3, <1>4
  <2>2. Active = {d}
      BY <1>4, <2>1 DEF ServiceInv, LoneKept
  <2> QED
      BY <1>3, <2>1, <2>2
<1> QED
    BY <1>1, <1>2, <1>3, <1>4 DEF ServiceInv, LoneKept

LEMMA StepLone == ServiceInv /\ [Next]_vars => LoneKept'
<1> SUFFICES ASSUME ServiceInv, [Next]_vars PROVE LoneKept'
    OBVIOUS
<1>1. ASSUME NEW c \in Call, Settle(c)
      PROVE  LoneKept'
  <2>1. /\ behind' = behind \ {c} /\ c \in behind
        /\ UNCHANGED << runtime, traces, state, home, sent, saved, disturbed >>
      BY <1>1 DEF Settle, lifecycle, exports, history
  <2>2. \A d \in Call : state[d] = "running" => d \in Active'
      BY <2>1 DEF Active
  <2>3. Active' \subseteq Active
      BY <2>1 DEF Active
  <2>4. \A d \in Call : OwnTrace(d)' = OwnTrace(d)
      BY <2>1 DEF OwnTrace
  <2>5. \A d \in Call : state[d] = "running" /\ d \notin disturbed => Active' = {d}
      BY <2>2, <2>3 DEF ServiceInv, LoneKept
  <2> QED
      BY <2>1, <2>4, <2>5 DEF ServiceInv, LoneKept
<1>2. CASE UNCHANGED << runtime, traces, state, home, sent, behind, saved, disturbed >>
    BY <1>2 DEF ServiceInv, LoneKept, Active, OwnTrace
<1>3. ASSUME NEW c \in Call, OpenFile(c) \/ WriteFile(c) \/ WriteFails(c)
      PROVE  UNCHANGED << runtime, traces, state, home, sent, behind, saved, disturbed >>
    BY <1>3 DEF OpenFile, WriteFile, WriteFails, lifecycle, history
<1>4. CASE UNCHANGED vars
    BY <1>2, <1>4 DEF vars, lifecycle, exports, history
<1> QED
    BY <1>1, <1>2, <1>3, <1>4, LoneLifecycle, LoneRunBegin, LoneEmit, LoneLeave, LoneEnd
    DEF Next, CallStep

\* What a step exports is the trace of the call's runtime.
LEMMA ExportStep ==
    ASSUME ServiceInv, [Next]_vars
    PROVE  \A c \in Call : saved'[c] # saved[c] /\ c \notin disturbed => saved'[c] = OwnTrace(c)
<1>1. CASE UNCHANGED saved
    BY <1>1
<1>2. ASSUME NEW d \in Call, BeginExport(d)
      PROVE  \A c \in Call : saved'[c] # saved[c] /\ c \notin disturbed => saved'[c] = OwnTrace(c)
  <2>1. state[d] = "running" /\ saved' = [saved EXCEPT ![d] = traces[home[d]]]
      BY <1>2 DEF BeginExport
  <2> QED
      BY <2>1 DEF ServiceInv, LoneKept
<1>3. CASE SetUp \/ SetUpEntry \/ UnloadEntry \/ Restart \/ UNCHANGED vars
    BY <1>1, <1>3 DEF SetUp, SetUpEntry, UnloadEntry, Restart, exports, vars
<1>4. ASSUME NEW d \in Call, RunBegin(d) \/ Emit(d) \/ EndRun(d) \/ Settle(d) \/ EndExport(d)
                             \/ ExportRaises(d) \/ CancelExport(d) \/ OpenFile(d) \/ WriteFile(d)
                             \/ WriteFails(d)
      PROVE  UNCHANGED saved
    BY <1>4 DEF RunBegin, Emit, EndRun, Settle, EndExport, ExportRaises, CancelExport, OpenFile,
                WriteFile, WriteFails, exports
<1> QED
    BY <1>1, <1>2, <1>3, <1>4 DEF Next, CallStep, LeavePlan

\* A call that nothing overlapped before its export exports all its events in order,
\* for any number of other calls, leftover tasks, unloads and restarts around it.
THEOREM LoneExport == Spec => LoneRunExportsItself
<1>1. Init => ServiceInv
  <2>1. Init => LoneKept
      BY DEF Init, LoneKept
  <2>2. Init => TraceKept
      BY ServiceAssumption DEF Init, TraceKept
  <2> QED
      BY <2>1, <2>2, InitOneRuntime DEF ServiceInv
<1>2. ServiceInv /\ [Next]_vars => ServiceInv'
    BY StepOneRuntime, StepTrace, StepLone DEF ServiceInv
<1>3. ServiceInv /\ [Next]_vars =>
          [\A c \in Call : saved'[c] # saved[c] /\ c \notin disturbed => saved'[c] = OwnTrace(c)]_vars
    BY ExportStep
<1> QED
    BY <1>1, <1>2, <1>3, PTL DEF Spec, LoneRunExportsItself
=============================================================================
