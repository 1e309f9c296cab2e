--------------------------- MODULE MicroRefinement ---------------------------
(***************************************************************************)
(* ConservativeCombinedMicroRefiner.refine_case                              *)
(* (src/optimizer/combined_micro_refinement.py) with the two refiners it     *)
(* calls: runs of like batches of a plan become corridors; the lines of a    *)
(* corridor are built one after the other and validated; the corridors that  *)
(* save time are accepted, the largest saving first, unless they conflict;   *)
(* the plan is walked once more, an accepted corridor taking the place of    *)
(* its batches; and the timeline that results is validated as a whole.  The  *)
(* pipeline (src/optimizer/pipeline.py) uses the refined plan only then.     *)
(*                                                                           *)
(* A plan is a sequence of batches [groups, backoff]; a batch is known by    *)
(* its place in the plan (the scheduler names them batch_000, batch_001,     *)
(* ...).  A group is a sequence of actions [id, protocol, kind, mqtt,        *)
(* direct, source, device, session, host]; mqtt says that the service or the *)
(* target, "mqtt:...", makes it a last message read, whatever the kind;      *)
(* direct that the action calls a service and is not the writing of a state. *)
(*                                                                           *)
(* Each of the three files measures batches with functions of its own.  The  *)
(* parameter file says which: "API", "BLE" or, in the walk, "COMBINED".      *)
(***************************************************************************)
EXTENDS BleMicro, ApiMicro, FiniteSetsExt

CONSTANTS
    Plans,       \* the plans a case may bring
    Policies     \* pairs [ble, api] of policies

ActionRecord ==
    [id : Nat, protocol : STRING, kind : STRING, mqtt : BOOLEAN, direct : BOOLEAN,
     source : STRING, device : STRING, session : STRING, host : STRING]

\* The scheduler makes no empty group (PlacedOnce in BatchGroups).
BatchRecord == [groups : Seq(Seq(ActionRecord) \ {<< >>}), backoff : BOOLEAN]

ASSUME PlansAssumption == Plans \subseteq Seq(BatchRecord)

\* No caller changes the lookahead, nor the 220 ms of the backoff: with more than 434 ms
\* the least times of a batch, scaled down and rounded, may leave less than nothing
\* for its last phase.
BlePolicy ==
    [advOverlap : BOOLEAN, unknownSource : BOOLEAN, connectOverlap : BOOLEAN, slots : Nat,
     advTimeout : Nat \ {0}, connectTimeout : Nat \ {0}, lookahead : {1}]
ApiPolicy ==
    [cloudOverlap : BOOLEAN, localOverlap : BOOLEAN, authBudget : BOOLEAN, backoffWait : 1 .. 434]

ASSUME PoliciesAssumption == Policies \subseteq [ble : BlePolicy, api : ApiPolicy]

VARIABLES
    plan, policy,
    todo,        \* the corridors that are not refined yet
    lines,       \* the lines of the one being refined
    pool,        \* the candidates that are not decided yet
    accepted, rejected,
    at, cursor,  \* the next batch of the walk, and its time
    timeline,    \* for every batch walked over: its line, if it has one, and its end
    verdict      \* "", "refined" or "macro"

vars == << plan, policy, todo, lines, pool, accepted, rejected, at, cursor, timeline, verdict >>

-----------------------------------------------------------------------------
(* Batches                                                                 *)

\* The actions of a batch, and the action of a batch that has but one.
Actions(b) == UNION {Range(g) : g \in Range(b.groups)}
IsSingle(b) == Len(b.groups) = 1 /\ Len(b.groups[1]) = 1
Only(b) == b.groups[1][1]

ControlKinds == {"turn_on", "turn_off", "set_temperature", "set_cover_position", "set_percentage"}
IsControl(a) == a.kind \in ControlKinds
Protocol(a) == IF a.protocol = "MQTT" THEN "LOCAL" ELSE a.protocol

\* _is_mqtt_like of api_micro_refinement.py; the other files look at the kind alone.
IsMqtt(file, a) == a.kind = "read_last_message" \/ (file = "API" /\ a.mqtt)

\* _estimated_action_latency_ms
ActionLatency(file, a) ==
    CASE Protocol(a) = "BLE"   -> BleLatency(a.kind)
      [] Protocol(a) = "CLOUD" -> IF a.kind = "read_runtime" THEN 450
                                  ELSE IF IsControl(a) THEN 400 ELSE 350
      [] Protocol(a) = "LOCAL" -> IF IsMqtt(file, a) THEN 80 ELSE 100
      [] Protocol(a) = "HA"    -> 50
      [] OTHER -> 100

LatencySum(file, g) == SumFunction([i \in DOMAIN g |-> ActionLatency(file, g[i])])
LatencyMax(file, g) == Max({ActionLatency(file, a) : a \in Range(g)})

\* _group_latency_ms
GroupLatency(file, g) ==
    LET protocols == {Protocol(a) : a \in Range(g)}
        further == Len(g) - 1
    IN  CASE g = << >>             -> 0
          [] protocols = {"BLE"}   -> LatencySum(file, g)
          [] protocols = {"LOCAL"} -> LatencyMax(file, g) + 20 * further
          [] protocols = {"HA"}    -> LatencyMax(file, g) + 10 * further
          [] protocols = {"CLOUD"} -> LatencyMax(file, g) + 120 * further
          [] OTHER                 -> LatencyMax(file, g)

\* _batch_latency_ms
BatchLatency(file, b) ==
    IF b.groups = << >> THEN 0 ELSE Max({GroupLatency(file, g) : g \in Range(b.groups)})

\* All actions of the batch are calls of services over the protocol.
AllCall(b, protocol) ==
    b.groups # << >> /\ \A a \in Actions(b) : a.direct /\ Protocol(a) = protocol

\* The kind of corridor a batch may belong to; "" if none.
Lane(b) ==
    CASE IsSingle(b) /\ AllCall(b, "BLE") -> "ble"
      [] AllCall(b, "CLOUD") -> "cloud"
      [] AllCall(b, "LOCAL") -> IF \A a \in Actions(b) : IsMqtt("API", a) THEN "mqtt" ELSE "http"
      [] OTHER -> ""

\* _ble_profile_class and _step_capability_class
Class(b) ==
    CASE Lane(b) = "ble" -> BleClass(Only(b).kind)
      [] Lane(b) = "mqtt" -> "read"
      [] OTHER -> IF \E a \in Actions(b) : IsControl(a) THEN "control" ELSE "read"

\* The key that all actions that have one agree about.
Common(keys) == IF Cardinality(keys \ {None}) = 1 THEN CHOOSE k \in keys : Known(k) ELSE None

\* _make_step of api_micro_refinement.py
Step(b, i) ==
    [id |-> i, lane |-> Lane(b), latency |-> BatchLatency("API", b), backoff |-> b.backoff,
     host    |-> Common({a.host : a \in Actions(b)}),
     session |-> Common({IF Known(a.session) THEN a.session ELSE a.host : a \in Actions(b)})]

-----------------------------------------------------------------------------
(* Corridors: the batches from c.first to c.last                           *)

Batches(c) == c.first .. c.last
BleActions(c) == [i \in 1 .. c.last - c.first + 1 |-> Only(plan[c.first + i - 1])]
Steps(c) == [i \in 1 .. c.last - c.first + 1 |-> Step(plan[c.first + i - 1], c.first + i - 1)]
Latencies(file) == [i \in DOMAIN plan |-> BatchLatency(file, plan[i])]

\* The latency of the corridor's batches, as its refiner and as the walk measures them.
Original(c) == SumFunctionOnSet(Latencies(c.source), Batches(c))
Segment(c) == SumFunctionOnSet(Latencies("COMBINED"), Batches(c))

\* _corridor_thresholds: the least number of batches and the least latency.
Thresholds(lane, class) ==
    CASE lane = "ble" /\ class = "read_like"     -> [batches |-> 2, latency |-> 1200]
      [] lane = "ble" /\ class = "session_chain" -> [batches |-> 2, latency |-> 1400]
      [] lane = "ble"                            -> [batches |-> 3, latency |-> 1800]
      [] lane = "cloud"                          -> [batches |-> 2, latency |-> IF class = "read" THEN 700 ELSE 760]
      [] OTHER                                   -> [batches |-> 2, latency |-> IF class = "read" THEN 180 ELSE 220]

Admitted(c, i) ==
    IF c.source = "BLE" THEN AdvAdmitted(policy.ble, BleActions(c)[i], BleActions(c)[i + 1])
    ELSE PrepareAdmitted(policy.api, Steps(c)[i], Steps(c)[i + 1])

Like(b, d) == Lane(b) = Lane(d) /\ Class(b) = Class(d)

\* The batches of c are a run of like batches that neither neighbour continues.
IsRun(c) ==
    /\ \A i \in Batches(c) : Like(plan[i], plan[c.first])
    /\ c.first > 1 => ~Like(plan[c.first - 1], plan[c.first])
    /\ c.last < Len(plan) => ~Like(plan[c.last + 1], plan[c.first])

Worthwhile(c) ==
    LET lane == Lane(plan[c.first])
        least == Thresholds(lane, Class(plan[c.first]))
    IN  /\ c.source = (IF lane = "ble" THEN "BLE" ELSE "API")
        /\ lane \in {"ble", "cloud", "http"}
        /\ c.last - c.first + 1 >= least.batches
        /\ Original(c) >= least.latency
        /\ \E i \in 1 .. c.last - c.first : Admitted(c, i)

\* _select_corridors of both refiners
Corridors ==
    {c \in [source : {"BLE", "API"}, first : DOMAIN plan, last : DOMAIN plan] :
        c.first <= c.last /\ IsRun(c) /\ Worthwhile(c)}

-----------------------------------------------------------------------------
(* Candidates: refined corridors                                           *)

\* c is being refined: the corridors of BLE come first.
Refining(c) ==
    \A d \in todo \ {c} :
        \/ c.source = "BLE" /\ d.source = "API"
        \/ c.source = d.source /\ c.first < d.first

Complete(c) == Refining(c) /\ Len(lines) = c.last - c.first + 1

NextLine(c, done) ==
    IF c.source = "BLE" THEN NextBleLine(policy.ble, BleActions(c), done)
    ELSE NextApiLine(policy.api, Steps(c), done)

Valid(c, done) ==
    IF c.source = "BLE" THEN BleValid(policy.ble, BleActions(c), done)
    ELSE ApiValid(policy.api, Steps(c), done)

Latest(done) == Max({End(done[i]) : i \in DOMAIN done})

\* _refine_corridor
Candidate(c, done) ==
    [source |-> c.source, first |-> c.first, last |-> c.last, lines |-> done,
     valid |-> Valid(c, done),
     saved |-> IF Valid(c, done) THEN Larger(0, Original(c) - Latest(done)) ELSE 0]

\* Mutant of Before: in the order of the plan.
BeforeByPlace(c, d) == c.first < d.first

\* The order of the pool: the largest saving first.
Before(c, d) ==
    \/ c.saved > d.saved
    \/ c.saved = d.saved /\ c.source = "API" /\ d.source = "BLE"
    \/ c.saved = d.saved /\ c.source = d.source /\ c.first < d.first

\* _normalized_session_key and _normalized_device_key of the actions of a corridor
DeviceDomain(c) == {a.device : a \in Range(BleActions(c))} \ {None}
SessionDomain(c) ==
    {IF Known(a.session) THEN a.session ELSE a.device : a \in Range(BleActions(c))} \ {None}

GapThreshold == 1      \* adjacent_batch_gap_threshold

\* _candidate_conflict_reasons; corridors never share a batch
Conflict(c, d) ==
    /\ c.source = "BLE" /\ d.source = "BLE"
    /\ c.first - d.last <= GapThreshold + 1 /\ d.first - c.last <= GapThreshold + 1
    /\ \/ DeviceDomain(c) \cap DeviceDomain(d) # {}
       \/ SessionDomain(c) \cap SessionDomain(d) # {}

-----------------------------------------------------------------------------
(* The walk over the plan                                                  *)

Shifted(line, ms) == [phase \in DOMAIN line |-> [from |-> line[phase].from + ms, to |-> line[phase].to + ms]]

\* The corridor that begins at batch i.
Begins(i) == {c \in accepted : c.first = i}

Coarse(i) == [line |-> << >>, corridor |-> 0, end |-> cursor + BatchLatency("COMBINED", plan[i])]

\* Mutant of Refined: the lines stay where the corridor was refined.
RefinedInPlace(c) ==
    [k \in 1 .. Len(c.lines) |->
        [line |-> c.lines[k], corridor |-> c.first, end |-> cursor + End(c.lines[k])]]

Refined(c) ==
    [k \in 1 .. Len(c.lines) |->
        [line |-> Shifted(c.lines[k], cursor), corridor |-> c.first, end |-> cursor + End(c.lines[k])]]

CoarseEnd(i) == SumFunctionOnSet(Latencies("COMBINED"), 1 .. i)
TotalSaved == SumFunction([c \in accepted |-> Larger(0, Segment(c) - Latest(c.lines))])

-----------------------------------------------------------------------------
(* validate_combined_candidates                                            *)

IsRefined(i) == timeline[i].corridor # 0
LaneAt(i) == Lane(plan[i])
Of(lane) == {i \in DOMAIN timeline : IsRefined(i) /\ LaneAt(i) = lane}
Api == Of("cloud") \cup Of("http")

PhasesOf(i, names) == {timeline[i].line[n] : n \in names \cap DOMAIN timeline[i].line}

\* No two batches of the set are in such a phase at a time.
Apart(batches, names) ==
    \A i, j \in batches :
        i # j => \A s \in PhasesOf(i, names), r \in PhasesOf(j, names) :
                     s.to <= r.from \/ r.to <= s.from

HostAt(i) == Step(plan[i], i).host
SessionAt(i) == Step(plan[i], i).session

LimitsKept ==
    /\ Apart(Of("ble"), {"xfer"})
    /\ Apart(Of("ble"), {"connect"})
    /\ \A k \in Of("cloud") :
           Apart({i \in Of("cloud") : HostAt(i) = HostAt(k)}, {"send"})
    /\ \A k \in Of("http") :
           Apart({i \in Of("http") : SessionAt(i) = SessionAt(k)}, {"send"})
    /\ Apart(Api, {"parse", "aggregate", "cache"})

\* No other batch of the host, earlier ones included, prepares or sends a request
\* before a backoff of the host is over.
BackoffKept ==
    \A i \in Of("cloud") : plan[i].backoff /\ Known(HostAt(i)) =>
        \A j \in Of("cloud") \ {i} : HostAt(j) = HostAt(i) =>
            \A s \in PhasesOf(j, {"auth", "budget", "prepare", "send"}) :
                timeline[i].line.backoff.to <= s.from

\* Every batch of an accepted corridor prepares while the one before waits for its
\* answer and sends its request after that one has been written.
WindowsKept ==
    \A i \in Api : i + 1 \in Api /\ timeline[i].corridor = timeline[i + 1].corridor =>
        LET left == timeline[i].line  right == timeline[i + 1].line
        IN  /\ left.write.to <= right.send.from
            /\ \A s \in PhasesOf(i + 1, IF LaneAt(i + 1) = "cloud" THEN {"auth", "budget", "prepare"}
                                        ELSE {"resolve", "session"}) :
                   left.send.from <= s.from /\ s.to <= left.recv.to

\* Mutant of NotDelayed: the batch itself does not count.
NotDelayedAtAll ==
    \A i \in DOMAIN timeline : ~IsRefined(i) => timeline[i].end <= CoarseEnd(i - 1)

NotDelayed ==
    \A i \in DOMAIN timeline : ~IsRefined(i) => timeline[i].end <= CoarseEnd(i)

OrderKept == \A i \in 1 .. Len(timeline) - 1 : timeline[i].end <= timeline[i + 1].end

SavingsConsistent ==
    /\ \A c \in accepted : Latest(c.lines) <= Segment(c) /\ c.saved = Segment(c) - Latest(c.lines)
    /\ CoarseEnd(Len(plan)) - cursor = TotalSaved

Passed ==
    /\ rejected = {}               \* no conflicts: every rejection is listed as one
    /\ SavingsConsistent /\ OrderKept /\ NotDelayed
    /\ LimitsKept /\ BackoffKept /\ WindowsKept

-----------------------------------------------------------------------------
Init ==
    /\ plan \in Plans /\ policy \in Policies
    /\ todo = Corridors
    /\ lines = << >> /\ pool = {} /\ accepted = {} /\ rejected = {}
    /\ at = 1 /\ cursor = 0 /\ timeline = << >> /\ verdict = ""

\* The next line of the corridor.
Expand ==
    /\ \E c \in todo :
        /\ Refining(c) /\ ~Complete(c)
        /\ lines' = Append(lines, NextLine(c, lines))
    /\ UNCHANGED << plan, policy, todo, pool, accepted, rejected, at, cursor, timeline, verdict >>

\* All lines are there: they are validated, and the saving is what they say.
Refine ==
    /\ \E c \in todo :
        /\ Complete(c)
        /\ pool' = pool \cup {Candidate(c, lines)}
        /\ todo' = todo \ {c}
    /\ lines' = << >>
    /\ UNCHANGED << plan, policy, accepted, rejected, at, cursor, timeline, verdict >>

\* resolve_combined_candidates: the next candidate of the pool is decided about.
Resolve ==
    /\ todo = {}
    /\ \E c \in pool :
        /\ \A d \in pool \ {c} : Before(c, d)
        /\ pool' = pool \ {c}
        /\ IF c.valid /\ c.saved > 0 /\ \A d \in accepted : ~Conflict(d, c)
           THEN accepted' = accepted \cup {c} /\ UNCHANGED rejected
           ELSE rejected' = rejected \cup {c} /\ UNCHANGED accepted
    /\ UNCHANGED << plan, policy, todo, lines, at, cursor, timeline, verdict >>

Decided == todo = {} /\ pool = {}

\* A batch that no accepted corridor holds stays as it is.
WalkBatch ==
    /\ Decided /\ at <= Len(plan) /\ Begins(at) = {}
    /\ timeline' = Append(timeline, Coarse(at))
    /\ cursor' = cursor + BatchLatency("COMBINED", plan[at])
    /\ at' = at + 1
    /\ UNCHANGED << plan, policy, todo, lines, pool, accepted, rejected, verdict >>

\* Mutant of WalkCorridor: the walk goes on at the last batch of the corridor.
WalkCorridorTwice ==
    /\ Decided /\ at <= Len(plan)
    /\ \E c \in Begins(at) :
        /\ timeline' = timeline \o Refined(c)
        /\ cursor' = cursor + Latest(c.lines)
        /\ at' = c.last
    /\ UNCHANGED << plan, policy, todo, lines, pool, accepted, rejected, verdict >>

\* The lines of a corridor take the place of its batches.
WalkCorridor ==
    /\ Decided /\ at <= Len(plan)
    /\ \E c \in Begins(at) :
        /\ timeline' = timeline \o Refined(c)
        /\ cursor' = cursor + Latest(c.lines)
        /\ at' = c.last + 1
    /\ UNCHANGED << plan, policy, todo, lines, pool, accepted, rejected, verdict >>

Conclude ==
    /\ Decided /\ at > Len(plan) /\ verdict = ""
    /\ verdict' = IF Passed THEN "refined" ELSE "macro"
    /\ UNCHANGED << plan, policy, todo, lines, pool, accepted, rejected, at, cursor, timeline >>

Next == Expand \/ Refine \/ Resolve \/ WalkBatch \/ WalkCorridor \/ Conclude

Spec == Init /\ [][Next]_vars

-----------------------------------------------------------------------------
(* Properties                                                              *)

Starts(i) == {s.from : s \in Spans(timeline[i].line)}

\* The longest batch whose parsing lasts no longer than ParseMax.
LongestParsed(b) == IF Lane(b) = "cloud" THEN 2106 ELSE 1547

\* What the refiners build, their own validators accept, so that no corridor is
\* built in vain: as long as the radio makes one connection at a time, a request is
\* checked and prepared at once, no batch waits for a backoff, and the batches take
\* equally long and not too long.
BuiltIsValid ==
    \A c \in todo : Complete(c) =>
        \/ Valid(c, lines)
        \/ c.source = "BLE" /\ policy.ble.connectOverlap
        \/ c.source = "API" /\
               \/ ~policy.api.authBudget
               \/ \E i \in Batches(c) :
                      \/ plan[i].backoff
                      \/ BatchLatency("API", plan[i]) # BatchLatency("API", plan[c.first])
                      \/ BatchLatency("API", plan[i]) > LongestParsed(plan[i])

\* On the timeline of the whole plan the radio makes one transfer and one connection
\* at a time, requests of a kind go out one at a time, and no batch that was left
\* alone runs beside another one.
OneAtATime ==
    /\ \A lane \in {"ble", "cloud", "http"} : \A name \in {"xfer", "connect", "send"} :
           Apart(Of(lane), {name})
    /\ \A i, j \in DOMAIN timeline : i < j /\ ~(IsRefined(i) /\ IsRefined(j)) =>
           \A t \in Starts(j) : timeline[i].end <= t

\* Batches overlap only as neighbours of one corridor, and only in what the right
\* one prepares: not on one device or session, not while a host's backoff runs.
OverlapsAreHarmless ==
    \A i, j \in DOMAIN timeline :
        i < j /\ (\E t \in Starts(j) : t < timeline[i].end) =>
            /\ j = i + 1 /\ timeline[i].corridor = timeline[j].corridor
            /\ LaneAt(i) = "ble" =>
                   LET l == Only(plan[i])  r == Only(plan[j])
                   IN  ~SameDevice(l, r) /\ ~SameSession(l, r)
            /\ LaneAt(i) = "cloud" =>
                   /\ \A s \in PhasesOf(j, {"session", "send", "recv", "parse", "aggregate", "commit"}) :
                          timeline[i].line.write.to <= s.from
                   /\ plan[i].backoff =>
                          \A t \in Starts(j) : timeline[i].line.backoff.to <= t

\* The walk measures the batches of the corridor as its refiner did.
MeasuredAlike(c) ==
    \A i \in Batches(c) : BatchLatency(c.source, plan[i]) = BatchLatency("COMBINED", plan[i])

\* Every batch ends no later than in the plan the scheduler made, in its order; the
\* time saved is never less than what the accepted corridors promised, and it is just
\* that as long as the files agree about how long their batches take.
SavedAsPromised ==
    /\ OrderKept
    /\ \A i \in DOMAIN timeline : timeline[i].end <= CoarseEnd(i)
    /\ LET behind == {c \in accepted : c.last < at}
           promised == SumFunctionOnSet([c \in accepted |-> c.saved], behind)
       IN  /\ CoarseEnd(at - 1) - cursor >= promised
           /\ (\A c \in behind : MeasuredAlike(c)) => CoarseEnd(at - 1) - cursor = promised

\* highest_saving_wins: the accepted corridors share no batch and do not conflict
\* with one another, and a valid corridor that saves time is only rejected for one
\* that saves as much.
HighestSavingWins ==
    /\ \A c, d \in accepted : c # d => Batches(c) \cap Batches(d) = {} /\ ~Conflict(c, d)
    /\ \A c \in rejected : c.valid /\ c.saved > 0 =>
           \E d \in accepted : Conflict(c, d) /\ (d.saved > c.saved \/ d.saved = c.saved)

\* The refined plan is only given up for a corridor that was rejected, for a backoff,
\* for neighbours in a corridor that had to stay one after the other, or for a corridor
\* that the files measure differently, which reported_saving_mismatch finds: the order
\* and the limits never fail, and the savings not otherwise.
GivenUpForAReason ==
    verdict = "macro" =>
        \/ rejected # {}
        \/ \E i \in Of("cloud") : plan[i].backoff
        \/ \E c \in accepted : c.source = "API" /\ \E i \in 1 .. c.last - c.first : ~Admitted(c, i)
        \/ \E c \in accepted : ~MeasuredAlike(c)
=============================================================================
