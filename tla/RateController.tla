--------------------------- MODULE RateController ---------------------------
(***************************************************************************)
(* The RateController that the component assembler writes into every       *)
(* generated integration (src/optimizer/m7_component_assembler.py, the     *)
(* text returned by _render_executor_py).  One controller lives as long as *)
(* one batch of the plan; the tasks of the batch call acquire() before the *)
(* service call and note_rate_limit() after a 429.                         *)
(*                                                                         *)
(* Both methods hold an asyncio.Lock, but neither awaits while holding it, *)
(* so each pass through the locked block is one atomic step; what          *)
(* interleaves is everything between two passes (the sleeps).              *)
(*                                                                         *)
(* Time is discrete: one step of the clock is TickMs milliseconds, and the *)
(* absolute times of the code (updated_at, backoff_until, the wake-up of a *)
(* sleep) are kept relative to now (age, backoff, sleep), which keeps the  *)
(* state finite.  Tokens and rates are integers: a token is Token units,   *)
(* and a rate of r hundredths of a token per second earns r units per ms.  *)
(***************************************************************************)
EXTENDS Integers, FiniteSets

CONSTANTS
    Task,          \* tasks of the batch: one per action, started by the runner
    Cloud,         \* the tasks whose action has protocol CLOUD
    Host,          \* the hosts (or providers) cloud actions talk to
    HostOf,        \* the host of every cloud task
    Burst,         \* burst: capacity of every bucket, in tokens
    MaxQps,        \* initial rate of every bucket, in hundredths of a token per second
    BaseBackoff,   \* _base_backoff_ms or 200
    BackoffMax,    \* _backoff_max_ms
    Factor10,      \* ten times _backoff_factor
    TickMs,        \* milliseconds per step of the clock
    AgeCap         \* bound: an idle bucket's elapsed time is not counted beyond this

Global == "global"                   \* the bucket every cloud action shares
Bucket == {Global} \union Host
Token  == 100000                     \* units in one token
MinQps == 10                         \* max(0.1, ...) on every rate

ASSUME TaskAssumption ==
    /\ Cloud \subseteq Task /\ IsFiniteSet(Cloud)
    /\ HostOf \in [Cloud -> Host]
    /\ Global \notin Host
ASSUME RateAssumption ==
    /\ Burst \in Nat \ {0}
    /\ MaxQps \in Nat /\ MaxQps >= MinQps
    /\ TickMs \in Nat \ {0}
    /\ AgeCap \in Nat
ASSUME BackoffAssumption ==
    /\ BaseBackoff \in Nat
    /\ BackoffMax \in Nat /\ BackoffMax >= 2000
    /\ Factor10 \in Nat /\ Factor10 >= 11

VARIABLES
    tokens,      \* [Bucket -> units available when the bucket was last looked at]
    age,         \* [Bucket -> ms since updated_at]
    qps,         \* [Bucket -> current rate]
    backoff,     \* [Bucket -> ms left until backoff_until]
    backoffMs,   \* [Bucket -> backoff_ms, the length of the last backoff]
    pc,          \* [Task -> where the task is]
    sleep,       \* [Task -> ms left of its asyncio.sleep]
    grantAge     \* history: [Task -> ms since its acquire returned, or Never]

buckets == <<tokens, age, qps, backoff, backoffMs>>
vars    == <<tokens, age, qps, backoff, backoffMs, pc, sleep, grantAge>>

Stage == {"acquiring", "granted", "noting", "done", "failed", "cancelled"}
Live  == {"acquiring", "granted", "noting"}        \* the task is not done yet
Never == -1

Lesser(a, b)  == IF a <= b THEN a ELSE b
Greater(a, b) == IF a >= b THEN a ELSE b
CeilDiv(a, b) == (a + b - 1) \div b

-----------------------------------------------------------------------------
(* Buckets                                                                 *)

\* The buckets a task is charged against: none unless its action is a cloud action.
EnforcedBuckets(t) == IF t \in Cloud THEN {Global, HostOf[t]} ELSE {}

\* Mutants of Refilled: the burst cap forgotten; updated_at moved without paying.
RefilledUncapped(k) == tokens[k] + age[k] * qps[k]
RefilledNothing(k) == Lesser(Burst * Token, tokens[k])

\* The tokens of k once the time since updated_at is paid out, capped at burst.
Refilled(k) == Lesser(Burst * Token, tokens[k] + age[k] * qps[k])

\* What k makes a task wait, in ms: the rest of its backoff, else the time the
\* missing part of a token takes, never less than 10 ms; 0 when k lets it pass.
Wait(k) == IF backoff[k] > 0 THEN backoff[k]
           ELSE IF Refilled(k) >= Token THEN 0
           ELSE Greater(10, CeilDiv(Token - Refilled(k), qps[k]))

\* What a cloud task has to sleep before it may look again.
LongestWait(t) == Greater(Wait(Global), Wait(HostOf[t]))

\* Mutant of NextBackoff: the current backoff is not raised to the base first.
NextBackoffNoFloor(k) ==
    LET cur == backoffMs[k] IN
    IF k = Global
    THEN Greater(50, Lesser(BackoffMax, Greater(cur \div 2, 100)))
    ELSE Lesser(BackoffMax, Greater(cur, (cur * Factor10) \div 10))

\* The length of k's next backoff: halved for the global bucket, multiplied by
\* the backoff factor for a host.
NextBackoff(k) ==
    LET cur == Greater(backoffMs[k], BaseBackoff) IN
    IF k = Global
    THEN Greater(50, Lesser(BackoffMax, Greater(cur \div 2, 100)))
    ELSE Lesser(BackoffMax, Greater(cur, (cur * Factor10) \div 10))

\* A 429 takes 15% of the global rate and half of the host's.
NextQps(k) == Greater(MinQps, IF k = Global THEN (qps[k] * 85) \div 100
                                            ELSE qps[k] \div 2)

-----------------------------------------------------------------------------
Init ==
    /\ tokens    = [k \in Bucket |-> Burst * Token]
    /\ age       = [k \in Bucket |-> 0]
    /\ qps       = [k \in Bucket |-> MaxQps]
    /\ backoff   = [k \in Bucket |-> 0]
    /\ backoffMs = [k \in Bucket |-> BaseBackoff]
    /\ pc        = [t \in Task |-> "acquiring"]
    /\ sleep     = [t \in Task |-> 0]
    /\ grantAge  = [t \in Task |-> Never]

\* acquire of an action that is not a cloud action returns at once.
PassLocal(t) ==
    /\ pc[t] = "acquiring"
    /\ t \notin Cloud
    /\ pc' = [pc EXCEPT ![t] = "granted"]
    /\ UNCHANGED <<buckets, sleep, grantAge>>

\* One pass through acquire's locked block in which some bucket makes the task
\* wait: every bucket is refilled, none is charged, and the task sleeps for the
\* longest wait.
AcquireWait(t) ==
    /\ pc[t] = "acquiring"
    /\ t \in Cloud
    /\ sleep[t] = 0
    /\ LongestWait(t) > 0
    /\ sleep' = [sleep EXCEPT ![t] = LongestWait(t)]
    /\ tokens' = [k \in Bucket |-> IF k \in EnforcedBuckets(t) THEN Refilled(k) ELSE tokens[k]]
    /\ age'    = [k \in Bucket |-> IF k \in EnforcedBuckets(t) THEN 0 ELSE age[k]]
    /\ UNCHANGED <<qps, backoff, backoffMs, pc, grantAge>>

\* Mutant of AcquireGrant: the waits are not looked at again before the charge.
AcquireGrantUnchecked(t) ==
    /\ pc[t] = "acquiring"
    /\ t \in Cloud
    /\ sleep[t] = 0
    /\ tokens' = [k \in Bucket |-> IF k \in EnforcedBuckets(t) THEN Refilled(k) - Token ELSE tokens[k]]
    /\ age'    = [k \in Bucket |-> IF k \in EnforcedBuckets(t) THEN 0 ELSE age[k]]
    /\ pc'       = [pc EXCEPT ![t] = "granted"]
    /\ grantAge' = [grantAge EXCEPT ![t] = 0]
    /\ UNCHANGED <<qps, backoff, backoffMs, sleep>>

\* The pass in which no bucket makes the task wait: one token from each bucket.
AcquireGrant(t) ==
    /\ pc[t] = "acquiring"
    /\ t \in Cloud
    /\ sleep[t] = 0
    /\ LongestWait(t) = 0
    /\ tokens' = [k \in Bucket |-> IF k \in EnforcedBuckets(t) THEN Refilled(k) - Token ELSE tokens[k]]
    /\ age'    = [k \in Bucket |-> IF k \in EnforcedBuckets(t) THEN 0 ELSE age[k]]
    /\ pc'       = [pc EXCEPT ![t] = "granted"]
    /\ grantAge' = [grantAge EXCEPT ![t] = 0]
    /\ UNCHANGED <<qps, backoff, backoffMs, sleep>>

\* The service call succeeds; or it fails with an error that is not a rate
\* limit, or one note_rate_limit ignores because the action is not a cloud action.
Finish(t) ==
    /\ pc[t] = "granted"
    /\ \E outcome \in {"done", "failed"} : pc' = [pc EXCEPT ![t] = outcome]
    /\ UNCHANGED <<buckets, sleep, grantAge>>

\* note_rate_limit after a 429: every bucket of the action starts a new backoff
\* from now, loses part of its rate, and the task sleeps for the longest backoff
\* before the error is raised again.  The bucket is not refilled first, so the
\* time since updated_at will be paid at the reduced rate.
NoteRateLimit(t) ==
    /\ pc[t] = "granted"
    /\ t \in Cloud
    /\ backoffMs' = [k \in Bucket |-> IF k \in EnforcedBuckets(t) THEN NextBackoff(k) ELSE backoffMs[k]]
    /\ backoff'   = [k \in Bucket |-> IF k \in EnforcedBuckets(t) THEN NextBackoff(k) ELSE backoff[k]]
    /\ qps'       = [k \in Bucket |-> IF k \in EnforcedBuckets(t) THEN NextQps(k) ELSE qps[k]]
    /\ tokens'    = [k \in Bucket |-> IF k \in EnforcedBuckets(t) THEN Lesser(Burst * Token, tokens[k])
                                                                  ELSE tokens[k]]
    /\ sleep'     = [sleep EXCEPT ![t] = Greater(NextBackoff(Global), NextBackoff(HostOf[t]))]
    /\ pc'        = [pc EXCEPT ![t] = "noting"]
    /\ UNCHANGED <<age, grantAge>>

\* The sleep of note_rate_limit is over: the error leaves the task.
Raise(t) ==
    /\ pc[t] = "noting"
    /\ sleep[t] = 0
    /\ pc' = [pc EXCEPT ![t] = "failed"]
    /\ UNCHANGED <<buckets, sleep, grantAge>>

\* _run_parallel cancels the tasks that are not done once one of them has failed.
\* A cancelled sleep leaves the buckets as they are.
Cancel(t) ==
    /\ pc[t] \in Live
    /\ \E u \in Task : pc[u] = "failed"
    /\ pc'    = [pc EXCEPT ![t] = "cancelled"]
    /\ sleep' = [sleep EXCEPT ![t] = 0]
    /\ UNCHANGED <<buckets, grantAge>>

\* Time passes for everybody.  A task whose sleep is over may be resumed late.
Tick ==
    /\ \E t \in Task : pc[t] \in Live
    /\ age'      = [k \in Bucket |-> Lesser(AgeCap, age[k] + TickMs)]
    /\ backoff'  = [k \in Bucket |-> Greater(0, backoff[k] - TickMs)]
    /\ sleep'    = [t \in Task |-> Greater(0, sleep[t] - TickMs)]
    /\ grantAge' = [t \in Task |-> IF grantAge[t] = Never THEN Never
                                   ELSE Lesser(AgeCap, grantAge[t] + TickMs)]
    /\ UNCHANGED <<tokens, qps, backoffMs, pc>>

Step(t) == PassLocal(t) \/ AcquireWait(t) \/ AcquireGrant(t) \/ Finish(t)
           \/ NoteRateLimit(t) \/ Raise(t) \/ Cancel(t)

AllDone == \A t \in Task : pc[t] \notin Live

Terminated == AllDone /\ UNCHANGED vars

Next == (\E t \in Task : Step(t)) \/ Tick \/ Terminated

Spec == Init /\ [][Next]_vars

\* The event loop resumes every task whose sleep is over, service calls return,
\* and time passes.  Nothing forces a cancellation or a 429.
Fairness ==
    /\ WF_vars(Tick)
    /\ \A t \in Task : WF_vars(PassLocal(t) \/ AcquireWait(t) \/ AcquireGrant(t)
                               \/ Finish(t) \/ NoteRateLimit(t) \/ Raise(t))

FairSpec == Spec /\ Fairness

-----------------------------------------------------------------------------
(* Properties                                                              *)

\* Every bucket holds between none and burst tokens, its rate stays between 0.1
\* and the configured one, and its backoff never has longer to go than the length
\* backoff_ms records for it (the two are written apart, and the recorded length
\* is what the next 429 starts from).
TypeOK ==
    /\ tokens    \in [Bucket -> 0 .. Burst * Token]
    /\ age       \in [Bucket -> 0 .. AgeCap]
    /\ qps       \in [Bucket -> MinQps .. MaxQps]
    /\ backoff   \in [Bucket -> Nat]
    /\ backoffMs \in [Bucket -> Nat]
    /\ \A k \in Bucket : backoff[k] <= backoffMs[k]
    /\ pc        \in [Task -> Stage]
    /\ sleep     \in [Task -> Nat]
    /\ grantAge  \in [Task -> {Never} \union (0 .. AgeCap)]

\* The calls acquire let through to k within the last w ms.
Through(k, w) ==
    {t \in Cloud : k \in EnforcedBuckets(t) /\ grantAge[t] # Never /\ grantAge[t] <= w}

\* The token-bucket contract, stated without the buckets: over any stretch of
\* w ms up to now, the service calls that acquire let through to one host (or to
\* all hosts together) are no more than burst plus what the configured rate
\* earns in w ms.  Two buckets, lazy refills, rate changes and sleeping tasks
\* that all wake together must not add up to more.
WindowBound ==
    \A k \in Bucket : \A i \in 0 .. (AgeCap \div TickMs) - 1 :
        Cardinality(Through(k, i * TickMs)) * Token <= Burst * Token + (i * TickMs) * MaxQps

\* note_rate_limit overwrites backoff_until; it never moves it to an earlier
\* time: whoever was told to back off stays silent at least as long as it was
\* told, whatever other tasks of the bucket report meanwhile.  For the global
\* bucket, whose backoff is halved, this rests on current_backoff never being
\* taken below the base.
KeepsBackoff ==
    \A k \in Bucket : /\ backoff'[k] >= backoff[k] - TickMs
                      /\ (\E t \in Task : NoteRateLimit(t)) => backoff'[k] >= backoff[k]

BackoffNotShortened == [][KeepsBackoff]_vars

\* What makes BackoffNotShortened inductive: the global backoff has one length,
\* and no host's backoff has longer to go than the length recorded for it.
GlobalBackoff == Lesser(BackoffMax, Greater(BaseBackoff \div 2, 100))

BackoffWithinLength ==
    /\ backoffMs[Global] \in {BaseBackoff, GlobalBackoff}
    /\ backoff[Global] <= GlobalBackoff
    /\ \A h \in Host : backoff[h] <= backoffMs[h] /\ backoff[h] <= BackoffMax

\* Every task that asked gets through, fails or is cancelled: no task sleeps in
\* acquire for ever, however often others wake before it and take its token.
AcquireTerminates == \A t \in Task : <>(pc[t] # "acquiring")
=============================================================================
