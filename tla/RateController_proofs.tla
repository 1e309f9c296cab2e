------------------------ MODULE RateController_proofs ------------------------
(***************************************************************************)
(* For every set of tasks, hosts, burst, rate and backoff policy: the      *)
(* controller's state is well typed (no bucket is ever overdrawn), no 429  *)
(* shortens a backoff that is running, and over no window of time more     *)
(* calls are let through than the burst and the configured rate allow.     *)
(*                                                                         *)
(* The second needs more than TypeOK (BackoffWithinLength): the time a     *)
(* host's backoff has to go never exceeds the length recorded for it, and  *)
(* a new one is never shorter than that length; the global bucket's        *)
(* backoff, halved each time from at least the base, has a single length.  *)
(* The third follows what is left in a bucket back to its last refill      *)
(* (WindowKept), so that a grant moves a token from one side of the bound  *)
(* to the other.                                                           *)
(***************************************************************************)
EXTENDS RateController, FiniteSetTheorems, TLAPS

USE TaskAssumption, RateAssumption, BackoffAssumption
    DEF TaskAssumption, RateAssumption, BackoffAssumption

LEMMA LesserGreater ==
    ASSUME NEW a \in Int, NEW b \in Int
    PROVE  /\ Lesser(a, b) \in {a, b} /\ Lesser(a, b) <= a /\ Lesser(a, b) <= b
           /\ Greater(a, b) \in {a, b} /\ Greater(a, b) >= a /\ Greater(a, b) >= b
BY DEF Lesser, Greater

\* What a refill leaves in a bucket: never less than nothing, never above burst.
LEMMA RefilledInRange ==
    ASSUME TypeOK, NEW k \in Bucket
    PROVE  Refilled(k) \in 0 .. Burst * Token
<1>1. /\ tokens[k] \in 0 .. Burst * Token
      /\ age[k] \in Nat
      /\ qps[k] \in Nat
    BY DEF TypeOK, MinQps
<1>2. age[k] * qps[k] \in Nat
    BY <1>1
<1>3. Burst * Token \in Nat
    BY DEF Token
<1> QED
    BY <1>1, <1>2, <1>3 DEF Refilled, Lesser

LEMMA NextQpsInRange ==
    ASSUME TypeOK, NEW k \in Bucket
    PROVE  NextQps(k) \in MinQps .. MaxQps
BY DEF TypeOK, NextQps, Greater, MinQps

LEMMA NextBackoffInRange ==
    ASSUME TypeOK, NEW k \in Bucket
    PROVE  NextBackoff(k) \in 0 .. BackoffMax
<1>1. backoffMs[k] \in Nat
    BY DEF TypeOK
<1>2. Greater(backoffMs[k], BaseBackoff) \in Nat
    BY <1>1 DEF Greater
<1>3. CASE k = Global
    BY <1>2, <1>3 DEF NextBackoff, Greater, Lesser
<1>4. CASE k # Global
    <2> DEFINE cur == Greater(backoffMs[k], BaseBackoff)
    <2>1. (cur * Factor10) \div 10 \in Int
        BY <1>2
    <2>2. Greater(cur, (cur * Factor10) \div 10) \in Nat
        BY <1>2, <2>1 DEF Greater
    <2> QED
        BY <2>2, <1>4 DEF NextBackoff, Lesser
<1> QED
    BY <1>3, <1>4

LEMMA WaitIsNat ==
    ASSUME TypeOK, NEW k \in Bucket
    PROVE  Wait(k) \in Nat
<1>1. /\ backoff[k] \in Nat
      /\ qps[k] \in Nat \ {0}
    BY DEF TypeOK, MinQps
<1>2. Refilled(k) \in Int
    BY RefilledInRange DEF Token
<1>3. CeilDiv(Token - Refilled(k), qps[k]) \in Int
    BY <1>1, <1>2 DEF CeilDiv, Token
<1> QED
    BY <1>1, <1>3 DEF Wait, Greater

-----------------------------------------------------------------------------
(* Type correctness, one lemma per action                                  *)

LEMMA InitTypeOK == Init => TypeOK
<1> SUFFICES ASSUME Init PROVE TypeOK
    OBVIOUS
<1>1. Burst * Token \in 0 .. Burst * Token
    BY DEF Token
<1> QED
    BY <1>1 DEF Init, TypeOK, Stage, Never, MinQps

LEMMA AcquireWaitTypeOK ==
    ASSUME TypeOK, NEW t \in Task, AcquireWait(t)
    PROVE  TypeOK'
<1>1. tokens' \in [Bucket -> 0 .. Burst * Token]
    BY RefilledInRange DEF AcquireWait, TypeOK
<1>2. sleep' \in [Task -> Nat]
    <2>1. Global \in Bucket /\ HostOf[t] \in Bucket
        BY DEF AcquireWait, Bucket
    <2>2. LongestWait(t) \in Nat
        BY <2>1, WaitIsNat DEF LongestWait, Greater
    <2> QED
        BY <2>2 DEF AcquireWait, TypeOK
<1>3. age' \in [Bucket -> 0 .. AgeCap]
    BY DEF AcquireWait, TypeOK
<1> QED
    BY <1>1, <1>2, <1>3 DEF AcquireWait, TypeOK

LEMMA AcquireGrantTypeOK ==
    ASSUME TypeOK, NEW t \in Task, AcquireGrant(t)
    PROVE  TypeOK'
<1>1. tokens' \in [Bucket -> 0 .. Burst * Token]
    <2>1. SUFFICES ASSUME NEW k \in Bucket, k \in EnforcedBuckets(t)
                   PROVE  Refilled(k) - Token \in 0 .. Burst * Token
        BY DEF AcquireGrant, TypeOK
    <2>2. Wait(k) = 0
        <3>1. t \in Cloud /\ LongestWait(t) = 0
            BY DEF AcquireGrant
        <3>2. Wait(Global) \in Nat /\ Wait(HostOf[t]) \in Nat
            BY <3>1, WaitIsNat DEF Bucket
        <3>3. k \in {Global, HostOf[t]}
            BY <2>1, <3>1 DEF EnforcedBuckets
        <3> QED
            BY <3>1, <3>2, <3>3 DEF LongestWait, Greater
    <2>3. Refilled(k) \in 0 .. Burst * Token
        BY RefilledInRange
    <2>4. Refilled(k) >= Token
        <3>1. backoff[k] \in Nat /\ qps[k] \in Nat \ {0}
            BY DEF TypeOK, MinQps
        <3>2. CeilDiv(Token - Refilled(k), qps[k]) \in Int
            BY <2>3, <3>1 DEF CeilDiv, Token
        <3> QED
            BY <2>2, <2>3, <3>1, <3>2 DEF Wait, Greater, Token
    <2> QED
        BY <2>3, <2>4 DEF Token
<1>2. age' \in [Bucket -> 0 .. AgeCap]
    BY DEF AcquireGrant, TypeOK
<1> QED
    BY <1>1, <1>2 DEF AcquireGrant, TypeOK, Stage

LEMMA NoteRateLimitTypeOK ==
    ASSUME TypeOK, NEW t \in Task, NoteRateLimit(t)
    PROVE  TypeOK'
<1>1. tokens' \in [Bucket -> 0 .. Burst * Token]
    <2>1. SUFFICES ASSUME NEW k \in Bucket
                   PROVE  Lesser(Burst * Token, tokens[k]) \in 0 .. Burst * Token
        BY DEF NoteRateLimit, TypeOK
    <2>2. Burst * Token \in Nat /\ tokens[k] \in 0 .. Burst * Token
        BY DEF Token, TypeOK
    <2> QED
        BY <2>2 DEF Lesser
<1>2. backoff' \in [Bucket -> Nat] /\ backoffMs' \in [Bucket -> Nat]
    BY NextBackoffInRange DEF NoteRateLimit, TypeOK
<1>3. qps' \in [Bucket -> MinQps .. MaxQps]
    BY NextQpsInRange DEF NoteRateLimit, TypeOK
<1>4. sleep' \in [Task -> Nat]
    <2>1. Global \in Bucket /\ HostOf[t] \in Bucket
        BY DEF NoteRateLimit, Bucket
    <2>2. Greater(NextBackoff(Global), NextBackoff(HostOf[t])) \in Nat
        BY <2>1, NextBackoffInRange DEF Greater
    <2> QED
        BY <2>2 DEF NoteRateLimit, TypeOK
<1>5. \A k \in Bucket : backoff'[k] <= backoffMs'[k]
    <2>1. SUFFICES ASSUME NEW k \in Bucket PROVE backoff'[k] <= backoffMs'[k]
        OBVIOUS
    <2>2. NextBackoff(k) \in Nat /\ backoff[k] <= backoffMs[k]
        BY NextBackoffInRange DEF TypeOK
    <2>3. \/ backoff'[k] = NextBackoff(k) /\ backoffMs'[k] = NextBackoff(k)
          \/ backoff'[k] = backoff[k] /\ backoffMs'[k] = backoffMs[k]
        BY DEF NoteRateLimit
    <2> QED
        BY <2>2, <2>3
<1> QED
    BY <1>1, <1>2, <1>3, <1>4, <1>5 DEF NoteRateLimit, TypeOK, Stage

LEMMA TickTypeOK ==
    ASSUME TypeOK, Tick
    PROVE  TypeOK'
<1>1. age' \in [Bucket -> 0 .. AgeCap]
    BY DEF Tick, TypeOK, Lesser
<1>2. backoff' \in [Bucket -> Nat] /\ sleep' \in [Task -> Nat]
    BY DEF Tick, TypeOK, Greater
<1>3. grantAge' \in [Task -> {Never} \union (0 .. AgeCap)]
    BY DEF Tick, TypeOK, Lesser, Never
<1>4. \A k \in Bucket : backoff'[k] <= backoffMs'[k]
    BY DEF Tick, TypeOK, Greater
<1> QED
    BY <1>1, <1>2, <1>3, <1>4 DEF Tick, TypeOK

LEMMA NextTypeOK == TypeOK /\ [Next]_vars => TypeOK'
<1> SUFFICES ASSUME TypeOK, [Next]_vars PROVE TypeOK'
    OBVIOUS
<1>1. ASSUME NEW t \in Task, PassLocal(t) \/ Finish(t) \/ Raise(t) PROVE TypeOK'
    BY <1>1 DEF PassLocal, Finish, Raise, buckets, TypeOK, Stage
<1>2. ASSUME NEW t \in Task, AcquireWait(t) PROVE TypeOK'
    BY <1>2, AcquireWaitTypeOK
<1>3. ASSUME NEW t \in Task, AcquireGrant(t) PROVE TypeOK'
    BY <1>3, AcquireGrantTypeOK
<1>4. ASSUME NEW t \in Task, NoteRateLimit(t) PROVE TypeOK'
    BY <1>4, NoteRateLimitTypeOK
<1>5. ASSUME NEW t \in Task, Cancel(t) PROVE TypeOK'
    BY <1>5 DEF Cancel, buckets, TypeOK, Stage
<1>6. CASE Tick
    BY <1>6, TickTypeOK
<1>7. CASE UNCHANGED vars
    BY <1>7 DEF vars, TypeOK
<1> QED
    BY <1>1, <1>2, <1>3, <1>4, <1>5, <1>6, <1>7 DEF Next, Step, Terminated

\* No bucket is ever overdrawn or overfull, no rate leaves [0.1, max_qps], no
\* backoff has longer to go than the length recorded for it,
\* whatever the tasks, the burst and the policy: acquire and note_rate_limit
\* keep the state the class documents by its max/min clamps.
THEOREM TypeCorrect == Spec => []TypeOK
BY InitTypeOK, NextTypeOK, PTL DEF Spec

-----------------------------------------------------------------------------
(* No backoff is shortened                                                 *)

LEMMA GlobalBackoffConstant ==
    ASSUME TypeOK, BackoffWithinLength
    PROVE  NextBackoff(Global) = GlobalBackoff
<1>1. backoffMs[Global] \in Nat /\ backoffMs[Global] \in {BaseBackoff, GlobalBackoff}
    BY DEF TypeOK, BackoffWithinLength, Bucket
<1> QED
    BY <1>1 DEF NextBackoff, GlobalBackoff, Greater, Lesser

\* A host's new backoff is at least as long as what was left of the old one.
LEMMA HostBackoffGrows ==
    ASSUME TypeOK, BackoffWithinLength, NEW h \in Host
    PROVE  NextBackoff(h) >= backoff[h]
<1> DEFINE cur == Greater(backoffMs[h], BaseBackoff)
<1>1. h \in Bucket /\ h # Global
    BY DEF Bucket
<1>2. backoffMs[h] \in Nat /\ backoff[h] \in Nat
    BY <1>1 DEF TypeOK
<1>3. backoff[h] <= backoffMs[h] /\ backoff[h] <= BackoffMax
    BY DEF BackoffWithinLength
<1>4. cur \in Nat /\ cur >= backoffMs[h]
    BY <1>2 DEF Greater
<1>5. (cur * Factor10) \div 10 \in Int
    BY <1>4
<1>6. Greater(cur, (cur * Factor10) \div 10) \in Int /\ Greater(cur, (cur * Factor10) \div 10) >= cur
    BY <1>4, <1>5 DEF Greater
<1>7. NextBackoff(h) = Lesser(BackoffMax, Greater(cur, (cur * Factor10) \div 10))
    BY <1>1 DEF NextBackoff
<1> HIDE DEF cur
<1> QED
    BY <1>2, <1>3, <1>4, <1>6, <1>7 DEF Lesser

LEMMA BackoffGrows ==
    ASSUME TypeOK, BackoffWithinLength, NEW k \in Bucket
    PROVE  NextBackoff(k) >= backoff[k]
<1>1. CASE k = Global
    <2>1. backoff[Global] <= GlobalBackoff
        BY DEF BackoffWithinLength
    <2>2. backoff[Global] \in Nat /\ NextBackoff(Global) \in Nat
        BY NextBackoffInRange DEF TypeOK, Bucket
    <2> QED
        BY <1>1, <2>1, <2>2, GlobalBackoffConstant
<1>2. CASE k \in Host
    BY <1>2, HostBackoffGrows
<1> QED
    BY <1>1, <1>2 DEF Bucket

LEMMA NoteKeepsBackoffWithinLength ==
    ASSUME TypeOK, BackoffWithinLength, NEW t \in Task, NoteRateLimit(t)
    PROVE  BackoffWithinLength'
<1>1. Global \in EnforcedBuckets(t)
    BY DEF NoteRateLimit, EnforcedBuckets
<1>2. Global \in Bucket /\ Host \subseteq Bucket
    BY DEF Bucket
<1>3. backoffMs'[Global] = GlobalBackoff /\ backoff'[Global] = GlobalBackoff
    BY <1>1, <1>2, GlobalBackoffConstant DEF NoteRateLimit
<1>4. GlobalBackoff \in Int
    BY DEF GlobalBackoff, Greater, Lesser
<1>5. ASSUME NEW h \in Host
      PROVE  backoff'[h] <= backoffMs'[h] /\ backoff'[h] <= BackoffMax
    <2>1. NextBackoff(h) \in 0 .. BackoffMax
        BY <1>2, NextBackoffInRange
    <2>2. backoff[h] <= backoffMs[h] /\ backoff[h] <= BackoffMax
        BY DEF BackoffWithinLength
    <2>3. \/ backoff'[h] = NextBackoff(h) /\ backoffMs'[h] = NextBackoff(h)
          \/ backoff'[h] = backoff[h] /\ backoffMs'[h] = backoffMs[h]
        BY <1>2 DEF NoteRateLimit
    <2> QED
        BY <2>1, <2>2, <2>3
<1>6. GlobalBackoff' = GlobalBackoff
    BY DEF GlobalBackoff, Greater, Lesser
<1> QED
    BY <1>3, <1>4, <1>5, <1>6 DEF BackoffWithinLength

LEMMA BackoffInductive ==
    TypeOK /\ BackoffWithinLength /\ [Next]_vars => BackoffWithinLength'
<1> SUFFICES ASSUME TypeOK, BackoffWithinLength, [Next]_vars
             PROVE  BackoffWithinLength'
    OBVIOUS
<1>1. ASSUME NEW t \in Task, NoteRateLimit(t) PROVE BackoffWithinLength'
    BY <1>1, NoteKeepsBackoffWithinLength
<1>2. CASE Tick
    <2>1. \A k \in Bucket : /\ backoff'[k] = Greater(0, backoff[k] - TickMs)
                            /\ backoff[k] \in Nat
                            /\ backoffMs'[k] = backoffMs[k] /\ backoffMs[k] \in Nat
        BY <1>2 DEF Tick, TypeOK
    <2>2. GlobalBackoff \in Nat
        BY DEF GlobalBackoff, Greater, Lesser
    <2> QED
        BY <2>1, <2>2 DEF BackoffWithinLength, Greater, Bucket
<1>3. ASSUME UNCHANGED <<backoff, backoffMs>> PROVE BackoffWithinLength'
    BY <1>3 DEF BackoffWithinLength
<1>4. ASSUME NEW t \in Task, Step(t), ~NoteRateLimit(t) PROVE UNCHANGED <<backoff, backoffMs>>
    BY <1>4 DEF Step, PassLocal, AcquireWait, AcquireGrant, Finish, Raise, Cancel, buckets
<1> QED
    BY <1>1, <1>2, <1>3, <1>4 DEF Next, Terminated, vars

LEMMA StepKeepsBackoff ==
    ASSUME TypeOK, BackoffWithinLength, [Next]_vars
    PROVE  KeepsBackoff
<1> SUFFICES ASSUME NEW k \in Bucket
             PROVE  /\ backoff'[k] >= backoff[k] - TickMs
                    /\ (\E t \in Task : NoteRateLimit(t)) => backoff'[k] >= backoff[k]
    BY DEF KeepsBackoff
<1>0. backoff[k] \in Nat
    BY DEF TypeOK
<1>1. ASSUME NEW t \in Task, NoteRateLimit(t) PROVE backoff'[k] >= backoff[k] /\ backoff'[k] \in Nat
    <2>1. backoff'[k] = NextBackoff(k) \/ backoff'[k] = backoff[k]
        BY <1>1 DEF NoteRateLimit
    <2> QED
        BY <1>0, <2>1, BackoffGrows, NextBackoffInRange
<1>2. CASE Tick
    <2>1. ASSUME NEW t \in Task, NoteRateLimit(t) PROVE FALSE
        <3>1. pc[t] = "granted" /\ pc' = [pc EXCEPT ![t] = "noting"]
            BY <2>1 DEF NoteRateLimit
        <3>2. pc' = pc /\ pc \in [Task -> Stage]
            BY <1>2 DEF Tick, TypeOK
        <3> QED
            BY <3>1, <3>2
    <2>2. backoff'[k] = Greater(0, backoff[k] - TickMs)
        BY <1>2 DEF Tick
    <2> QED
        BY <1>0, <2>1, <2>2 DEF Greater
<1>3. ASSUME backoff' = backoff PROVE backoff'[k] >= backoff[k] - TickMs /\ backoff'[k] >= backoff[k]
    BY <1>0, <1>3
<1>4. ASSUME NEW t \in Task, Step(t), ~NoteRateLimit(t) PROVE backoff' = backoff
    BY <1>4 DEF Step, PassLocal, AcquireWait, AcquireGrant, Finish, Raise, Cancel, buckets
<1>5. ASSUME \E t \in Task : NoteRateLimit(t)
      PROVE  backoff'[k] >= backoff[k] - TickMs /\ backoff'[k] >= backoff[k]
    BY <1>0, <1>1, <1>5
<1> QED
    BY <1>2, <1>3, <1>4, <1>5 DEF Next, Terminated, vars

\* note_rate_limit overwrites backoff_until of the global bucket and of the
\* host; the new value is never earlier than the old one, whatever base, factor
\* and maximum the rate policy gives.
THEOREM BackoffKept == Spec => BackoffNotShortened
<1>1. Init => TypeOK /\ BackoffWithinLength
    <2>1. Init => BackoffWithinLength
        <3>1. GlobalBackoff \in Nat
            BY DEF GlobalBackoff, Greater, Lesser
        <3>2. Global \in Bucket /\ Host \subseteq Bucket
            BY DEF Bucket
        <3> QED
            BY <3>1, <3>2 DEF Init, BackoffWithinLength
    <2> QED
        BY <2>1, InitTypeOK
<1>2. TypeOK /\ BackoffWithinLength /\ [Next]_vars => TypeOK' /\ BackoffWithinLength'
    BY NextTypeOK, BackoffInductive
<1>3. TypeOK /\ BackoffWithinLength /\ [Next]_vars =>
          KeepsBackoff
    BY StepKeepsBackoff
<1> QED
    BY <1>1, <1>2, <1>3, PTL DEF Spec, BackoffNotShortened

-----------------------------------------------------------------------------
(* The token-bucket contract                                               *)

\* Of a bucket that was looked at within the last w ms, what was let through and what
\* is left come from the burst and what was earned before it was looked at; since
\* then nothing was let through.
WindowKept ==
    /\ \A k \in Bucket : \A t \in Cloud :
           k \in EnforcedBuckets(t) /\ grantAge[t] # Never => grantAge[t] >= age[k]
    /\ \A k \in Bucket : \A w \in 0 .. AgeCap - 1 :
           age[k] <= w => Cardinality(Through(k, w)) * Token + tokens[k]
                              <= Burst * Token + (w - age[k]) * MaxQps

\* More time earns more.
LEMMA Earned ==
    ASSUME NEW a \in Nat, NEW w \in Nat, a <= w, NEW m \in Nat
    PROVE  (w - a) * m \in Nat /\ (w - a) * m + a * m = w * m /\ (w - a) * m <= w * m
<1>1. w - a \in Nat
    OBVIOUS
<1>2. (w - a) * m \in Nat /\ a * m \in Nat
    BY <1>1
<1>3. (w - a) * m + a * m = w * m
    OBVIOUS
<1> QED
    BY <1>2, <1>3

LEMMA ThroughCounted ==
    \A k, w : IsFiniteSet(Through(k, w)) /\ Cardinality(Through(k, w)) \in Nat
BY FS_Subset, FS_CardinalityType DEF Through

\* Looking at a bucket again: what was let through so far and the refilled tokens.
LEMMA LookedAtAgain ==
    ASSUME TypeOK, WindowKept, NEW k \in Bucket, NEW w \in 0 .. AgeCap - 1
    PROVE  Cardinality(Through(k, w)) * Token + Refilled(k) <= Burst * Token + w * MaxQps
<1>1. /\ tokens[k] \in 0 .. Burst * Token /\ age[k] \in Nat /\ w \in Nat
      /\ qps[k] \in Nat /\ qps[k] <= MaxQps /\ MaxQps \in Nat /\ Burst * Token \in Nat
    BY DEF TypeOK, MinQps, Token
<1>2. age[k] * qps[k] \in Nat /\ age[k] * MaxQps \in Nat /\ w * MaxQps \in Nat
    BY <1>1
<1>3. age[k] * qps[k] <= age[k] * MaxQps
    BY <1>1
<1>4. /\ Refilled(k) <= Burst * Token /\ Refilled(k) <= tokens[k] + age[k] * qps[k]
      /\ Refilled(k) \in 0 .. Burst * Token
    BY <1>1, <1>2, RefilledInRange DEF Refilled, Lesser
<1>5. CASE age[k] <= w
    <2>1. /\ (w - age[k]) * MaxQps \in Nat
          /\ (w - age[k]) * MaxQps + age[k] * MaxQps = w * MaxQps
        BY <1>1, <1>5, Earned
    <2>2. Cardinality(Through(k, w)) * Token + tokens[k] <= Burst * Token + (w - age[k]) * MaxQps
        BY <1>5 DEF WindowKept
    <2>3. Cardinality(Through(k, w)) * Token \in Nat
        BY ThroughCounted DEF Token
    <2> HIDE DEF Refilled
    <2> QED
        BY <1>1, <1>2, <1>3, <1>4, <2>1, <2>2, <2>3
<1>6. CASE age[k] > w
    <2>1. Through(k, w) = {}
        <3> SUFFICES ASSUME NEW t \in Through(k, w) PROVE FALSE
            OBVIOUS
        <3>1. t \in Cloud /\ grantAge[t] >= age[k] /\ grantAge[t] <= w /\ grantAge[t] # Never
            BY DEF Through, WindowKept
        <3>2. grantAge[t] \in Nat
            BY <3>1 DEF TypeOK, Never
        <3> QED
            BY <1>1, <1>6, <3>1, <3>2
    <2>2. Cardinality(Through(k, w)) = 0
        BY <2>1, FS_EmptySet
    <2> QED
        BY <1>1, <1>2, <1>4, <2>2 DEF Token
<1> QED
    BY <1>1, <1>5, <1>6

LEMMA InitWindow == Init => WindowKept
<1> SUFFICES ASSUME Init PROVE WindowKept
    OBVIOUS
<1>1. \A k, w : Through(k, w) = {}
    BY DEF Init, Through
<1>2. \A k, w : Cardinality(Through(k, w)) = 0
    BY <1>1, FS_EmptySet
<1>3. ASSUME NEW k \in Bucket, NEW w \in 0 .. AgeCap - 1
      PROVE  Cardinality(Through(k, w)) * Token + tokens[k]
                              <= Burst * Token + (w - age[k]) * MaxQps
    <2>1. tokens[k] = Burst * Token /\ age[k] = 0
        BY DEF Init
    <2>2. w * MaxQps \in Nat /\ Burst * Token \in Nat
        BY DEF Token
    <2> QED
        BY <1>2, <2>1, <2>2 DEF Token
<1> QED
    BY <1>3 DEF Init, WindowKept

LEMMA WaitWindow ==
    ASSUME TypeOK, WindowKept, NEW t \in Task, AcquireWait(t)
    PROVE  WindowKept'
<1>1. \A k, w : Through(k, w)' = Through(k, w)
    BY DEF AcquireWait, Through
<1>2. grantAge' = grantAge /\ \A k \in Bucket : age'[k] \in {0, age[k]}
    BY DEF AcquireWait
<1>3. ASSUME NEW k \in Bucket, NEW u \in Cloud, k \in EnforcedBuckets(u), grantAge'[u] # Never
      PROVE  grantAge'[u] >= age'[k]
    <2>1. grantAge[u] >= age[k] /\ grantAge[u] \in Nat
        BY <1>2, <1>3 DEF WindowKept, TypeOK, Never
    <2> QED
        BY <1>2, <2>1
<1>4. ASSUME NEW k \in Bucket, NEW w \in 0 .. AgeCap - 1, age'[k] <= w
      PROVE  Cardinality(Through(k, w)) * Token + tokens'[k]
                              <= Burst * Token + (w - age'[k]) * MaxQps
    <2>1. CASE k \in EnforcedBuckets(t)
        <3>1. age'[k] = 0 /\ tokens'[k] = Refilled(k) /\ w - 0 = w
            BY <2>1 DEF AcquireWait
        <3> QED
            BY <3>1, LookedAtAgain
    <2>2. CASE k \notin EnforcedBuckets(t)
        <3>1. age'[k] = age[k] /\ tokens'[k] = tokens[k]
            BY <2>2 DEF AcquireWait
        <3> QED
            BY <1>4, <3>1 DEF WindowKept
    <2> QED
        BY <2>1, <2>2
<1> QED
    BY <1>1, <1>3, <1>4 DEF WindowKept

LEMMA GrantWindow ==
    ASSUME TypeOK, WindowKept, NEW t \in Task, AcquireGrant(t)
    PROVE  WindowKept'
<1>1. t \in Cloud /\ grantAge' = [grantAge EXCEPT ![t] = 0] /\ grantAge \in [Task -> {Never} \union (0 .. AgeCap)]
    BY DEF AcquireGrant, TypeOK
<1>2. ASSUME NEW k \in Bucket, NEW u \in Cloud, k \in EnforcedBuckets(u), grantAge'[u] # Never
      PROVE  grantAge'[u] >= age'[k]
    <2>1. CASE u = t
        BY <1>1, <1>2, <2>1 DEF AcquireGrant
    <2>2. CASE u # t
        <3>1. grantAge'[u] = grantAge[u] /\ age'[k] \in {0, age[k]}
            BY <1>1, <2>2 DEF AcquireGrant
        <3>2. grantAge[u] >= age[k] /\ grantAge[u] \in Nat
            BY <1>1, <1>2, <3>1 DEF WindowKept, Never
        <3> QED
            BY <3>1, <3>2
    <2> QED
        BY <2>1, <2>2
<1>3. ASSUME NEW k \in Bucket, NEW w \in 0 .. AgeCap - 1, age'[k] <= w
      PROVE  Cardinality(Through(k, w)') * Token + tokens'[k]
                              <= Burst * Token + (w - age'[k]) * MaxQps
    <2>1. CASE k \in EnforcedBuckets(t)
        <3>1. age'[k] = 0 /\ tokens'[k] = Refilled(k) - Token /\ w - 0 = w
            BY <2>1 DEF AcquireGrant
        <3>2. Through(k, w)' \subseteq Through(k, w) \cup {t}
            BY <1>1 DEF Through
        <3>3. /\ Cardinality(Through(k, w)') <= Cardinality(Through(k, w)) + 1
              /\ Cardinality(Through(k, w)') \in Nat
            <4> DEFINE old == Through(k, w)
                       now == Through(k, w)'
                       both == old \cup {t}
            <4>1. IsFiniteSet(old) /\ Cardinality(old) \in Nat /\ now \subseteq both
                BY <3>2, ThroughCounted
            <4> HIDE DEF old, now
            <4>2. IsFiniteSet(both) /\ Cardinality(both) \in {Cardinality(old), Cardinality(old) + 1}
                BY <4>1, FS_AddElement
            <4> HIDE DEF both
            <4>3. IsFiniteSet(now) /\ Cardinality(now) <= Cardinality(both)
                BY <4>1, <4>2, FS_Subset
            <4>4. Cardinality(now) \in Nat
                BY <4>3, FS_CardinalityType
            <4>5. Cardinality(now) <= Cardinality(old) + 1
                BY <4>1, <4>2, <4>3, <4>4
            <4> QED
                BY <4>4, <4>5 DEF old, now
        <3>4. /\ Cardinality(Through(k, w)) \in Nat /\ Refilled(k) \in Nat
              /\ Burst * Token \in Nat /\ w * MaxQps \in Nat
            BY ThroughCounted, RefilledInRange DEF Token
        <3>5. Cardinality(Through(k, w)) * Token + Refilled(k) <= Burst * Token + w * MaxQps
            BY LookedAtAgain
        <3> HIDE DEF Refilled, Through
        <3> QED
            BY <3>1, <3>3, <3>4, <3>5 DEF Token
    <2>2. CASE k \notin EnforcedBuckets(t)
        <3>1. age'[k] = age[k] /\ tokens'[k] = tokens[k]
            BY <2>2 DEF AcquireGrant
        <3>2. Through(k, w)' = Through(k, w)
            BY <1>1, <2>2 DEF Through
        <3> QED
            BY <1>3, <3>1, <3>2 DEF WindowKept
    <2> QED
        BY <2>1, <2>2
<1> QED
    BY <1>2, <1>3 DEF WindowKept

LEMMA NoteWindow ==
    ASSUME TypeOK, WindowKept, NEW t \in Task, NoteRateLimit(t)
    PROVE  WindowKept'
<1>1. UNCHANGED << age, grantAge >> /\ \A k, w : Through(k, w)' = Through(k, w)
    BY DEF NoteRateLimit, Through
<1>2. ASSUME NEW k \in Bucket
      PROVE  tokens'[k] = tokens[k]
    <2>1. tokens[k] \in 0 .. Burst * Token /\ Burst * Token \in Nat
        BY DEF TypeOK, Token
    <2> QED
        BY <2>1 DEF NoteRateLimit, Lesser
<1> QED
    BY <1>1, <1>2 DEF WindowKept

\* Time moves the window along with the calls in it.
LEMMA TickWindow ==
    ASSUME TypeOK, WindowKept, Tick
    PROVE  WindowKept'
<1>1. /\ age \in [Bucket -> 0 .. AgeCap] /\ grantAge \in [Task -> {Never} \union (0 .. AgeCap)]
      /\ age' = [k \in Bucket |-> Lesser(AgeCap, age[k] + TickMs)]
      /\ grantAge' = [t \in Task |-> IF grantAge[t] = Never THEN Never
                                     ELSE Lesser(AgeCap, grantAge[t] + TickMs)]
      /\ tokens' = tokens
    BY DEF Tick, TypeOK
<1>2. ASSUME NEW k \in Bucket, NEW u \in Cloud, k \in EnforcedBuckets(u), grantAge'[u] # Never
      PROVE  grantAge'[u] >= age'[k]
    <2>1. grantAge[u] # Never /\ grantAge[u] \in Nat /\ age[k] \in Nat
        BY <1>1, <1>2 DEF Never
    <2>2. grantAge[u] >= age[k]
        BY <1>2, <2>1 DEF WindowKept
    <2> QED
        BY <1>1, <2>1, <2>2 DEF Lesser
<1>3. ASSUME NEW k \in Bucket, NEW w \in 0 .. AgeCap - 1, age'[k] <= w
      PROVE  Cardinality(Through(k, w)') * Token + tokens'[k]
                              <= Burst * Token + (w - age'[k]) * MaxQps
    <2>1. age'[k] = age[k] + TickMs /\ age[k] \in Nat
        BY <1>1, <1>3 DEF Lesser
    <2>2. w - TickMs \in 0 .. AgeCap - 1 /\ age[k] <= w - TickMs
        BY <1>3, <2>1
    <2>3. Through(k, w)' = Through(k, w - TickMs)
        <3>1. ASSUME NEW u \in Cloud
              PROVE  grantAge'[u] # Never /\ grantAge'[u] <= w
                        <=> grantAge[u] # Never /\ grantAge[u] <= w - TickMs
            BY <1>1 DEF Lesser, Never
        <3> QED
            BY <3>1 DEF Through
    <2>4. (w - TickMs) - age[k] = w - age'[k]
        BY <2>1
    <2>5. Cardinality(Through(k, w - TickMs)) * Token + tokens[k]
                              <= Burst * Token + ((w - TickMs) - age[k]) * MaxQps
        BY <2>2 DEF WindowKept
    <2> QED
        BY <1>1, <2>3, <2>4, <2>5
<1> QED
    BY <1>2, <1>3 DEF WindowKept

LEMMA NextWindow == TypeOK /\ WindowKept /\ [Next]_vars => WindowKept'
<1> SUFFICES ASSUME TypeOK, WindowKept, [Next]_vars PROVE WindowKept'
    OBVIOUS
<1>1. ASSUME UNCHANGED << tokens, age, grantAge >> PROVE WindowKept'
    BY <1>1 DEF WindowKept, Through
<1>2. ASSUME NEW t \in Task, PassLocal(t) \/ Finish(t) \/ Raise(t) \/ Cancel(t)
      PROVE  WindowKept'
    BY <1>1, <1>2 DEF PassLocal, Finish, Raise, Cancel, buckets
<1>3. CASE UNCHANGED vars
    BY <1>1, <1>3 DEF vars
<1> QED
    BY <1>2, <1>3, WaitWindow, GrantWindow, NoteWindow, TickWindow DEF Next, Step, Terminated

LEMMA WindowFollows == TypeOK /\ WindowKept => WindowBound
<1> SUFFICES ASSUME TypeOK, WindowKept, NEW k \in Bucket, NEW i \in 0 .. (AgeCap \div TickMs) - 1
             PROVE  Cardinality(Through(k, i * TickMs)) * Token <= Burst * Token + (i * TickMs) * MaxQps
    BY DEF WindowBound
<1>1. i * TickMs \in 0 .. AgeCap - 1
    <2>1. AgeCap \div TickMs \in Nat /\ (AgeCap \div TickMs) * TickMs <= AgeCap
        OBVIOUS
    <2>2. (i + 1) * TickMs <= (AgeCap \div TickMs) * TickMs
        BY <2>1
    <2>3. (i + 1) * TickMs = i * TickMs + TickMs
        OBVIOUS
    <2>4. i * TickMs \in Nat /\ (AgeCap \div TickMs) * TickMs \in Nat
        BY <2>1
    <2> QED
        BY <2>1, <2>2, <2>3, <2>4
<1> DEFINE w == i * TickMs
<1>2. Refilled(k) \in Nat
    BY RefilledInRange
<1>3. Cardinality(Through(k, w)) * Token + Refilled(k) <= Burst * Token + w * MaxQps
    BY <1>1, LookedAtAgain
<1>4. Cardinality(Through(k, w)) * Token \in Nat /\ Burst * Token + w * MaxQps \in Nat
    BY <1>1, ThroughCounted DEF Token
<1> HIDE DEF w
<1>5. Cardinality(Through(k, w)) * Token <= Burst * Token + w * MaxQps
    BY <1>2, <1>3, <1>4
<1> QED
    BY <1>5 DEF w

\* For any number of tasks and hosts, any burst and rates: over every stretch of time
\* up to now no host, and all hosts together, are sent more than the burst and what
\* the configured rate earns, whatever refills, waits, 429s and cancellations did.
THEOREM WindowsBounded == Spec => []WindowBound
BY InitTypeOK, NextTypeOK, InitWindow, NextWindow, WindowFollows, PTL DEF Spec
=============================================================================
