-------------------------- MODULE TraceCompare_proofs --------------------------
(***************************************************************************)
(* Proof, for traces of every length and every configuration, that the      *)
(* comparison (_tolerant_equal in src/runtime/trace.py) is sound and        *)
(* complete.                                                                *)
(*                                                                          *)
(* 1. Sound: what has been walked over is a rearrangement in which only     *)
(*    independent events changed places (PrefixInv), and has the same       *)
(*    signatures (SignatureInv).                                            *)
(* 2. Complete: in clear cases, what lies ahead in equivalent traces is a   *)
(*    rearrangement too (RestInv).  Independence then leads out of neither  *)
(*    the commuting events nor a scope (Closed), so the runs that begin at  *)
(*    a difference end at the same place and have the same events           *)
(*    (RunsMatch); and counting the events of a rule shows that they have   *)
(*    the same signatures (SignatureCut).                                   *)
(***************************************************************************)
EXTENDS TraceCompare, TLAPS, SequenceTheorems, FiniteSetTheorems

\* p rearranges the first n events of base into those of opt.
Rearranges(p, n) ==
    /\ p \in [1 .. n -> 1 .. n] /\ Onto(p, 1 .. n)
    /\ \A i \in 1 .. n : opt[p[i]] = base[i]
    /\ \A i, j \in 1 .. n : i < j /\ p[j] < p[i] => Independent(base[i], base[j])

\* The walk never leaves the traces.
PlaceInv == Len(base) \in Nat /\ idx \in Int /\ 1 <= idx /\ idx <= Len(base) + 1

\* What has been walked over is rearranged.
PrefixInv == \E p : Rearranges(p, idx - 1)

VerdictInv ==
    /\ verdict = "strict" => base = opt
    /\ verdict = "tolerant" => Len(base) = Len(opt) /\ idx = Len(base) + 1

WalkInv == PlaceInv /\ PrefixInv /\ VerdictInv

PassedIsRearranged == verdict \in {"strict", "tolerant"} => Rearranged

-----------------------------------------------------------------------------
\* Windows of independent events, rearranged, go on a rearrangement.
LEMMA WindowRearranged ==
    ASSUME NEW n \in Nat, NEW k \in Nat, n <= k,
           NEW p, Rearranges(p, n),
           NEW q \in [n + 1 .. k -> n + 1 .. k], Onto(q, n + 1 .. k),
           \A i \in n + 1 .. k : opt[q[i]] = base[i],
           \A i, j \in n + 1 .. k : i < j => Independent(base[i], base[j])
    PROVE  \E r : Rearranges(r, k)
<1> DEFINE r == [i \in 1 .. k |-> IF i <= n THEN p[i] ELSE q[i]]
<1>1. /\ p \in [1 .. n -> 1 .. n] /\ \A w \in 1 .. n : \E v \in 1 .. n : p[v] = w
      /\ \A w \in n + 1 .. k : \E v \in n + 1 .. k : q[v] = w
    BY DEF Rearranges, Onto
<1>2. ASSUME NEW i \in 1 .. k
      PROVE  \/ i \in 1 .. n /\ r[i] = p[i] /\ r[i] \in 1 .. n
             \/ i \in n + 1 .. k /\ r[i] = q[i] /\ r[i] \in n + 1 .. k
  <2>1. CASE i <= n
    <3>1. i \in 1 .. n /\ r[i] = p[i]
        BY <2>1
    <3> QED
        BY <1>1, <3>1
  <2>2. CASE ~(i <= n)
    <3>1. i \in n + 1 .. k /\ r[i] = q[i]
        BY <2>2
    <3> QED
        BY <3>1
  <2> QED
      BY <2>1, <2>2
<1>3. r \in [1 .. k -> 1 .. k] /\ Onto(r, 1 .. k)
  <2>1. ASSUME NEW i \in 1 .. k
        PROVE  r[i] \in 1 .. k
    <3>1. 1 .. n \subseteq 1 .. k /\ n + 1 .. k \subseteq 1 .. k
        OBVIOUS
    <3> QED
        BY <1>2, <3>1
  <2>2. ASSUME NEW w \in 1 .. k
        PROVE  \E v \in 1 .. k : r[v] = w
    <3>1. CASE w \in 1 .. n
        BY <1>1, <1>2, <3>1
    <3>2. CASE w \in n + 1 .. k
        BY <1>1, <1>2, <3>2
    <3> QED
        BY <3>1, <3>2
  <2>3. r \in [1 .. k -> 1 .. k]
      BY <2>1
  <2> QED
      BY <2>2, <2>3 DEF Onto
<1>4. \A i \in 1 .. k : opt[r[i]] = base[i]
    BY <1>2 DEF Rearranges
<1>5. ASSUME NEW i \in 1 .. k, NEW j \in 1 .. k, i < j, r[j] < r[i]
      PROVE  Independent(base[i], base[j])
  <2>1. CASE i \in 1 .. n /\ j \in 1 .. n
      BY <1>2, <1>5, <2>1 DEF Rearranges
  <2>2. CASE i \in n + 1 .. k /\ j \in n + 1 .. k
      BY <1>5, <2>2
  <2>3. CASE i \in 1 .. n /\ j \in n + 1 .. k
      BY <1>2, <1>5, <2>3
  <2> QED
      BY <1>2, <1>5, <2>1, <2>2, <2>3
<1> HIDE DEF r
<1> QED
    BY <1>3, <1>4, <1>5 DEF Rearranges

\* The first n events, as a rearrangement of themselves.
LEMMA SameRearranged ==
    ASSUME NEW n \in Nat, \A i \in 1 .. n : opt[i] = base[i]
    PROVE  \E p : Rearranges(p, n)
<1> DEFINE p == [i \in 1 .. n |-> i]
<1>1. p \in [1 .. n -> 1 .. n] /\ Onto(p, 1 .. n)
    BY DEF Onto
<1>2. Rearranges(p, n)
    BY <1>1 DEF Rearranges
<1> QED
    BY <1>2

LEMMA InitWalk == Init => WalkInv
<1> SUFFICES ASSUME Init
             PROVE  WalkInv
    OBVIOUS
<1>1. PICK c \in Comparisons : base = CanonicalTrace(c.base) /\ idx = 1 /\ verdict = "walking"
    BY DEF Init
<1>2. c.base \in Seq(Range(c.base))
    BY <1>1, ComparisonsAssumption
<1>3. DOMAIN c.base = 1 .. Len(c.base) /\ Len(c.base) \in Nat
    BY <1>2
<1> DEFINE Forms == {Canonical(c.base[i]) : i \in 1 .. Len(c.base)}
<1>4. base \in [1 .. Len(c.base) -> Forms]
    BY <1>1, <1>3 DEF CanonicalTrace
<1>5. base \in Seq(Forms)
    BY <1>3, <1>4, SeqDef
<1>6. PlaceInv
    BY <1>1, <1>5 DEF PlaceInv
<1>7. \E p : Rearranges(p, 0)
    BY SameRearranged
<1>8. idx - 1 = 0
    BY <1>1
<1> QED
    BY <1>1, <1>6, <1>7, <1>8 DEF WalkInv, PrefixInv, VerdictInv

\* Whether events are independent, and rearranged, depends on the traces and the
\* configuration alone.
LEMMA SameTraces ==
    ASSUME base' = base, opt' = opt, config' = config
    PROVE  \A p, n : Rearranges(p, n)' <=> Rearranges(p, n)
<1>1. \A x, y : InOneScope(x, y)' <=> InOneScope(x, y)
    BY DEF InOneScope
<1>2. Commutable' = Commutable
    BY DEF Commutable, CommuteRules
<1>3. \A x : Commutes(x)' <=> Commutes(x)
    BY <1>2 DEF Commutes
<1>4. \A x, y : Independent(x, y)' <=> Independent(x, y)
    BY <1>1, <1>3 DEF Independent
<1> QED
    BY <1>4 DEF Rearranges

\* A verdict changes nothing but itself.
LEMMA DecideWalk ==
    ASSUME WalkInv, NEW v, Decide(v),
           v = "strict" => base = opt,
           v = "tolerant" => Len(base) = Len(opt) /\ idx = Len(base) + 1
    PROVE  WalkInv'
<1>1. base' = base /\ opt' = opt /\ config' = config /\ idx' = idx /\ verdict' = v
    BY DEF Decide
<1>2. PlaceInv' /\ VerdictInv'
    BY <1>1 DEF WalkInv, PlaceInv, VerdictInv
<1>3. PrefixInv'
    BY <1>1, SameTraces DEF WalkInv, PrefixInv
<1> QED
    BY <1>2, <1>3 DEF WalkInv

\* The walk moves on behind events that are rearranged.
LEMMA MoveWalk ==
    ASSUME WalkInv, verdict = "walking", NEW k \in idx .. Len(base), MoveTo(k + 1),
           \E p : Rearranges(p, k)
    PROVE  WalkInv'
<1>1. idx' = k + 1 /\ base' = base /\ opt' = opt /\ config' = config /\ verdict' = verdict
    BY DEF MoveTo
<1>2. Len(base) \in Int /\ idx \in Int /\ 1 <= idx
    BY DEF WalkInv, PlaceInv
<1>3. k \in Int /\ idx <= k /\ k <= Len(base) /\ idx' - 1 = k
    BY <1>1, <1>2
<1>4. PlaceInv'
    BY <1>1, <1>2, <1>3 DEF WalkInv, PlaceInv
<1>5. PrefixInv'
    BY <1>1, <1>3, SameTraces DEF PrefixInv
<1>6. VerdictInv'
    BY <1>1 DEF VerdictInv
<1> QED
    BY <1>4, <1>5, <1>6 DEF WalkInv

\* A window behind what has been walked over, rearranged, is walked over too.
LEMMA PrefixExtended ==
    ASSUME WalkInv, NEW k \in Nat, idx <= k,
           NEW q \in [idx .. k -> idx .. k], Onto(q, idx .. k),
           \A i \in idx .. k : opt[q[i]] = base[i],
           \A i, j \in idx .. k : i < j => Independent(base[i], base[j])
    PROVE  \E r : Rearranges(r, k)
<1> DEFINE n == idx - 1
<1>1. idx \in Int /\ 1 <= idx
    BY DEF WalkInv, PlaceInv
<1>2. PICK p : Rearranges(p, n)
    BY DEF WalkInv, PrefixInv
<1>3. n \in Nat /\ n <= k /\ n + 1 = idx
    BY <1>1
<1> HIDE DEF n
<1>4. /\ q \in [n + 1 .. k -> n + 1 .. k] /\ Onto(q, n + 1 .. k)
      /\ \A i \in n + 1 .. k : opt[q[i]] = base[i]
      /\ \A i, j \in n + 1 .. k : i < j => Independent(base[i], base[j])
    BY <1>3
<1> QED
    BY <1>2, <1>3, <1>4, WindowRearranged

\* A window with the same events in both traces, all of them independent, is walked over.
LEMMA WindowWalk ==
    ASSUME WalkInv, verdict = "walking", NEW k \in idx .. Len(base), NEW l, SameEvents(k, l),
           MoveTo(Larger(k, l) + 1),
           \A i, j \in idx .. k : Independent(base[i], base[j])
    PROVE  WalkInv'
<1>1. Len(base) \in Int /\ idx \in Int /\ 1 <= idx
    BY DEF WalkInv, PlaceInv
<1>2. k \in Nat /\ idx <= k
    BY <1>1
<1>3. k = l /\ Larger(k, l) = k
    BY <1>2 DEF SameEvents, Larger
<1>4. PICK q \in [idx .. k -> idx .. k] :
          (\A i \in idx .. k : opt[q[i]] = base[i]) /\ Onto(q, idx .. k)
    BY DEF SameEvents
<1>5. \E r : Rearranges(r, k)
    BY <1>2, <1>4, PrefixExtended
<1> QED
    BY <1>3, <1>5, MoveWalk

LEMMA NextWalk == WalkInv /\ [Next]_vars => WalkInv'
<1> SUFFICES ASSUME WalkInv, [Next]_vars
             PROVE  WalkInv'
    OBVIOUS
<1> USE DEF Walking, AtDifference
<1>1. CASE StrictlyEqual
    BY <1>1, DecideWalk DEF StrictlyEqual
<1>2. CASE LengthsDiffer
    BY <1>2, DecideWalk DEF LengthsDiffer
<1>3. CASE Same
  <2>1. base[idx] = opt[idx] /\ MoveTo(idx + 1) /\ verdict = "walking" /\ idx <= Len(base)
      BY <1>3 DEF Same
  <2> DEFINE k == idx
  <2>2. k \in Nat /\ idx <= k /\ k \in idx .. Len(base) /\ \A i \in idx .. k : i = idx
      BY <2>1 DEF WalkInv, PlaceInv
  <2>3. MoveTo(k + 1)
      BY <2>1
  <2>4. \A i, j \in idx .. k : ~(i < j)
      BY <2>2
  <2> HIDE DEF k
  <2> DEFINE q == [i \in idx .. k |-> i]
  <2>5. q \in [idx .. k -> idx .. k] /\ Onto(q, idx .. k)
      BY DEF Onto
  <2>6. \A i \in idx .. k : opt[q[i]] = base[i]
      BY <2>1, <2>2
  <2> HIDE DEF q
  <2>7. \E r : Rearranges(r, k)
      BY <2>2, <2>4, <2>5, <2>6, PrefixExtended
  <2> QED
      BY <2>1, <2>2, <2>3, <2>7, MoveWalk
<1>4. CASE CompareCommutable
  <2>1. PICK k \in idx .. Len(base), l \in idx .. Len(base) :
            /\ RunOf(k, base, CommutablePositions(base))
            /\ IF SameEvents(k, l) /\ GroupsKept(k, l)
               THEN MoveTo(Larger(k, l) + 1) ELSE Decide("different")
      BY <1>4 DEF CompareCommutable
  <2>2. \A i \in idx .. k : Commutes(base[i])
      BY <2>1 DEF RunOf, CommutablePositions
  <2>3. \A i, j \in idx .. k : Independent(base[i], base[j])
      BY <2>2 DEF Independent
  <2>4. CASE SameEvents(k, l) /\ MoveTo(Larger(k, l) + 1)
      BY <1>4, <2>3, <2>4, WindowWalk DEF CompareCommutable
  <2>5. CASE Decide("different")
      BY <2>5, DecideWalk
  <2> QED
      BY <2>1, <2>4, <2>5
<1>5. CASE CompareScope
  <2>1. PICK s \in Range(config.scopes), k \in idx .. Len(base), l \in idx .. Len(base) :
            /\ OneScope(s)
            /\ RunOf(k, base, ScopePositions(base, s))
            /\ IF SameEvents(k, l) THEN MoveTo(Larger(k, l) + 1) ELSE Decide("different")
      BY <1>5 DEF CompareScope
  <2>2. Cardinality(s) >= 2
      BY <2>1 DEF OneScope, IsScopeOf, Places
  <2>3. \A i \in idx .. k : base[i].action \in s
      BY <2>1 DEF RunOf, ScopePositions
  <2>4. \A i, j \in idx .. k : Independent(base[i], base[j])
      BY <2>2, <2>3 DEF Independent, InOneScope
  <2>5. CASE SameEvents(k, l) /\ MoveTo(Larger(k, l) + 1)
      BY <1>5, <2>4, <2>5, WindowWalk DEF CompareScope
  <2>6. CASE Decide("different")
      BY <2>6, DecideWalk
  <2> QED
      BY <2>1, <2>5, <2>6
<1>6. CASE NeitherApplies
    BY <1>6, DecideWalk DEF NeitherApplies
<1>7. CASE WalkedThrough
  <2>1. Decide("tolerant") /\ Len(base) = Len(opt) /\ idx > Len(base)
      BY <1>7 DEF WalkedThrough
  <2>2. idx = Len(base) + 1
      BY <2>1 DEF WalkInv, PlaceInv
  <2> QED
      BY <2>1, <2>2, DecideWalk
<1>8. CASE UNCHANGED vars
  <2>1. base' = base /\ opt' = opt /\ config' = config /\ idx' = idx /\ verdict' = verdict
      BY <1>8 DEF vars
  <2>2. PrefixInv'
      BY <2>1, SameTraces DEF WalkInv, PrefixInv
  <2> QED
      BY <2>1, <2>2 DEF WalkInv, PlaceInv, VerdictInv
<1> QED
    BY <1>1, <1>2, <1>3, <1>4, <1>5, <1>6, <1>7, <1>8 DEF Next

LEMMA WalkGivesRearranged == WalkInv => PassedIsRearranged
<1> SUFFICES ASSUME WalkInv, verdict \in {"strict", "tolerant"}
             PROVE  Rearranged
    BY DEF PassedIsRearranged
<1>1. Len(base) \in Nat
    BY DEF WalkInv, PlaceInv
<1>2. Len(base) = Len(opt) /\ \E p : Rearranges(p, Len(base))
  <2>1. CASE verdict = "strict"
    <3>1. base = opt
        BY <2>1 DEF WalkInv, VerdictInv
    <3> QED
        BY <1>1, <3>1, SameRearranged
  <2>2. CASE verdict = "tolerant"
    <3>1. Len(base) = Len(opt) /\ idx = Len(base) + 1
        BY <2>2 DEF WalkInv, VerdictInv
    <3>2. idx - 1 = Len(base)
        BY <1>1, <3>1
    <3> QED
        BY <3>1, <3>2 DEF WalkInv, PrefixInv
  <2> QED
      BY <2>1, <2>2
<1> QED
    BY <1>2 DEF Rearranges, Rearranged

-----------------------------------------------------------------------------
(* Signatures                                                              *)

\* q takes the events of the rule from one trace to the other, in their order.
Signs(q, from, k, l, rule) ==
    /\ q \in [OfRule(base, from, k, rule) -> OfRule(opt, from, l, rule)]
    /\ \A j \in OfRule(opt, from, l, rule) : \E i \in OfRule(base, from, k, rule) : q[i] = j
    /\ \A i, j \in OfRule(base, from, k, rule) : i < j => q[i] < q[j]
    /\ \A i \in OfRule(base, from, k, rule) :
          /\ base[i].op = opt[q[i]].op
          /\ GroupValue(base[i], rule.key) = GroupValue(opt[q[i]], rule.key)

LEMMA SignsIsSignature ==
    ASSUME NEW from, NEW k, NEW l, NEW rule
    PROVE  SameSignature(from, k, l, rule) <=> \E q : Signs(q, from, k, l, rule)
BY Zenon DEF SameSignature, Signs

\* A window behind a prefix: the signatures of both together are the same.
LEMMA SignatureJoined ==
    ASSUME NEW n \in Int, NEW k \in Int, 0 <= n, n <= k, NEW rule,
           SameSignature(1, n, n, rule), SameSignature(n + 1, k, k, rule)
    PROVE  SameSignature(1, k, k, rule)
<1> DEFINE B == OfRule(base, 1, k, rule)
           O == OfRule(opt, 1, k, rule)
           B1 == OfRule(base, 1, n, rule)
           O1 == OfRule(opt, 1, n, rule)
           B2 == OfRule(base, n + 1, k, rule)
           O2 == OfRule(opt, n + 1, k, rule)
<1>1. PICK p : Signs(p, 1, n, n, rule)
    BY SignsIsSignature
<1>2. PICK q : Signs(q, n + 1, k, k, rule)
    BY SignsIsSignature
<1>3. /\ \A i \in B : i \in Int /\ (i \in B1 \/ i \in B2)
      /\ \A j \in O : j \in Int /\ (j \in O1 \/ j \in O2)
      /\ \A i \in B1 : i \in B /\ i <= n
      /\ \A i \in B2 : i \in B /\ ~(i <= n)
      /\ \A j \in O1 : j \in O /\ j <= n
      /\ \A j \in O2 : j \in O /\ ~(j <= n)
    BY DEF OfRule
<1>4. /\ p \in [B1 -> O1] /\ \A j \in O1 : \E i \in B1 : p[i] = j
      /\ \A i, j \in B1 : i < j => p[i] < p[j]
      /\ \A i \in B1 : /\ base[i].op = opt[p[i]].op
                       /\ GroupValue(base[i], rule.key) = GroupValue(opt[p[i]], rule.key)
    BY <1>1 DEF Signs
<1>5. /\ q \in [B2 -> O2] /\ \A j \in O2 : \E i \in B2 : q[i] = j
      /\ \A i, j \in B2 : i < j => q[i] < q[j]
      /\ \A i \in B2 : /\ base[i].op = opt[q[i]].op
                       /\ GroupValue(base[i], rule.key) = GroupValue(opt[q[i]], rule.key)
    BY <1>2 DEF Signs
<1> DEFINE r == [i \in B |-> IF i <= n THEN p[i] ELSE q[i]]
<1> HIDE DEF B, O, B1, O1, B2, O2
<1>6. /\ \A i \in B1 : r[i] = p[i] /\ r[i] \in O /\ r[i] <= n
      /\ \A i \in B2 : r[i] = q[i] /\ r[i] \in O /\ ~(r[i] <= n)
    BY <1>3, <1>4, <1>5
<1>7. r \in [B -> O]
    BY <1>3, <1>6
<1> HIDE DEF r
<1>8. \A j \in O : \E i \in B : r[i] = j
    BY <1>3, <1>4, <1>5, <1>6
<1>9. \A i, j \in B : i < j => r[i] < r[j]
  <2> SUFFICES ASSUME NEW i \in B, NEW j \in B, i < j PROVE r[i] < r[j]
      OBVIOUS
  <2>0. r[i] \in Int /\ r[j] \in Int
      BY <1>3, <1>7
  <2>1. CASE i \in B1 /\ j \in B1
      BY <2>1, <1>4, <1>6
  <2>2. CASE i \in B1 /\ j \in B2
      BY <2>2, <2>0, <1>6
  <2>3. CASE i \in B2 /\ j \in B2
      BY <2>3, <1>5, <1>6
  <2>4. CASE i \in B2 /\ j \in B1
      BY <2>4, <1>3
  <2> QED
      BY <1>3, <2>1, <2>2, <2>3, <2>4
<1>10. \A i \in B : /\ base[i].op = opt[r[i]].op
                    /\ GroupValue(base[i], rule.key) = GroupValue(opt[r[i]], rule.key)
    BY <1>3, <1>4, <1>5, <1>6
<1>11. Signs(r, 1, k, k, rule)
    BY <1>7, <1>8, <1>9, <1>10, Zenon DEF Signs, B, O
<1> QED
    BY <1>11, SignsIsSignature

\* Where the traces are the same, so are the signatures.
LEMMA SignatureOfSame ==
    ASSUME NEW from \in Int, NEW k \in Int, NEW rule, \A i \in from .. k : base[i] = opt[i]
    PROVE  SameSignature(from, k, k, rule)
<1> DEFINE B == OfRule(base, from, k, rule)
           q == [i \in B |-> i]
<1>1. OfRule(opt, from, k, rule) = B
    BY DEF OfRule
<1>2. \A i \in B : i \in from .. k /\ q[i] = i /\ base[i] = opt[q[i]]
    BY DEF OfRule
<1>3. Signs(q, from, k, k, rule)
    BY <1>1, <1>2 DEF Signs
<1> QED
    BY <1>3, SignsIsSignature

\* A window without events of the rule.
LEMMA SignatureOfNone ==
    ASSUME NEW from, NEW k, NEW l, NEW rule,
           OfRule(base, from, k, rule) = {}, OfRule(opt, from, l, rule) = {}
    PROVE  SameSignature(from, k, l, rule)
<1> DEFINE q == [i \in {} |-> i]
<1>1. Signs(q, from, k, l, rule)
    BY DEF Signs
<1> QED
    BY <1>1, SignsIsSignature

\* No event of the rule is of a scope.
Unscoped(rule) == \A x \in Events : x.op \in Ops(rule) => Places(x.action) = {}

\* Up to k the signatures of the rules are the same, unless a scope meddles.
Signed(k) ==
    \A rule \in KeyedRules : Unscoped(rule) => SameSignature(1, k, k, rule)

\* Both traces are sequences, and so are the scopes.
TraceInv ==
    /\ Len(base) \in Nat /\ DOMAIN base = 1 .. Len(base)
    /\ Len(opt) \in Nat /\ DOMAIN opt = 1 .. Len(opt)
    /\ config.scopes \in Seq(Range(config.scopes))

\* What has been walked over has the same signatures, as far as no scope meddles.
SignatureInv == Signed(idx - 1)

EquivalenceInv == WalkInv /\ TraceInv /\ SignatureInv

LEMMA EventAt ==
    ASSUME TraceInv
    PROVE  /\ \A i \in 1 .. Len(base) : base[i] \in Events
           /\ \A i \in 1 .. Len(opt) : opt[i] \in Events
BY DEF TraceInv, Events, Range

\* Signatures depend on the traces alone.
LEMMA SignatureFixed ==
    ASSUME base' = base, opt' = opt, config' = config
    PROVE  /\ \A k : Signed(k)' <=> Signed(k)
           /\ TraceInv => TraceInv'
<1>1. \A from, k, l, rule : SameSignature(from, k, l, rule)' <=> SameSignature(from, k, l, rule)
    BY DEF SameSignature, OfRule
<1>2. KeyedRules' = KeyedRules /\ Events' = Events
    BY DEF KeyedRules, CommuteRules, Events
<1>3. \A a : Places(a)' = Places(a)
    BY DEF Places
<1>4. \A rule : Unscoped(rule)' <=> Unscoped(rule)
    BY <1>2, <1>3 DEF Unscoped
<1>5. TraceInv => TraceInv'
    BY DEF TraceInv
<1> QED
    BY <1>1, <1>2, <1>4, <1>5 DEF Signed

\* The walk moves on behind a window that has the same signatures in both traces.
LEMMA MoveSigned ==
    ASSUME EquivalenceInv, verdict = "walking", NEW k \in idx .. Len(base), MoveTo(k + 1),
           \A rule \in KeyedRules : Unscoped(rule) => SameSignature(idx, k, k, rule)
    PROVE  TraceInv' /\ SignatureInv'
<1>1. /\ idx' = k + 1 /\ base' = base /\ opt' = opt /\ config' = config /\ verdict' = verdict
      /\ idx \in Int /\ 1 <= idx /\ Len(base) \in Int
    BY DEF MoveTo, EquivalenceInv, WalkInv, PlaceInv
<1> DEFINE n == idx - 1
<1>2. n \in Int /\ k \in Int /\ 0 <= n /\ n <= k /\ idx = n + 1
    BY <1>1
<1> HIDE DEF n
<1>3. Signed(n)
    BY DEF EquivalenceInv, SignatureInv, n
<1>4. Signed(k)
    BY <1>2, <1>3, SignatureJoined DEF Signed
<1>5. idx' - 1 = k
    BY <1>1, <1>2
<1>6. Signed(idx - 1)'
    BY <1>1, <1>4, <1>5, SignatureFixed
<1> QED
    BY <1>1, <1>6, SignatureFixed DEF EquivalenceInv, SignatureInv

\* A verdict is given.
LEMMA DecideSigned ==
    ASSUME EquivalenceInv, NEW v, Decide(v), WalkInv'
    PROVE  TraceInv' /\ SignatureInv'
<1>1. base' = base /\ opt' = opt /\ config' = config /\ idx' = idx
    BY DEF Decide
<1> QED
    BY <1>1, SignatureFixed DEF EquivalenceInv, SignatureInv, WalkInv, VerdictInv

\* Events of a scope have no place in the signatures of a rule that no scope meddles with.
LEMMA ScopeUnsigned ==
    ASSUME EquivalenceInv, NEW rule, Unscoped(rule), NEW s, NEW a, IsScopeOf(s, a),
           NEW k \in idx .. Len(base), NEW l \in idx .. Len(opt),
           RunOf(k, base, ScopePositions(base, s)), RunOf(l, opt, ScopePositions(opt, s))
    PROVE  SameSignature(idx, k, l, rule)
<1>1. PICK w \in DOMAIN config.scopes : s = config.scopes[w] /\ Cardinality(s) >= 2
    BY DEF IsScopeOf, Places
<1>2. \A x : x.action \in s => w \in Places(x.action)
    BY <1>1 DEF Places
<1>3. idx \in Int /\ 1 <= idx /\ TraceInv
    BY DEF EquivalenceInv, WalkInv, PlaceInv
<1>4. OfRule(base, idx, k, rule) = {}
  <2> SUFFICES ASSUME NEW i \in OfRule(base, idx, k, rule)
               PROVE  FALSE
      OBVIOUS
  <2>1. i \in idx .. k /\ base[i].op \in Ops(rule)
      BY DEF OfRule
  <2>2. base[i].action \in s /\ i \in DOMAIN base
      BY <2>1 DEF RunOf, ScopePositions
  <2>3. base[i] \in Events
      BY <1>3, <2>2, EventAt DEF TraceInv
  <2> QED
      BY <1>2, <2>1, <2>2, <2>3 DEF Unscoped
<1>5. OfRule(opt, idx, l, rule) = {}
  <2> SUFFICES ASSUME NEW i \in OfRule(opt, idx, l, rule)
               PROVE  FALSE
      OBVIOUS
  <2>1. i \in idx .. l /\ opt[i].op \in Ops(rule)
      BY DEF OfRule
  <2>2. opt[i].action \in s /\ i \in DOMAIN opt
      BY <2>1 DEF RunOf, ScopePositions
  <2>3. opt[i] \in Events
      BY <1>3, <2>2, EventAt DEF TraceInv
  <2> QED
      BY <1>2, <2>1, <2>2, <2>3 DEF Unscoped
<1> QED
    BY <1>4, <1>5, SignatureOfNone

LEMMA NextSigned == EquivalenceInv /\ [Next]_vars => EquivalenceInv'
<1> SUFFICES ASSUME EquivalenceInv, [Next]_vars
             PROVE  TraceInv' /\ SignatureInv'
    BY NextWalk DEF EquivalenceInv
<1>0. WalkInv' /\ idx \in Int /\ 1 <= idx /\ Len(base) \in Int /\ Len(opt) \in Int
    BY NextWalk DEF EquivalenceInv, WalkInv, PlaceInv, TraceInv
<1>1. CASE \E v : Decide(v)
    BY <1>0, <1>1, DecideSigned
<1>2. CASE Same
  <2>1. base[idx] = opt[idx] /\ MoveTo(idx + 1) /\ verdict = "walking" /\ idx <= Len(base)
      BY <1>2 DEF Same, Walking
  <2>2. idx \in idx .. Len(base) /\ \A i \in idx .. idx : base[i] = opt[i]
      BY <1>0, <2>1
  <2>3. \A rule : SameSignature(idx, idx, idx, rule)
      BY <1>0, <2>2, SignatureOfSame
  <2> QED
      BY <2>1, <2>2, <2>3, MoveSigned
<1>3. CASE CompareCommutable
  <2>1. PICK k \in idx .. Len(base), l \in idx .. Len(base) :
            IF SameEvents(k, l) /\ GroupsKept(k, l)
            THEN MoveTo(Larger(k, l) + 1) ELSE Decide("different")
      BY <1>3 DEF CompareCommutable
  <2>2. CASE SameEvents(k, l) /\ GroupsKept(k, l) /\ MoveTo(Larger(k, l) + 1)
    <3>1. k = l /\ Larger(k, l) = k
        BY <2>2, <1>0 DEF SameEvents, Larger
    <3> QED
        BY <1>3, <2>2, <3>1, MoveSigned DEF CompareCommutable, AtDifference, Walking, GroupsKept
  <2> QED
      BY <1>1, <2>1, <2>2
<1>4. CASE CompareScope
  <2>1. PICK s \in Range(config.scopes), k \in idx .. Len(base), l \in idx .. Len(base) :
            /\ OneScope(s)
            /\ RunOf(k, base, ScopePositions(base, s)) /\ RunOf(l, opt, ScopePositions(opt, s))
            /\ IF SameEvents(k, l) THEN MoveTo(Larger(k, l) + 1) ELSE Decide("different")
      BY <1>4 DEF CompareScope
  <2>2. verdict = "walking" /\ Len(base) = Len(opt)
      BY <1>4 DEF CompareScope, AtDifference, Walking
  <2>3. CASE SameEvents(k, l) /\ MoveTo(Larger(k, l) + 1)
    <3>1. k = l /\ Larger(k, l) = k
        BY <2>3, <1>0 DEF SameEvents, Larger
    <3>2. \A rule \in KeyedRules : Unscoped(rule) => SameSignature(idx, k, k, rule)
        BY <2>1, <2>2, <3>1, ScopeUnsigned DEF OneScope
    <3> QED
        BY <2>2, <2>3, <3>1, <3>2, MoveSigned
  <2> QED
      BY <1>1, <2>1, <2>3
<1>5. CASE UNCHANGED vars
    BY <1>5, SignatureFixed DEF EquivalenceInv, SignatureInv, vars
<1> QED
    BY <1>1, <1>2, <1>3, <1>4, <1>5
    DEF Next, StrictlyEqual, LengthsDiffer, NeitherApplies, WalkedThrough

LEMMA InitSigned == Init => EquivalenceInv
<1> SUFFICES ASSUME Init
             PROVE  TraceInv /\ Signed(0) /\ idx = 1
    BY InitWalk DEF EquivalenceInv, SignatureInv
<1>1. PICK c \in Comparisons :
          /\ base = CanonicalTrace(c.base) /\ opt = CanonicalTrace(c.opt)
          /\ config = [rules |-> c.rules, scopes |-> c.scopes] /\ idx = 1
    BY DEF Init
<1>2. /\ c.base \in Seq(Range(c.base)) /\ c.opt \in Seq(Range(c.opt))
      /\ c.scopes \in Seq(Range(c.scopes))
    BY ComparisonsAssumption
<1> DEFINE Forms(t) == {Canonical(t[i]) : i \in 1 .. Len(t)}
<1>3. ASSUME NEW t, t \in Seq(Range(t))
      PROVE  /\ Len(CanonicalTrace(t)) \in Nat
             /\ DOMAIN CanonicalTrace(t) = 1 .. Len(CanonicalTrace(t))
  <2>1. DOMAIN t = 1 .. Len(t) /\ Len(t) \in Nat
      BY <1>3
  <2>2. CanonicalTrace(t) \in [1 .. Len(t) -> Forms(t)]
      BY <2>1 DEF CanonicalTrace
  <2>3. CanonicalTrace(t) \in Seq(Forms(t))
    <3> HIDE DEF Forms
    <3> QED
        BY <2>1, <2>2
  <2> QED
      BY <2>3
<1>4. TraceInv
    BY <1>1, <1>2, <1>3 DEF TraceInv
<1>5. \A rule : OfRule(base, 1, 0, rule) = {} /\ OfRule(opt, 1, 0, rule) = {}
    BY DEF OfRule
<1>6. Signed(0)
    BY <1>5, SignatureOfNone DEF Signed
<1> QED
    BY <1>1, <1>4, <1>6

\* Traces that pass are equivalent.
LEMMA PassedAreEquivalent == EquivalenceInv => PassedIsEquivalent
<1> SUFFICES ASSUME EquivalenceInv, verdict \in {"strict", "tolerant"}
             PROVE  \A rule \in KeyedRules :
                        GroupOrderKept(rule) \/ \E x \in Events : x.op \in Ops(rule) /\ Places(x.action) # {}
    BY WalkGivesRearranged DEF PassedIsEquivalent, PassedIsRearranged, EquivalenceInv
<1> SUFFICES ASSUME NEW rule \in KeyedRules, Unscoped(rule)
             PROVE  SameSignature(1, Len(base), Len(opt), rule)
    BY DEF Unscoped, GroupOrderKept
<1>1. Len(base) \in Nat
    BY DEF EquivalenceInv, TraceInv
<1>2. CASE verdict = "strict"
  <2>1. base = opt
      BY <1>2 DEF EquivalenceInv, WalkInv, VerdictInv
  <2> QED
      BY <1>1, <2>1, SignatureOfSame
<1>3. CASE verdict = "tolerant"
  <2>1. Len(base) = Len(opt) /\ idx = Len(base) + 1
      BY <1>3 DEF EquivalenceInv, WalkInv, VerdictInv
  <2>2. idx - 1 = Len(base)
      BY <1>1, <2>1
  <2> QED
      BY <2>1, <2>2 DEF EquivalenceInv, SignatureInv, Signed
<1> QED
    BY <1>2, <1>3

-----------------------------------------------------------------------------
(* Counting                                                                *)

LEMMA OntoBound ==
    ASSUME NEW S, IsFiniteSet(S), NEW T, NEW f, \A t \in T : \E s \in S : f[s] = t
    PROVE  IsFiniteSet(T) /\ Cardinality(T) <= Cardinality(S)
<1> DEFINE U == {s \in S : f[s] \in T}
           g == [s \in U |-> f[s]]
<1>1. IsFiniteSet(U) /\ Cardinality(U) <= Cardinality(S)
  <2>1. U \in SUBSET S
      OBVIOUS
  <2> HIDE DEF U
  <2> QED
      BY <2>1, FS_Subset
<1>2. g \in [U -> T] /\ \A t \in T : \E s \in U : g[s] = t
    OBVIOUS
<1>3. g \in Surjection(U, T)
  <2> HIDE DEF U, g
  <2> QED
      BY <1>2 DEF Surjection
<1> HIDE DEF U, g
<1>4. IsFiniteSet(T) /\ Cardinality(T) <= Cardinality(U)
    BY <1>1, <1>3, FS_Surjection
<1>5. Cardinality(S) \in Nat /\ Cardinality(T) \in Nat /\ Cardinality(U) \in Nat
    BY <1>1, <1>4, FS_CardinalityType
<1> QED
    BY <1>1, <1>4, <1>5

LEMMA OntoIntervals ==
    ASSUME NEW a \in Int, NEW b \in Int, NEW c \in Int, NEW d \in Int, a <= b + 1, c <= d + 1,
           NEW f, \A w \in c .. d : \E v \in a .. b : f[v] = w
    PROVE  d - c <= b - a
<1>1. IsFiniteSet(a .. b) /\ Cardinality(a .. b) = b - a + 1
    BY FS_Interval
<1>2. Cardinality(c .. d) = d - c + 1
    BY FS_Interval
<1> DEFINE S == a .. b
           T == c .. d
<1>3. Cardinality(T) <= Cardinality(S)
  <2>1. IsFiniteSet(S) /\ \A w \in T : \E v \in S : f[v] = w
      BY <1>1
  <2> HIDE DEF S, T
  <2> QED
      BY <2>1, OntoBound
<1> QED
    BY <1>1, <1>2, <1>3

\* An interval is only mapped onto itself one to one.
LEMMA OntoIsOneToOne ==
    ASSUME NEW a \in Int, NEW b \in Int, NEW p \in [a .. b -> a .. b], Onto(p, a .. b),
           NEW i \in a .. b, NEW j \in a .. b, p[i] = p[j]
    PROVE  i = j
<1>1. p \in Surjection(a .. b, a .. b)
    BY DEF Onto, Surjection
<1>2. p \in Injection(a .. b, a .. b)
    BY <1>1, FS_Interval, FS_Surjection
<1> QED
    BY <1>2 DEF Injection, IsInjective

-----------------------------------------------------------------------------
(* The rest of the traces                                                  *)

N == Len(base)

\* p rearranges the events from m on.
RearrangesRest(p, m) ==
    /\ p \in [m .. N -> m .. N] /\ Onto(p, m .. N)
    /\ \A i \in m .. N : opt[p[i]] = base[i]
    /\ \A i, j \in m .. N : i < j /\ p[j] < p[i] => Independent(base[i], base[j])

\* What independence cannot lead out of.
Closed(C) ==
    \A x \in C, y \in Events : Independent(x, y) \/ Independent(y, x) => y \in C

\* The run of events of C from m on, in both traces.
Runs(C, m, k, l) ==
    /\ k \in m .. N /\ l \in m .. N
    /\ \A i \in m .. k : base[i] \in C
    /\ \A i \in m .. l : opt[i] \in C
    /\ k < N => base[k + 1] \notin C
    /\ l < N => opt[l + 1] \notin C

\* Events that differ have a partner of their own elsewhere: they are independent.
LEMMA DifferentAreIndependent ==
    ASSUME N \in Nat, NEW m \in Int, m <= N, NEW p, RearrangesRest(p, m), base[m] # opt[m]
    PROVE  Independent(base[m], opt[m])
<1>1. m \in m .. N
    OBVIOUS
<1>2. PICK j \in m .. N : p[j] = m
    BY <1>1 DEF RearrangesRest, Onto
<1>3. opt[m] = base[j] /\ opt[p[m]] = base[m] /\ p[m] \in m .. N
    BY <1>1, <1>2 DEF RearrangesRest
<1>4. m < j /\ p[j] < p[m]
    BY <1>2, <1>3
<1> QED
    BY <1>1, <1>3, <1>4 DEF RearrangesRest

\* The runs of a closed set of events are rearranged by themselves: whoever passed the
\* first event behind the run would be independent of it.
LEMMA RunsMatch ==
    ASSUME TraceInv, Len(opt) = Len(base), NEW m \in Int, 1 <= m, NEW p, RearrangesRest(p, m),
           NEW C, Closed(C), NEW k, NEW l, Runs(C, m, k, l)
    PROVE  /\ k = l
           /\ \A i \in m .. k : p[i] \in m .. k
           /\ \A i \in k + 1 .. N : p[i] \in k + 1 .. N
<1>1. N \in Int /\ k \in m .. N /\ l \in m .. N /\ \A i \in m .. N : i \in Int /\ p[i] \in m .. N
    BY DEF TraceInv, Runs, RearrangesRest, N
<1>2. \A i \in m .. N : base[i] \in Events /\ opt[i] \in Events
    BY <1>1, EventAt DEF N
<1>3. \A i \in m .. N : opt[p[i]] = base[i]
    BY DEF RearrangesRest
<1>4. \A w \in m .. N : \E v \in m .. N : p[v] = w
    BY DEF RearrangesRest, Onto
<1>5. ASSUME NEW i \in m .. N, NEW j \in m .. N, i < j, p[j] < p[i]
      PROVE  base[i] \in C <=> base[j] \in C
    BY <1>2, <1>5 DEF RearrangesRest, Closed
<1>6. /\ \A i \in m .. k : base[i] \in C
      /\ \A i \in m .. l : opt[i] \in C
      /\ k < N => base[k + 1] \notin C
      /\ l < N => opt[l + 1] \notin C
    BY DEF Runs
<1>7. ASSUME NEW i \in m .. N
      PROVE  i <= k <=> p[i] <= l
  <2>1. CASE k = N
    <3>1. l = N
      <4> SUFFICES ASSUME l # N PROVE FALSE
          OBVIOUS
      <4>1. l + 1 \in m .. N /\ l < N
          BY <1>1
      <4>2. PICK v \in m .. N : p[v] = l + 1
          BY <1>4, <4>1
      <4> QED
          BY <1>3, <1>6, <4>1, <4>2, <2>1
    <3> QED
        BY <1>1, <2>1, <3>1
  <2>2. CASE k # N
    <3>1. k + 1 \in m .. N /\ base[k + 1] \notin C
        BY <1>1, <1>6, <2>2
    <3>2. p[k + 1] \in m .. N /\ p[k + 1] \notin m .. l
        BY <1>1, <1>3, <1>6, <3>1
    <3>3. l < p[k + 1] /\ l + 1 \in m .. N /\ opt[l + 1] \notin C
        BY <1>1, <1>6, <3>2
    <3>4. PICK j \in m .. N : p[j] = l + 1
        BY <1>4, <3>3
    <3>5. base[j] \notin C
        BY <1>3, <3>3, <3>4
    <3>6. k < j
        BY <1>1, <1>6, <3>5
    <3>7. ASSUME i <= k, ~(p[i] <= l) PROVE FALSE
      <4>1. i \in m .. k /\ base[i] \in C
          BY <1>1, <1>6, <3>7
      <4>2. p[i] # l + 1
          BY <1>3, <3>3, <4>1
      <4>3. i < j /\ p[j] < p[i]
          BY <1>1, <3>4, <3>6, <3>7, <4>2
      <4> QED
          BY <1>5, <3>5, <4>1, <4>3
    <3>8. ASSUME ~(i <= k), p[i] <= l PROVE FALSE
      <4>1. p[i] \in m .. l
          BY <1>1, <3>8
      <4>2. base[i] \in C
          BY <1>3, <1>6, <4>1
      <4>3. i # k + 1
          BY <3>1, <4>2
      <4>4. k + 1 < i /\ p[i] < p[k + 1]
          BY <1>1, <3>3, <3>8, <4>3
      <4> QED
          BY <1>5, <3>1, <4>2, <4>4
    <3> QED
        BY <3>7, <3>8
  <2> QED
      BY <2>1, <2>2
<1>8. \A w \in m .. l : \E v \in m .. k : p[v] = w
  <2> SUFFICES ASSUME NEW w \in m .. l PROVE \E v \in m .. k : p[v] = w
      OBVIOUS
  <2>1. w \in m .. N
      BY <1>1
  <2>2. PICK v \in m .. N : p[v] = w
      BY <1>4, <2>1
  <2>3. v \in m .. k
      BY <1>1, <1>7, <2>2
  <2> QED
      BY <2>2, <2>3
<1>9. \A w \in l + 1 .. N : \E v \in k + 1 .. N : p[v] = w
  <2> SUFFICES ASSUME NEW w \in l + 1 .. N PROVE \E v \in k + 1 .. N : p[v] = w
      OBVIOUS
  <2>1. w \in m .. N /\ ~(w <= l)
      BY <1>1
  <2>2. PICK v \in m .. N : p[v] = w
      BY <1>4, <2>1
  <2>3. v \in k + 1 .. N
      BY <1>1, <1>7, <2>1, <2>2
  <2> QED
      BY <2>2, <2>3
<1>10. k \in Int /\ l \in Int /\ m <= k /\ m <= l /\ k <= N /\ l <= N
    BY <1>1
<1>11. l - m <= k - m
  <2>1. m \in Int /\ m <= k + 1 /\ m <= l + 1
      BY <1>10
  <2> QED
      BY <1>8, <1>10, <2>1, OntoIntervals, Zenon
<1>12. N - (l + 1) <= N - (k + 1)
  <2>1. k + 1 \in Int /\ l + 1 \in Int /\ k + 1 <= N + 1 /\ l + 1 <= N + 1
      BY <1>1, <1>10
  <2> QED
      BY <1>1, <1>9, <2>1, OntoIntervals, Zenon
<1>13. k = l
    BY <1>1, <1>10, <1>11, <1>12
<1> QED
    BY <1>1, <1>7, <1>10, <1>13

\* Behind such a run the rest is rearranged, and the run itself is a window with the
\* same events.
LEMMA RestBehindRun ==
    ASSUME N \in Int, NEW m \in Int, NEW p, RearrangesRest(p, m), NEW k \in m .. N,
           \A i \in m .. k : p[i] \in m .. k,
           \A i \in k + 1 .. N : p[i] \in k + 1 .. N
    PROVE  /\ \E r : RearrangesRest(r, k + 1)
           /\ \E q \in [m .. k -> m .. k] : (\A i \in m .. k : opt[q[i]] = base[i]) /\ Onto(q, m .. k)
<1>1. k \in Int /\ m <= k /\ k <= N /\ \A i \in m .. N : i \in m .. k \/ i \in k + 1 .. N
    OBVIOUS
<1>2. \A w \in m .. N : \E v \in m .. N : p[v] = w
    BY DEF RearrangesRest, Onto
<1> DEFINE r == [i \in k + 1 .. N |-> p[i]]
           q == [i \in m .. k |-> p[i]]
<1>3. /\ r \in [k + 1 .. N -> k + 1 .. N] /\ \A i \in k + 1 .. N : r[i] = p[i] /\ i \in m .. N
      /\ q \in [m .. k -> m .. k] /\ \A i \in m .. k : q[i] = p[i] /\ i \in m .. N
    BY <1>1
<1> HIDE DEF r, q
<1>4. Onto(r, k + 1 .. N)
  <2> SUFFICES ASSUME NEW w \in k + 1 .. N PROVE \E v \in k + 1 .. N : r[v] = w
      BY DEF Onto
  <2>1. PICK v \in m .. N : p[v] = w
      BY <1>2, <1>3
  <2>2. v \in k + 1 .. N
      BY <1>1, <2>1
  <2> QED
      BY <1>3, <2>1, <2>2
<1>5. Onto(q, m .. k)
  <2> SUFFICES ASSUME NEW w \in m .. k PROVE \E v \in m .. k : q[v] = w
      BY DEF Onto
  <2>1. PICK v \in m .. N : p[v] = w
      BY <1>2, <1>3
  <2>2. v \in m .. k
      BY <1>1, <2>1
  <2> QED
      BY <1>3, <2>1, <2>2
<1>6. RearrangesRest(r, k + 1)
    BY <1>3, <1>4 DEF RearrangesRest
<1>7. \A i \in m .. k : opt[q[i]] = base[i]
    BY <1>3 DEF RearrangesRest
<1> QED
    BY <1>3, <1>5, <1>6, <1>7

\* Events that are the same may be each other's partner.
LEMMA RestBehindSame ==
    ASSUME N \in Int, NEW m \in Int, m <= N, base[m] = opt[m], NEW p, RearrangesRest(p, m)
    PROVE  \E r : RearrangesRest(r, m + 1)
<1>1. m \in m .. N /\ \A i \in m + 1 .. N : i \in m .. N /\ i # m /\ m < i
    OBVIOUS
<1>2. /\ p \in [m .. N -> m .. N] /\ Onto(p, m .. N)
      /\ \A i \in m .. N : opt[p[i]] = base[i]
      /\ \A i, j \in m .. N : i < j /\ p[j] < p[i] => Independent(base[i], base[j])
    BY DEF RearrangesRest
<1>3. \A i, j \in m .. N : p[i] = p[j] => i = j
    BY <1>2, OntoIsOneToOne
<1>4. PICK j \in m .. N : p[j] = m
    BY <1>1, <1>2 DEF Onto
<1>5. base[j] = base[m]
    BY <1>1, <1>2, <1>4
<1> DEFINE r == [i \in m + 1 .. N |-> IF i = j THEN p[m] ELSE p[i]]
<1>6. \A i \in m + 1 .. N : r[i] = IF i = j THEN p[m] ELSE p[i]
    OBVIOUS
<1>7. r \in [m + 1 .. N -> m + 1 .. N]
  <2> SUFFICES ASSUME NEW i \in m + 1 .. N
               PROVE  (IF i = j THEN p[m] ELSE p[i]) \in m + 1 .. N
      OBVIOUS
  <2>1. p[m] \in m .. N /\ p[i] \in m .. N /\ i # m
      BY <1>1, <1>2
  <2>2. CASE i = j
    <3>1. p[m] # m
        BY <1>1, <1>3, <1>4, <2>1, <2>2
    <3> QED
        BY <2>1, <2>2, <3>1
  <2>3. CASE i # j
    <3>1. p[i] # m
        BY <1>1, <1>3, <1>4, <2>3
    <3> QED
        BY <2>1, <2>3, <3>1
  <2> QED
      BY <2>2, <2>3
<1> HIDE DEF r
<1>8. Onto(r, m + 1 .. N)
  <2> SUFFICES ASSUME NEW w \in m + 1 .. N PROVE \E v \in m + 1 .. N : r[v] = w
      BY DEF Onto
  <2>1. PICK v \in m .. N : p[v] = w
      BY <1>1, <1>2 DEF Onto
  <2>2. v # j
      BY <1>1, <1>4, <2>1
  <2>3. CASE v = m
    <3>1. j \in m + 1 .. N /\ r[j] = w
        BY <1>6, <2>1, <2>2, <2>3
    <3> QED
        BY <3>1
  <2>4. CASE v # m
    <3>1. v \in m + 1 .. N /\ r[v] = w
        BY <1>6, <2>1, <2>2, <2>4
    <3> QED
        BY <3>1
  <2> QED
      BY <2>3, <2>4
<1>9. \A i \in m + 1 .. N : opt[r[i]] = base[i]
    BY <1>1, <1>2, <1>5, <1>6
<1>10. ASSUME NEW i \in m + 1 .. N, NEW h \in m + 1 .. N, i < h, r[h] < r[i]
       PROVE  Independent(base[i], base[h])
  <2>1. i \in m .. N /\ h \in m .. N /\ m < h /\ m < i /\ p[i] \in m .. N /\ p[h] \in m .. N /\ p[m] \in m .. N
      BY <1>1, <1>2
  <2>2. CASE i = j
    <3>1. p[h] < p[m]
        BY <1>6, <1>10, <2>2
    <3>2. Independent(base[m], base[h])
        BY <1>1, <1>2, <2>1, <3>1
    <3> QED
        BY <1>5, <2>2, <3>2
  <2>3. CASE h = j /\ i # j
    <3>1. p[i] # m
        BY <1>3, <1>4, <2>1, <2>3
    <3>2. p[h] < p[i]
        BY <1>4, <2>1, <2>3, <3>1
    <3> QED
        BY <1>2, <1>10, <2>1, <3>2
  <2>4. CASE h # j /\ i # j
    <3>1. p[h] < p[i]
        BY <1>6, <1>10, <2>4
    <3> QED
        BY <1>2, <1>10, <2>1, <3>1
  <2> QED
      BY <2>2, <2>3, <2>4
<1>11. RearrangesRest(r, m + 1)
    BY <1>7, <1>8, <1>9, <1>10 DEF RearrangesRest
<1> QED
    BY <1>11

-----------------------------------------------------------------------------
(* Signatures of the rest                                                  *)

\* A prefix that is rearranged has as many events of a rule in both traces.
LEMMA SameCount ==
    ASSUME NEW c \in Nat, NEW r, Rearranges(r, c), NEW rule
    PROVE  /\ IsFiniteSet(OfRule(base, 1, c, rule)) /\ IsFiniteSet(OfRule(opt, 1, c, rule))
           /\ Cardinality(OfRule(base, 1, c, rule)) \in Nat
           /\ Cardinality(OfRule(opt, 1, c, rule)) = Cardinality(OfRule(base, 1, c, rule))
<1> DEFINE B == OfRule(base, 1, c, rule)
           O == OfRule(opt, 1, c, rule)
           f == [i \in B |-> r[i]]
<1>1. B \subseteq 1 .. c /\ O \subseteq 1 .. c /\ IsFiniteSet(1 .. c)
    BY FS_Interval DEF OfRule
<1>2. /\ r \in [1 .. c -> 1 .. c] /\ Onto(r, 1 .. c)
      /\ \A i \in 1 .. c : opt[r[i]] = base[i]
    BY DEF Rearranges
<1>3. \A i, j \in 1 .. c : r[i] = r[j] => i = j
    BY <1>2, OntoIsOneToOne
<1>4. \A i \in B : r[i] \in O
    BY <1>1, <1>2 DEF OfRule
<1>5. \A w \in O : \E v \in B : r[v] = w
  <2> SUFFICES ASSUME NEW w \in O PROVE \E v \in B : r[v] = w
      OBVIOUS
  <2>1. w \in 1 .. c /\ opt[w].op \in Ops(rule)
      BY DEF OfRule
  <2>2. PICK v \in 1 .. c : r[v] = w
      BY <1>2, <2>1 DEF Onto
  <2>3. v \in B
      BY <1>2, <2>1, <2>2 DEF OfRule
  <2> QED
      BY <2>2, <2>3
<1> HIDE DEF B, O
<1>6. f \in [B -> O] /\ \A i \in B : f[i] = r[i]
    BY <1>4
<1>7. IsFiniteSet(B) /\ IsFiniteSet(O)
    BY <1>1, FS_Subset
<1> HIDE DEF f
<1>8. f \in Surjection(B, O) /\ f \in Injection(B, O)
    BY <1>1, <1>3, <1>5, <1>6 DEF Surjection, Injection, IsInjective
<1>9. Cardinality(O) = Cardinality(B) /\ Cardinality(B) \in Nat
    BY <1>7, <1>8, FS_Surjection, FS_CardinalityType
<1> QED
    BY <1>7, <1>9 DEF B, O

\* Where the whole traces have the same signature, and up to c they are rearranged, the
\* events of the rule up to c correspond to those up to c.
LEMMA SignatureCut ==
    ASSUME TraceInv, NEW rule, NEW q, Signs(q, 1, N, N, rule),
           NEW c \in 0 .. N, NEW r, Rearranges(r, c), NEW i \in OfRule(base, 1, N, rule)
    PROVE  i <= c <=> q[i] <= c
<1> DEFINE B == OfRule(base, 1, N, rule)
           O == OfRule(opt, 1, N, rule)
           Bc == OfRule(base, 1, c, rule)
           Oc == OfRule(opt, 1, c, rule)
<1>1. N \in Nat /\ c \in Nat /\ c <= N
    BY DEF TraceInv, N
<1>2. /\ \A v \in B : v \in Int /\ (v \in Bc <=> v <= c)
      /\ \A w \in O : w \in Int /\ (w \in Oc <=> w <= c)
      /\ Bc \subseteq B /\ Oc \subseteq O
    BY <1>1 DEF OfRule
<1>3. /\ q \in [B -> O] /\ \A w \in O : \E v \in B : q[v] = w
      /\ \A v, w \in B : v < w => q[v] < q[w]
    BY DEF Signs
<1>4. /\ IsFiniteSet(Bc) /\ IsFiniteSet(Oc)
      /\ Cardinality(Bc) \in Nat /\ Cardinality(Oc) = Cardinality(Bc)
    BY <1>1, SameCount
<1>5. i \in B
    OBVIOUS
<1> HIDE DEF B, O, Bc, Oc
<1>6. ASSUME i <= c, ~(q[i] <= c) PROVE FALSE
  <2> DEFINE S == Bc \ {i}
  <2>1. i \in Bc
      BY <1>2, <1>5, <1>6
  <2>2. IsFiniteSet(S) /\ Cardinality(S) = Cardinality(Bc) - 1
      BY <1>4, <2>1, FS_RemoveElement
  <2>3. \A w \in Oc : \E v \in S : q[v] = w
    <3> SUFFICES ASSUME NEW w \in Oc PROVE \E v \in S : q[v] = w
        OBVIOUS
    <3>1. PICK v \in B : q[v] = w
        BY <1>2, <1>3
    <3>2. w <= c /\ w \in Int /\ q[i] \in Int
        BY <1>2, <1>3, <1>5
    <3>3. ~(i < v) /\ i # v
        BY <1>3, <1>5, <1>6, <3>1, <3>2
    <3>4. v \in Bc
        BY <1>1, <1>2, <1>5, <1>6, <3>3
    <3> QED
        BY <3>1, <3>3, <3>4
  <2> HIDE DEF S
  <2>4. Cardinality(Oc) <= Cardinality(S)
      BY <2>2, <2>3, OntoBound
  <2> QED
      BY <1>4, <2>2, <2>4
<1>7. ASSUME ~(i <= c), q[i] <= c PROVE FALSE
  <2> DEFINE T == Oc \ {q[i]}
             g == [v \in Bc |-> q[v]]
  <2>1. q[i] \in Oc
      BY <1>2, <1>3, <1>5, <1>7
  <2>2. IsFiniteSet(T) /\ Cardinality(T) = Cardinality(Oc) - 1
      BY <1>4, <2>1, FS_RemoveElement
  <2>3. \A v \in Bc : q[v] \in T
    <3> SUFFICES ASSUME NEW v \in Bc PROVE q[v] \in T
        OBVIOUS
    <3>1. v \in B /\ v < i
        BY <1>1, <1>2, <1>5, <1>7
    <3>2. q[v] < q[i] /\ q[v] \in O /\ q[v] \in Int /\ q[i] \in Int
        BY <1>2, <1>3, <1>5, <3>1
    <3> QED
        BY <1>1, <1>2, <1>7, <3>2
  <2>4. \A v, w \in Bc : q[v] = q[w] => v = w
    <3> SUFFICES ASSUME NEW v \in Bc, NEW w \in Bc, q[v] = q[w], v # w PROVE FALSE
        OBVIOUS
    <3>1. v \in B /\ w \in B /\ q[v] \in Int /\ q[w] \in Int
        BY <1>2, <1>3
    <3>2. v < w \/ w < v
        BY <1>2, <3>1
    <3> QED
        BY <1>3, <3>1, <3>2
  <2> HIDE DEF T
  <2>5. g \in Injection(Bc, T)
      BY <2>3, <2>4 DEF Injection, IsInjective
  <2> HIDE DEF g
  <2>6. Cardinality(Bc) <= Cardinality(T)
      BY <2>2, <2>5, FS_Injection
  <2> QED
      BY <1>4, <2>2, <2>6
<1> QED
    BY <1>6, <1>7

\* So a window between two such places has the same signature in both traces.
LEMMA SignatureOfWindow ==
    ASSUME TraceInv, Len(opt) = Len(base), NEW rule, GroupOrderKept(rule),
           NEW m \in 1 .. N, NEW k \in m .. N, NEW r, Rearranges(r, m - 1), NEW s, Rearranges(s, k)
    PROVE  SameSignature(m, k, k, rule)
<1>1. N \in Nat /\ m \in Int /\ k \in Int /\ 1 <= m /\ m <= k /\ k <= N
    BY DEF TraceInv, N
<1>2. m - 1 \in 0 .. N /\ k \in 0 .. N
    BY <1>1
<1>3. SameSignature(1, N, N, rule)
    BY DEF GroupOrderKept, N
<1>4. PICK q : Signs(q, 1, N, N, rule)
    BY <1>3, SignsIsSignature
<1> DEFINE B == OfRule(base, 1, N, rule)
           O == OfRule(opt, 1, N, rule)
           Bw == OfRule(base, m, k, rule)
           Ow == OfRule(opt, m, k, rule)
<1>5. \A i \in B : (i <= m - 1 <=> q[i] <= m - 1) /\ (i <= k <=> q[i] <= k)
    BY <1>2, <1>4, SignatureCut
<1>6. /\ \A v \in B : v \in Int /\ (v \in Bw <=> ~(v <= m - 1) /\ v <= k)
      /\ \A w \in O : w \in Int /\ (w \in Ow <=> ~(w <= m - 1) /\ w <= k)
      /\ Bw \subseteq B /\ Ow \subseteq O
    BY <1>1 DEF OfRule
<1>7. /\ q \in [B -> O] /\ \A w \in O : \E v \in B : q[v] = w
      /\ \A v, w \in B : v < w => q[v] < q[w]
      /\ \A v \in B : /\ base[v].op = opt[q[v]].op
                      /\ GroupValue(base[v], rule.key) = GroupValue(opt[q[v]], rule.key)
    BY <1>4 DEF Signs
<1> DEFINE f == [v \in Bw |-> q[v]]
<1> HIDE DEF B, O, Bw, Ow
<1>8. f \in [Bw -> Ow] /\ \A v \in Bw : f[v] = q[v]
    BY <1>5, <1>6, <1>7
<1>9. \A w \in Ow : \E v \in Bw : q[v] = w
    BY <1>5, <1>6, <1>7
<1> HIDE DEF f
<1>10. /\ \A w \in Ow : \E v \in Bw : f[v] = w
       /\ \A v, w \in Bw : v < w => f[v] < f[w]
       /\ \A v \in Bw : /\ base[v].op = opt[f[v]].op
                        /\ GroupValue(base[v], rule.key) = GroupValue(opt[f[v]], rule.key)
    BY <1>6, <1>7, <1>8, <1>9
<1>11. Signs(f, m, k, k, rule)
    BY <1>8, <1>10, Zenon DEF Signs, Bw, Ow
<1> QED
    BY <1>11, SignsIsSignature

-----------------------------------------------------------------------------
(* Clear cases                                                             *)

\* What EquivalentPasses asks of the events.
Clear ==
    /\ \A x \in Events : Commutes(x) => Places(x.action) = {}
    /\ \A x, y \in Events : Commutes(x) /\ Commutes(y) => x.phase = y.phase
    /\ \A x \in Events : ~(Cardinality(Places(x.action)) > 1)

LEMMA OneOfTheScopes ==
    ASSUME TraceInv, Clear, NEW x \in Events, NEW i \in Places(x.action), NEW j \in Places(x.action)
    PROVE  i = j
<1> SUFFICES ASSUME i # j PROVE FALSE
    OBVIOUS
<1>1. Len(config.scopes) \in Nat /\ DOMAIN config.scopes = 1 .. Len(config.scopes)
    BY DEF TraceInv
<1>2. Places(x.action) \in SUBSET (1 .. Len(config.scopes))
    BY <1>1 DEF Places
<1>3. IsFiniteSet(1 .. Len(config.scopes))
  <2>1. 1 \in Int /\ Len(config.scopes) \in Int
      BY <1>1
  <2> QED
      BY <2>1, FS_Interval, Zenon
<1>4. IsFiniteSet(Places(x.action))
    BY <1>2, <1>3, FS_Subset
<1>5. Cardinality(Places(x.action)) \in Nat
    BY <1>4, FS_CardinalityType
<1> DEFINE S == Places(x.action)
           T == S \ {i}
<1>6. IsFiniteSet(T) /\ Cardinality(T) = Cardinality(S) - 1
    BY <1>4, FS_RemoveElement
<1>7. Cardinality(T) # 0
  <2>1. j \in T
      OBVIOUS
  <2> HIDE DEF T
  <2> QED
      BY <1>6, <2>1, FS_EmptySet
<1>8. Cardinality(T) \in Nat
    BY <1>6, FS_CardinalityType
<1> HIDE DEF T
<1>9. Cardinality(S) > 1
    BY <1>5, <1>6, <1>7, <1>8
<1> QED
    BY <1>9 DEF Clear

\* Nothing but a commuting event is independent of one.
LEMMA CommutingClosed ==
    ASSUME TraceInv, Clear
    PROVE  Closed({x \in Events : Commutes(x)})
<1> SUFFICES ASSUME NEW x \in Events, Commutes(x), NEW y \in Events, InOneScope(x, y) \/ InOneScope(y, x)
             PROVE  FALSE
    BY DEF Closed, Independent
<1>1. PICK s \in Range(config.scopes) : Cardinality(s) >= 2 /\ x.action \in s
    BY DEF InOneScope
<1>2. PICK i \in DOMAIN config.scopes : s = config.scopes[i]
    BY DEF Range
<1>3. i \in Places(x.action)
    BY <1>1, <1>2 DEF Places
<1> QED
    BY <1>3 DEF Clear

\* Nothing but an event of the scope is independent of one.
LEMMA ScopeClosed ==
    ASSUME TraceInv, Clear, NEW s, NEW a, IsScopeOf(s, a)
    PROVE  Closed({x \in Events : x.action \in s})
<1>1. PICK w \in DOMAIN config.scopes : s = config.scopes[w] /\ Cardinality(s) >= 2
    BY DEF IsScopeOf, Places
<1> SUFFICES ASSUME NEW x \in Events, x.action \in s, NEW y \in Events, Independent(x, y) \/ Independent(y, x)
             PROVE  y.action \in s
    BY DEF Closed
<1>2. w \in Places(x.action)
    BY <1>1 DEF Places
<1>3. ~Commutes(x)
    BY <1>2 DEF Clear
<1>4. PICK t \in Range(config.scopes) : Cardinality(t) >= 2 /\ x.action \in t /\ y.action \in t
    BY <1>3 DEF Independent, InOneScope
<1>5. PICK v \in DOMAIN config.scopes : t = config.scopes[v]
    BY DEF Range
<1>6. v \in Places(x.action)
    BY <1>4, <1>5 DEF Places
<1>7. v = w
    BY <1>2, <1>6, OneOfTheScopes
<1> QED
    BY <1>1, <1>4, <1>5, <1>7

\* Independent events that differ are compared as a window.
LEMMA SomeWindow ==
    ASSUME TraceInv, Clear, NEW x \in Events, NEW y \in Events, Independent(x, y)
    PROVE  \/ Commutes(x) /\ Commutes(y) /\ x.phase = y.phase
           \/ \E s \in Range(config.scopes) : IsScopeOf(s, x.action) /\ IsScopeOf(s, y.action)
<1>1. CASE Commutes(x) /\ Commutes(y)
    BY <1>1 DEF Clear
<1>2. CASE InOneScope(x, y)
  <2>1. PICK s \in Range(config.scopes) : Cardinality(s) >= 2 /\ x.action \in s /\ y.action \in s
      BY <1>2 DEF InOneScope
  <2>2. PICK i \in DOMAIN config.scopes : s = config.scopes[i]
      BY DEF Range
  <2>3. i \in Places(x.action) /\ i \in Places(y.action) /\ i \in Int
      BY <2>1, <2>2 DEF Places, TraceInv
  <2>4. \A j \in Places(x.action) \cup Places(y.action) : j = i
      BY <2>3, OneOfTheScopes
  <2>5. \A j \in Places(x.action) \cup Places(y.action) : j <= i
      BY <2>3, <2>4
  <2>6. IsScopeOf(s, x.action) /\ IsScopeOf(s, y.action)
      BY <2>2, <2>3, <2>5 DEF IsScopeOf
  <2> QED
      BY <2>6
<1> QED
    BY <1>1, <1>2 DEF Independent

-----------------------------------------------------------------------------
(* The comparison is complete                                              *)

Equivalent == Rearranged /\ \A rule \in KeyedRules : GroupOrderKept(rule)

RestInv == verdict # "different" /\ \E p : RearrangesRest(p, idx)

\* In clear cases, equivalent traces stay rearrangements of each other from the place on
\* that the walk has come to.
CompleteInv == Clear /\ Equivalent => RestInv

\* All this depends on the traces and the configuration alone.
LEMMA ClearFixed ==
    ASSUME base' = base, opt' = opt, config' = config
    PROVE  /\ Clear' <=> Clear
           /\ Equivalent' <=> Equivalent
           /\ \A p, m : RearrangesRest(p, m)' <=> RearrangesRest(p, m)
<1>1. \A x, y : InOneScope(x, y)' <=> InOneScope(x, y)
    BY DEF InOneScope
<1>2. Commutable' = Commutable /\ KeyedRules' = KeyedRules /\ Events' = Events
    BY DEF Commutable, KeyedRules, CommuteRules, Events
<1>3. \A x : Commutes(x)' <=> Commutes(x)
    BY <1>2 DEF Commutes
<1>4. \A x, y : Independent(x, y)' <=> Independent(x, y)
    BY <1>1, <1>3 DEF Independent
<1>5. \A a : Places(a)' = Places(a)
    BY DEF Places
<1>6. Clear' <=> Clear
    BY <1>2, <1>3, <1>5 DEF Clear
<1>7. \A p, m : RearrangesRest(p, m)' <=> RearrangesRest(p, m)
    BY <1>4 DEF RearrangesRest, N
<1>8. Rearranged' <=> Rearranged
    BY <1>4 DEF Rearranged
<1>9. \A rule : GroupOrderKept(rule)' <=> GroupOrderKept(rule)
    BY DEF GroupOrderKept, SameSignature, OfRule
<1>10. Equivalent' <=> Equivalent
    BY <1>2, <1>8, <1>9 DEF Equivalent
<1> QED
    BY <1>6, <1>7, <1>10

\* The windows that a difference opens pass, and leave the rest rearranged.
LEMMA WindowPasses ==
    ASSUME EquivalenceInv, Equivalent, RestInv,
           NEW C, Closed(C), NEW k, NEW l, Runs(C, idx, k, l),
           \A i, j \in idx .. k : Independent(base[i], base[j])
    PROVE  /\ k \in idx .. Len(base) /\ k = l /\ Larger(k, l) = k
           /\ SameEvents(k, l) /\ GroupsKept(k, l)
           /\ \E r : RearrangesRest(r, k + 1)
<1>1. TraceInv /\ idx \in Int /\ 1 <= idx /\ N \in Nat /\ N \in Int /\ Len(opt) = Len(base)
    BY DEF EquivalenceInv, WalkInv, PlaceInv, TraceInv, Equivalent, Rearranged, N
<1>2. PICK p : RearrangesRest(p, idx)
    BY DEF RestInv
<1>3. /\ k = l
      /\ \A i \in idx .. k : p[i] \in idx .. k
      /\ \A i \in k + 1 .. N : p[i] \in k + 1 .. N
    BY <1>1, <1>2, RunsMatch, Zenon
<1>4. k \in idx .. N
    BY DEF Runs
<1>5. /\ \E r : RearrangesRest(r, k + 1)
      /\ \E q \in [idx .. k -> idx .. k] : (\A i \in idx .. k : opt[q[i]] = base[i]) /\ Onto(q, idx .. k)
    BY <1>1, <1>2, <1>3, <1>4, RestBehindRun, Zenon
<1>6. SameEvents(k, l)
    BY <1>3, <1>5 DEF SameEvents
<1>7. k \in Int /\ k \in Nat /\ idx <= k /\ Larger(k, l) = k
    BY <1>1, <1>3, <1>4 DEF Larger
<1>8. PICK q \in [idx .. k -> idx .. k] : (\A i \in idx .. k : opt[q[i]] = base[i]) /\ Onto(q, idx .. k)
    BY <1>5
<1>9. WalkInv
    BY DEF EquivalenceInv
<1>10. PICK s : Rearranges(s, k)
    BY <1>7, <1>8, <1>9, PrefixExtended
<1>11. PICK r : Rearranges(r, idx - 1)
    BY DEF EquivalenceInv, WalkInv, PrefixInv
<1>12. idx \in 1 .. N
    BY <1>1, <1>4
<1>13. \A rule \in KeyedRules : SameSignature(idx, k, k, rule)
    BY <1>1, <1>4, <1>10, <1>11, <1>12, SignatureOfWindow DEF Equivalent
<1>14. GroupsKept(k, l)
    BY <1>3, <1>13 DEF GroupsKept
<1> QED
    BY <1>3, <1>4, <1>5, <1>6, <1>7, <1>14 DEF N

LEMMA NextComplete == EquivalenceInv /\ CompleteInv /\ [Next]_vars => CompleteInv'
<1> SUFFICES ASSUME EquivalenceInv, CompleteInv, [Next]_vars
             PROVE  CompleteInv'
    OBVIOUS
<1>1. base' = base /\ opt' = opt /\ config' = config
    BY DEF Next, StrictlyEqual, LengthsDiffer, Same, CompareCommutable, CompareScope,
           NeitherApplies, WalkedThrough, Decide, MoveTo, vars
<1> SUFFICES ASSUME Clear, Equivalent
             PROVE  RestInv'
    BY <1>1, ClearFixed DEF CompleteInv
<1>2. RestInv
    BY DEF CompleteInv
<1>3. TraceInv /\ idx \in Int /\ 1 <= idx /\ N \in Nat /\ N \in Int /\ Len(opt) = Len(base) /\ Len(base) = N
    BY DEF EquivalenceInv, WalkInv, PlaceInv, TraceInv, Equivalent, Rearranged, N
<1>4. ASSUME NEW k, MoveTo(k + 1), \E r : RearrangesRest(r, k + 1)
      PROVE  RestInv'
  <2>1. idx' = k + 1 /\ verdict' = verdict
      BY <1>4 DEF MoveTo
  <2>2. \E r : RearrangesRest(r, idx)'
      BY <1>1, <1>4, <2>1, ClearFixed
  <2> QED
      BY <1>2, <2>1, <2>2 DEF RestInv
<1>5. ASSUME NEW v, Decide(v), v # "different"
      PROVE  RestInv'
  <2>1. idx' = idx /\ verdict' = v
      BY <1>5 DEF Decide
  <2>2. \E r : RearrangesRest(r, idx)'
      BY <1>1, <1>2, <2>1, ClearFixed DEF RestInv
  <2> QED
      BY <1>5, <2>1, <2>2 DEF RestInv
<1>6. CASE StrictlyEqual
    BY <1>5, <1>6 DEF StrictlyEqual
<1>7. CASE LengthsDiffer
    BY <1>3, <1>7 DEF LengthsDiffer
<1>8. CASE Same
  <2>1. base[idx] = opt[idx] /\ MoveTo(idx + 1) /\ idx <= N
      BY <1>3, <1>8 DEF Same, Walking
  <2>2. \E r : RearrangesRest(r, idx + 1)
      BY <1>2, <1>3, <2>1, RestBehindSame DEF RestInv
  <2> QED
      BY <1>4, <2>1, <2>2
<1>9. CASE CompareCommutable
  <2>1. PICK k \in idx .. Len(base), l \in idx .. Len(base) :
            /\ RunOf(k, base, CommutablePositions(base)) /\ RunOf(l, opt, CommutablePositions(opt))
            /\ IF SameEvents(k, l) /\ GroupsKept(k, l)
               THEN MoveTo(Larger(k, l) + 1) ELSE Decide("different")
      BY <1>9 DEF CompareCommutable
  <2> DEFINE C == {x \in Events : Commutes(x)}
  <2>2. \A i \in idx .. k : Commutes(base[i]) /\ i \in DOMAIN base
      BY <2>1 DEF RunOf, CommutablePositions
  <2>3. \A i \in idx .. l : Commutes(opt[i]) /\ i \in DOMAIN opt
      BY <2>1 DEF RunOf, CommutablePositions
  <2>4. /\ k < N => k + 1 \in DOMAIN base /\ ~Commutes(base[k + 1])
        /\ l < N => l + 1 \in DOMAIN opt /\ ~Commutes(opt[l + 1])
      BY <1>3, <2>1 DEF RunOf, CommutablePositions, TraceInv
  <2>5. Runs(C, idx, k, l)
      BY <1>3, <2>1, <2>2, <2>3, <2>4, EventAt DEF Runs, TraceInv
  <2>6. \A i, j \in idx .. k : Independent(base[i], base[j])
      BY <2>2 DEF Independent
  <2>7. Closed(C)
      BY <1>3, CommutingClosed
  <2> HIDE DEF C
  <2>8. SameEvents(k, l) /\ GroupsKept(k, l) /\ Larger(k, l) = k /\ \E r : RearrangesRest(r, k + 1)
      BY <1>2, <2>5, <2>6, <2>7, WindowPasses
  <2>9. MoveTo(k + 1)
      BY <2>1, <2>8
  <2> QED
      BY <1>4, <2>8, <2>9
<1>10. CASE CompareScope
  <2>1. PICK s \in Range(config.scopes), k \in idx .. Len(base), l \in idx .. Len(base) :
            /\ OneScope(s)
            /\ RunOf(k, base, ScopePositions(base, s)) /\ RunOf(l, opt, ScopePositions(opt, s))
            /\ IF SameEvents(k, l) THEN MoveTo(Larger(k, l) + 1) ELSE Decide("different")
      BY <1>10 DEF CompareScope
  <2> DEFINE C == {x \in Events : x.action \in s}
  <2>2. \A i \in idx .. k : base[i].action \in s /\ i \in DOMAIN base
      BY <2>1 DEF RunOf, ScopePositions
  <2>3. \A i \in idx .. l : opt[i].action \in s /\ i \in DOMAIN opt
      BY <2>1 DEF RunOf, ScopePositions
  <2>4. /\ k < N => k + 1 \in DOMAIN base /\ base[k + 1].action \notin s
        /\ l < N => l + 1 \in DOMAIN opt /\ opt[l + 1].action \notin s
      BY <1>3, <2>1 DEF RunOf, ScopePositions, TraceInv
  <2>5. Runs(C, idx, k, l)
      BY <1>3, <2>1, <2>2, <2>3, <2>4, EventAt DEF Runs, TraceInv
  <2>6. Cardinality(s) >= 2
      BY <2>1 DEF OneScope, IsScopeOf, Places
  <2>7. \A i, j \in idx .. k : Independent(base[i], base[j])
      BY <2>2, <2>6 DEF Independent, InOneScope
  <2>8. Closed(C)
      BY <1>3, <2>1, ScopeClosed DEF OneScope
  <2> HIDE DEF C
  <2>9. SameEvents(k, l) /\ Larger(k, l) = k /\ \E r : RearrangesRest(r, k + 1)
      BY <1>2, <2>5, <2>7, <2>8, WindowPasses
  <2>10. MoveTo(k + 1)
      BY <2>1, <2>9
  <2> QED
      BY <1>4, <2>9, <2>10
<1>11. CASE NeitherApplies
  <2>1. idx <= N /\ base[idx] # opt[idx] /\ ~BothCommute
        /\ \A s \in Range(config.scopes) : ~OneScope(s)
      BY <1>3, <1>11 DEF NeitherApplies, AtDifference, Walking
  <2>2. Independent(base[idx], opt[idx])
      BY <1>2, <1>3, <2>1, DifferentAreIndependent DEF RestInv
  <2>3. base[idx] \in Events /\ opt[idx] \in Events
      BY <1>3, <2>1, EventAt
  <2> QED
      BY <1>3, <2>1, <2>2, <2>3, SomeWindow DEF BothCommute, OneScope
<1>12. CASE WalkedThrough
    BY <1>5, <1>12 DEF WalkedThrough
<1>13. CASE UNCHANGED vars
  <2>1. idx' = idx /\ verdict' = verdict
      BY <1>13 DEF vars
  <2>2. \E r : RearrangesRest(r, idx)'
      BY <1>1, <1>2, <2>1, ClearFixed DEF RestInv
  <2> QED
      BY <1>2, <2>1, <2>2 DEF RestInv
<1> QED
    BY <1>6, <1>7, <1>8, <1>9, <1>10, <1>11, <1>12, <1>13 DEF Next

LEMMA InitComplete == Init => CompleteInv
<1> SUFFICES ASSUME Init, Equivalent
             PROVE  \E p : RearrangesRest(p, 1)
    BY DEF CompleteInv, RestInv, Init
<1> QED
    BY DEF Equivalent, Rearranged, RearrangesRest, N

LEMMA DifferentForAReason == EquivalenceInv /\ CompleteInv => EquivalentPasses
BY Zenon DEF CompleteInv, RestInv, Clear, Equivalent, EquivalentPasses

-----------------------------------------------------------------------------
\* For traces of every length, all rules and scopes: traces that pass are the same
\* up to the order of events that both commute or are of one scope.
THEOREM PassingOnlyReorders == Spec => []PassedIsRearranged
<1>1. Spec => []WalkInv
    BY InitWalk, NextWalk, PTL DEF Spec
<1> QED
    BY <1>1, WalkGivesRearranged, PTL

\* What is said of traces that pass holds for traces of every length, all rules and
\* scopes: only independent events changed places, and the groups of a rule kept their
\* order unless a scope has some of their events.
THEOREM PassingIsSound == Spec => []PassedIsEquivalent
<1>1. Spec => []EquivalenceInv
    BY InitSigned, NextSigned, PTL DEF Spec
<1> QED
    BY <1>1, PassedAreEquivalent, PTL

\* Equivalent traces pass, however long they are: a difference is only reported where
\* there is one, or where scopes, phases and commuting events meet.
THEOREM ComparisonIsComplete == Spec => []EquivalentPasses
<1>1. Init => EquivalenceInv /\ CompleteInv
    BY InitSigned, InitComplete
<1>2. (EquivalenceInv /\ CompleteInv) /\ [Next]_vars => (EquivalenceInv /\ CompleteInv)'
    BY NextSigned, NextComplete
<1> QED
    BY <1>1, <1>2, DifferentForAReason, PTL DEF Spec
=============================================================================
