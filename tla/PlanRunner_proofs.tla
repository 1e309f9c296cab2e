-------------------------- MODULE PlanRunner_proofs --------------------------
(***************************************************************************)
(* What is proved of a plan on its way from the groups of a batch to the   *)
(* runner, for every plan, every batch and every guard:                    *)
(*                                                                         *)
(* 1. Induction along a sequence, from the well-foundedness of the finite  *)
(*    sets (a claim that fails somewhere fails at a least place), and with *)
(*    it that a fold has its steps (FoldExists) and a recursive function   *)
(*    on an interval its equations (RunExists).                            *)
(* 2. The layout of a batch (GroupLayout): reshaping the groups by the     *)
(*    fallback rows, and splitting them into a parallel and a serial part, *)
(*    neither loses an action nor runs one twice (ReshapeKeeps,            *)
(*    OnlyKeeps).                                                          *)
(* 3. Once the runner has left a gather, none of the gather's tasks is     *)
(*    left behind (TasksAccountedFor), and what began has an end event     *)
(*    (BeginsAccountedFor); nothing is needed about how a group is split.  *)
(* 4. The runner keeps the contract: ContractInv says where the runner is  *)
(*    in the plan's order, and that what lies before its place has         *)
(*    succeeded and what lies behind has not begun; every step is then a   *)
(*    step of the contract or none.                                        *)
(* 5. A batch with rows (PatchedBatch): cut groups laid end to end are the *)
(*    groups laid end to end (ReshapeFlat), the row read last is obeyed    *)
(*    (RowShort, SegmentOf), and the waves share no action (WavesApart)    *)
(*    nor run together what the runner serialises (WavesBelong).           *)
(* 6. The guards (GuardExpr): what the grammar derives has no operator of  *)
(*    its level outside parentheses (Shape), so the readers split it where *)
(*    it was put together (SplitWhole, SplitMore, StripParenthesised); by  *)
(*    induction on the length of the text (ByLength) along the depth of    *)
(*    the calls, each reads what the guard says (RunnerReads,              *)
(*    SchedulerReads).                                                     *)
(* 7. The groups of a batch (BatchGroups): buckets, chunks and leftovers   *)
(*    of a layer hold its actions (LayerKeeps), and GroupingInv says that  *)
(*    indegrees count the pairs left and layers follow the soft order.     *)
(***************************************************************************)
EXTENDS PlanRunner, PatchedBatch, BatchGroups, TLAPS, SequenceTheorems, FiniteSetTheorems, WellFoundedInduction

-----------------------------------------------------------------------------
(* Induction                                                               *)

\* Finite subsets of S, at least one; and a least one of them.
FiniteFamily(F, S) ==
  /\ F # {}
  /\ \A X \in F : X \subseteq S
  /\ \A X \in F : IsFiniteSet(X)
IsMinimal(X, F) == X \in F /\ \A Y \in F : Y \subseteq X => Y = X

\* A family of finite sets has a least member.
LEMMA MinimalFinite ==
  ASSUME NEW S, NEW F, FiniteFamily(F, S)
  PROVE  \E X : IsMinimal(X, F)
<1>1. F \subseteq FiniteSubsetsOf(S)
  BY DEF FiniteSubsetsOf, FiniteFamily
<1>2. \E X \in F : \A Y \in F : ~ (<<Y, X>> \in StrictSubsetOrdering(S))
  BY <1>1, FS_StrictSubsetOrderingWellFounded, WFMin, Zenon DEF FiniteFamily
<1>3. PICK X \in F : \A Y \in F : ~ (<<Y, X>> \in StrictSubsetOrdering(S))
  BY <1>2
<1>4. ASSUME NEW Y \in F, Y \subseteq X PROVE Y = X
  BY <1>3, <1>4 DEF StrictSubsetOrdering, FiniteFamily
<1>5. QED
  BY <1>4 DEF IsMinimal

\* A set of numbers has a least one: of the intervals that end in it, the least.
LEMMA LeastNat ==
  ASSUME NEW T, T \subseteq Nat, T # {}
  PROVE  \E x \in T : \A y \in T : x <= y
<1> DEFINE F == {1..n : n \in T}
<1>0. PICK n0 \in T : TRUE
  OBVIOUS
<1>1. 1..n0 \in F
  OBVIOUS
<1>2. \A X \in F : X \subseteq Nat
  OBVIOUS
<1>3. \A X \in F : IsFiniteSet(X)
  BY FS_Interval
<1>4. FiniteFamily(F, Nat)
  BY <1>1, <1>2, <1>3, Zenon DEF FiniteFamily
<1>5. PICK X : IsMinimal(X, F)
  BY <1>4, MinimalFinite, Zenon
<1>6. PICK x \in T : X = 1..x
  BY <1>5 DEF IsMinimal
<1>7. ASSUME NEW y \in T, y < x PROVE FALSE
  <2>1. 1..y \in F
    OBVIOUS
  <2>2. 1..y \subseteq 1..x
    BY <1>7
  <2>3. 1..y = 1..x
    BY <1>5, <1>6, <2>1, <2>2, Zenon DEF IsMinimal
  <2>4. x \in 1..x /\ x \notin 1..y
    BY <1>7
  <2>5. QED BY <2>3, <2>4
<1>8. QED
  BY <1>7

\* Induction along a prefix, over the set of the places where the claim holds.
LEMMA PrefixInduction ==
  ASSUME NEW n \in Nat, NEW T, 0 \in T, \A k \in 1 .. n : k - 1 \in T => k \in T
  PROVE  n \in T
<1> SUFFICES ASSUME n \notin T PROVE FALSE
  OBVIOUS
<1> DEFINE U == {k \in 0 .. n : k \notin T}
<1>1. U \subseteq Nat /\ n \in U
  OBVIOUS
<1>2. PICK k \in U : \A y \in U : k <= y
  <2> HIDE DEF U
  <2> QED BY <1>1, LeastNat
<1>3. k \in 1 .. n /\ k - 1 \notin U
  BY <1>2
<1> QED
  BY <1>3

\* A part of an interval has its maximum in it.
LEMMA MaxOfPart ==
  ASSUME NEW n \in Nat, NEW s, s \subseteq 1 .. n, s # {}
  PROVE  Max(s) \in s /\ \A y \in s : y <= Max(s)
<1> DEFINE U == {m \in 1 .. n : \A y \in s : y <= m}
<1>0. PICK x \in s : x \in 1 .. n
  OBVIOUS
<1>1. U \subseteq Nat
  OBVIOUS
<1>a. n \in U
  BY <1>0
<1>2. PICK m \in U : \A y \in U : m <= y
  <2> HIDE DEF U
  <2> QED BY <1>1, <1>a, LeastNat
<1>b. m \in 1 .. n /\ \A y \in s : y <= m
  BY <1>2
<1>3. m \in s
  <2> SUFFICES ASSUME m \notin s PROVE FALSE
    OBVIOUS
  <2>1. \A y \in s : y <= m - 1
    BY <1>b
  <2>2. m - 1 \in 1 .. n
    BY <2>1, <1>0, <1>b
  <2> QED BY <2>1, <2>2, <1>2
<1>4. \E z \in s : \A y \in s : z >= y
  BY <1>b, <1>3
<1>5. Max(s) \in s /\ \A y \in s : Max(s) >= y
  BY <1>4, Zenon DEF Max
<1> QED
  BY <1>5

\* The prefixes of an interval.
LEMMA PrefixIsPart == \A n \in Nat : \A k \in 1 .. n : 1 .. k \in SUBSET (1 .. n) /\ 1 .. k # {}
OBVIOUS

\* A fold over a prefix takes the last element away.
LEMMA MaxOfPrefix ==
  ASSUME NEW k \in Nat \ {0}
  PROVE  Max(1 .. k) = k /\ (1 .. k) \ {k} = 1 .. (k - 1)
<1>1. 1 .. k \subseteq 1 .. k /\ 1 .. k # {} /\ k \in 1 .. k
  OBVIOUS
<1>2. Max(1 .. k) \in 1 .. k /\ \A y \in 1 .. k : y <= Max(1 .. k)
  BY <1>1, MaxOfPart
<1>3. k <= Max(1 .. k) /\ Max(1 .. k) <= k
  BY <1>2
<1>4. Max(1 .. k) = k
  BY <1>2, <1>3
<1>5. (1 .. k) \ {k} = 1 .. (k - 1)
  OBVIOUS
<1> QED
  BY <1>4, <1>5

\* A fold from the left by the function F exists: it is the function that
\* MapThenFoldSet chooses.
IsFold(g, k, base, F) ==
  \A s \in SUBSET (1 .. k) :
     g[s] = IF s = {} THEN base ELSE F[<< g[s \ {Max(s)}], Max(s) >>]

\* The function that is defined up to k, for the least k where there is none, can be
\* extended to k: there is one for the whole interval.
LEMMA FoldExists ==
  ASSUME NEW D, NEW base \in D, NEW n \in Nat, NEW F \in [D \X (1 .. n) -> D]
  PROVE  \E g \in [SUBSET (1 .. n) -> D] : IsFold(g, n, base, F)
<1> DEFINE Folds(g, k) == IsFold(g, k, base, F)
<1> DEFINE T == {k \in 0 .. n : \E g \in [SUBSET (1 .. k) -> D] : Folds(g, k)}
<1>1. 0 \in T
  <2>1. SUBSET (1 .. 0) = {{}}
    OBVIOUS
  <2>2. [s \in {{}} |-> base] \in [{{}} -> D]
    OBVIOUS
  <2>3. Folds([s \in {{}} |-> base], 0)
    BY <2>1 DEF IsFold
  <2> HIDE DEF Folds
  <2>4. \E g \in [SUBSET (1 .. 0) -> D] : Folds(g, 0)
    BY <2>1, <2>2, <2>3, Zenon
  <2>5. 0 \in 0 .. n
    OBVIOUS
  <2> QED
    BY <2>4, <2>5, Zenon
<1>2. ASSUME NEW k \in 1 .. n, k - 1 \in T PROVE k \in T
  <2>1. PICK g \in [SUBSET (1 .. (k - 1)) -> D] : Folds(g, k - 1)
    BY <1>2
  <2> DEFINE h == [s \in SUBSET (1 .. k) |->
                     IF k \in s THEN F[<< g[s \ {k}], k >>] ELSE g[s]]
  <2>2. \A s \in SUBSET (1 .. k) : s \ {k} \in SUBSET (1 .. (k - 1))
    OBVIOUS
  <2>3. h \in [SUBSET (1 .. k) -> D]
    <3> SUFFICES ASSUME NEW s \in SUBSET (1 .. k)
                 PROVE  (IF k \in s THEN F[<< g[s \ {k}], k >>] ELSE g[s]) \in D
      OBVIOUS
    <3>1. CASE k \in s
      BY <3>1, <2>2
    <3>2. CASE k \notin s
      <4>1. s \in SUBSET (1 .. (k - 1))
        BY <3>2, <2>2
      <4> QED BY <3>2, <4>1
    <3> QED BY <3>1, <3>2
  <2>4. ASSUME NEW s \in SUBSET (1 .. k)
        PROVE  h[s] = IF s = {} THEN base ELSE F[<< h[s \ {Max(s)}], Max(s) >>]
    <3>1. CASE k \in s
      <4>0. k \in Nat /\ s \subseteq 1 .. k /\ s # {}
        BY <3>1
      <4>1. Max(s) \in s /\ \A y \in s : y <= Max(s)
        BY <4>0, MaxOfPart, Zenon
      <4>2. Max(s) = k
        <5>1. Max(s) \in 1 .. k /\ k <= Max(s)
          BY <4>0, <4>1, <3>1
        <5> QED BY <5>1
      <4>3. s \ {k} \in SUBSET (1 .. k) /\ k \notin s \ {k}
        OBVIOUS
      <4>4. h[s \ {k}] = g[s \ {k}]
        BY <4>3
      <4> QED
        BY <3>1, <4>2, <4>4
    <3>2. CASE k \notin s
      <4>1. s \in SUBSET (1 .. (k - 1)) /\ s \ {Max(s)} \in SUBSET (1 .. (k - 1))
        BY <3>2, <2>2
      <4>2. h[s] = g[s] /\ h[s \ {Max(s)}] = g[s \ {Max(s)}]
        BY <3>2, <4>1
      <4> QED
        BY <2>1, <4>1, <4>2 DEF IsFold
    <3> QED BY <3>1, <3>2
  <2>5. Folds(h, k)
    <3> HIDE DEF h
    <3> QED BY <2>4, Zenon DEF IsFold
  <2> HIDE DEF h, Folds
  <2>6. \E f \in [SUBSET (1 .. k) -> D] : Folds(f, k)
    BY <2>3, <2>5, Zenon
  <2> QED
    BY <2>6
<1>3. n \in T
  <2> HIDE DEF T
  <2> QED BY <1>1, <1>2, PrefixInduction
<1> QED
  BY <1>3

\* Such a fold goes through the prefixes one after the other.
IsRun(h, n, D, base, F, iter) ==
  /\ h \in [0 .. n -> D]
  /\ h[0] = base
  /\ \A k \in 1 .. n : h[k] = F[<< h[k - 1], k >>]
  /\ h[n] = iter[1 .. n]

\* The values of the fold at the prefixes stay in D, and each follows from the one before.
LEMMA RunExists ==
  ASSUME NEW D, NEW base \in D, NEW n \in Nat, NEW F \in [D \X (1 .. n) -> D], NEW iter,
         iter[{}] = base,
         \A k \in 1 .. n : iter[1 .. (k - 1)] \in D =>
             iter[1 .. k] = F[<< iter[1 .. (k - 1)], k >>]
  PROVE  \E h : IsRun(h, n, D, base, F, iter)
<1> DEFINE h == [k \in 0 .. n |-> iter[1 .. k]]
<1>1. \A k \in 1 .. n : k \in 0 .. n /\ k - 1 \in 0 .. n
  OBVIOUS
<1>2. h[0] = base /\ h[n] = iter[1 .. n]
  <2>1. 1 .. 0 = {} /\ 0 \in 0 .. n /\ n \in 0 .. n
    OBVIOUS
  <2> QED BY <2>1
<1>3. \A k \in 1 .. n : h[k - 1] \in D => h[k] = F[<< h[k - 1], k >>]
  BY <1>1
<1> HIDE DEF h
<1>4. ASSUME NEW m \in 0 .. n PROVE h[m] \in D
  <2> DEFINE T == {k \in 0 .. m : h[k] \in D}
  <2>1. 0 \in T
    BY <1>2
  <2>2. ASSUME NEW k \in 1 .. m, k - 1 \in T PROVE k \in T
    <3>1. k \in 1 .. n /\ h[k - 1] \in D /\ k \in 0 .. m
      BY <2>2
    <3>2. h[k] \in D
      BY <1>3, <3>1
    <3> QED BY <3>1, <3>2
  <2>3. m \in T
    <3> HIDE DEF T
    <3> QED BY <2>1, <2>2, PrefixInduction
  <2> QED BY <2>3
<1>5. h \in [0 .. n -> D]
  BY <1>4 DEF h
<1>6. \A k \in 1 .. n : h[k] = F[<< h[k - 1], k >>]
  BY <1>1, <1>3, <1>4
<1>7. IsRun(h, n, D, base, F, iter)
  BY <1>2, <1>5, <1>6 DEF IsRun
<1> QED
  BY <1>7
\* The list comprehension that picks the serial actions.
OnlyRun(h, s, T) ==
    /\ h \in [0 .. Len(s) -> Seq(Action)]
    /\ h[0] = << >>
    /\ \A k \in 1 .. Len(s) : h[k] = (IF s[k] \in T THEN Append(h[k - 1], s[k]) ELSE h[k - 1])
    /\ Only(s, T) = h[Len(s)]

\* Only takes the actions one after the other.
LEMMA OnlySteps ==
  ASSUME NEW s \in Seq(Action), NEW T
  PROVE  \E h : OnlyRun(h, s, T)
<1> DEFINE n == Len(s)
           D == Seq(Action)
           F == [p \in D \X (1 .. n) |-> (IF s[p[2]] \in T THEN Append(p[1], s[p[2]]) ELSE p[1])]
           TurnOf(g, u) == IF u = {} THEN << >> ELSE (IF s[Max(u)] \in T THEN Append(g[u \ {Max(u)}], s[Max(u)]) ELSE g[u \ {Max(u)}])
           iter == CHOOSE g : g = [u \in SUBSET DOMAIN s |-> TurnOf(g, u)]
<1>1. n \in Nat /\ DOMAIN s = 1 .. n /\ << >> \in D
  OBVIOUS
<1>0. \A k \in 1 .. n : 1 .. k \in SUBSET (1 .. n) /\ 1 .. k # {}
  BY <1>1, PrefixIsPart, Zenon
<1>2. \A x \in D, k \in 1 .. n : (IF s[k] \in T THEN Append(x, s[k]) ELSE x) \in D
  OBVIOUS
<1>3. F \in [D \X (1 .. n) -> D]
  BY <1>2
<1>4. PICK g \in [SUBSET (1 .. n) -> D] : IsFold(g, n, << >>, F)
  <2> HIDE DEF n, D, F
  <2> QED BY <1>1, <1>3, FoldExists, Zenon
<1>5. \A u \in SUBSET (1 .. n) : g[u] = TurnOf(g, u)
  <2> SUFFICES ASSUME NEW u \in SUBSET (1 .. n), u # {} PROVE g[u] = TurnOf(g, u)
    BY <1>4 DEF IsFold
  <2>1. Max(u) \in 1 .. n
    BY <1>1, MaxOfPart
  <2>2. g[u \ {Max(u)}] \in D
    OBVIOUS
  <2> QED
    BY <1>4, <2>1, <2>2 DEF IsFold
<1>6. iter = [u \in SUBSET (1 .. n) |-> TurnOf(iter, u)]
  <2> HIDE DEF TurnOf, D
  <2>1. g = [u \in SUBSET DOMAIN s |-> TurnOf(g, u)]
    BY <1>1, <1>5
  <2> QED BY <1>1, <2>1
<1>7. Only(s, T) = iter[1 .. n]
  BY <1>1 DEF Only, FoldLeft, MapThenFoldSet
<1> HIDE DEF iter
<1>8. \A u \in SUBSET (1 .. n) : iter[u] = TurnOf(iter, u)
  <2> HIDE DEF TurnOf, D
  <2> QED BY <1>6
<1>9. iter[{}] = << >>
  BY <1>8
<1>10. ASSUME NEW k \in 1 .. n, iter[1 .. (k - 1)] \in D
      PROVE  iter[1 .. k] = F[<< iter[1 .. (k - 1)], k >>]
  <2>1. 1 .. k \in SUBSET (1 .. n) /\ 1 .. k # {}
    BY <1>0, Zenon
  <2>2. Max(1 .. k) = k /\ (1 .. k) \ {k} = 1 .. (k - 1)
    BY MaxOfPrefix
  <2> QED
    BY <1>8, <1>10, <2>1, <2>2
<1>11. PICK h : IsRun(h, n, D, << >>, F, iter)
  <2> HIDE DEF n, D, F
  <2> QED BY <1>1, <1>3, <1>9, <1>10, RunExists, Zenon
<1>12. \A k \in 1 .. n : h[k] = (IF s[k] \in T THEN Append(h[k - 1], s[k]) ELSE h[k - 1])
  <2> SUFFICES ASSUME NEW k \in 1 .. n PROVE h[k] = (IF s[k] \in T THEN Append(h[k - 1], s[k]) ELSE h[k - 1])
    OBVIOUS
  <2>1. k - 1 \in 0 .. n
    BY <1>1
  <2>2. h[k - 1] \in D /\ h[k] = F[<< h[k - 1], k >>]
    <3> HIDE DEF D, F
    <3> QED BY <1>11, <2>1 DEF IsRun
  <2> QED BY <2>2
<1>13. OnlyRun(h, s, T)
  BY <1>7, <1>11, <1>12 DEF OnlyRun, IsRun
<1> QED
  BY <1>13

\* Placing an action in the last segment or a new one leaves a sequence of segments.
LEMMA PlaceType ==
  ASSUME NEW segs \in Seq(Seq(Action)), NEW a \in Action, NEW scope, NEW size
  PROVE  PlaceAction(segs, a, scope, size) \in Seq(Seq(Action))
<1>1. Append(segs, << a >>) \in Seq(Seq(Action))
  OBVIOUS
<1>2. ASSUME segs # << >>
      PROVE [segs EXCEPT ![Len(segs)] = Append(@, a)] \in Seq(Seq(Action))
  <2>1. Len(segs) \in 1 .. Len(segs) /\ segs[Len(segs)] \in Seq(Action)
    BY <1>2
  <2>2. Append(segs[Len(segs)], a) \in Seq(Action)
    BY <2>1
  <2> QED
    BY <2>1, <2>2, ExceptSeq
<1> QED
  BY <1>1, <1>2 DEF PlaceAction

\* Cutting a segment, one action after the other.
CutRun(h, segs, segment, scope, size) ==
    /\ h \in [0 .. Len(segment) -> Seq(Seq(Action))]
    /\ h[0] = segs
    /\ \A k \in 1 .. Len(segment) : h[k] = PlaceAction(h[k - 1], segment[k], scope, size)
    /\ CutSegment(segs, segment, scope, size) =
                  IF Len(Only(segment, scope)) <= 1 THEN Append(segs, segment) ELSE h[Len(segment)]

\* Cutting places the actions of a segment one after the other.
LEMMA CutSteps ==
  ASSUME NEW segs \in Seq(Seq(Action)), NEW segment \in Seq(Action), NEW scope, NEW size
  PROVE  \E h : CutRun(h, segs, segment, scope, size)
<1> DEFINE n == Len(segment)
           D == Seq(Seq(Action))
           F == [p \in D \X (1 .. n) |-> PlaceAction(p[1], segment[p[2]], scope, size)]
           TurnOf(g, u) == IF u = {} THEN segs ELSE PlaceAction(g[u \ {Max(u)}], segment[Max(u)], scope, size)
           iter == CHOOSE g : g = [u \in SUBSET DOMAIN segment |-> TurnOf(g, u)]
<1>1. n \in Nat /\ DOMAIN segment = 1 .. n /\ segs \in D
  OBVIOUS
<1>0. \A k \in 1 .. n : 1 .. k \in SUBSET (1 .. n) /\ 1 .. k # {}
  BY <1>1, PrefixIsPart, Zenon
<1>2. \A x \in D, k \in 1 .. n : PlaceAction(x, segment[k], scope, size) \in D
  BY PlaceType
<1>3. F \in [D \X (1 .. n) -> D]
  BY <1>2
<1>4. PICK g \in [SUBSET (1 .. n) -> D] : IsFold(g, n, segs, F)
  <2> HIDE DEF n, D, F
  <2> QED BY <1>1, <1>3, FoldExists, Zenon
<1>5. \A u \in SUBSET (1 .. n) : g[u] = TurnOf(g, u)
  <2> SUFFICES ASSUME NEW u \in SUBSET (1 .. n), u # {} PROVE g[u] = TurnOf(g, u)
    BY <1>4 DEF IsFold
  <2>1. Max(u) \in 1 .. n
    BY <1>1, MaxOfPart
  <2>2. g[u \ {Max(u)}] \in D
    OBVIOUS
  <2> QED
    BY <1>4, <2>1, <2>2 DEF IsFold
<1>6. iter = [u \in SUBSET (1 .. n) |-> TurnOf(iter, u)]
  <2> HIDE DEF TurnOf, D
  <2>1. g = [u \in SUBSET DOMAIN segment |-> TurnOf(g, u)]
    BY <1>1, <1>5
  <2> QED BY <1>1, <2>1
<1>7. CutSegment(segs, segment, scope, size) =
                  IF Len(Only(segment, scope)) <= 1 THEN Append(segs, segment) ELSE iter[1 .. n]
  BY <1>1 DEF CutSegment, FoldLeft, MapThenFoldSet
<1> HIDE DEF iter
<1>8. \A u \in SUBSET (1 .. n) : iter[u] = TurnOf(iter, u)
  <2> HIDE DEF TurnOf, D
  <2> QED BY <1>6
<1>9. iter[{}] = segs
  BY <1>8
<1>10. ASSUME NEW k \in 1 .. n, iter[1 .. (k - 1)] \in D
      PROVE  iter[1 .. k] = F[<< iter[1 .. (k - 1)], k >>]
  <2>1. 1 .. k \in SUBSET (1 .. n) /\ 1 .. k # {}
    BY <1>0, Zenon
  <2>2. Max(1 .. k) = k /\ (1 .. k) \ {k} = 1 .. (k - 1)
    BY MaxOfPrefix
  <2> QED
    BY <1>8, <1>10, <2>1, <2>2
<1>11. PICK h : IsRun(h, n, D, segs, F, iter)
  <2> HIDE DEF n, D, F
  <2> QED BY <1>1, <1>3, <1>9, <1>10, RunExists, Zenon
<1>12. \A k \in 1 .. n : h[k] = PlaceAction(h[k - 1], segment[k], scope, size)
  <2> SUFFICES ASSUME NEW k \in 1 .. n PROVE h[k] = PlaceAction(h[k - 1], segment[k], scope, size)
    OBVIOUS
  <2>1. k - 1 \in 0 .. n
    BY <1>1
  <2>2. h[k - 1] \in D /\ h[k] = F[<< h[k - 1], k >>]
    <3> HIDE DEF D, F
    <3> QED BY <1>11, <2>1 DEF IsRun
  <2> QED BY <2>2
<1>13. CutRun(h, segs, segment, scope, size)
  BY <1>7, <1>11, <1>12 DEF CutRun, IsRun
<1> QED
  BY <1>13

\* Cutting a segment leaves a sequence of segments.
LEMMA CutType ==
  ASSUME NEW segs \in Seq(Seq(Action)), NEW segment \in Seq(Action), NEW scope, NEW size
  PROVE  CutSegment(segs, segment, scope, size) \in Seq(Seq(Action))
<1>1. Append(segs, segment) \in Seq(Seq(Action)) /\ Len(segment) \in 0 .. Len(segment)
  OBVIOUS
<1>2. PICK h : CutRun(h, segs, segment, scope, size)
  BY CutSteps, Zenon
<1>3. h[Len(segment)] \in Seq(Seq(Action))
  BY <1>1, <1>2, Zenon DEF CutRun
<1> QED
  BY <1>1, <1>2, <1>3, Zenon DEF CutRun

\* A row that shrinks batches, one segment after the other.
RowRun(h, ids, segs, row, scope) ==
    /\ h \in [0 .. Len(segs) -> Seq(Seq(Action))]
    /\ h[0] = << >>
    /\ \A k \in 1 .. Len(segs) : h[k] = CutSegment(h[k - 1], segs[k], scope, ChunkSize(row))
    /\ ApplyRow(ids, segs, row) = IF row.mode \notin BatchModes THEN segs ELSE h[Len(segs)]

\* A row cuts the segments one after the other.
LEMMA RowSteps ==
  ASSUME NEW ids, NEW segs \in Seq(Seq(Action)), NEW row,
         NEW scope, scope = IF row.scope = {} THEN ToSet(ids) ELSE row.scope
  PROVE  \E h : RowRun(h, ids, segs, row, scope)
<1> DEFINE n == Len(segs)
           D == Seq(Seq(Action))
           F == [p \in D \X (1 .. n) |-> CutSegment(p[1], segs[p[2]], scope, ChunkSize(row))]
           TurnOf(g, u) == IF u = {} THEN << >> ELSE CutSegment(g[u \ {Max(u)}], segs[Max(u)], scope, ChunkSize(row))
           iter == CHOOSE g : g = [u \in SUBSET DOMAIN segs |-> TurnOf(g, u)]
<1>1. n \in Nat /\ DOMAIN segs = 1 .. n /\ << >> \in D
  OBVIOUS
<1>0. \A k \in 1 .. n : 1 .. k \in SUBSET (1 .. n) /\ 1 .. k # {}
  BY <1>1, PrefixIsPart, Zenon
<1>2. \A x \in D, k \in 1 .. n : CutSegment(x, segs[k], scope, ChunkSize(row)) \in D
  BY CutType
<1>3. F \in [D \X (1 .. n) -> D]
  BY <1>2
<1>4. PICK g \in [SUBSET (1 .. n) -> D] : IsFold(g, n, << >>, F)
  <2> HIDE DEF n, D, F
  <2> QED BY <1>1, <1>3, FoldExists, Zenon
<1>5. \A u \in SUBSET (1 .. n) : g[u] = TurnOf(g, u)
  <2> SUFFICES ASSUME NEW u \in SUBSET (1 .. n), u # {} PROVE g[u] = TurnOf(g, u)
    BY <1>4 DEF IsFold
  <2>1. Max(u) \in 1 .. n
    BY <1>1, MaxOfPart
  <2>2. g[u \ {Max(u)}] \in D
    OBVIOUS
  <2> QED
    BY <1>4, <2>1, <2>2 DEF IsFold
<1>6. iter = [u \in SUBSET (1 .. n) |-> TurnOf(iter, u)]
  <2> HIDE DEF TurnOf, D
  <2>1. g = [u \in SUBSET DOMAIN segs |-> TurnOf(g, u)]
    BY <1>1, <1>5
  <2> QED BY <1>1, <2>1
<1>7. ApplyRow(ids, segs, row) = IF row.mode \notin BatchModes THEN segs ELSE iter[1 .. n]
  BY <1>1 DEF ApplyRow, FoldLeft, MapThenFoldSet
<1> HIDE DEF iter
<1>8. \A u \in SUBSET (1 .. n) : iter[u] = TurnOf(iter, u)
  <2> HIDE DEF TurnOf, D
  <2> QED BY <1>6
<1>9. iter[{}] = << >>
  BY <1>8
<1>10. ASSUME NEW k \in 1 .. n, iter[1 .. (k - 1)] \in D
      PROVE  iter[1 .. k] = F[<< iter[1 .. (k - 1)], k >>]
  <2>1. 1 .. k \in SUBSET (1 .. n) /\ 1 .. k # {}
    BY <1>0, Zenon
  <2>2. Max(1 .. k) = k /\ (1 .. k) \ {k} = 1 .. (k - 1)
    BY MaxOfPrefix
  <2> QED
    BY <1>8, <1>10, <2>1, <2>2
<1>11. PICK h : IsRun(h, n, D, << >>, F, iter)
  <2> HIDE DEF n, D, F
  <2> QED BY <1>1, <1>3, <1>9, <1>10, RunExists, Zenon
<1>12. \A k \in 1 .. n : h[k] = CutSegment(h[k - 1], segs[k], scope, ChunkSize(row))
  <2> SUFFICES ASSUME NEW k \in 1 .. n PROVE h[k] = CutSegment(h[k - 1], segs[k], scope, ChunkSize(row))
    OBVIOUS
  <2>1. k - 1 \in 0 .. n
    BY <1>1
  <2>2. h[k - 1] \in D /\ h[k] = F[<< h[k - 1], k >>]
    <3> HIDE DEF D, F
    <3> QED BY <1>11, <2>1 DEF IsRun
  <2> QED BY <2>2
<1>13. RowRun(h, ids, segs, row, scope)
  BY <1>7, <1>11, <1>12 DEF RowRun, IsRun
<1> QED
  BY <1>13

\* A row leaves a sequence of segments.
LEMMA RowType ==
  ASSUME NEW ids, NEW segs \in Seq(Seq(Action)), NEW row
  PROVE  ApplyRow(ids, segs, row) \in Seq(Seq(Action))
<1>1. Len(segs) \in 0 .. Len(segs)
  OBVIOUS
<1>2. PICK scope : scope = IF row.scope = {} THEN ToSet(ids) ELSE row.scope
  OBVIOUS
<1>3. PICK h : RowRun(h, ids, segs, row, scope)
  BY <1>2, RowSteps, Zenon
<1>4. h[Len(segs)] \in Seq(Seq(Action))
  BY <1>1, <1>3, Zenon DEF RowRun
<1> QED
  BY <1>3, <1>4, Zenon DEF RowRun

\* A group, one row after the other.
GroupRun(h, ids, rows) ==
    /\ h \in [0 .. Len(rows) -> Seq(Seq(Action))]
    /\ h[0] = << ids >>
    /\ \A k \in 1 .. Len(rows) : h[k] = ApplyRow(ids, h[k - 1], rows[k])
    /\ ReshapeGroup(ids, rows) = h[Len(rows)]

\* The rows are applied to a group one after the other.
LEMMA GroupSteps ==
  ASSUME NEW ids \in Seq(Action), NEW R, NEW rows \in Seq(R)
  PROVE  \E h : GroupRun(h, ids, rows)
<1> DEFINE n == Len(rows)
           D == Seq(Seq(Action))
           F == [p \in D \X (1 .. n) |-> ApplyRow(ids, p[1], rows[p[2]])]
           TurnOf(g, u) == IF u = {} THEN << ids >> ELSE ApplyRow(ids, g[u \ {Max(u)}], rows[Max(u)])
           iter == CHOOSE g : g = [u \in SUBSET DOMAIN rows |-> TurnOf(g, u)]
<1>1. n \in Nat /\ DOMAIN rows = 1 .. n /\ << ids >> \in D
  OBVIOUS
<1>0. \A k \in 1 .. n : 1 .. k \in SUBSET (1 .. n) /\ 1 .. k # {}
  BY <1>1, PrefixIsPart, Zenon
<1>2. \A x \in D, k \in 1 .. n : ApplyRow(ids, x, rows[k]) \in D
  BY RowType
<1>3. F \in [D \X (1 .. n) -> D]
  BY <1>2
<1>4. PICK g \in [SUBSET (1 .. n) -> D] : IsFold(g, n, << ids >>, F)
  <2> HIDE DEF n, D, F
  <2> QED BY <1>1, <1>3, FoldExists, Zenon
<1>5. \A u \in SUBSET (1 .. n) : g[u] = TurnOf(g, u)
  <2> SUFFICES ASSUME NEW u \in SUBSET (1 .. n), u # {} PROVE g[u] = TurnOf(g, u)
    BY <1>4 DEF IsFold
  <2>1. Max(u) \in 1 .. n
    BY <1>1, MaxOfPart
  <2>2. g[u \ {Max(u)}] \in D
    OBVIOUS
  <2> QED
    BY <1>4, <2>1, <2>2 DEF IsFold
<1>6. iter = [u \in SUBSET (1 .. n) |-> TurnOf(iter, u)]
  <2> HIDE DEF TurnOf, D
  <2>1. g = [u \in SUBSET DOMAIN rows |-> TurnOf(g, u)]
    BY <1>1, <1>5
  <2> QED BY <1>1, <2>1
<1>7. ReshapeGroup(ids, rows) = iter[1 .. n]
  BY <1>1 DEF ReshapeGroup, FoldLeft, MapThenFoldSet
<1> HIDE DEF iter
<1>8. \A u \in SUBSET (1 .. n) : iter[u] = TurnOf(iter, u)
  <2> HIDE DEF TurnOf, D
  <2> QED BY <1>6
<1>9. iter[{}] = << ids >>
  BY <1>8
<1>10. ASSUME NEW k \in 1 .. n, iter[1 .. (k - 1)] \in D
      PROVE  iter[1 .. k] = F[<< iter[1 .. (k - 1)], k >>]
  <2>1. 1 .. k \in SUBSET (1 .. n) /\ 1 .. k # {}
    BY <1>0, Zenon
  <2>2. Max(1 .. k) = k /\ (1 .. k) \ {k} = 1 .. (k - 1)
    BY MaxOfPrefix
  <2> QED
    BY <1>8, <1>10, <2>1, <2>2
<1>11. PICK h : IsRun(h, n, D, << ids >>, F, iter)
  <2> HIDE DEF n, D, F
  <2> QED BY <1>1, <1>3, <1>9, <1>10, RunExists, Zenon
<1>12. \A k \in 1 .. n : h[k] = ApplyRow(ids, h[k - 1], rows[k])
  <2> SUFFICES ASSUME NEW k \in 1 .. n PROVE h[k] = ApplyRow(ids, h[k - 1], rows[k])
    OBVIOUS
  <2>1. k - 1 \in 0 .. n
    BY <1>1
  <2>2. h[k - 1] \in D /\ h[k] = F[<< h[k - 1], k >>]
    <3> HIDE DEF D, F
    <3> QED BY <1>11, <2>1 DEF IsRun
  <2> QED BY <2>2
<1>13. GroupRun(h, ids, rows)
  BY <1>7, <1>11, <1>12 DEF GroupRun, IsRun
<1> QED
  BY <1>13

\* Reshaping a group leaves a sequence of segments.
LEMMA GroupType ==
  ASSUME NEW ids \in Seq(Action), NEW R, NEW rows \in Seq(R)
  PROVE  ReshapeGroup(ids, rows) \in Seq(Seq(Action))
<1>1. Len(rows) \in 0 .. Len(rows)
  OBVIOUS
<1>2. PICK h : GroupRun(h, ids, rows)
  BY GroupSteps, Zenon
<1> QED
  BY <1>1, <1>2, Zenon DEF GroupRun

\* The groups of a batch, one after the other.
ReshapeRun(h, gs, rows) ==
    /\ h \in [0 .. Len(gs) -> Seq(Seq(Action))]
    /\ h[0] = << >>
    /\ \A k \in 1 .. Len(gs) : h[k] = h[k - 1] \o ReshapeGroup(gs[k], rows)
    /\ Reshape(gs, rows) = h[Len(gs)]

\* The groups of a batch are reshaped one after the other.
LEMMA ReshapeSteps ==
  ASSUME NEW gs \in Seq(Seq(Action)), NEW R, NEW rows \in Seq(R)
  PROVE  \E h : ReshapeRun(h, gs, rows)
<1> DEFINE n == Len(gs)
           D == Seq(Seq(Action))
           F == [p \in D \X (1 .. n) |-> p[1] \o ReshapeGroup(gs[p[2]], rows)]
           TurnOf(g, u) == IF u = {} THEN << >> ELSE g[u \ {Max(u)}] \o ReshapeGroup(gs[Max(u)], rows)
           iter == CHOOSE g : g = [u \in SUBSET DOMAIN gs |-> TurnOf(g, u)]
<1>1. n \in Nat /\ DOMAIN gs = 1 .. n /\ << >> \in D
  OBVIOUS
<1>0. \A k \in 1 .. n : 1 .. k \in SUBSET (1 .. n) /\ 1 .. k # {}
  BY <1>1, PrefixIsPart, Zenon
<1>2. \A x \in D, k \in 1 .. n : x \o ReshapeGroup(gs[k], rows) \in D
  BY GroupType, SMTT(30)
<1>3. F \in [D \X (1 .. n) -> D]
  BY <1>2
<1>4. PICK g \in [SUBSET (1 .. n) -> D] : IsFold(g, n, << >>, F)
  <2> HIDE DEF n, D, F
  <2> QED BY <1>1, <1>3, FoldExists, Zenon
<1>5. \A u \in SUBSET (1 .. n) : g[u] = TurnOf(g, u)
  <2> SUFFICES ASSUME NEW u \in SUBSET (1 .. n), u # {} PROVE g[u] = TurnOf(g, u)
    BY <1>4 DEF IsFold
  <2>1. Max(u) \in 1 .. n
    BY <1>1, MaxOfPart
  <2>2. g[u \ {Max(u)}] \in D
    OBVIOUS
  <2> QED
    BY <1>4, <2>1, <2>2 DEF IsFold
<1>6. iter = [u \in SUBSET (1 .. n) |-> TurnOf(iter, u)]
  <2> HIDE DEF TurnOf, D
  <2>1. g = [u \in SUBSET DOMAIN gs |-> TurnOf(g, u)]
    BY <1>1, <1>5
  <2> QED BY <1>1, <2>1
<1>7. Reshape(gs, rows) = iter[1 .. n]
  BY <1>1 DEF Reshape, FoldLeft, MapThenFoldSet
<1> HIDE DEF iter
<1>8. \A u \in SUBSET (1 .. n) : iter[u] = TurnOf(iter, u)
  <2> HIDE DEF TurnOf, D
  <2> QED BY <1>6
<1>9. iter[{}] = << >>
  BY <1>8
<1>10. ASSUME NEW k \in 1 .. n, iter[1 .. (k - 1)] \in D
      PROVE  iter[1 .. k] = F[<< iter[1 .. (k - 1)], k >>]
  <2>1. 1 .. k \in SUBSET (1 .. n) /\ 1 .. k # {}
    BY <1>0, Zenon
  <2>2. Max(1 .. k) = k /\ (1 .. k) \ {k} = 1 .. (k - 1)
    BY MaxOfPrefix
  <2> QED
    BY <1>8, <1>10, <2>1, <2>2
<1>11. PICK h : IsRun(h, n, D, << >>, F, iter)
  <2> HIDE DEF n, D, F
  <2> QED BY <1>1, <1>3, <1>9, <1>10, RunExists, Zenon
<1>12. \A k \in 1 .. n : h[k] = h[k - 1] \o ReshapeGroup(gs[k], rows)
  <2> SUFFICES ASSUME NEW k \in 1 .. n PROVE h[k] = h[k - 1] \o ReshapeGroup(gs[k], rows)
    OBVIOUS
  <2>1. k - 1 \in 0 .. n
    BY <1>1
  <2>2. h[k - 1] \in D /\ h[k] = F[<< h[k - 1], k >>]
    <3> HIDE DEF D, F
    <3> QED BY <1>11, <2>1 DEF IsRun
  <2> QED BY <2>2
<1>13. ReshapeRun(h, gs, rows)
  BY <1>7, <1>11, <1>12 DEF ReshapeRun, IsRun
<1> QED
  BY <1>13

-----------------------------------------------------------------------------
(* Every action once                                                       *)

\* An action listed in two places of a layout is listed in one.
LEMMA ListsFacts ==
  ASSUME NEW S, NEW ss, Lists(ss, S)
  PROVE  /\ Len(ss) \in Nat /\ DOMAIN ss = 1 .. Len(ss)
         /\ ss \in Seq(Seq(Action))
         /\ \A i \in 1 .. Len(ss) : ss[i] \in Seq(Action) /\ ss[i] # << >> /\ IsInjective(ss[i])
         /\ \A i, j \in 1 .. Len(ss) : i # j => ToSet(ss[i]) \cap ToSet(ss[j]) = {}
         /\ \A i \in 1 .. Len(ss) : ToSet(ss[i]) \subseteq S
         /\ S \subseteq Action
<1>1. ss \in Seq(Seq(Action) \ {<< >>})
  BY DEF Lists
<1>2. Len(ss) \in Nat /\ DOMAIN ss = 1 .. Len(ss)
  BY <1>1
<1>3. \A i \in 1 .. Len(ss) : ss[i] \in Seq(Action) /\ ss[i] # << >>
  BY <1>1, <1>2
<1>4. ss \in Seq(Seq(Action))
  BY <1>1, SeqMonotonic, Zenon
<1>5. \A i \in 1 .. Len(ss) : ToSet(ss[i]) \subseteq Action
  BY <1>3 DEF ToSet
<1>6. S \subseteq Action /\ \A i \in 1 .. Len(ss) : ToSet(ss[i]) \subseteq S
  <2>1. S = UNION {ToSet(ss[i]) : i \in 1 .. Len(ss)}
    BY <1>2, Zenon DEF Lists
  <2> QED BY <1>5, <2>1
<1>7. /\ \A i \in 1 .. Len(ss) : IsInjective(ss[i])
      /\ \A i, j \in 1 .. Len(ss) : i # j => ToSet(ss[i]) \cap ToSet(ss[j]) = {}
  BY <1>2, Zenon DEF Lists
<1> QED
  BY <1>2, <1>3, <1>4, <1>6, <1>7, Zenon

\* What an action more adds to a segment.
LEMMA AppendRange ==
  ASSUME NEW seq \in Seq(Action), NEW a \in Action
  PROVE  ToSet(Append(seq, a)) = ToSet(seq) \cup {a}
<1>1. Append(seq, a) \in Seq(Action) /\ Len(Append(seq, a)) = Len(seq) + 1
  OBVIOUS
<1>2. \A i \in 1 .. Len(seq) : Append(seq, a)[i] = seq[i]
  OBVIOUS
<1>3. Append(seq, a)[Len(seq) + 1] = a
  OBVIOUS
<1>4. DOMAIN Append(seq, a) = 1 .. (Len(seq) + 1) /\ DOMAIN seq = 1 .. Len(seq) /\ Len(seq) \in Nat
  BY <1>1
<1>5. \A i \in 1 .. (Len(seq) + 1) : i \in 1 .. Len(seq) \/ i = Len(seq) + 1
  BY <1>4
<1>6. \A i \in 1 .. Len(seq) : i \in 1 .. (Len(seq) + 1)
  BY <1>4
<1>7. Len(seq) + 1 \in 1 .. (Len(seq) + 1)
  BY <1>4
<1> QED
  BY <1>2, <1>3, <1>4, <1>5, <1>6, <1>7 DEF ToSet

\* A new action at the end of a segment is not there twice.
LEMMA AppendInjects ==
  ASSUME NEW seq \in Seq(Action), NEW a \in Action, IsInjective(seq), a \notin ToSet(seq)
  PROVE  IsInjective(Append(seq, a))
<1>1. DOMAIN Append(seq, a) = 1 .. (Len(seq) + 1) /\ DOMAIN seq = 1 .. Len(seq) /\ Len(seq) \in Nat
  OBVIOUS
<1>2. \A i \in 1 .. Len(seq) : Append(seq, a)[i] = seq[i] /\ seq[i] # a
  BY DEF ToSet
<1>3. Append(seq, a)[Len(seq) + 1] = a
  OBVIOUS
<1> QED
  BY <1>1, <1>2, <1>3 DEF IsInjective

\* Three ways to go on with a layout: a segment more, an action more in the last
\* segment, the segments of another layout.
LEMMA ListsAppend ==
  ASSUME NEW S, NEW ss, Lists(ss, S), NEW seg \in Seq(Action), seg # << >>, IsInjective(seg),
         ToSet(seg) \cap S = {}
  PROVE  Lists(Append(ss, seg), S \cup ToSet(seg))
<1> DEFINE n == Len(ss)
           t == Append(ss, seg)
<1>0. /\ n \in Nat /\ ss \in Seq(Seq(Action) \ {<< >>})
      /\ \A i \in 1 .. n : IsInjective(ss[i]) /\ ToSet(ss[i]) \subseteq S
      /\ \A i, j \in 1 .. n : i # j => ToSet(ss[i]) \cap ToSet(ss[j]) = {}
      /\ S = UNION {ToSet(ss[i]) : i \in 1 .. n}
  <2>1. DOMAIN ss = 1 .. n
    BY ListsFacts, Zenon
  <2> QED BY <2>1, ListsFacts, Zenon DEF Lists
<1>1. t \in Seq(Seq(Action) \ {<< >>}) /\ DOMAIN t = 1 .. (n + 1)
  BY <1>0
<1>2. (\A i \in 1 .. n : t[i] = ss[i]) /\ t[n + 1] = seg
  BY <1>0
<1>3. \A i \in 1 .. (n + 1) : i \in 1 .. n \/ i = n + 1
  BY <1>0
<1>4. \A i \in 1 .. n : i \in 1 .. (n + 1) /\ i # n + 1
  BY <1>0
<1>5. n + 1 \in 1 .. (n + 1)
  BY <1>0
<1> HIDE DEF n, t
<1>6. \A i \in 1 .. (n + 1) : IsInjective(t[i])
  BY <1>0, <1>2, <1>3, Zenon
<1>7. \A i, j \in 1 .. (n + 1) : i # j => ToSet(t[i]) \cap ToSet(t[j]) = {}
  <2> SUFFICES ASSUME NEW i \in 1 .. (n + 1), NEW j \in 1 .. (n + 1), i # j
               PROVE  ToSet(t[i]) \cap ToSet(t[j]) = {}
    OBVIOUS
  <2>1. CASE i \in 1 .. n /\ j \in 1 .. n
    BY <2>1, <1>0, <1>2, Zenon
  <2>2. CASE i \in 1 .. n /\ j = n + 1
    <3>1. ToSet(t[i]) \subseteq S /\ t[j] = seg
      BY <2>2, <1>0, <1>2, Zenon
    <3> QED BY <3>1
  <2>3. CASE i = n + 1 /\ j \in 1 .. n
    <3>1. ToSet(t[j]) \subseteq S /\ t[i] = seg
      BY <2>3, <1>0, <1>2, Zenon
    <3> QED BY <3>1
  <2> QED
    BY <2>1, <2>2, <2>3, <1>3, Zenon
<1>8. S \cup ToSet(seg) = UNION {ToSet(t[i]) : i \in 1 .. (n + 1)}
  <2>1. \A x : x \in S <=> \E i \in 1 .. n : x \in ToSet(ss[i])
    BY <1>0
  <2>2. \A x : x \in UNION {ToSet(t[i]) : i \in 1 .. (n + 1)} <=> \E i \in 1 .. (n + 1) : x \in ToSet(t[i])
    OBVIOUS
  <2>3. \A x : x \in S \cup ToSet(seg) <=> x \in UNION {ToSet(t[i]) : i \in 1 .. (n + 1)}
    BY <2>1, <2>2, <1>2, <1>3, <1>4, <1>5, Zenon
  <2> QED BY <2>3
<1> QED
  BY <1>1, <1>6, <1>7, <1>8, Zenon DEF Lists, t

\* An action that is nowhere goes to the last segment.
LEMMA ListsExtend ==
  ASSUME NEW S, NEW ss, Lists(ss, S), ss # << >>, NEW a \in Action, a \notin S
  PROVE  Lists([ss EXCEPT ![Len(ss)] = Append(@, a)], S \cup {a})
<1> DEFINE n == Len(ss)
           l == Append(ss[n], a)
           t == [ss EXCEPT ![n] = l]
<1>0. /\ n \in Nat /\ ss \in Seq(Seq(Action) \ {<< >>}) /\ ss \in Seq(Seq(Action))
      /\ \A i \in 1 .. n : ss[i] \in Seq(Action) /\ IsInjective(ss[i]) /\ ToSet(ss[i]) \subseteq S
      /\ \A i, j \in 1 .. n : i # j => ToSet(ss[i]) \cap ToSet(ss[j]) = {}
      /\ S = UNION {ToSet(ss[i]) : i \in 1 .. n}
  <2>1. DOMAIN ss = 1 .. n
    BY ListsFacts, Zenon
  <2> QED BY <2>1, ListsFacts, Zenon DEF Lists
<1>1. n \in 1 .. n
  BY <1>0
<1>2. l \in Seq(Action) \ {<< >>} /\ ToSet(l) = ToSet(ss[n]) \cup {a} /\ IsInjective(l)
  <2>1. ss[n] \in Seq(Action) /\ IsInjective(ss[n]) /\ a \notin ToSet(ss[n])
    BY <1>0, <1>1
  <2>2. ToSet(l) = ToSet(ss[n]) \cup {a} /\ IsInjective(l)
    BY <2>1, AppendRange, AppendInjects
  <2>3. l \in Seq(Action) /\ l # << >>
    BY <2>1, AppendProperties
  <2> QED BY <2>2, <2>3
<1>3. t \in Seq(Seq(Action) \ {<< >>}) /\ Len(t) = n /\ \A i \in 1 .. n : t[i] = IF i = n THEN l ELSE ss[i]
  <2> HIDE DEF l
  <2> QED BY <1>0, <1>1, <1>2, ExceptSeq
<1>4. DOMAIN t = 1 .. n
  BY <1>0, <1>3
<1> HIDE DEF n, l, t
<1>5. \A i \in 1 .. n : IsInjective(t[i])
  BY <1>0, <1>2, <1>3
<1>6. \A i, j \in 1 .. n : i # j => ToSet(t[i]) \cap ToSet(t[j]) = {}
  <2> SUFFICES ASSUME NEW i \in 1 .. n, NEW j \in 1 .. n, i # j
               PROVE  ToSet(t[i]) \cap ToSet(t[j]) = {}
    OBVIOUS
  <2>1. \A m \in 1 .. n : a \notin ToSet(ss[m])
    BY <1>0
  <2>2. CASE i = n
    <3>1. ToSet(t[i]) = ToSet(ss[n]) \cup {a} /\ t[j] = ss[j] /\ ToSet(ss[n]) \cap ToSet(ss[j]) = {}
      BY <1>0, <1>1, <1>2, <1>3, <2>2
    <3> QED BY <2>1, <3>1
  <2>3. CASE j = n
    <3>1. ToSet(t[j]) = ToSet(ss[n]) \cup {a} /\ t[i] = ss[i] /\ ToSet(ss[i]) \cap ToSet(ss[n]) = {}
      BY <1>0, <1>1, <1>2, <1>3, <2>3
    <3> QED BY <2>1, <3>1
  <2>4. CASE i # n /\ j # n
    BY <2>4, <1>0, <1>3
  <2> QED
    BY <2>2, <2>3, <2>4
<1>7. S \cup {a} = UNION {ToSet(t[i]) : i \in 1 .. n}
  <2>1. \A x : x \in S <=> \E i \in 1 .. n : x \in ToSet(ss[i])
    BY <1>0
  <2>2. \A x : x \in UNION {ToSet(t[i]) : i \in 1 .. n} <=> \E i \in 1 .. n : x \in ToSet(t[i])
    OBVIOUS
  <2>3. \A i \in 1 .. n : \A x : x \in ToSet(t[i]) <=> x \in ToSet(ss[i]) \/ (i = n /\ x = a)
    BY <1>2, <1>3
  <2>4. \A x : x \in S \cup {a} <=> x \in UNION {ToSet(t[i]) : i \in 1 .. n}
    BY <1>1, <2>1, <2>2, <2>3, Zenon
  <2> QED BY <2>4
<1>8. Lists(t, S \cup {a})
  BY <1>3, <1>4, <1>5, <1>6, <1>7, Zenon DEF Lists
<1> QED
  BY <1>8 DEF t, l, n

\* Placing an action that is nowhere lists it once, whatever the scope and the size.
LEMMA PlaceKeeps ==
  ASSUME NEW S, NEW ss, Lists(ss, S), NEW a \in Action, a \notin S, NEW scope, NEW size
  PROVE  Lists(PlaceAction(ss, a, scope, size), S \cup {a})
<1>1. Lists(Append(ss, << a >>), S \cup {a})
  <2>1. << a >> \in Seq(Action) /\ << a >> # << >> /\ DOMAIN << a >> = 1 .. 1 /\ << a >>[1] = a
    OBVIOUS
  <2>2. IsInjective(<< a >>) /\ ToSet(<< a >>) = {a}
    BY <2>1 DEF IsInjective, ToSet
  <2>3. ToSet(<< a >>) \cap S = {}
    BY <2>2
  <2>4. Lists(Append(ss, << a >>), S \cup ToSet(<< a >>))
    BY <2>1, <2>2, <2>3, ListsAppend
  <2> QED BY <2>2, <2>4
<1>2. ss # << >> => Lists([ss EXCEPT ![Len(ss)] = Append(@, a)], S \cup {a})
  BY ListsExtend
<1> QED
  BY <1>1, <1>2 DEF PlaceAction

\* Cutting a segment lists its actions once more, in chunks.
LEMMA CutKeeps ==
  ASSUME NEW S, NEW ss, Lists(ss, S), NEW seg \in Seq(Action), seg # << >>, IsInjective(seg),
         ToSet(seg) \cap S = {}, NEW scope, NEW size
  PROVE  Lists(CutSegment(ss, seg, scope, size), S \cup ToSet(seg))
<1> DEFINE n == Len(seg)
           Seen(k) == S \cup {seg[j] : j \in 1 .. k}
<1>1. n \in Nat /\ DOMAIN seg = 1 .. n /\ (\A k \in 1 .. n : seg[k] \in Action) /\ ss \in Seq(Seq(Action))
  BY ListsFacts
<1>2. PICK h : CutRun(h, ss, seg, scope, size)
  BY <1>1, CutSteps, Zenon
<1> DEFINE T == {k \in 0 .. n : Lists(h[k], Seen(k))}
<1>3. 0 \in T
  <2>1. Seen(0) = S
    OBVIOUS
  <2>2. h[0] = ss
    BY <1>2 DEF CutRun
  <2>3. 0 \in 0 .. n
    BY <1>1
  <2> HIDE DEF Seen, n
  <2> QED BY <2>1, <2>2, <2>3
<1>4. ASSUME NEW k \in 1 .. n, k - 1 \in T PROVE k \in T
  <2>1. h[k] = PlaceAction(h[k - 1], seg[k], scope, size)
    BY <1>2 DEF CutRun
  <2>2. seg[k] \in Action /\ seg[k] \notin Seen(k - 1)
    <3>0. \A j \in 1 .. (k - 1) : j \in 1 .. n /\ j # k
      BY <1>1
    <3>1. seg[k] \in ToSet(seg)
      BY <1>1 DEF ToSet
    <3>2. \A j \in 1 .. (k - 1) : seg[j] # seg[k]
      BY <1>1, <3>0 DEF IsInjective
    <3> QED BY <1>1, <3>1, <3>2
  <2>3. Seen(k) = Seen(k - 1) \cup {seg[k]}
    <3>1. \A j \in 1 .. k : j \in 1 .. (k - 1) \/ j = k
      OBVIOUS
    <3>2. k \in 1 .. k /\ \A j \in 1 .. (k - 1) : j \in 1 .. k
      OBVIOUS
    <3> QED BY <3>1, <3>2
  <2>4. Lists(h[k - 1], Seen(k - 1))
    BY <1>4
  <2> HIDE DEF Seen
  <2>5. Lists(h[k], Seen(k))
    BY <2>1, <2>2, <2>3, <2>4, PlaceKeeps
  <2> QED BY <2>5
<1>5. n \in T
  <2> HIDE DEF T
  <2> QED BY <1>1, <1>3, <1>4, PrefixInduction
<1>6. Seen(n) = S \cup ToSet(seg)
  BY <1>1 DEF ToSet
<1>7. Lists(h[n], S \cup ToSet(seg))
  BY <1>5, <1>6
<1>8. Lists(Append(ss, seg), S \cup ToSet(seg))
  BY ListsAppend
<1> QED
  BY <1>2, <1>7, <1>8 DEF CutRun

\* A row lists the actions it was handed, each once.
LEMMA RowKeeps ==
  ASSUME NEW S, NEW ss, Lists(ss, S), NEW ids, NEW row
  PROVE  Lists(ApplyRow(ids, ss, row), S)
<1> DEFINE n == Len(ss)
           Seen(k) == UNION {ToSet(ss[j]) : j \in 1 .. k}
<1>1. /\ n \in Nat /\ DOMAIN ss = 1 .. n /\ ss \in Seq(Seq(Action))
      /\ \A i \in 1 .. n : ss[i] \in Seq(Action) /\ ss[i] # << >> /\ IsInjective(ss[i])
      /\ \A i, j \in 1 .. n : i # j => ToSet(ss[i]) \cap ToSet(ss[j]) = {}
  BY ListsFacts, Zenon
<1>2. PICK scope : scope = IF row.scope = {} THEN ToSet(ids) ELSE row.scope
  OBVIOUS
<1>3. PICK h : RowRun(h, ids, ss, row, scope)
  BY <1>1, <1>2, RowSteps, Zenon
<1> DEFINE T == {k \in 0 .. n : Lists(h[k], Seen(k))}
<1>4. 0 \in T
  <2>1. Seen(0) = {} /\ h[0] = << >>
    BY <1>3 DEF RowRun
  <2>2. Lists(<< >>, {})
    BY DEF Lists
  <2>3. 0 \in 0 .. n
    BY <1>1
  <2> HIDE DEF Seen, n
  <2> QED BY <2>1, <2>2, <2>3
<1>5. ASSUME NEW k \in 1 .. n, k - 1 \in T PROVE k \in T
  <2>1. h[k] = CutSegment(h[k - 1], ss[k], scope, ChunkSize(row))
    BY <1>3 DEF RowRun
  <2>2. \A j \in 1 .. (k - 1) : j \in 1 .. n /\ j # k
    BY <1>1
  <2>3. ToSet(ss[k]) \cap Seen(k - 1) = {}
    <3>1. \A j \in 1 .. (k - 1) : ToSet(ss[k]) \cap ToSet(ss[j]) = {}
      BY <1>1, <2>2
    <3> QED BY <3>1
  <2>4. Seen(k) = Seen(k - 1) \cup ToSet(ss[k])
    <3>1. \A j \in 1 .. k : j \in 1 .. (k - 1) \/ j = k
      OBVIOUS
    <3>2. k \in 1 .. k /\ \A j \in 1 .. (k - 1) : j \in 1 .. k
      OBVIOUS
    <3> QED BY <3>1, <3>2
  <2>5. Lists(h[k - 1], Seen(k - 1))
    BY <1>5
  <2>6. ss[k] \in Seq(Action) /\ ss[k] # << >> /\ IsInjective(ss[k])
    BY <1>1
  <2> HIDE DEF Seen
  <2>7. Lists(CutSegment(h[k - 1], ss[k], scope, ChunkSize(row)), Seen(k - 1) \cup ToSet(ss[k]))
    BY <2>3, <2>5, <2>6, CutKeeps
  <2>8. Lists(h[k], Seen(k))
    BY <2>1, <2>4, <2>7
  <2> QED BY <2>8
<1>6. n \in T
  <2> HIDE DEF T
  <2> QED BY <1>1, <1>4, <1>5, PrefixInduction
<1>7. Seen(n) = S
  BY <1>1 DEF Lists
<1>8. Lists(h[n], S)
  BY <1>6, <1>7
<1> QED
  BY <1>3, <1>8 DEF RowRun

\* Reshaping a group lists its actions, each once.
LEMMA GroupKeeps ==
  ASSUME NEW ids \in Seq(Action), ids # << >>, IsInjective(ids), NEW R, NEW rows \in Seq(R)
  PROVE  Lists(ReshapeGroup(ids, rows), ToSet(ids))
<1> DEFINE n == Len(rows)
<1>1. n \in Nat
  OBVIOUS
<1>2. PICK h : GroupRun(h, ids, rows)
  BY GroupSteps, Zenon
<1> DEFINE T == {k \in 0 .. n : Lists(h[k], ToSet(ids))}
<1>3. 0 \in T
  <2>1. << ids >> \in Seq(Seq(Action) \ {<< >>}) /\ DOMAIN << ids >> = {1} /\ << ids >>[1] = ids
    OBVIOUS
  <2>2. Lists(<< ids >>, ToSet(ids))
    BY <2>1 DEF Lists
  <2>3. h[0] = << ids >> /\ 0 \in 0 .. n
    BY <1>1, <1>2 DEF GroupRun
  <2> HIDE DEF n
  <2> QED BY <2>2, <2>3
<1>4. ASSUME NEW k \in 1 .. n, k - 1 \in T PROVE k \in T
  <2>1. h[k] = ApplyRow(ids, h[k - 1], rows[k]) /\ Lists(h[k - 1], ToSet(ids))
    BY <1>2, <1>4 DEF GroupRun
  <2>2. Lists(h[k], ToSet(ids))
    BY <2>1, RowKeeps
  <2> QED BY <2>2
<1>5. n \in T
  <2> HIDE DEF T
  <2> QED BY <1>1, <1>3, <1>4, PrefixInduction
<1> QED
  BY <1>2, <1>5 DEF GroupRun

\* The places in two sequences put together.
LEMMA ConcatRange ==
  ASSUME NEW A, NEW s1 \in Seq(A), NEW s2 \in Seq(A)
  PROVE  /\ s1 \o s2 \in Seq(A) /\ DOMAIN (s1 \o s2) = 1 .. (Len(s1) + Len(s2))
         /\ \A i \in 1 .. (Len(s1) + Len(s2)) :
               \/ i \in 1 .. Len(s1) /\ (s1 \o s2)[i] = s1[i]
               \/ i - Len(s1) \in 1 .. Len(s2) /\ (s1 \o s2)[i] = s2[i - Len(s1)]
         /\ \A i \in 1 .. Len(s1) : i \in 1 .. (Len(s1) + Len(s2)) /\ (s1 \o s2)[i] = s1[i]
         /\ \A i \in 1 .. Len(s2) : i + Len(s1) \in 1 .. (Len(s1) + Len(s2)) /\ (s1 \o s2)[i + Len(s1)] = s2[i]
OBVIOUS

\* Two layouts without a common action, put together.
LEMMA ListsConcat ==
  ASSUME NEW S1, NEW s1, Lists(s1, S1), NEW S2, NEW s2, Lists(s2, S2), S1 \cap S2 = {}
  PROVE  Lists(s1 \o s2, S1 \cup S2)
<1> DEFINE n1 == Len(s1)
           n2 == Len(s2)
           t == s1 \o s2
           A == Seq(Action) \ {<< >>}
<1>1. /\ s1 \in Seq(A) /\ s2 \in Seq(A) /\ n1 \in Nat /\ n2 \in Nat
      /\ DOMAIN s1 = 1 .. n1 /\ DOMAIN s2 = 1 .. n2
      /\ \A i \in 1 .. n1 : IsInjective(s1[i]) /\ ToSet(s1[i]) \subseteq S1
      /\ \A i \in 1 .. n2 : IsInjective(s2[i]) /\ ToSet(s2[i]) \subseteq S2
      /\ \A i, j \in 1 .. n1 : i # j => ToSet(s1[i]) \cap ToSet(s1[j]) = {}
      /\ \A i, j \in 1 .. n2 : i # j => ToSet(s2[i]) \cap ToSet(s2[j]) = {}
  <2>1. /\ n1 \in Nat /\ DOMAIN s1 = 1 .. n1
        /\ \A i \in 1 .. n1 : IsInjective(s1[i]) /\ ToSet(s1[i]) \subseteq S1
        /\ \A i, j \in 1 .. n1 : i # j => ToSet(s1[i]) \cap ToSet(s1[j]) = {}
    BY ListsFacts
  <2>2. /\ n2 \in Nat /\ DOMAIN s2 = 1 .. n2
        /\ \A i \in 1 .. n2 : IsInjective(s2[i]) /\ ToSet(s2[i]) \subseteq S2
        /\ \A i, j \in 1 .. n2 : i # j => ToSet(s2[i]) \cap ToSet(s2[j]) = {}
    BY ListsFacts
  <2>3. s1 \in Seq(A) /\ s2 \in Seq(A)
    BY DEF Lists
  <2> QED BY <2>1, <2>2, <2>3
<1>2. S1 = UNION {ToSet(s1[i]) : i \in 1 .. n1} /\ S2 = UNION {ToSet(s2[i]) : i \in 1 .. n2}
  BY <1>1, Zenon DEF Lists
<1>3. /\ t \in Seq(A) /\ DOMAIN t = 1 .. (n1 + n2)
      /\ \A i \in 1 .. (n1 + n2) :
            \/ i \in 1 .. n1 /\ t[i] = s1[i]
            \/ i - n1 \in 1 .. n2 /\ t[i] = s2[i - n1]
      /\ \A i \in 1 .. n1 : i \in 1 .. (n1 + n2) /\ t[i] = s1[i]
      /\ \A i \in 1 .. n2 : i + n1 \in 1 .. (n1 + n2) /\ t[i + n1] = s2[i]
  <2> HIDE DEF A
  <2> QED BY <1>1, ConcatRange
<1>4. \A i, j \in 1 .. (n1 + n2) : i # j => i - n1 # j - n1
  BY <1>1
<1> HIDE DEF n1, n2, t, A
<1>5. \A i \in 1 .. (n1 + n2) : IsInjective(t[i])
  BY <1>1, <1>3, Zenon
<1>6. \A i, j \in 1 .. (n1 + n2) : i # j => ToSet(t[i]) \cap ToSet(t[j]) = {}
  <2> SUFFICES ASSUME NEW i \in 1 .. (n1 + n2), NEW j \in 1 .. (n1 + n2), i # j
               PROVE  ToSet(t[i]) \cap ToSet(t[j]) = {}
    OBVIOUS
  <2>1. CASE i \in 1 .. n1 /\ t[i] = s1[i]
    <3>1. CASE j \in 1 .. n1 /\ t[j] = s1[j]
      BY <2>1, <3>1, <1>1, Zenon
    <3>2. CASE j - n1 \in 1 .. n2 /\ t[j] = s2[j - n1]
      <4>1. ToSet(t[i]) \subseteq S1 /\ ToSet(t[j]) \subseteq S2
        BY <2>1, <3>2, <1>1, Zenon
      <4> QED BY <4>1
    <3> QED BY <3>1, <3>2, <1>3, Zenon
  <2>2. CASE i - n1 \in 1 .. n2 /\ t[i] = s2[i - n1]
    <3>1. CASE j \in 1 .. n1 /\ t[j] = s1[j]
      <4>1. ToSet(t[i]) \subseteq S2 /\ ToSet(t[j]) \subseteq S1
        BY <2>2, <3>1, <1>1, Zenon
      <4> QED BY <4>1
    <3>2. CASE j - n1 \in 1 .. n2 /\ t[j] = s2[j - n1]
      BY <2>2, <3>2, <1>1, <1>4, Zenon
    <3> QED BY <3>1, <3>2, <1>3, Zenon
  <2> QED BY <2>1, <2>2, <1>3, Zenon
<1>7. S1 \cup S2 = UNION {ToSet(t[i]) : i \in 1 .. (n1 + n2)}
  <2>1. \A x : (x \in S1 <=> \E i \in 1 .. n1 : x \in ToSet(s1[i]))
              /\ (x \in S2 <=> \E i \in 1 .. n2 : x \in ToSet(s2[i]))
    BY <1>2
  <2>2. \A x : x \in UNION {ToSet(t[i]) : i \in 1 .. (n1 + n2)}
              <=> \E i \in 1 .. (n1 + n2) : x \in ToSet(t[i])
    OBVIOUS
  <2>3. \A x : (\E i \in 1 .. (n1 + n2) : x \in ToSet(t[i])) => x \in S1 \/ x \in S2
    BY <1>3, <2>1, Zenon
  <2>4. \A x : x \in S1 \/ x \in S2 => \E i \in 1 .. (n1 + n2) : x \in ToSet(t[i])
    BY <1>3, <2>1, Zenon
  <2> QED BY <2>2, <2>3, <2>4
<1>8. Lists(t, S1 \cup S2)
  BY <1>3, <1>5, <1>6, <1>7, Zenon DEF Lists, A
<1> QED
  BY <1>8 DEF t

\* Reshaping a batch neither loses nor repeats an action.
LEMMA ReshapeKeeps ==
  ASSUME NEW S, NEW gs, Lists(gs, S), NEW R, NEW rows \in Seq(R)
  PROVE  Lists(Reshape(gs, rows), S)
<1> DEFINE n == Len(gs)
           Seen(k) == UNION {ToSet(gs[j]) : j \in 1 .. k}
<1>1. /\ n \in Nat /\ DOMAIN gs = 1 .. n /\ gs \in Seq(Seq(Action))
      /\ \A i \in 1 .. n : gs[i] \in Seq(Action) /\ gs[i] # << >> /\ IsInjective(gs[i])
      /\ \A i, j \in 1 .. n : i # j => ToSet(gs[i]) \cap ToSet(gs[j]) = {}
  BY ListsFacts, Zenon
<1>2. PICK h : ReshapeRun(h, gs, rows)
  BY <1>1, ReshapeSteps, Zenon
<1> DEFINE T == {k \in 0 .. n : Lists(h[k], Seen(k))}
<1>3. 0 \in T
  <2>1. Seen(0) = {} /\ h[0] = << >>
    BY <1>2 DEF ReshapeRun
  <2>2. Lists(<< >>, {})
    BY DEF Lists
  <2>3. 0 \in 0 .. n
    BY <1>1
  <2> HIDE DEF Seen, n
  <2> QED BY <2>1, <2>2, <2>3
<1>4. ASSUME NEW k \in 1 .. n, k - 1 \in T PROVE k \in T
  <2>1. h[k] = h[k - 1] \o ReshapeGroup(gs[k], rows)
    BY <1>2 DEF ReshapeRun
  <2>2. Lists(ReshapeGroup(gs[k], rows), ToSet(gs[k]))
    BY <1>1, GroupKeeps
  <2>3. Seen(k - 1) \cap ToSet(gs[k]) = {}
    <3>1. \A j \in 1 .. (k - 1) : j \in 1 .. n /\ j # k
      BY <1>1
    <3>2. \A j \in 1 .. (k - 1) : ToSet(gs[k]) \cap ToSet(gs[j]) = {}
      BY <1>1, <3>1
    <3> QED BY <3>2
  <2>4. Seen(k) = Seen(k - 1) \cup ToSet(gs[k])
    <3>1. \A j \in 1 .. k : j \in 1 .. (k - 1) \/ j = k
      OBVIOUS
    <3>2. k \in 1 .. k /\ \A j \in 1 .. (k - 1) : j \in 1 .. k
      OBVIOUS
    <3> QED BY <3>1, <3>2
  <2>5. Lists(h[k - 1], Seen(k - 1))
    BY <1>4
  <2> HIDE DEF Seen
  <2>6. Lists(h[k], Seen(k))
    BY <2>1, <2>2, <2>3, <2>4, <2>5, ListsConcat
  <2> QED BY <2>6
<1>5. n \in T
  <2> HIDE DEF T
  <2> QED BY <1>1, <1>3, <1>4, PrefixInduction
<1>6. Seen(n) = S
  BY <1>1 DEF Lists
<1>7. Lists(h[n], S)
  BY <1>5, <1>6
<1> QED
  BY <1>2, <1>7 DEF ReshapeRun

\* The serial actions of a group: each once, and exactly those it was to pick.
LEMMA OnlyKeeps ==
  ASSUME NEW s \in Seq(Action), IsInjective(s), NEW T
  PROVE  Only(s, T) \in Seq(Action) /\ IsInjective(Only(s, T)) /\ ToSet(Only(s, T)) = ToSet(s) \cap T
<1> DEFINE n == Len(s)
           Seen(k) == {s[j] : j \in 1 .. k}
<1>1. n \in Nat /\ DOMAIN s = 1 .. n /\ \A k \in 1 .. n : s[k] \in Action
  OBVIOUS
<1>2. PICK h : OnlyRun(h, s, T)
  BY OnlySteps, Zenon
<1> DEFINE Picked(k) == h[k] \in Seq(Action) /\ IsInjective(h[k]) /\ ToSet(h[k]) = Seen(k) \cap T
           U == {k \in 0 .. n : Picked(k)}
<1>3. 0 \in U
  <2>1. h[0] = << >> /\ Seen(0) = {} /\ 0 \in 0 .. n
    BY <1>1, <1>2 DEF OnlyRun
  <2>2. IsInjective(<< >>) /\ ToSet(<< >>) = {}
    BY DEF IsInjective, ToSet
  <2>3. h[0] \in Seq(Action) /\ Seen(0) \cap T = {}
    BY <2>1
  <2>4. Picked(0)
    <3> HIDE DEF Seen
    <3> QED BY <2>1, <2>2, <2>3
  <2> HIDE DEF Picked, n
  <2> QED BY <2>1, <2>4
<1>4. ASSUME NEW k \in 1 .. n, k - 1 \in U PROVE k \in U
  <2>1. h[k] = IF s[k] \in T THEN Append(h[k - 1], s[k]) ELSE h[k - 1]
    BY <1>2 DEF OnlyRun
  <2>2. s[k] \notin Seen(k - 1)
    <3>1. \A j \in 1 .. (k - 1) : j \in 1 .. n /\ j # k
      BY <1>1
    <3>2. \A j \in 1 .. (k - 1) : s[j] # s[k]
      BY <1>1, <3>1 DEF IsInjective
    <3> QED BY <3>2
  <2>3. Seen(k) = Seen(k - 1) \cup {s[k]}
    <3>1. \A j \in 1 .. k : j \in 1 .. (k - 1) \/ j = k
      OBVIOUS
    <3>2. k \in 1 .. k /\ \A j \in 1 .. (k - 1) : j \in 1 .. k
      OBVIOUS
    <3> QED BY <3>1, <3>2
  <2>4. Picked(k - 1) /\ k \in 0 .. n /\ s[k] \in Action
    BY <1>1, <1>4
  <2> HIDE DEF Seen, n
  <2>5. CASE s[k] \in T
    <3>1. h[k] \in Seq(Action) /\ ToSet(h[k]) = ToSet(h[k - 1]) \cup {s[k]} /\ IsInjective(h[k])
      BY <2>1, <2>2, <2>4, <2>5, AppendRange, AppendInjects, AppendProperties
    <3> QED BY <2>3, <2>4, <2>5, <3>1
  <2>6. CASE s[k] \notin T
    BY <2>1, <2>3, <2>4, <2>6
  <2> QED BY <2>5, <2>6
<1>5. n \in U
  <2> HIDE DEF U
  <2> QED BY <1>1, <1>3, <1>4, PrefixInduction
<1>6. Seen(n) = ToSet(s) /\ Only(s, T) = h[n]
  BY <1>1, <1>2 DEF ToSet, OnlyRun
<1> QED
  BY <1>5, <1>6

-----------------------------------------------------------------------------
(* No task is left behind                                                 *)

\* No task lives before the call.
LEMMA InitTasks == Init => TasksAccountedFor
BY DEF Init, TasksAccountedFor, TaskStage, LiveStage, Live, Phase

\* What GoOn leaves behind: at most the task of the action now awaited.
LEMMA GoOnTasks ==
    ASSUME NEW queue, GoOn(queue),
           task \in [Action -> TaskStage], \A a \in Action : ~Live(a)
    PROVE  /\ task' \in [Action -> TaskStage]
           /\ phase' \in {"group", "serial"}
           /\ phase' = "group" => \A a \in Action : ~Live(a)'
           /\ phase' = "serial" => \A a \in Action : Live(a)' => a = Head(queue)
<1>1. CASE queue = << >>
    BY <1>1 DEF GoOn, Live
<1>2. CASE queue # << >>
    BY <1>2 DEF GoOn, Live, TaskStage, LiveStage
<1> QED
    BY <1>1, <1>2

\* A task's step makes no other task live and leaves the runner where it is.
LEMMA TaskStepTasks ==
    ASSUME TasksAccountedFor, NEW a \in Action, TaskStep(a)
    PROVE  TasksAccountedFor'
<1>1. task' \in [Action -> TaskStage]
    BY DEF TasksAccountedFor, TaskStage, LiveStage, TaskStep, Steps, UnknownAction, StartAcquire,
           BeginExecution, Succeeds, Raises, RateLimited, RaisesAfterBackoff, Cancelled
<1>2. \A b \in Action : Live(b)' => Live(b)
    BY DEF TasksAccountedFor, LiveStage, Live, TaskStep, Steps, UnknownAction, StartAcquire,
           BeginExecution, Succeeds, Raises, RateLimited, RaisesAfterBackoff, Cancelled
<1>3. UNCHANGED << phase, parallel, serial, cancelled >>
    BY DEF TaskStep, Steps, UnknownAction, StartAcquire, BeginExecution, Succeeds, Raises,
           RateLimited, RaisesAfterBackoff, Cancelled, outcome
<1> QED
    BY <1>1, <1>2, <1>3 DEF TasksAccountedFor, Live

\* A step of the runner leaves a gather only with no task of it live.
LEMMA RunnerStepTasks ==
    ASSUME TasksAccountedFor, RunnerStep
    PROVE  TasksAccountedFor'
<1>1. CASE NextBatch
    BY <1>1 DEF NextBatch, pos, taskVars, outcome, TasksAccountedFor, Live, Phase
<1>2. CASE Coalesce
    BY <1>2 DEF Coalesce, taskVars, outcome, TasksAccountedFor, Live, Phase
<1>3. CASE GuardUnknown
    BY <1>3 DEF GuardUnknown, ReadyToRun, taskVars, TasksAccountedFor, Live, Phase
<1>4. CASE PlanDone
    BY <1>4 DEF PlanDone, taskVars, TasksAccountedFor, Live, Phase
<1>5. CASE RunGroup
    <2>1. /\ phase \in {"group", "coalescing"} /\ phase' = "parallel"
          /\ task' = [a \in Action |-> IF a \in parallel' THEN "created" ELSE task[a]]
        BY <1>5 DEF RunGroup, ReadyToRun
    <2>2. \A a \in Action : ~Live(a)
        BY <2>1 DEF TasksAccountedFor
    <2>3. task' \in [Action -> TaskStage]
        BY <2>1 DEF TasksAccountedFor, TaskStage, LiveStage
    <2>4. \A a \in Action : Live(a)' => a \in parallel'
        BY <2>1, <2>2 DEF Live
    <2> QED
        BY <2>1, <2>3, <2>4 DEF TasksAccountedFor, Phase
<1>6. CASE Gathered
    <2>1. /\ phase = "parallel" /\ GoOn(serial)
          /\ \A a \in parallel : task[a] = "ok"
          /\ serial' = serial
        BY <1>6 DEF Gathered
    <2>2. \A a \in Action : ~Live(a)
        BY <2>1 DEF TasksAccountedFor, Live, LiveStage
    <2>3. task \in [Action -> TaskStage]
        BY DEF TasksAccountedFor
    <2> QED
        BY <2>1, <2>2, <2>3, GoOnTasks DEF TasksAccountedFor, Phase
<1>7. CASE SerialDone
    <2>1. /\ phase = "serial" /\ GoOn(Tail(serial))
          /\ task[Head(serial)] = "ok"
          /\ serial' = Tail(serial)
        BY <1>7 DEF SerialDone
    <2>2. \A a \in Action : ~Live(a)
        BY <2>1 DEF TasksAccountedFor, Live, LiveStage
    <2>3. task \in [Action -> TaskStage]
        BY DEF TasksAccountedFor
    <2> QED
        BY <2>1, <2>2, <2>3, GoOnTasks DEF TasksAccountedFor, Phase
<1>8. CASE SerialRaises
    BY <1>8 DEF SerialRaises, taskVars, TasksAccountedFor, Live, LiveStage, Phase
<1>9. CASE GatherRaises
    BY <1>9 DEF GatherRaises, TasksAccountedFor, Live, Phase
<1>10. CASE Drained
    <2>1. \A a \in Action : ~Live(a)
        BY <1>10 DEF Drained, TasksAccountedFor
    <2> QED
        BY <1>10, <2>1 DEF Drained, taskVars, TasksAccountedFor, Live, Phase
<1>11. CASE CancelledGather
    BY <1>11 DEF CancelledGather, taskVars, TasksAccountedFor, Live, Phase
<1>12. CASE Finish \/ ExportRaises
    BY <1>12 DEF Finish, ExportRaises, taskVars, TasksAccountedFor, Live, Phase, outcome
<1> QED
    BY <1>1, <1>2, <1>3, <1>4, <1>5, <1>6, <1>7, <1>8, <1>9, <1>10, <1>11, <1>12 DEF RunnerStep

\* Only a cancellation of the call leaves live tasks behind.
LEMMA CallStepTasks ==
    ASSUME TasksAccountedFor, Call \/ CancelCall \/ CancelExport
    PROVE  TasksAccountedFor'
<1>1. CASE Call \/ CancelExport
    BY <1>1 DEF Call, CancelExport, pos, taskVars, outcome, TasksAccountedFor, Live, Phase
<1>2. CASE CancelCall
    BY <1>2 DEF CancelCall, TasksAccountedFor, Live, TaskStage, LiveStage, Phase
<1> QED
    BY <1>1, <1>2

\* TasksAccountedFor is inductive.
LEMMA StepTasks == TasksAccountedFor /\ [Next]_vars => TasksAccountedFor'
<1> SUFFICES ASSUME TasksAccountedFor, [Next]_vars PROVE TasksAccountedFor'
    OBVIOUS
<1>1. CASE UNCHANGED vars
    BY <1>1 DEF vars, TasksAccountedFor, Live
<1> QED
    BY <1>1, RunnerStepTasks, TaskStepTasks, CallStepTasks DEF Next, Ended

\* _run_parallel gathers, cancels and drains what it created before anything else
\* of the plan runs, whatever the plan, the guards and the order of the tasks.
THEOREM NothingLeftBehind == Spec => []NoTaskLeftBehind
<1>1. Init => TasksAccountedFor
    BY InitTasks
<1>2. TasksAccountedFor /\ [Next]_vars => TasksAccountedFor'
    BY StepTasks
<1>3. TasksAccountedFor => NoTaskLeftBehind
    BY DEF TasksAccountedFor, NoTaskLeftBehind, Phase
<1> QED
    BY <1>1, <1>2, <1>3, PTL DEF Spec

-----------------------------------------------------------------------------
\* Nobody is asked to stop before a task of the gather has failed or the call is
\* cancelled; a task that was cancelled without having been asked is the serial one
\* of a cancelled call.
BeginsAccountedFor ==
    /\ TasksAccountedFor
    /\ phase \in {"idle", "group", "coalescing", "parallel", "serial"} => asked = {}
    /\ asked # {} => cancelled \/ \E b \in parallel : task[b] = "error"
    /\ \A a \in Action : task[a] = "cancelled" =>
           a \in asked \/ (cancelled /\ phase \in {"exporting", "ended"})
    /\ \A a \in began : a \in Action /\ task[a] # "new"

\* A task ends as cancelled only when it was asked to.
LEMMA TaskStepBegins ==
    ASSUME BeginsAccountedFor, NEW a \in Action, TaskStep(a)
    PROVE  BeginsAccountedFor'
<1>1. UNCHANGED << phase, parallel, serial, cancelled, asked >>
    BY DEF TaskStep, Steps, UnknownAction, StartAcquire, BeginExecution, Succeeds, Raises,
           RateLimited, RaisesAfterBackoff, Cancelled, outcome
<1>2. task \in [Action -> TaskStage]
    BY DEF BeginsAccountedFor, TasksAccountedFor
<1>3. PICK to \in TaskStage \ {"new"} :
          /\ task' = [task EXCEPT ![a] = to]
          /\ Live(a)
          /\ to = "cancelled" => a \in asked
    BY DEF TaskStep, Steps, UnknownAction, StartAcquire, BeginExecution, Succeeds, Raises,
           RateLimited, RaisesAfterBackoff, Cancelled, Live, LiveStage, TaskStage
<1>4. began' = began \/ began' = began \union {a}
    BY DEF TaskStep, Steps, UnknownAction, StartAcquire, BeginExecution, Succeeds, Raises,
           RateLimited, RaisesAfterBackoff, Cancelled
<1>5. \A b \in Action : task'[b] = IF b = a THEN to ELSE task[b]
    BY <1>2, <1>3
<1>6. \A b \in parallel : task[b] = "error" => task'[b] = "error"
    BY <1>2, <1>3 DEF Live, LiveStage
<1>7. TasksAccountedFor'
    BY TaskStepTasks DEF BeginsAccountedFor
<1> QED
    BY <1>1, <1>3, <1>4, <1>5, <1>6, <1>7 DEF BeginsAccountedFor

\* GoOn cancels nothing and takes no task back to "new".
LEMMA GoOnBegins ==
    ASSUME NEW queue, GoOn(queue), task \in [Action -> TaskStage],
           \A a \in Action : task[a] # "cancelled"
    PROVE  /\ phase' \in {"group", "serial"}
           /\ \A a \in Action : task'[a] # "cancelled" /\ (task[a] # "new" => task'[a] # "new")
BY DEF GoOn

\* The runner asks tasks to stop only when one of the gather has failed.
LEMMA RunnerStepBegins ==
    ASSUME BeginsAccountedFor, RunnerStep
    PROVE  BeginsAccountedFor'
<1> TasksAccountedFor /\ TasksAccountedFor'
    BY RunnerStepTasks DEF BeginsAccountedFor
<1> task \in [Action -> TaskStage] /\ phase \in Phase
    BY DEF TasksAccountedFor
<1>1. CASE NextBatch \/ Coalesce \/ GuardUnknown \/ PlanDone
    BY <1>1 DEF NextBatch, Coalesce, GuardUnknown, PlanDone, ReadyToRun, pos, taskVars, outcome,
                BeginsAccountedFor
<1>2. CASE RunGroup
  <2>1. /\ phase \in {"group", "coalescing"} /\ phase' = "parallel"
        /\ task' = [a \in Action |-> IF a \in parallel' THEN "created" ELSE task[a]]
        /\ UNCHANGED << asked, began, cancelled >>
      BY <1>2 DEF RunGroup, ReadyToRun, outcome
  <2> QED
      BY <2>1 DEF BeginsAccountedFor
<1>3. CASE Gathered \/ SerialDone
  <2>1. /\ phase \in {"parallel", "serial"} /\ \E queue : GoOn(queue)
        /\ UNCHANGED << asked, began, cancelled >>
      BY <1>3 DEF Gathered, SerialDone, outcome
  <2>2. asked = {} /\ \A a \in Action : task[a] # "cancelled"
      BY <2>1 DEF BeginsAccountedFor
  <2>3. /\ phase' \in {"group", "serial"}
        /\ \A a \in Action : task'[a] # "cancelled" /\ (task[a] # "new" => task'[a] # "new")
      BY <2>1, <2>2, GoOnBegins
  <2> QED
      BY <2>1, <2>2, <2>3 DEF BeginsAccountedFor
<1>4. CASE GatherRaises
    BY <1>4 DEF GatherRaises, outcome, BeginsAccountedFor
<1>5. CASE Drained \/ SerialRaises \/ Finish \/ ExportRaises \/ CancelledGather
    BY <1>5 DEF Drained, SerialRaises, Finish, ExportRaises, CancelledGather, taskVars, outcome, BeginsAccountedFor
<1> QED
    BY <1>1, <1>2, <1>3, <1>4, <1>5 DEF RunnerStep

\* A cancelled call asks the tasks of its gather, or stops the serial one.
LEMMA CallStepBegins ==
    ASSUME BeginsAccountedFor, Call \/ CancelCall \/ CancelExport
    PROVE  BeginsAccountedFor'
<1> TasksAccountedFor /\ TasksAccountedFor'
    BY CallStepTasks DEF BeginsAccountedFor
<1>1. CASE Call \/ CancelExport
    BY <1>1 DEF Call, CancelExport, pos, taskVars, outcome, BeginsAccountedFor
<1>2. CASE CancelCall
  <2>1. task \in [Action -> TaskStage]
      BY DEF TasksAccountedFor
  <2>2. cancelled' /\ UNCHANGED << parallel, began >>
      BY <1>2 DEF CancelCall
  <2>3. CASE phase = "serial"
    <3>1. task' = [task EXCEPT ![Head(serial)] = "cancelled"]
          /\ phase' = "exporting" /\ asked' = asked
        BY <1>2, <2>3 DEF CancelCall
    <3> QED
        BY <2>1, <2>2, <3>1 DEF BeginsAccountedFor
  <2>4. CASE phase # "serial"
    <3>1. task' = task /\ phase' \in {"exporting", "cancelling", "draining"}
          /\ asked \subseteq asked'
        BY <1>2, <2>4 DEF CancelCall
    <3>2. \A a \in Action : task[a] = "cancelled" => a \in asked \/ phase \in {"exporting", "ended"}
        BY DEF BeginsAccountedFor
    <3>3. phase \notin {"exporting", "ended"}
        BY <1>2 DEF CancelCall
    <3> QED
        BY <2>2, <3>1, <3>2, <3>3 DEF BeginsAccountedFor
  <2> QED
      BY <2>3, <2>4
<1> QED
    BY <1>1, <1>2

\* BeginsAccountedFor is inductive.
LEMMA StepBegins == BeginsAccountedFor /\ [Next]_vars => BeginsAccountedFor'
<1> SUFFICES ASSUME BeginsAccountedFor, [Next]_vars PROVE BeginsAccountedFor'
    OBVIOUS
<1>1. CASE UNCHANGED vars
    BY <1>1, StepTasks DEF vars, BeginsAccountedFor
<1> QED
    BY <1>1, RunnerStepBegins, TaskStepBegins, CallStepBegins DEF Next, Ended

\* For every plan, when a call that was not cancelled has ended, every BEGIN event is
\* followed by END or EXCEPTION, or is one of a task that was stopped for a failed one.
THEOREM EveryBeginClosed == Spec => []BeginsAreClosed
<1>1. Init => BeginsAccountedFor
    BY InitTasks DEF Init, BeginsAccountedFor
<1>2. BeginsAccountedFor /\ [Next]_vars => BeginsAccountedFor'
    BY StepBegins
<1>3. BeginsAccountedFor => BeginsAreClosed
    BY DEF BeginsAccountedFor, TasksAccountedFor, BeginsAreClosed, TaskStage, Live
<1> QED
    BY <1>1, <1>2, <1>3, PTL DEF Spec

-----------------------------------------------------------------------------
(* The runner keeps the contract                                           *)

\* The group the runner is at, its serial and its parallel actions.
Ids   == Segments(batch)[group]
Queue == Serial(batch, Ids)
Team  == Parallel(batch, Ids)

\* The runner is still on its way through the plan; its next group is still untouched.
OnTheWay == {"idle", "group", "coalescing", "parallel", "serial"}
Ahead    == {"idle", "group", "coalescing"}

\* The place the runner has come to.
Now == << batch, group, IF phase = "serial" THEN Len(Queue) - Len(serial) + 1 ELSE 0 >>

\* The position lies in the plan, and what is left of the group is what it was split into.
PositionKept ==
    /\ batch \in Nat \ {0} /\ group \in Nat \ {0}
    /\ phase \in {"coalescing", "parallel", "draining", "cancelling", "serial"} =>
           batch <= Len(Plan) /\ group <= Len(Segments(batch))
    /\ phase \in {"parallel", "draining", "cancelling"} => parallel = Team
    /\ phase = "parallel" => serial = Queue
    /\ phase = "serial" =>
           /\ serial \in Seq(Action) /\ serial # << >> /\ Len(serial) <= Len(Queue)
           /\ \A j \in 1 .. Len(serial) : serial[j] = Queue[Len(Queue) - Len(serial) + j]

\* What lies before the runner's place has succeeded, what lies behind has not begun.
WalkKept ==
    phase \in OnTheWay =>
        \A p \in Places : \A x \in RunsAt(p) :
            /\ Before(p, Now) => task[x] = "ok"
            /\ Before(Now, p) => task[x] = "new"
            /\ p = Now /\ phase \in Ahead => task[x] = "new"

\* An action has a task only when everything before it in the promised order succeeded.
StartsKept ==
    \A x, y \in Action : << x, y >> \in order /\ task[y] # "new" => task[x] = "ok"

\* "ok" at the end means that everything succeeded, "error" that something failed or was not begun.
StatusKept ==
    /\ status \in {"ok", "error"}
    /\ status = "ok" /\ phase \in {"exporting", "ended"} /\ ~cancelled => \A x \in Action : task[x] = "ok"
    /\ status = "error" => /\ phase \in {"exporting", "ended"}
                           /\ \E x \in Action : task[x] \in {"new", "error"}
    /\ phase = "draining" => \E x \in parallel : task[x] = "error"
    /\ phase # "ended" => runEnd = "none"
    /\ phase = "ended" /\ ~cancelled => runEnd \in {status, "none"}

\* Which stages of a task lie before its BEGIN and which behind it.
StagesKept ==
    /\ began \subseteq Action
    /\ \A x \in Action : task[x] \in {"new", "created", "acquiring"} => x \notin began
    /\ \A x \in Action : task[x] \in {"executing", "noting", "ok"} => x \in began

\* The inductive invariant of the refinement.
ContractInv ==
    /\ TasksAccountedFor
    /\ order = PromisedOrder
    /\ PositionKept /\ WalkKept /\ StartsKept /\ StatusKept /\ StagesKept

-----------------------------------------------------------------------------
(* Where an action runs                                                    *)

\* The plan and its rows are sequences.
LEMMA PlanTyped ==
  /\ Len(Plan) \in Nat /\ DOMAIN Plan = 1 .. Len(Plan)
  /\ \A b \in 1 .. Len(Plan) : Plan[b].fallback \in Seq(FallbackRow)
<1>1. Plan \in Seq(BatchRecord)
  BY PlanAssumption
<1>2. \A x \in BatchRecord : x.fallback \in Seq(FallbackRow)
  BY DEF BatchRecord
<1> HIDE DEF BatchRecord
<1> QED
  BY <1>1, <1>2

\* How a group is split: every action of it once, in parallel or in the queue.
LEMMA SplitFacts ==
  ASSUME NEW b, NEW ids \in Seq(Action), IsInjective(ids)
  PROVE  /\ Serial(b, ids) \in Seq(Action) /\ IsInjective(Serial(b, ids))
         /\ ToSet(Serial(b, ids)) \subseteq ToSet(ids)
         /\ Parallel(b, ids) = ToSet(ids) \ ToSet(Serial(b, ids))
<1>1. \A T : Only(ids, T) \in Seq(Action) /\ IsInjective(Only(ids, T)) /\ ToSet(Only(ids, T)) \subseteq ToSet(ids)
  BY OnlyKeeps
<1>2. Serial(b, ids) = ids \/ \E T : Serial(b, ids) = Only(ids, T)
  BY DEF Serial, SerialIds
<1>3. Parallel(b, ids) = ToSet(ids) \ ToSet(Serial(b, ids))
  BY DEF Parallel, ParallelIds, Serial
<1> QED
  BY <1>1, <1>2, <1>3

\* The segments of a batch list its actions, each once.
LEMMA SegmentFacts ==
  ASSUME PlansOnce, NEW b \in 1 .. Len(Plan)
  PROVE  /\ Lists(Segments(b), ActionsOf(b))
         /\ Len(Segments(b)) \in Nat /\ DOMAIN Segments(b) = 1 .. Len(Segments(b))
         /\ \A i \in 1 .. Len(Segments(b)) :
               /\ Segments(b)[i] \in Seq(Action) /\ Segments(b)[i] # << >> /\ IsInjective(Segments(b)[i])
               /\ ToSet(Segments(b)[i]) \subseteq ActionsOf(b)
         /\ \A i, j \in 1 .. Len(Segments(b)) :
               i # j => ToSet(Segments(b)[i]) \cap ToSet(Segments(b)[j]) = {}
<1>1. Lists(Plan[b].groups, ActionsOf(b)) /\ Plan[b].fallback \in Seq(FallbackRow)
  BY PlanTyped DEF PlansOnce
<1>2. Lists(Segments(b), ActionsOf(b))
  BY <1>1, ReshapeKeeps DEF Segments
<1> QED
  BY <1>2, ListsFacts

\* Membership in Places, without the unions.
IsPlace(b, i, k) ==
    /\ b \in 1 .. Len(Plan) /\ i \in 1 .. Len(Segments(b))
    /\ k \in 0 .. Len(Serial(b, Segments(b)[i]))

\* Places by membership.
LEMMA PlaceFacts ==
  ASSUME PlansOnce
  PROVE  /\ \A b, i, k : IsPlace(b, i, k) => << b, i, k >> \in Places
         /\ \A p \in Places : \E b, i, k : IsPlace(b, i, k) /\ p = << b, i, k >>
<1>1. DOMAIN Plan = 1 .. Len(Plan)
  BY PlanTyped
<1>2. \A b \in 1 .. Len(Plan) : DOMAIN Segments(b) = 1 .. Len(Segments(b))
  BY SegmentFacts
<1>3. \A p : p \in Places <=>
          \E b \in DOMAIN Plan : \E i \in DOMAIN Segments(b) :
              \E k \in 0 .. Len(Serial(b, Segments(b)[i])) : p = << b, i, k >>
  BY DEF Places
<1>4. \A b, i, k : IsPlace(b, i, k) => << b, i, k >> \in Places
  BY <1>1, <1>2, <1>3, Zenon DEF IsPlace
<1>5. ASSUME NEW p \in Places PROVE \E b, i, k : IsPlace(b, i, k) /\ p = << b, i, k >>
  <2>1. PICK b \in DOMAIN Plan : \E i \in DOMAIN Segments(b) :
              \E k \in 0 .. Len(Serial(b, Segments(b)[i])) : p = << b, i, k >>
    BY <1>3, <1>5
  <2>2. PICK i \in DOMAIN Segments(b) : \E k \in 0 .. Len(Serial(b, Segments(b)[i])) : p = << b, i, k >>
    BY <2>1
  <2>3. PICK k \in 0 .. Len(Serial(b, Segments(b)[i])) : p = << b, i, k >>
    BY <2>2
  <2>4. IsPlace(b, i, k)
    BY <1>1, <1>2 DEF IsPlace
  <2> QED BY <2>3, <2>4
<1> QED
  BY <1>4, <1>5

\* What runs at a place is in its segment.
LEMMA RunsAtFacts ==
  ASSUME PlansOnce, NEW b, NEW i, NEW k, IsPlace(b, i, k)
  PROVE  /\ RunsAt(<< b, i, k >>) \subseteq ToSet(Segments(b)[i])
         /\ k = 0 => RunsAt(<< b, i, k >>) = Parallel(b, Segments(b)[i])
         /\ k # 0 => /\ Serial(b, Segments(b)[i])[k] \in ToSet(Serial(b, Segments(b)[i]))
                     /\ RunsAt(<< b, i, k >>) = {Serial(b, Segments(b)[i])[k]}
<1>1. Segments(b)[i] \in Seq(Action) /\ IsInjective(Segments(b)[i])
  BY SegmentFacts DEF IsPlace
<1>2. /\ Serial(b, Segments(b)[i]) \in Seq(Action)
      /\ ToSet(Serial(b, Segments(b)[i])) \subseteq ToSet(Segments(b)[i])
      /\ Parallel(b, Segments(b)[i]) = ToSet(Segments(b)[i]) \ ToSet(Serial(b, Segments(b)[i]))
  BY <1>1, SplitFacts
<1>3. k # 0 => Serial(b, Segments(b)[i])[k] \in ToSet(Serial(b, Segments(b)[i]))
  BY <1>2 DEF ToSet, IsPlace
<1>4. /\ k = 0 => RunsAt(<< b, i, k >>) = Parallel(b, Segments(b)[i])
      /\ k # 0 => RunsAt(<< b, i, k >>) = {Serial(b, Segments(b)[i])[k]}
  BY DEF RunsAt
<1> QED
  BY <1>2, <1>3, <1>4

\* No action runs at two places.
LEMMA OnePlace ==
  ASSUME PlansOnce, NEW p \in Places, NEW q \in Places, NEW x \in RunsAt(p), x \in RunsAt(q)
  PROVE  p = q
<1>1. PICK b, i, k : IsPlace(b, i, k) /\ p = << b, i, k >>
  BY PlaceFacts
<1>2. PICK c, j, l : IsPlace(c, j, l) /\ q = << c, j, l >>
  BY PlaceFacts
<1>3. b \in 1 .. Len(Plan) /\ i \in 1 .. Len(Segments(b)) /\ c \in 1 .. Len(Plan) /\ j \in 1 .. Len(Segments(c))
  BY <1>1, <1>2 DEF IsPlace
<1>4. x \in ToSet(Segments(b)[i]) /\ x \in ToSet(Segments(c)[j])
  BY <1>1, <1>2, RunsAtFacts
<1>5. b = c
  <2>1. x \in ActionsOf(b) /\ x \in ActionsOf(c)
    BY <1>3, <1>4, SegmentFacts
  <2> QED BY <1>3, <2>1, PlanTyped DEF PlansOnce
<1>6. i = j
  BY <1>3, <1>4, <1>5, SegmentFacts
<1> DEFINE queue == Serial(b, Segments(b)[i])
<1>7. queue \in Seq(Action) /\ IsInjective(queue) /\ Parallel(b, Segments(b)[i]) \cap ToSet(queue) = {}
  <2>1. Segments(b)[i] \in Seq(Action) /\ IsInjective(Segments(b)[i])
    BY <1>3, SegmentFacts
  <2> QED BY <2>1, SplitFacts
<1>8. (k = 0 => x \in Parallel(b, Segments(b)[i])) /\ (k # 0 => x = queue[k] /\ x \in ToSet(queue))
  BY <1>1, RunsAtFacts
<1>9. (l = 0 => x \in Parallel(b, Segments(b)[i])) /\ (l # 0 => x = queue[l] /\ x \in ToSet(queue))
  BY <1>2, <1>5, <1>6, RunsAtFacts
<1>10. l \in 0 .. Len(queue) /\ k \in 0 .. Len(queue)
  BY <1>1, <1>2, <1>5, <1>6 DEF IsPlace
<1> HIDE DEF queue
<1>11. k = l
  BY <1>7, <1>8, <1>9, <1>10 DEF IsInjective
<1> QED
  BY <1>1, <1>2, <1>5, <1>6, <1>11

\* Every action runs somewhere, and only actions do.
LEMMA SomePlace ==
  ASSUME PlansOnce
  PROVE  /\ \A x \in Action : \E p \in Places : x \in RunsAt(p)
         /\ \A p \in Places : RunsAt(p) \subseteq Action
<1>1. ASSUME NEW x \in Action PROVE \E p \in Places : x \in RunsAt(p)
  <2>1. PICK b \in 1 .. Len(Plan) : x \in ActionsOf(b)
    BY PlanTyped DEF PlansOnce
  <2>2. PICK i \in 1 .. Len(Segments(b)) : x \in ToSet(Segments(b)[i])
    <3>1. Lists(Segments(b), ActionsOf(b)) /\ DOMAIN Segments(b) = 1 .. Len(Segments(b))
      BY SegmentFacts
    <3>2. ActionsOf(b) = UNION {ToSet(Segments(b)[i]) : i \in 1 .. Len(Segments(b))}
      BY <3>1, Zenon DEF Lists
    <3> QED BY <2>1, <3>2
  <2> DEFINE ids == Segments(b)[i]
             queue == Serial(b, ids)
  <2>3. ids \in Seq(Action) /\ IsInjective(ids)
    BY SegmentFacts
  <2>4. queue \in Seq(Action) /\ Parallel(b, ids) = ToSet(ids) \ ToSet(queue)
    BY <2>3, SplitFacts
  <2>5. CASE x \in ToSet(queue)
    <3>1. PICK k \in 1 .. Len(queue) : x = queue[k]
      BY <2>4, <2>5 DEF ToSet
    <3>2. IsPlace(b, i, k) /\ k # 0
      BY <3>1 DEF IsPlace
    <3>3. x \in RunsAt(<< b, i, k >>)
      BY <3>1, <3>2, RunsAtFacts
    <3>4. << b, i, k >> \in Places
      BY <3>2, PlaceFacts
    <3> QED BY <3>3, <3>4
  <2>6. CASE x \notin ToSet(queue)
    <3>1. IsPlace(b, i, 0)
      BY <2>4 DEF IsPlace
    <3>2. x \in RunsAt(<< b, i, 0 >>)
      BY <2>2, <2>4, <2>6, <3>1, RunsAtFacts
    <3>3. << b, i, 0 >> \in Places
      BY <3>1, PlaceFacts
    <3> QED BY <3>2, <3>3
  <2> QED BY <2>5, <2>6
<1>2. ASSUME NEW p \in Places PROVE RunsAt(p) \subseteq Action
  <2>1. PICK b, i, k : IsPlace(b, i, k) /\ p = << b, i, k >>
    BY PlaceFacts
  <2>2. b \in 1 .. Len(Plan) /\ i \in 1 .. Len(Segments(b))
    BY <2>1 DEF IsPlace
  <2>3. RunsAt(p) \subseteq ToSet(Segments(b)[i]) /\ Segments(b)[i] \in Seq(Action)
    BY <2>1, <2>2, RunsAtFacts, SegmentFacts
  <2> QED BY <2>3 DEF ToSet
<1> QED
  BY <1>1, <1>2

\* For every plan and all guard values: the runner's layout gives every action one place.
THEOREM OnePlaceEach ==
  PlansOnce => \A x \in Action : \E p \in Places : /\ x \in RunsAt(p)
                                                  /\ \A q \in Places : x \in RunsAt(q) => q = p
<1> SUFFICES ASSUME PlansOnce, NEW x \in Action
             PROVE  \E p \in Places : x \in RunsAt(p) /\ \A q \in Places : x \in RunsAt(q) => q = p
  OBVIOUS
<1>1. PICK p \in Places : x \in RunsAt(p)
  BY SomePlace
<1>2. \A q \in Places : x \in RunsAt(q) => q = p
  BY <1>1, OnePlace
<1> QED
  BY <1>1, <1>2

\* The guard values do not change during a call, and so neither do the places.
LEMMA PlacesFixed ==
  ASSUME UNCHANGED guardValue
  PROVE  /\ Places' = Places /\ PromisedOrder' = PromisedOrder
         /\ \A p : RunsAt(p)' = RunsAt(p)
         /\ \A b, ids : Serial(b, ids)' = Serial(b, ids) /\ Parallel(b, ids)' = Parallel(b, ids)
<1>1. \A b : FailedScopes(b)' = FailedScopes(b)
  BY DEF FailedScopes
<1>2. \A b, ids : Serial(b, ids)' = Serial(b, ids) /\ Parallel(b, ids)' = Parallel(b, ids)
  BY <1>1 DEF Serial, Parallel
<1>3. Places' = Places
  BY <1>2 DEF Places
<1>4. \A p : RunsAt(p)' = RunsAt(p)
  BY <1>2 DEF RunsAt
<1>5. PromisedOrder' = PromisedOrder
  BY <1>3, <1>4 DEF PromisedOrder
<1> QED
  BY <1>2, <1>3, <1>4, <1>5

\* The group the runner is at.
LEMMA HereFacts ==
  ASSUME PlansOnce, batch \in 1 .. Len(Plan), group \in 1 .. Len(Segments(batch))
  PROVE  /\ Ids # << >> /\ Ids \in Seq(Action)
         /\ Queue \in Seq(Action) /\ Team \subseteq Action
         /\ ToSet(Ids) = Team \cup ToSet(Queue)
         /\ RunsAt(<< batch, group, 0 >>) = Team
         /\ \A k \in 1 .. Len(Queue) : RunsAt(<< batch, group, k >>) = {Queue[k]}
         /\ \A k \in 0 .. Len(Queue) : << batch, group, k >> \in Places
         /\ \A k : << batch, group, k >> \in Places => k \in 0 .. Len(Queue)
<1>1. Ids \in Seq(Action) /\ Ids # << >> /\ IsInjective(Ids)
  BY SegmentFacts DEF Ids
<1>2. Queue \in Seq(Action) /\ ToSet(Queue) \subseteq ToSet(Ids) /\ Team = ToSet(Ids) \ ToSet(Queue)
  BY <1>1, SplitFacts DEF Queue, Team
<1>3. ToSet(Ids) \subseteq Action
  BY <1>1 DEF ToSet
<1>4. \A k \in 0 .. Len(Queue) : IsPlace(batch, group, k)
  BY DEF IsPlace, Queue, Ids
<1>5. 0 \in 0 .. Len(Queue) /\ \A k \in 1 .. Len(Queue) : k \in 0 .. Len(Queue) /\ k # 0
  BY <1>2
<1>6. RunsAt(<< batch, group, 0 >>) = Team
  BY <1>4, <1>5, RunsAtFacts DEF Team, Ids
<1>7. \A k \in 1 .. Len(Queue) : RunsAt(<< batch, group, k >>) = {Queue[k]}
  BY <1>4, <1>5, RunsAtFacts DEF Queue, Ids
<1>8. \A k \in 0 .. Len(Queue) : << batch, group, k >> \in Places
  BY <1>4, PlaceFacts
<1>9. ASSUME NEW k, << batch, group, k >> \in Places PROVE k \in 0 .. Len(Queue)
  <2>1. PICK b, i, l : IsPlace(b, i, l) /\ << batch, group, k >> = << b, i, l >>
    BY <1>9, PlaceFacts
  <2> QED BY <2>1 DEF IsPlace, Queue, Ids
<1> QED
  BY <1>1, <1>2, <1>3, <1>6, <1>7, <1>8, <1>9

\* The group the runner is at stays the same while its position and the guards do.
LEMMA HereFixed ==
  ASSUME UNCHANGED << guardValue, batch, group >>
  PROVE  Ids' = Ids /\ Queue' = Queue /\ Team' = Team
<1>1. Ids' = Ids
  BY DEF Ids, Segments
<1>2. Queue' = Queue
  BY <1>1 DEF Queue, Serial, FailedScopes
<1>3. Team' = Team
  BY <1>1 DEF Team, Parallel, FailedScopes
<1> QED
  BY <1>1, <1>2, <1>3

\* Places are triples of numbers, ordered one after the other.
LEMMA PlaceTriple ==
  ASSUME PlansOnce, NEW p \in Places
  PROVE  /\ p = << p[1], p[2], p[3] >>
         /\ p[1] \in 1 .. Len(Plan) /\ p[2] \in 1 .. Len(Segments(p[1])) /\ p[3] \in Nat
<1>1. PICK b, i, k : IsPlace(b, i, k) /\ p = << b, i, k >>
  BY PlaceFacts
<1>2. Len(Plan) \in Nat /\ \A c \in 1 .. Len(Plan) : Len(Segments(c)) \in Nat
  BY PlanTyped, SegmentFacts
<1>3. Serial(b, Segments(b)[i]) \in Seq(Action)
  BY <1>1, SegmentFacts, SplitFacts DEF IsPlace
<1>4. k \in Nat
  BY <1>1, <1>3 DEF IsPlace
<1> QED
  BY <1>1, <1>4 DEF IsPlace

\* Three numbers: batch, segment, place in the queue.
Triple == Nat \X Nat \X Nat

\* Of two places one is before the other, or they are the same.
LEMMA BeforeTotal ==
  /\ \A p, q \in Triple : Before(p, q) \/ p = q \/ Before(q, p)
  /\ \A p, q, r \in Triple : Before(p, q) /\ Before(q, r) => Before(p, r)
<1>1. \A p \in Triple : p = << p[1], p[2], p[3] >> /\ p[1] \in Nat /\ p[2] \in Nat /\ p[3] \in Nat
  BY DEF Triple
<1> HIDE DEF Triple
<1> QED
  BY <1>1 DEF Before

\* The places and the runner's own are such triples.
LEMMA PlacesTriples ==
  ASSUME PlansOnce, PositionKept
  PROVE  Places \subseteq Triple /\ Now \in Triple
<1>1. Places \subseteq Triple
  <2> SUFFICES ASSUME NEW p \in Places PROVE p \in Triple
    OBVIOUS
  <2>1. Len(Plan) \in Nat /\ Len(Segments(p[1])) \in Nat
    BY PlanTyped, PlaceTriple, SegmentFacts
  <2> QED BY <2>1, PlaceTriple DEF Triple
<1>2. CASE phase = "serial"
  <2>1. batch \in 1 .. Len(Plan) /\ group \in 1 .. Len(Segments(batch))
    BY <1>2, PlanTyped, SegmentFacts DEF PositionKept
  <2>2. Len(Queue) \in Nat
    BY <2>1, HereFacts
  <2>3. Len(serial) \in Nat /\ Len(serial) <= Len(Queue)
    BY <1>2 DEF PositionKept
  <2> QED BY <1>1, <2>1, <2>2, <2>3 DEF Now, Triple, PositionKept
<1>3. CASE phase # "serial"
  BY <1>1, <1>3 DEF Now, Triple, PositionKept
<1> QED
  BY <1>2, <1>3

\* On the way through the plan, what has begun had everything before it done.
LEMMA StartsFollow ==
  PlansOnce =>
      (order = PromisedOrder /\ PositionKept /\ WalkKept /\ phase \in OnTheWay => StartsKept)
<1> SUFFICES ASSUME PlansOnce, order = PromisedOrder, PositionKept, WalkKept, phase \in OnTheWay,
                    NEW x \in Action, NEW y \in Action, << x, y >> \in order, task[y] # "new"
             PROVE  task[x] = "ok"
  BY DEF StartsKept
<1>1. PICK p \in Places, q \in Places : Before(p, q) /\ x \in RunsAt(p) /\ y \in RunsAt(q)
  BY DEF PromisedOrder
<1>2. ~ Before(Now, q)
  BY <1>1 DEF WalkKept
<1>3. p \in Triple /\ q \in Triple /\ Now \in Triple
  BY PlacesTriples
<1>4. Before(p, Now)
  BY <1>1, <1>2, <1>3, BeforeTotal
<1> QED
  BY <1>1, <1>4 DEF WalkKept

\* WalkKept is kept while the runner stays where it is and tasks only move on.
LEMMA WalkSame ==
  ASSUME PlansOnce, WalkKept, UNCHANGED guardValue, Now' = Now, phase \in OnTheWay,
         phase' \in Ahead => phase \in Ahead,
         \A x \in Action : (task[x] = "ok" => task'[x] = "ok") /\ (task[x] = "new" => task'[x] = "new")
  PROVE  WalkKept'
<1>1. Places' = Places /\ \A p : RunsAt(p)' = RunsAt(p)
  BY PlacesFixed
<1>2. \A p \in Places : RunsAt(p) \subseteq Action
  BY SomePlace
<1> QED
  BY <1>1, <1>2 DEF WalkKept, Before, OnTheWay, Ahead

\* A step of a task moves a live one on.
LEMMA TaskStepMoves ==
  ASSUME task \in [Action -> TaskStage], NEW x \in Action, TaskStep(x)
  PROVE  /\ UNCHANGED << callVars, phase, batch, group, waited, parallel, serial, status, cancelled, runEnd >>
         /\ Live(x) /\ \A y \in Action : y # x => task'[y] = task[y]
         /\ task'[x] \in TaskStage \ {"new"} /\ DOMAIN task' = Action
BY DEF TaskStep, Steps, UnknownAction, StartAcquire, BeginExecution, Succeeds, Raises, RateLimited,
       RaisesAfterBackoff, Cancelled, Live, LiveStage, TaskStage, pos, outcome, callVars

\* A task's step keeps it: the task is live, so it is neither new nor done.
LEMMA TaskStepWalk ==
  ASSUME PlansOnce, ContractInv, NEW x \in Action, TaskStep(x)
  PROVE  PositionKept' /\ WalkKept'
<1>1. task \in [Action -> TaskStage]
  BY DEF ContractInv, TasksAccountedFor
<1>2. /\ UNCHANGED << guardValue, phase, batch, group, parallel, serial >>
      /\ Live(x) /\ DOMAIN task' = Action /\ \A y \in Action : y # x => task'[y] = task[y]
  BY <1>1, TaskStepMoves DEF callVars
<1>3. Ids' = Ids /\ Queue' = Queue /\ Team' = Team
  BY <1>2, HereFixed
<1>4. PositionKept'
  BY <1>2, <1>3 DEF PositionKept, ContractInv
<1>5. Now' = Now
  BY <1>2, <1>3 DEF Now
<1>6. \A y \in Action : (task[y] = "ok" => task'[y] = "ok") /\ (task[y] = "new" => task'[y] = "new")
  BY <1>2 DEF Live, LiveStage
<1>7. WalkKept'
  <2>1. CASE phase \in OnTheWay
    BY <1>2, <1>5, <1>6, <2>1, WalkSame DEF ContractInv
  <2>2. CASE phase \notin OnTheWay
    BY <1>2, <2>2 DEF WalkKept, OnTheWay
  <2> QED BY <2>1, <2>2
<1> QED
  BY <1>4, <1>7

\* A step of the runner that stays where it is, or leaves its way.
LEMMA RunnerStays ==
  ASSUME PlansOnce, ContractInv, UNCHANGED << guardValue, batch, group, parallel, serial >>,
         phase' \in OnTheWay => UNCHANGED task,
         \/ phase = "idle" /\ phase' = "group"
         \/ phase = "group" /\ phase' = "coalescing" /\ batch <= Len(Plan) /\ group <= Len(Segments(batch))
         \/ phase' = phase
         \/ phase \in {"parallel", "draining", "cancelling"} /\ phase' \in {"draining", "cancelling"}
         \/ phase' \in {"exporting", "ended"}
  PROVE  PositionKept' /\ WalkKept'
<1>1. Ids' = Ids /\ Queue' = Queue /\ Team' = Team
  BY HereFixed
<1>2. \A b : Segments(b)' = Segments(b)
  BY DEF Segments
<1>3. PositionKept'
  BY <1>1, <1>2 DEF PositionKept, ContractInv
<1>4. WalkKept'
  <2>1. CASE phase' \in OnTheWay
    <3>1. Now' = Now /\ phase \in OnTheWay /\ (phase' \in Ahead => phase \in Ahead)
      BY <1>1, <2>1 DEF Now, OnTheWay, Ahead
    <3> QED BY <2>1, <3>1, WalkSame DEF ContractInv
  <2>2. CASE phase' \notin OnTheWay
    BY <2>2 DEF WalkKept
  <2> QED BY <2>1, <2>2
<1> QED
  BY <1>3, <1>4

\* The groups of a batch are exhausted: what lies before the next batch lay before.
LEMMA NextBatchWalk ==
  ASSUME PlansOnce, ContractInv, NextBatch
  PROVE  PositionKept' /\ WalkKept'
<1>1. /\ phase = "group" /\ phase' = "group" /\ batch <= Len(Plan) /\ group > Len(Segments(batch))
      /\ batch' = batch + 1 /\ group' = 1 /\ UNCHANGED << guardValue, task >>
  BY DEF NextBatch, callVars, taskVars
<1>2. batch \in Nat \ {0} /\ group \in Nat \ {0} /\ batch \in 1 .. Len(Plan)
  BY <1>1, PlanTyped DEF ContractInv, PositionKept
<1>3. PositionKept'
  BY <1>1, <1>2 DEF PositionKept
<1>4. Now = << batch, group, 0 >> /\ Now' = << batch + 1, 1, 0 >>
  BY <1>1 DEF Now
<1>5. Places' = Places /\ \A p : RunsAt(p)' = RunsAt(p)
  BY <1>1, PlacesFixed
<1>6. ASSUME NEW p \in Places
      PROVE  /\ Before(p, Now') => Before(p, Now)
             /\ Before(Now', p) \/ p = Now' => Before(Now, p)
  <2>1. /\ p = << p[1], p[2], p[3] >> /\ p[1] \in 1 .. Len(Plan)
        /\ p[2] \in 1 .. Len(Segments(p[1])) /\ p[3] \in Nat
    BY PlaceTriple
  <2>2. Len(Plan) \in Nat /\ Len(Segments(p[1])) \in Nat
    BY <2>1, PlanTyped, SegmentFacts
  <2>3. p[1] = batch => p[2] < group
    BY <1>1, <1>2, <2>1, <2>2
  <2> QED BY <1>2, <1>4, <2>1, <2>2, <2>3 DEF Before
<1>7. WalkKept'
  BY <1>1, <1>5, <1>6 DEF WalkKept, ContractInv, OnTheWay, Ahead, Before
<1> QED
  BY <1>3, <1>7

\* A step of the runner creates tasks for actions that had none.
OnlyCreates == \A x \in Action : task'[x] = task[x] \/ (task[x] = "new" /\ task'[x] = "created")

\* The tasks of a group start together, at the runner's place.
LEMMA RunGroupWalk ==
  ASSUME PlansOnce, ContractInv, RunGroup
  PROVE  PositionKept' /\ WalkKept' /\ OnlyCreates
<1>1. /\ phase \in {"group", "coalescing"} /\ phase' = "parallel"
      /\ batch <= Len(Plan) /\ group <= Len(Segments(batch))
      /\ parallel' = Team /\ serial' = Queue /\ UNCHANGED << guardValue, batch, group >>
      /\ task' = [x \in Action |-> IF x \in parallel' THEN "created" ELSE task[x]]
  BY DEF RunGroup, ReadyToRun, callVars, pos, Team, Queue, Ids
<1>2. batch \in 1 .. Len(Plan) /\ batch \in Nat \ {0} /\ group \in Nat \ {0}
  BY <1>1, PlanTyped DEF ContractInv, PositionKept
<1>3. group \in 1 .. Len(Segments(batch))
  BY <1>1, <1>2, SegmentFacts
<1>4. Ids' = Ids /\ Queue' = Queue /\ Team' = Team
  BY <1>1, HereFixed
<1>5. \A b : Segments(b)' = Segments(b)
  BY DEF Segments
<1>6. PositionKept'
  BY <1>1, <1>2, <1>4, <1>5 DEF PositionKept
<1>7. Now = << batch, group, 0 >> /\ Now' = Now
  BY <1>1 DEF Now
<1>8. Now \in Places /\ RunsAt(Now) = Team
  <2>1. Queue \in Seq(Action)
    BY <1>2, <1>3, HereFacts
  <2>2. 0 \in 0 .. Len(Queue)
    BY <2>1
  <2> QED BY <1>2, <1>3, <1>7, <2>2, HereFacts
<1>9. ASSUME NEW p \in Places, NEW x \in RunsAt(p), p # Now PROVE task'[x] = task[x]
  <2>1. x \notin Team /\ x \in Action
    BY <1>8, <1>9, OnePlace, SomePlace
  <2> QED BY <1>1, <2>1
<1>10. ~ Before(Now, Now)
  BY <1>2, <1>7 DEF Before
<1>11. Places' = Places /\ \A p : RunsAt(p)' = RunsAt(p)
  BY <1>1, PlacesFixed
<1>12. \A p : (Before(p, Now))' = Before(p, Now) /\ (Before(Now, p))' = Before(Now, p)
  BY <1>7 DEF Before
<1>13. WalkKept'
  BY <1>1, <1>9, <1>10, <1>11, <1>12 DEF WalkKept, ContractInv, OnTheWay, Ahead
<1>14. OnlyCreates
  <2>1. \A x \in Team : task[x] = "new"
    BY <1>1, <1>8 DEF WalkKept, ContractInv, OnTheWay, Ahead
  <2> QED BY <1>1, <2>1 DEF OnlyCreates
<1> QED
  BY <1>6, <1>13, <1>14

\* One place further: the next serial action, or the next group.
LEMMA GoOnWalk ==
  ASSUME PlansOnce, ContractInv, phase \in {"parallel", "serial"}, UNCHANGED << guardValue, batch >>,
         batch \in 1 .. Len(Plan), group \in 1 .. Len(Segments(batch)),
         NEW k \in 0 .. Len(Queue), Now = << batch, group, k >>,
         \A x \in RunsAt(Now) : task[x] = "ok",
         NEW queue \in Seq(Action), Len(queue) = Len(Queue) - k,
         \A j \in 1 .. Len(queue) : queue[j] = Queue[k + j],
         GoOn(queue), serial' = queue
  PROVE  PositionKept' /\ WalkKept' /\ OnlyCreates
<1>1. /\ batch \in Nat \ {0} /\ group \in Nat \ {0} /\ Len(Queue) \in Nat /\ k \in Nat
      /\ task \in [Action -> TaskStage]
  <2>1. Queue \in Seq(Action)
    BY HereFacts
  <2> QED BY <2>1 DEF ContractInv, PositionKept, TasksAccountedFor
<1>2. Places' = Places /\ \A p : RunsAt(p)' = RunsAt(p)
  BY PlacesFixed
<1>3. \A b : Segments(b)' = Segments(b)
  BY DEF Segments
<1>4. \A p \in Places :
          /\ p = << p[1], p[2], p[3] >>
          /\ p[1] \in Nat /\ p[2] \in Nat /\ p[3] \in Nat
          /\ p[1] = batch /\ p[2] = group => p[3] \in 0 .. Len(Queue)
  <2> SUFFICES ASSUME NEW p \in Places
               PROVE  /\ p = << p[1], p[2], p[3] >>
                      /\ p[1] \in Nat /\ p[2] \in Nat /\ p[3] \in Nat
                      /\ p[1] = batch /\ p[2] = group => p[3] \in 0 .. Len(Queue)
    OBVIOUS
  <2>1. /\ p = << p[1], p[2], p[3] >> /\ p[1] \in 1 .. Len(Plan)
        /\ p[2] \in 1 .. Len(Segments(p[1])) /\ p[3] \in Nat
    BY PlaceTriple
  <2> QED BY <2>1, HereFacts
<1>5. \A p \in Places : RunsAt(p) \subseteq Action
  BY SomePlace
<1>6. CASE queue = << >>
  <2>1. phase' = "group" /\ group' = group + 1 /\ task' = task
    BY <1>6 DEF GoOn
  <2>2. PositionKept'
    BY <1>1, <2>1 DEF PositionKept
  <2>3. Now' = << batch, group + 1, 0 >>
    BY <2>1 DEF Now
  <2>4. k = Len(Queue)
    BY <1>1, <1>6
  <2>5. \A p \in Places :
            /\ Before(p, Now') => Before(p, Now) \/ p = Now
            /\ Before(Now', p) \/ p = Now' => Before(Now, p)
    BY <1>1, <1>4, <2>3, <2>4 DEF Before
  <2>6. WalkKept'
    BY <1>2, <2>1, <2>5 DEF WalkKept, ContractInv, OnTheWay, Ahead, Before
  <2> QED BY <2>1, <2>2, <2>6 DEF OnlyCreates
<1>7. CASE queue # << >>
  <2>1. /\ phase' = "serial" /\ UNCHANGED << batch, group >>
        /\ task' = [task EXCEPT ![Head(queue)] = "created"]
    BY <1>7 DEF GoOn, pos
  <2>2. Ids' = Ids /\ Queue' = Queue /\ Team' = Team
    BY <2>1, HereFixed
  <2>3. Len(queue) \in 1 .. Len(Queue) /\ k + 1 \in 1 .. Len(Queue) /\ Head(queue) = Queue[k + 1]
    BY <1>1, <1>7
  <2>4. \A j \in 1 .. Len(queue) : queue[j] = Queue[Len(Queue) - Len(queue) + j]
    BY <1>1
  <2>5. PositionKept'
    <3>1. /\ serial' \in Seq(Action) /\ serial' # << >> /\ Len(serial') <= Len(Queue')
          /\ \A j \in 1 .. Len(serial') : serial'[j] = Queue'[Len(Queue') - Len(serial') + j]
      <4>1. queue \in Seq(Action) /\ queue # << >> /\ Len(queue) <= Len(Queue)
        BY <1>1, <1>7, <2>3
      <4> QED BY <2>2, <2>4, <4>1, Zenon
    <3>2. /\ batch' \in Nat \ {0} /\ group' \in Nat \ {0} /\ batch' <= Len(Plan)
          /\ group' <= Len(Segments(batch'))
      BY <1>1, <2>1, PlanTyped, SegmentFacts
    <3> QED BY <2>1, <3>1, <3>2 DEF PositionKept
  <2>6. Now' = << batch, group, k + 1 >>
    <3>1. Len(Queue') - Len(serial') + 1 = k + 1
      BY <1>1, <2>2
    <3>2. phase' = "serial" /\ batch' = batch /\ group' = group
      BY <2>1
    <3> QED BY <3>1, <3>2, Zenon DEF Now
  <2>7. \A p \in Places :
            /\ Before(p, Now') => p # Now' /\ (Before(p, Now) \/ p = Now)
            /\ Before(Now', p) => p # Now' /\ Before(Now, p)
    BY <1>1, <1>4, <2>6 DEF Before
  <2>8. Now' \in Places /\ RunsAt(Now') = {Head(queue)}
    BY <2>3, <2>6, HereFacts
  <2>9. ASSUME NEW p \in Places, NEW x \in RunsAt(p), p # Now' PROVE task'[x] = task[x]
    <3>1. x # Head(queue)
      BY <2>8, <2>9, OnePlace
    <3> QED BY <1>1, <2>1, <3>1
  <2>10. WalkKept'
    <3>1. \A p \in Places : \A x \in RunsAt(p) :
              /\ Before(p, Now) \/ p = Now => task[x] = "ok"
              /\ Before(Now, p) => task[x] = "new"
      BY DEF WalkKept, ContractInv, OnTheWay
    <3>2. \A p \in Places : \A x \in RunsAt(p) :
              /\ Before(p, Now') => task'[x] = "ok"
              /\ Before(Now', p) => task'[x] = "new"
      BY <2>7, <2>9, <3>1
    <3> QED BY <1>2, <2>1, <3>2 DEF WalkKept, Ahead, Before
  <2>11. OnlyCreates
    <3>1. Before(Now, Now')
      BY <1>1, <2>6 DEF Before
    <3>2. task[Head(queue)] = "new"
      BY <2>8, <3>1 DEF WalkKept, ContractInv, OnTheWay
    <3> QED BY <1>1, <2>1, <3>2 DEF OnlyCreates
  <2> QED BY <2>5, <2>10, <2>11
<1> QED
  BY <1>6, <1>7

\* All parallel actions have succeeded: on to the queue.
LEMMA GatheredWalk ==
  ASSUME PlansOnce, ContractInv, Gathered
  PROVE  PositionKept' /\ WalkKept' /\ OnlyCreates
<1>1. /\ phase = "parallel" /\ GoOn(serial) /\ UNCHANGED << guardValue, serial >>
      /\ \A x \in parallel : task[x] = "ok"
  BY DEF Gathered, callVars
<1>2. /\ parallel = Team /\ serial = Queue
      /\ batch \in 1 .. Len(Plan) /\ group \in 1 .. Len(Segments(batch))
  BY <1>1, PlanTyped, SegmentFacts DEF ContractInv, PositionKept
<1>3. Now = << batch, group, 0 >> /\ RunsAt(Now) = Team /\ Queue \in Seq(Action)
  BY <1>1, <1>2, HereFacts DEF Now
<1>4. 0 \in 0 .. Len(Queue) /\ Len(Queue) = Len(Queue) - 0
      /\ \A j \in 1 .. Len(Queue) : Queue[j] = Queue[0 + j]
  BY <1>3
<1>5. UNCHANGED batch
  BY <1>1 DEF GoOn, pos
<1> QED
  BY <1>1, <1>2, <1>3, <1>4, <1>5, GoOnWalk

\* A serial action has succeeded: on to the next.
LEMMA SerialDoneWalk ==
  ASSUME PlansOnce, ContractInv, SerialDone
  PROVE  PositionKept' /\ WalkKept' /\ OnlyCreates
<1>1. /\ phase = "serial" /\ GoOn(Tail(serial)) /\ UNCHANGED guardValue /\ serial' = Tail(serial)
      /\ task[Head(serial)] = "ok"
  BY DEF SerialDone, callVars
<1>2. /\ batch \in 1 .. Len(Plan) /\ group \in 1 .. Len(Segments(batch))
      /\ serial \in Seq(Action) /\ serial # << >> /\ Len(serial) <= Len(Queue)
      /\ \A j \in 1 .. Len(serial) : serial[j] = Queue[Len(Queue) - Len(serial) + j]
  BY <1>1, PlanTyped, SegmentFacts DEF ContractInv, PositionKept
<1>3. Queue \in Seq(Action)
  BY <1>2, HereFacts
<1> DEFINE k == Len(Queue) - Len(serial) + 1
<1>4. k \in 1 .. Len(Queue) /\ k \in 0 .. Len(Queue) /\ Head(serial) = Queue[k]
  BY <1>2, <1>3
<1>5. Tail(serial) \in Seq(Action) /\ Len(Tail(serial)) = Len(Queue) - k
      /\ \A j \in 1 .. Len(Tail(serial)) : Tail(serial)[j] = Queue[k + j]
  BY <1>2, <1>3
<1>6. Now = << batch, group, k >>
  BY <1>1 DEF Now
<1> HIDE DEF k
<1>7. \A x \in RunsAt(Now) : task[x] = "ok"
  <2>1. RunsAt(Now) = {Queue[k]}
    BY <1>2, <1>4, <1>6, HereFacts
  <2> QED BY <1>1, <1>4, <2>1
<1>8. UNCHANGED batch
  BY <1>1 DEF GoOn, pos
<1> QED
  BY <1>1, <1>2, <1>4, <1>5, <1>6, <1>7, <1>8, GoOnWalk

\* Every step keeps the walk.
LEMMA StepWalk ==
  ASSUME PlansOnce, ContractInv, Next
  PROVE  PositionKept' /\ WalkKept'
<1>1. CASE \E x \in Action : TaskStep(x)
  BY <1>1, TaskStepWalk
<1>2. CASE Gathered \/ SerialDone \/ RunGroup \/ NextBatch
  BY <1>2, GatheredWalk, SerialDoneWalk, RunGroupWalk, NextBatchWalk
<1>3. CASE Call \/ Coalesce \/ GatherRaises
  BY <1>3, RunnerStays DEF Call, Coalesce, GatherRaises, callVars, pos, taskVars
<1>4. CASE GuardUnknown \/ PlanDone \/ Finish \/ ExportRaises \/ CancelExport \/ Drained \/ SerialRaises
  BY <1>4, RunnerStays DEF GuardUnknown, PlanDone, Finish, ExportRaises, CancelExport, Drained, SerialRaises,
                           callVars, pos, OnTheWay
<1>5. CASE CancelCall \/ CancelledGather
  BY <1>5, RunnerStays DEF CancelCall, CancelledGather, callVars, pos, OnTheWay
<1>6. CASE Ended
  BY <1>6, RunnerStays DEF Ended, vars
<1> QED
  BY <1>1, <1>2, <1>3, <1>4, <1>5, <1>6 DEF Next, RunnerStep

\* Whatever is not a step of a task creates tasks only, unless it cancels a serial one.
LEMMA RunnerCreates ==
  ASSUME PlansOnce, ContractInv, Next, ~ \E x \in Action : TaskStep(x)
  PROVE  /\ UNCHANGED began
         /\ \/ OnlyCreates /\ (phase' \notin OnTheWay => UNCHANGED task)
            \/ /\ CancelCall /\ phase = "serial" /\ phase' = "exporting" /\ Head(serial) \in Action
               /\ Live(Head(serial)) /\ task' = [task EXCEPT ![Head(serial)] = "cancelled"]
<1>1. CASE Gathered \/ SerialDone \/ RunGroup
  <2>1. phase' \in OnTheWay /\ UNCHANGED began
    BY <1>1 DEF Gathered, SerialDone, RunGroup, GoOn, OnTheWay
  <2> QED BY <1>1, <2>1, GatheredWalk, SerialDoneWalk, RunGroupWalk
<1>2. CASE NextBatch \/ Call \/ Coalesce \/ GatherRaises \/ GuardUnknown \/ PlanDone \/ Finish
           \/ ExportRaises \/ CancelExport \/ Drained \/ SerialRaises \/ CancelledGather \/ Ended
  BY <1>2 DEF NextBatch, Call, Coalesce, GatherRaises, GuardUnknown, PlanDone, Finish, ExportRaises,
              CancelExport, Drained, SerialRaises, CancelledGather, Ended, vars, taskVars, OnlyCreates
<1>3. CASE CancelCall
  <2>1. CASE phase = "serial"
    <3>1. serial \in Seq(Action) /\ serial # << >>
      BY <2>1 DEF ContractInv, PositionKept
    <3> QED BY <1>3, <2>1, <3>1 DEF CancelCall
  <2>2. CASE phase # "serial"
    BY <1>3, <2>2 DEF CancelCall, OnlyCreates
  <2> QED BY <2>1, <2>2
<1> QED
  BY <1>1, <1>2, <1>3 DEF Next, RunnerStep

\* Every step keeps StagesKept: the stages before BEGIN and behind it.
LEMMA StepStages ==
  ASSUME PlansOnce, ContractInv, Next
  PROVE  StagesKept'
<1>0. task \in [Action -> TaskStage] /\ StagesKept
  BY DEF ContractInv, TasksAccountedFor
<1>1. CASE \E x \in Action : TaskStep(x)
  <2>1. PICK x \in Action : TaskStep(x)
    BY <1>1
  <2>2. \/ began' = began /\ (task[x] \in {"created", "acquiring"} => task'[x] \in {"acquiring", "error", "cancelled"})
        \/ began' = began \cup {x} /\ task'[x] = "executing"
    BY <1>0, <2>1 DEF TaskStep, Steps, UnknownAction, StartAcquire, BeginExecution, Succeeds, Raises,
                  RateLimited, RaisesAfterBackoff, Cancelled, LiveStage, Live
  <2>3. task[x] \in {"executing", "noting"} => task'[x] \in {"ok", "error", "noting", "cancelled"}
    BY <1>0, <2>1 DEF TaskStep, Steps, UnknownAction, StartAcquire, BeginExecution, Succeeds, Raises,
                  RateLimited, RaisesAfterBackoff, Cancelled, LiveStage, Live
  <2>4. Live(x) /\ \A y \in Action : y # x => task'[y] = task[y]
    BY <1>0, <2>1, TaskStepMoves
  <2> QED BY <1>0, <2>2, <2>3, <2>4 DEF StagesKept, Live, LiveStage
<1>2. CASE ~ \E x \in Action : TaskStep(x)
  <2>1. CASE OnlyCreates /\ UNCHANGED began
    BY <1>0, <2>1 DEF StagesKept, OnlyCreates
  <2>2. CASE UNCHANGED began /\ task' = [task EXCEPT ![Head(serial)] = "cancelled"]
    BY <1>0, <2>2 DEF StagesKept
  <2> QED BY <1>2, <2>1, <2>2, RunnerCreates
<1> QED
  BY <1>1, <1>2

\* Every step keeps StartsKept: on its way by the walk, later because nothing begins.
LEMMA StepStarts ==
  ASSUME PlansOnce, ContractInv, Next, PositionKept', WalkKept'
  PROVE  StartsKept' /\ (order = PromisedOrder)'
<1>0. task \in [Action -> TaskStage] /\ StartsKept /\ order = PromisedOrder
  BY DEF ContractInv, TasksAccountedFor
<1>1. UNCHANGED << guardValue, order >>
  BY DEF Next, RunnerStep, TaskStep, Steps, UnknownAction, StartAcquire, BeginExecution, Succeeds, Raises,
         RateLimited, RaisesAfterBackoff, Cancelled, NextBatch, Call, Coalesce, GatherRaises, GuardUnknown,
         PlanDone, Finish, ExportRaises, CancelExport, Drained, SerialRaises, CancelledGather, Ended, vars, Gathered,
         SerialDone, RunGroup, CancelCall, callVars
<1>2. (order = PromisedOrder)'
  BY <1>0, <1>1, PlacesFixed
<1>3. CASE phase' \in OnTheWay
  <2>1. (order = PromisedOrder /\ PositionKept /\ WalkKept /\ phase \in OnTheWay => StartsKept)'
    BY StartsFollow, PTL
  <2>2. (phase \in OnTheWay)'
    BY <1>3 DEF OnTheWay
  <2> QED BY <1>2, <2>1, <2>2
<1>4. CASE phase' \notin OnTheWay
  <2>1. \A x \in Action : (task[x] = "ok" => task'[x] = "ok") /\ (task[x] = "new" => task'[x] = "new")
    <3>1. CASE \E x \in Action : TaskStep(x)
      BY <1>0, <3>1, TaskStepMoves DEF Live, LiveStage
    <3>2. CASE ~ \E x \in Action : TaskStep(x)
      BY <1>0, <1>4, <3>2, RunnerCreates DEF Live, LiveStage
    <3> QED BY <3>1, <3>2
  <2> QED BY <1>0, <1>1, <1>2, <2>1 DEF StartsKept
<1> QED
  BY <1>2, <1>3, <1>4

\* A group that is about to run has an action that has not begun.
LEMMA AheadIsNew ==
  ASSUME PlansOnce, ContractInv, phase \in {"group", "coalescing"},
         batch <= Len(Plan), group <= Len(Segments(batch))
  PROVE  \E x \in Action : task[x] = "new"
<1>1. batch \in 1 .. Len(Plan) /\ group \in 1 .. Len(Segments(batch))
  BY PlanTyped, SegmentFacts DEF ContractInv, PositionKept
<1>2. Now = << batch, group, 0 >>
  BY DEF Now
<1>3. /\ Ids # << >> /\ Ids \in Seq(Action) /\ Queue \in Seq(Action) /\ ToSet(Ids) = Team \cup ToSet(Queue)
      /\ Team \subseteq Action
  BY <1>1, HereFacts
<1>4. Ids[1] \in ToSet(Ids) /\ Ids[1] \in Action
  BY <1>3 DEF ToSet
<1>5. CASE Ids[1] \in Team
  <2>1. 0 \in 0 .. Len(Queue)
    BY <1>3
  <2>2. Now \in Places /\ RunsAt(Now) = Team
    BY <1>1, <1>2, <2>1, HereFacts
  <2> QED BY <1>4, <1>5, <2>2 DEF ContractInv, WalkKept, OnTheWay, Ahead
<1>6. CASE Ids[1] \in ToSet(Queue)
  <2>1. PICK k \in 1 .. Len(Queue) : Ids[1] = Queue[k]
    BY <1>3, <1>6 DEF ToSet
  <2>2. k \in 0 .. Len(Queue)
    OBVIOUS
  <2>3. << batch, group, k >> \in Places /\ RunsAt(<< batch, group, k >>) = {Queue[k]}
    BY <1>1, <2>2, HereFacts
  <2>4. Before(Now, << batch, group, k >>)
    BY <1>1, <1>2 DEF Before
  <2> QED BY <1>4, <2>1, <2>3, <2>4 DEF ContractInv, WalkKept, OnTheWay
<1> QED
  BY <1>3, <1>4, <1>5, <1>6

\* After the last batch nothing is left.
LEMMA AllWalked ==
  ASSUME PlansOnce, ContractInv, phase = "group", batch > Len(Plan)
  PROVE  \A x \in Action : task[x] = "ok"
<1> SUFFICES ASSUME NEW x \in Action PROVE task[x] = "ok"
  OBVIOUS
<1>1. PICK p \in Places : x \in RunsAt(p)
  BY SomePlace
<1>2. p[1] \in 1 .. Len(Plan) /\ Len(Plan) \in Nat /\ batch \in Nat
  BY PlaceTriple, PlanTyped DEF ContractInv, PositionKept
<1>3. Before(p, Now)
  BY <1>2 DEF Before, Now
<1> QED
  BY <1>1, <1>3 DEF ContractInv, WalkKept, OnTheWay

\* Every step keeps StatusKept: the status, and what has failed or not begun.
LEMMA StepStatus ==
  ASSUME PlansOnce, ContractInv, Next
  PROVE  StatusKept'
<1>0. /\ task \in [Action -> TaskStage] /\ StatusKept
      /\ phase = "cancelling" => cancelled
  BY DEF ContractInv, TasksAccountedFor
<1>1. CASE \E x \in Action : TaskStep(x)
  <2>1. PICK x \in Action : TaskStep(x)
    BY <1>1
  <2>2. /\ UNCHANGED << phase, parallel, status, cancelled, runEnd >>
        /\ Live(x) /\ DOMAIN task' = Action /\ \A y \in Action : y # x => task'[y] = task[y]
    BY <1>0, <2>1, TaskStepMoves
  <2>3. \A y \in Action : task[y] \in {"new", "error", "ok"} => y # x /\ task'[y] = task[y]
    BY <2>2 DEF Live, LiveStage
  <2>4. phase = "draining" => parallel \subseteq Action
    <3> SUFFICES ASSUME phase = "draining" PROVE parallel \subseteq Action
      OBVIOUS
    <3>1. batch \in 1 .. Len(Plan) /\ group \in 1 .. Len(Segments(batch)) /\ parallel = Team
      BY PlanTyped, SegmentFacts DEF ContractInv, PositionKept
    <3> QED BY <3>1, HereFacts
  <2>5. ~ \A y \in Action : task[y] = "ok"
    BY <2>2 DEF Live, LiveStage
  <2> QED BY <1>0, <2>2, <2>3, <2>4, <2>5 DEF StatusKept
<1>2. CASE Call \/ NextBatch \/ Coalesce
  BY <1>0, <1>2 DEF Call, NextBatch, Coalesce, outcome, taskVars, StatusKept
<1>3. CASE RunGroup \/ Gathered \/ SerialDone
  <2>1. phase \in {"group", "coalescing", "parallel", "serial"} /\ phase' \in {"parallel", "serial", "group"}
        /\ UNCHANGED << status, cancelled, runEnd >>
    BY <1>3 DEF RunGroup, ReadyToRun, Gathered, SerialDone, GoOn, outcome
  <2> QED BY <1>0, <2>1 DEF StatusKept
<1>4. CASE GuardUnknown
  <2>1. \E x \in Action : task[x] = "new"
    BY <1>4, AheadIsNew DEF GuardUnknown, ReadyToRun
  <2> QED BY <1>0, <1>4, <2>1 DEF GuardUnknown, ReadyToRun, taskVars, StatusKept
<1>5. CASE PlanDone
  <2>1. \A x \in Action : task[x] = "ok"
    BY <1>5, AllWalked DEF PlanDone
  <2> QED BY <1>0, <1>5, <2>1 DEF PlanDone, taskVars, outcome, StatusKept
<1>6. CASE GatherRaises
  BY <1>0, <1>6 DEF GatherRaises, outcome, StatusKept
<1>7. CASE Drained
  <2>1. \E x \in Action : task[x] = "error"
    <3>1. batch \in 1 .. Len(Plan) /\ group \in 1 .. Len(Segments(batch)) /\ parallel = Team
      BY <1>7, PlanTyped, SegmentFacts DEF Drained, ContractInv, PositionKept
    <3>2. parallel \subseteq Action
      BY <3>1, HereFacts
    <3> QED BY <1>0, <1>7, <3>2 DEF Drained, StatusKept
  <2> QED BY <1>0, <1>7, <2>1 DEF Drained, taskVars, StatusKept
<1>8. CASE SerialRaises
  <2>1. serial \in Seq(Action) /\ serial # << >>
    BY <1>8 DEF SerialRaises, ContractInv, PositionKept
  <2>2. Head(serial) \in Action
    BY <2>1
  <2> QED BY <1>0, <1>8, <2>2 DEF SerialRaises, taskVars, StatusKept
<1>9. CASE Finish \/ ExportRaises \/ CancelExport \/ Ended
  BY <1>0, <1>9 DEF Finish, ExportRaises, CancelExport, Ended, vars, taskVars, outcome, StatusKept
<1>10. CASE CancelledGather
  BY <1>0, <1>10 DEF CancelledGather, taskVars, StatusKept
<1>11. CASE CancelCall
  BY <1>0, <1>11 DEF CancelCall, StatusKept
<1> QED
  BY <1>1, <1>2, <1>3, <1>4, <1>5, <1>6, <1>7, <1>8, <1>9, <1>10, <1>11 DEF Next, RunnerStep

\* ContractInv is inductive.
LEMMA StepContract == PlansOnce => (ContractInv /\ [Next]_vars => ContractInv')
<1> SUFFICES ASSUME PlansOnce, ContractInv, [Next]_vars PROVE ContractInv'
  OBVIOUS
<1>1. CASE Next
  <2>1. TasksAccountedFor'
    BY <1>1, StepTasks DEF ContractInv
  <2>2. PositionKept' /\ WalkKept'
    BY <1>1, StepWalk
  <2>3. StartsKept' /\ (order = PromisedOrder)'
    BY <1>1, <2>2, StepStarts
  <2> QED BY <1>1, <2>1, <2>2, <2>3, StepStatus, StepStages DEF ContractInv
<1>2. CASE UNCHANGED vars
  <2>1. TasksAccountedFor'
    BY StepTasks DEF ContractInv
  <2>2. UNCHANGED << guardValue, batch, group, parallel, serial, task, phase >>
    BY <1>2 DEF vars
  <2>3. PositionKept' /\ WalkKept'
    BY <2>2, RunnerStays
  <2>4. (order = PromisedOrder)'
    BY <1>2, <2>2, PlacesFixed DEF vars, ContractInv
  <2> QED BY <1>2, <2>1, <2>3, <2>4 DEF vars, ContractInv, StartsKept, StatusKept, StagesKept
<1> QED
  BY <1>1, <1>2

\* Before the call everything is new, and the runner is before every place.
LEMMA InitContract == PlansOnce => (Init => ContractInv)
<1> SUFFICES ASSUME PlansOnce, Init PROVE ContractInv
  OBVIOUS
<1>1. Now = << 1, 1, 0 >> /\ phase = "idle" /\ task = [x \in Action |-> "new"]
  BY DEF Init, Now
<1>2. PositionKept
  BY DEF Init, PositionKept
<1>3. WalkKept
  <2>1. \A p \in Places : RunsAt(p) \subseteq Action
    BY SomePlace
  <2>2. ASSUME NEW p \in Places PROVE ~ Before(p, Now)
    <3>1. Len(Plan) \in Nat /\ p[1] \in 1 .. Len(Plan) /\ p[2] \in 1 .. Len(Segments(p[1])) /\ p[3] \in Nat
      BY PlanTyped, PlaceTriple
    <3>2. Len(Segments(p[1])) \in Nat
      BY <3>1, SegmentFacts
    <3> QED BY <1>1, <3>1, <3>2 DEF Before
  <2> QED BY <1>1, <2>1, <2>2 DEF WalkKept
<1>4. StartsKept /\ StatusKept /\ StagesKept
  BY DEF Init, StartsKept, StatusKept, StagesKept
<1> QED
  BY <1>2, <1>3, <1>4, InitTasks DEF Init, ContractInv

-----------------------------------------------------------------------------
\* What the contract sees of the runner.
Oks     == {x \in Action : task[x] = "ok"}
Errors  == {x \in began : task[x] = "error"}
Drops   == {x \in began : task[x] = "cancelled"}

\* A task's step begins, succeeds, fails or drops its action, or shows nothing.
LEMMA TaskStepKeeps ==
  ASSUME ContractInv, NEW x \in Action, TaskStep(x)
  PROVE  Contract!Next \/ UNCHANGED Contract!vars
<1>1. task \in [Action -> TaskStage] /\ began \subseteq Action /\ StagesKept /\ StartsKept
  BY DEF ContractInv, TasksAccountedFor, StagesKept
<1>2. UNCHANGED << order, phase, cancelled, runEnd >>
  BY DEF TaskStep, Steps, UnknownAction, StartAcquire, BeginExecution, Succeeds, Raises,
         RateLimited, RaisesAfterBackoff, Cancelled, callVars, outcome
<1>3. Live(x) /\ \A y \in Action : y # x => task'[y] = task[y]
  BY <1>1, TaskStepMoves
<1>4. HowItEnds' = HowItEnds /\ HowItEnds \in {"running", "cancelled"}
  BY <1>2, <1>3 DEF HowItEnds, ContractInv, TasksAccountedFor
<1>5. x \notin Oks /\ x \notin Errors /\ x \notin Drops
  BY <1>3 DEF Oks, Errors, Drops, Live, LiveStage
<1>6. CASE UnknownAction(x) \/ StartAcquire(x) \/ RateLimited(x)
  <2>1. began' = began /\ task'[x] # "ok" /\ task'[x] # "cancelled" /\ (x \in began => task'[x] # "error")
    BY <1>1, <1>6 DEF UnknownAction, StartAcquire, RateLimited, Steps, StagesKept
  <2>2. Oks' = Oks /\ Errors' = Errors /\ Drops' = Drops
    BY <1>1, <1>3, <1>5, <2>1 DEF Oks, Errors, Drops
  <2> QED BY <1>2, <1>4, <2>1, <2>2 DEF Contract!vars, Oks, Errors, Drops, HowItEnds
<1>7. CASE BeginExecution(x)
  <2>1. began' = began \cup {x} /\ task'[x] = "executing" /\ task[x] \in {"created", "acquiring"}
    BY <1>1, <1>7 DEF BeginExecution, Steps
  <2>2. Oks' = Oks /\ Errors' = Errors /\ Drops' = Drops
    BY <1>1, <1>3, <1>5, <2>1 DEF Oks, Errors, Drops
  <2>3. x \notin began /\ \A y \in Action : << y, x >> \in order => y \in Oks
    BY <1>1, <2>1 DEF StagesKept, StartsKept, Oks
  <2>4. Contract!Start(x)
    BY <1>2, <1>4, <2>1, <2>2, <2>3 DEF Contract!Start, Contract!Open, Oks, Errors, Drops, HowItEnds
  <2> QED BY <2>4 DEF Contract!Next
<1>8. CASE Succeeds(x)
  <2>1. began' = began /\ x \in began /\ task'[x] = "ok"
    BY <1>1, <1>8 DEF Succeeds, Steps, StagesKept
  <2>2. Oks' = Oks \cup {x} /\ Errors' = Errors /\ Drops' = Drops
    BY <1>1, <1>3, <1>5, <2>1 DEF Oks, Errors, Drops
  <2>3. Contract!Succeed(x)
    BY <1>2, <1>4, <1>5, <2>1, <2>2
       DEF Contract!Succeed, Contract!Open, Contract!Running, Oks, Errors, Drops, HowItEnds
  <2> QED BY <2>3 DEF Contract!Next
<1>9. CASE Raises(x) \/ RaisesAfterBackoff(x)
  <2>1. began' = began /\ x \in began /\ task'[x] = "error"
    BY <1>1, <1>9 DEF Raises, RaisesAfterBackoff, Steps, StagesKept
  <2>2. Oks' = Oks /\ Errors' = Errors \cup {x} /\ Drops' = Drops
    BY <1>1, <1>3, <1>5, <2>1 DEF Oks, Errors, Drops
  <2>3. Contract!Fail(x)
    BY <1>2, <1>4, <1>5, <2>1, <2>2
       DEF Contract!Fail, Contract!Open, Contract!Running, Oks, Errors, Drops, HowItEnds
  <2> QED BY <2>3 DEF Contract!Next
<1>10. CASE Cancelled(x)
  <2>1. began' = began /\ task'[x] = "cancelled"
    BY <1>1, <1>10 DEF Cancelled
  <2>2. Oks' = Oks /\ Errors' = Errors /\ Drops' = IF x \in began THEN Drops \cup {x} ELSE Drops
    BY <1>1, <1>3, <1>5, <2>1 DEF Oks, Errors, Drops
  <2>3. CASE x \in began
    <3>1. Contract!Drop(x)
      BY <1>2, <1>4, <1>5, <2>1, <2>2, <2>3
         DEF Contract!Drop, Contract!Open, Contract!Running, Oks, Errors, Drops, HowItEnds
    <3> QED BY <3>1 DEF Contract!Next
  <2>4. CASE x \notin began
    BY <1>2, <1>4, <2>1, <2>2, <2>4 DEF Contract!vars, Oks, Errors, Drops, HowItEnds
  <2> QED BY <2>3, <2>4
<1> QED
  BY <1>6, <1>7, <1>8, <1>9, <1>10 DEF TaskStep

\* Ending the call: by RUN_END with the status, or by an exception or a cancellation in
\* the export.
LEMMA FinishKeeps ==
  ASSUME ContractInv, Finish \/ ExportRaises \/ CancelExport
  PROVE  Contract!End
<1>1. /\ phase = "exporting" /\ phase' = "ended"
      /\ UNCHANGED << order, task, began >>
      /\ \/ cancelled'
         \/ ~cancelled /\ ~cancelled' /\ runEnd' \in {status, "none"}
  BY DEF Finish, ExportRaises, CancelExport, callVars, taskVars, outcome, ContractInv, StatusKept
<1>2. Oks' = Oks /\ Errors' = Errors /\ Drops' = Drops
  BY <1>1 DEF Oks, Errors, Drops
<1>3. HowItEnds = "running"
  BY <1>1 DEF HowItEnds
<1>4. \/ HowItEnds' = "cancelled"
      \/ HowItEnds' = "ok" /\ Oks = Action
      \/ HowItEnds' = "error" /\ began \ (Oks \cup (Errors \cup Drops)) = {} /\ Oks # Action
      \/ HowItEnds' = "unreported" /\ began \ (Oks \cup (Errors \cup Drops)) = {}
  <2>1. CASE cancelled'
    BY <1>1, <2>1 DEF HowItEnds
  <2>2. CASE ~cancelled /\ ~cancelled' /\ runEnd' \in {status, "none"}
    <3>1. began \ (Oks \cup (Errors \cup Drops)) = {}
      <4>1. \A x \in Action : ~Live(x) /\ task[x] \in TaskStage
        BY <1>1, <2>2 DEF ContractInv, TasksAccountedFor
      <4>2. \A x \in began : task[x] \in {"ok", "error", "cancelled"}
        BY <4>1 DEF ContractInv, StagesKept, Live, TaskStage, LiveStage
      <4> QED BY <4>2 DEF ContractInv, StagesKept, Oks, Errors, Drops
    <3>2. status \in {"ok", "error"}
      BY DEF ContractInv, StatusKept
    <3>3. CASE runEnd' = "none"
      BY <1>1, <2>2, <3>1, <3>3 DEF HowItEnds
    <3>4. CASE runEnd' = status /\ status = "ok"
      <4>1. Oks = Action
        BY <1>1, <2>2, <3>4 DEF ContractInv, StatusKept, Oks
      <4> QED BY <1>1, <2>2, <3>4, <4>1 DEF HowItEnds
    <3>5. CASE runEnd' = status /\ status = "error"
      <4>1. Oks # Action
        BY <3>5 DEF ContractInv, StatusKept, Oks
      <4> QED BY <1>1, <2>2, <3>1, <3>5, <4>1 DEF HowItEnds
    <3> QED BY <2>2, <3>2, <3>3, <3>4, <3>5
  <2> QED BY <1>1, <2>1, <2>2
<1> QED
  BY <1>1, <1>2, <1>3, <1>4 DEF Contract!End, Contract!Running, Oks, Errors, Drops, HowItEnds

\* Other steps show nothing, unless a cancelled call drops the serial action.
LEMMA OtherStepKeeps ==
  ASSUME PlansOnce, ContractInv, Next, ~ \E x \in Action : TaskStep(x), ~ Finish, ~ ExportRaises,
         ~ CancelExport
  PROVE  Contract!Next \/ UNCHANGED Contract!vars
<1>1. task \in [Action -> TaskStage] /\ began \subseteq Action /\ StagesKept
  BY DEF ContractInv, TasksAccountedFor, StagesKept
<1>2. UNCHANGED << order, runEnd >> /\ (phase = "ended" <=> phase' = "ended")
      /\ (phase = "ended" => UNCHANGED cancelled)
  BY DEF Next, RunnerStep, NextBatch, Call, Coalesce, GatherRaises, GuardUnknown, PlanDone, Drained,
         SerialRaises, CancelledGather, Ended, vars, Gathered, SerialDone, GoOn, RunGroup, CancelCall,
         callVars, outcome, ReadyToRun
<1>3. HowItEnds' = HowItEnds
  BY <1>2 DEF HowItEnds
<1>4. began' = began
  BY RunnerCreates
<1>5. CASE OnlyCreates
  <2>1. Oks' = Oks /\ Errors' = Errors /\ Drops' = Drops
    BY <1>1, <1>4, <1>5 DEF OnlyCreates, StagesKept, Oks, Errors, Drops
  <2> QED BY <1>2, <1>3, <1>4, <2>1 DEF Contract!vars, Oks, Errors, Drops, HowItEnds
<1>6. CASE /\ phase = "serial" /\ phase' = "exporting" /\ Head(serial) \in Action
           /\ Live(Head(serial)) /\ task' = [task EXCEPT ![Head(serial)] = "cancelled"]
  <2>1. PICK x \in Action : Live(x) /\ task' = [task EXCEPT ![x] = "cancelled"]
    BY <1>6
  <2>2. x \notin Oks /\ x \notin Errors /\ x \notin Drops
    BY <2>1 DEF Oks, Errors, Drops, Live, LiveStage
  <2>3. Oks' = Oks /\ Errors' = Errors /\ Drops' = IF x \in began THEN Drops \cup {x} ELSE Drops
    BY <1>1, <1>4, <2>1, <2>2 DEF Oks, Errors, Drops
  <2>4. HowItEnds = "running"
    BY <1>6 DEF HowItEnds
  <2>5. CASE x \in began
    <3>1. Contract!Drop(x)
      BY <1>2, <1>3, <1>4, <2>2, <2>3, <2>4, <2>5
         DEF Contract!Drop, Contract!Open, Contract!Running, Oks, Errors, Drops, HowItEnds
    <3> QED BY <3>1 DEF Contract!Next
  <2>6. CASE x \notin began
    BY <1>2, <1>3, <1>4, <2>3, <2>6 DEF Contract!vars, Oks, Errors, Drops, HowItEnds
  <2> QED BY <2>5, <2>6
<1> QED
  BY <1>5, <1>6, RunnerCreates

\* Every step of the runner is a step of the contract or none.
LEMMA StepKeeps ==
  ASSUME PlansOnce, ContractInv, [Next]_vars
  PROVE  [Contract!Next]_(Contract!vars)
<1>1. CASE Finish \/ ExportRaises \/ CancelExport
  BY <1>1, FinishKeeps DEF Contract!Next
<1>2. CASE \E x \in Action : TaskStep(x)
  BY <1>2, TaskStepKeeps
<1>3. CASE Next /\ ~ (\E x \in Action : TaskStep(x)) /\ ~ Finish /\ ~ ExportRaises /\ ~ CancelExport
  BY <1>3, OtherStepKeeps
<1>4. CASE UNCHANGED vars
  BY <1>4 DEF vars, Contract!vars, HowItEnds
<1> QED
  BY <1>1, <1>2, <1>3, <1>4

\* The runner's initial states are initial states of the contract.
LEMMA InitKeeps == PlansOnce => (Init => Contract!Init)
<1> SUFFICES ASSUME PlansOnce, Init PROVE Contract!Init
  OBVIOUS
<1>1. order = PromisedOrder /\ began = {} /\ phase = "idle" /\ task = [x \in Action |-> "new"]
  BY DEF Init
<1>2. PromisedOrder \subseteq Action \X Action
  <2>1. \A p \in Places : RunsAt(p) \subseteq Action
    BY SomePlace
  <2> QED BY <2>1 DEF PromisedOrder
<1>3. HowItEnds = "running"
  BY <1>1 DEF HowItEnds
<1> QED
  BY <1>1, <1>2, <1>3 DEF Contract!Init

\* Whatever the plan, the guards, the service calls, the failures and a cancellation
\* do, the runner keeps the contract, provided the plan names every action once.
THEOREM RunnerKeepsContract == PlansOnce => (Spec => KeepsContract)
<1>1. PlansOnce => (Init => ContractInv)
  BY InitContract
<1>2. PlansOnce => (ContractInv /\ [Next]_vars => ContractInv')
  BY StepContract
<1>3. PlansOnce => (Init => Contract!Init)
  BY InitKeeps
<1>4. PlansOnce => (ContractInv /\ [Next]_vars => [Contract!Next]_(Contract!vars))
  BY StepKeeps
<1> SUFFICES ASSUME PlansOnce PROVE Spec => KeepsContract
  OBVIOUS
<1>5. Init => ContractInv /\ Contract!Init
  BY <1>1, <1>3
<1>6. ContractInv /\ [Next]_vars => ContractInv'
  BY <1>2
<1>7. ContractInv /\ [Next]_vars => [Contract!Next]_(Contract!vars)
  BY <1>4
<1> QED
  BY <1>5, <1>6, <1>7, PTL DEF Spec, KeepsContract, Contract!Spec

\* What the contract is worth to its callers (PlanContract_proofs), of the runner itself:
\* an action has begun only when everything before it succeeded, "ok" means everything
\* succeeded, and a call that was not cancelled leaves nothing running.
Kept == INSTANCE PlanContract_proofs WITH
    before  <- order,
    started <- began,
    done    <- {a \in Action : task[a] = "ok"},
    failed  <- {a \in began : task[a] = "error"},
    dropped <- {a \in began : task[a] = "cancelled"},
    verdict <- HowItEnds

\* The runner keeps to the order of the plan.
THEOREM RunnerInOrder ==
  PlansOnce => (Spec => [](Contract!PredecessorsDone /\ Contract!EndsClean))
<1> SUFFICES ASSUME PlansOnce PROVE Spec => [](Contract!PredecessorsDone /\ Contract!EndsClean)
  OBVIOUS
<1>1. Spec => Contract!Spec
  BY RunnerKeepsContract DEF KeepsContract
<1>2. /\ Contract!Init <=> Kept!Init
      /\ [Contract!Next]_(Contract!vars) <=> [Kept!Next]_(Kept!vars)
  BY DEF Contract!Init, Kept!Init, Contract!Next, Kept!Next, Contract!vars, Kept!vars,
         Contract!Start, Kept!Start, Contract!Succeed, Kept!Succeed, Contract!Fail, Kept!Fail,
         Contract!Drop, Kept!Drop, Contract!End, Kept!End, Contract!Open, Kept!Open,
         Contract!Running, Kept!Running
<1>3. Contract!Spec => Kept!Spec
  BY <1>2, PTL DEF Contract!Spec, Kept!Spec
<1>4. /\ Kept!PredecessorsDone => Contract!PredecessorsDone
      /\ Kept!EndsClean => Contract!EndsClean
  BY DEF Contract!PredecessorsDone, Kept!PredecessorsDone, Contract!EndsClean, Kept!EndsClean,
         Contract!Running, Kept!Running
<1> QED
  BY <1>1, <1>3, <1>4, Kept!BeginsInOrder, Kept!EndIsClean, PTL

-----------------------------------------------------------------------------
(* Laid end to end                                                         *)

\* The segments laid end to end, one after the other.
FlatRun(h, ss, A) ==
    /\ h \in [0 .. Len(ss) -> Seq(A)]
    /\ h[0] = << >>
    /\ \A k \in 1 .. Len(ss) : h[k] = h[k - 1] \o ss[k]
    /\ FlattenSeq(ss) = h[Len(ss)]

\* FlattenSeq lays one segment behind the other.
LEMMA FlatSteps ==
  ASSUME NEW A, NEW ss \in Seq(Seq(A))
  PROVE  \E h : FlatRun(h, ss, A)
<1> DEFINE n == Len(ss)
           D == Seq(A)
           F == [p \in D \X (1 .. n) |-> p[1] \o ss[p[2]]]
           flat == CHOOSE f : f = [i \in 1 .. n |-> IF i = 1 THEN ss[i] ELSE f[i - 1] \o ss[i]]
<1>1. n \in Nat /\ << >> \in D /\ \A k \in 1 .. n : ss[k] \in D
  OBVIOUS
<1>2. F \in [D \X (1 .. n) -> D]
  BY <1>1
<1>3. PICK g \in [SUBSET (1 .. n) -> D] : IsFold(g, n, << >>, F)
  <2> HIDE DEF n, D, F
  <2> QED BY <1>1, <1>2, FoldExists, Zenon
<1>4. g[{}] = << >>
  BY <1>3 DEF IsFold
<1>5. \A k \in 1 .. n : g[1 .. k] = g[1 .. (k - 1)] \o ss[k]
  <2> SUFFICES ASSUME NEW k \in 1 .. n PROVE g[1 .. k] = g[1 .. (k - 1)] \o ss[k]
    OBVIOUS
  <2>1. 1 .. k \in SUBSET (1 .. n) /\ 1 .. k # {}
    BY <1>1, PrefixIsPart, Zenon
  <2>4. 1 .. (k - 1) \in SUBSET (1 .. n)
    OBVIOUS
  <2>2. Max(1 .. k) = k /\ (1 .. k) \ {k} = 1 .. (k - 1)
    BY <1>1, MaxOfPrefix
  <2>3. g[1 .. k] = F[<< g[1 .. (k - 1)], k >>]
    <3> HIDE DEF F, D
    <3> QED BY <1>3, <2>1, <2>2 DEF IsFold
  <2>5. g[1 .. (k - 1)] \in D
    BY <2>4
  <2> QED BY <2>3, <2>5
<1> DEFINE h == [k \in 0 .. n |-> g[1 .. k]]
<1>6. /\ h \in [0 .. n -> D] /\ h[0] = << >>
      /\ \A k \in 1 .. n : h[k] = h[k - 1] \o ss[k]
  <2>1. \A k \in 0 .. n : 1 .. k \in SUBSET (1 .. n)
    BY <1>1
  <2>2. 1 .. 0 = {} /\ 0 \in 0 .. n
    BY <1>1
  <2>3. \A k \in 1 .. n : k \in 0 .. n /\ k - 1 \in 0 .. n
    BY <1>1
  <2> HIDE DEF D, n
  <2> QED BY <1>4, <1>5, <2>1, <2>2, <2>3
<1> HIDE DEF h
<1>7. [i \in 1 .. n |-> h[i]] = [i \in 1 .. n |-> IF i = 1 THEN ss[i] ELSE [j \in 1 .. n |-> h[j]][i - 1] \o ss[i]]
  <2> SUFFICES ASSUME NEW i \in 1 .. n
               PROVE  h[i] = IF i = 1 THEN ss[i] ELSE [j \in 1 .. n |-> h[j]][i - 1] \o ss[i]
    OBVIOUS
  <2>1. CASE i = 1
    <3>1. h[1] = h[0] \o ss[1]
      BY <1>6, <2>1, 1 - 1 = 0
    <3>2. ss[1] \in Seq(A)
      BY <2>1, <1>1
    <3> QED BY <1>6, <2>1, <3>1, <3>2, ConcatEmptySeq
  <2>2. CASE i # 1
    <3>1. i - 1 \in 1 .. n
      BY <2>2, <1>1
    <3> QED BY <2>2, <3>1, <1>6
  <2> QED BY <2>1, <2>2
<1>8. flat = [i \in 1 .. n |-> IF i = 1 THEN ss[i] ELSE flat[i - 1] \o ss[i]]
  <2> HIDE DEF n
  <2> QED BY <1>7
<1>9. FlattenSeq(ss) = IF n = 0 THEN ss ELSE flat[n]
  BY DEF FlattenSeq
<1> HIDE DEF flat
<1>10. \A k \in 1 .. n : flat[k] = h[k]
  <2> SUFFICES ASSUME NEW k \in 1 .. n PROVE flat[k] = h[k]
    OBVIOUS
  <2> DEFINE T == {0} \cup {m \in 1 .. k : flat[m] = h[m]}
  <2>0. \A m \in 1 .. n : flat[m] = IF m = 1 THEN ss[m] ELSE flat[m - 1] \o ss[m]
    BY <1>8, Zenon
  <2>1. ASSUME NEW m \in 1 .. k, m - 1 \in T PROVE m \in T
    <3>1. CASE m = 1
      <4>0. 1 \in 1 .. n /\ 1 - 1 = 0
        BY <3>1
      <4>1. h[1] = << >> \o ss[1] /\ ss[1] \in Seq(A)
        BY <1>1, <1>6, <4>0
      <4>2. h[1] = ss[1]
        BY <4>1, ConcatEmptySeq
      <4>3. flat[1] = ss[1]
        BY <2>0, <4>0
      <4> QED BY <3>1, <4>0, <4>2, <4>3
    <3>2. CASE m # 1
      <4>1. m - 1 \in 1 .. k /\ flat[m - 1] = h[m - 1] /\ m \in 1 .. n
        BY <2>1, <3>2
      <4> QED BY <2>0, <1>6, <3>2, <4>1
    <3> QED BY <3>1, <3>2
  <2>2. k \in T
    <3>1. 0 \in T /\ k \in Nat
      OBVIOUS
    <3> HIDE DEF T
    <3> QED BY <2>1, <3>1, PrefixInduction
  <2> QED BY <2>2
<1>11. FlattenSeq(ss) = h[n]
  <2>1. CASE n = 0
    <3>1. ss = << >> /\ h[n] = << >>
      BY <2>1, <1>6
    <3> QED BY <1>9, <2>1, <3>1
  <2>2. CASE n # 0
    <3>1. n \in 1 .. n
      BY <1>1, <2>2
    <3> QED BY <1>9, <1>10, <2>2, <3>1
  <2> QED BY <2>1, <2>2
<1>12. FlatRun(h, ss, A)
  BY <1>6, <1>11, Zenon DEF FlatRun
<1> QED
  BY <1>12

\* Up to where two sequences of segments agree, they are laid alike.
LEMMA FlatAgree ==
  ASSUME NEW A, NEW ss \in Seq(Seq(A)), NEW tt \in Seq(Seq(A)), NEW h, FlatRun(h, ss, A),
         NEW g, FlatRun(g, tt, A), NEW m \in Nat, m <= Len(ss), m <= Len(tt),
         \A k \in 1 .. m : ss[k] = tt[k]
  PROVE  h[m] = g[m]
<1> DEFINE T == {k \in 0 .. m : h[k] = g[k]}
<1>1. 0 \in T
  BY DEF FlatRun
<1>2. ASSUME NEW k \in 1 .. m, k - 1 \in T PROVE k \in T
  <2>1. k \in 1 .. Len(ss) /\ k \in 1 .. Len(tt) /\ k \in 0 .. m /\ h[k - 1] = g[k - 1]
    BY <1>2
  <2>2. h[k] = h[k - 1] \o ss[k] /\ g[k] = g[k - 1] \o tt[k] /\ ss[k] = tt[k]
    BY <2>1 DEF FlatRun
  <2> QED BY <2>1, <2>2
<1>3. m \in T
  <2> HIDE DEF T
  <2> QED BY <1>1, <1>2, PrefixInduction
<1> QED
  BY <1>3

\* What is laid end to end is a sequence again; nothing laid is nothing.
LEMMA FlatType ==
  ASSUME NEW A, NEW ss \in Seq(Seq(A))
  PROVE  FlattenSeq(ss) \in Seq(A) /\ (ss = << >> => FlattenSeq(ss) = << >>)
<1>1. PICK h : FlatRun(h, ss, A)
  BY FlatSteps, Zenon
<1>2. Len(ss) \in 0 .. Len(ss)
  OBVIOUS
<1>3. ss = << >> => Len(ss) = 0
  OBVIOUS
<1> QED
  BY <1>1, <1>2, <1>3 DEF FlatRun

\* Laying behind each other is associative.
LEMMA ConcatAssoc ==
  ASSUME NEW A, NEW s \in Seq(A), NEW t \in Seq(A), NEW u \in Seq(A)
  PROVE  (s \o t) \o u = s \o (t \o u)
BY ConcatAssociative

\* A segment more is laid behind the others.
LEMMA FlatAppend ==
  ASSUME NEW A, NEW ss \in Seq(Seq(A)), NEW s \in Seq(A)
  PROVE  FlattenSeq(Append(ss, s)) = FlattenSeq(ss) \o s
<1> DEFINE tt == Append(ss, s)
           n == Len(ss)
<1>1. /\ tt \in Seq(Seq(A)) /\ Len(tt) = n + 1 /\ tt[n + 1] = s /\ \A k \in 1 .. n : tt[k] = ss[k]
      /\ n \in Nat
  BY AppendProperties
<1> HIDE DEF tt, n
<1>2. PICK h : FlatRun(h, ss, A)
  BY FlatSteps, Zenon
<1>3. PICK g : FlatRun(g, tt, A)
  BY <1>1, FlatSteps, Zenon
<1>4. h[n] = g[n]
  <2>1. n <= Len(ss) /\ n <= Len(tt) /\ \A k \in 1 .. n : ss[k] = tt[k]
    BY <1>1 DEF n
  <2>2. n \in Nat /\ tt \in Seq(Seq(A))
    BY <1>1
  <2> QED BY <1>2, <1>3, <2>1, <2>2, FlatAgree
<1>5. g[n + 1] = g[n] \o s
  <2>1. n + 1 \in 1 .. Len(tt) /\ (n + 1) - 1 = n
    BY <1>1
  <2>2. g[n + 1] = g[(n + 1) - 1] \o tt[n + 1]
    BY <1>3, <2>1, Zenon DEF FlatRun
  <2> QED BY <2>1, <2>2, <1>1
<1>6. FlattenSeq(ss) = h[n] /\ FlattenSeq(tt) = g[n + 1]
  BY <1>1, <1>2, <1>3 DEF FlatRun, n
<1> QED
  BY <1>4, <1>5, <1>6 DEF tt

\* An action more in the last segment is laid behind the others.
LEMMA FlatExtend ==
  ASSUME NEW A, NEW ss \in Seq(Seq(A)), ss # << >>, NEW a \in A
  PROVE  FlattenSeq([ss EXCEPT ![Len(ss)] = Append(@, a)]) = FlattenSeq(ss) \o << a >>
<1> DEFINE n == Len(ss)
           l == Append(ss[n], a)
           tt == [ss EXCEPT ![n] = l]
<1>1. n \in Nat /\ n \in 1 .. n /\ n - 1 \in Nat /\ n - 1 <= n
  OBVIOUS
<1>2. ss[n] \in Seq(A) /\ << a >> \in Seq(A) /\ l \in Seq(A) /\ l = ss[n] \o << a >>
  BY <1>1, AppendIsConcat
<1>3. tt \in Seq(Seq(A)) /\ Len(tt) = n /\ tt[n] = l /\ \A k \in 1 .. n : k # n => tt[k] = ss[k]
  <2> HIDE DEF l
  <2> QED BY <1>1, <1>2, ExceptSeq
<1> HIDE DEF n, l, tt
<1>4. PICK h : FlatRun(h, ss, A)
  BY FlatSteps, Zenon
<1>5. PICK g : FlatRun(g, tt, A)
  BY <1>3, FlatSteps, Zenon
<1>6. h[n - 1] = g[n - 1]
  <2> DEFINE m == n - 1
  <2>1. \A k \in 1 .. m : ss[k] = tt[k]
    BY <1>1, <1>3
  <2>2. m <= Len(ss) /\ m <= Len(tt)
    BY <1>1, <1>3 DEF n
  <2>3. m \in Nat /\ tt \in Seq(Seq(A))
    BY <1>1, <1>3
  <2>4. h[m] = g[m]
    <3> HIDE DEF m
    <3> QED BY <1>4, <1>5, <2>1, <2>2, <2>3, FlatAgree
  <2> QED BY <2>4
<1>7. h[n] = h[n - 1] \o ss[n] /\ g[n] = g[n - 1] \o l /\ h[n - 1] \in Seq(A)
  <2>1. Len(ss) = n
    BY DEF n
  <2>2. n - 1 \in 0 .. n
    BY <1>1
  <2> QED BY <1>1, <1>3, <1>4, <1>5, <2>1, <2>2, Zenon DEF FlatRun
<1>8. FlattenSeq(ss) = h[n] /\ FlattenSeq(tt) = g[n]
  BY <1>3, <1>4, <1>5 DEF FlatRun, n
<1>9. FlattenSeq(tt) = FlattenSeq(ss) \o << a >>
  <2>1. h[n - 1] \o (ss[n] \o << a >>) = (h[n - 1] \o ss[n]) \o << a >>
    <3> DEFINE x == h[n - 1]
               y == ss[n]
               z == << a >>
    <3>1. x \in Seq(A) /\ y \in Seq(A) /\ z \in Seq(A)
      BY <1>2, <1>7
    <3>2. (x \o y) \o z = x \o (y \o z)
      <4> HIDE DEF x, y, z
      <4> QED BY <3>1, ConcatAssoc, SMTT(30)
    <3> QED BY <3>2
  <2> QED BY <1>2, <1>6, <1>7, <1>8, <2>1, Zenon
<1> QED
  BY <1>9 DEF tt, l, n

\* Two rows of segments behind each other.
LEMMA FlatConcat ==
  ASSUME NEW A, NEW s1 \in Seq(Seq(A)), NEW s2 \in Seq(Seq(A))
  PROVE  FlattenSeq(s1 \o s2) = FlattenSeq(s1) \o FlattenSeq(s2)
<1> DEFINE n1 == Len(s1)
           n2 == Len(s2)
           tt == s1 \o s2
<1>1. /\ n1 \in Nat /\ n2 \in Nat /\ tt \in Seq(Seq(A)) /\ Len(tt) = n1 + n2
      /\ \A k \in 1 .. n1 : tt[k] = s1[k]
      /\ \A k \in 1 .. n2 : n1 + k \in 1 .. (n1 + n2) /\ tt[n1 + k] = s2[k]
  OBVIOUS
<1> HIDE DEF n1, n2, tt
<1>2. PICK h : FlatRun(h, s1, A)
  BY FlatSteps, Zenon
<1>3. PICK g : FlatRun(g, s2, A)
  BY FlatSteps, Zenon
<1>4. PICK f : FlatRun(f, tt, A)
  BY <1>1, FlatSteps, Zenon
<1>5. h[n1] = f[n1]
  <2>1. n1 <= Len(s1) /\ n1 <= Len(tt) /\ \A k \in 1 .. n1 : s1[k] = tt[k]
    BY <1>1 DEF n1
  <2>2. n1 \in Nat /\ tt \in Seq(Seq(A))
    BY <1>1
  <2> QED BY <1>2, <1>4, <2>1, <2>2, FlatAgree
<1>6. h[n1] \in Seq(A) /\ \A k \in 0 .. n2 : g[k] \in Seq(A)
  <2>1. n1 \in 0 .. Len(s1)
    BY <1>1 DEF n1
  <2> QED BY <1>2, <1>3, <2>1 DEF FlatRun, n2
<1> DEFINE T == {k \in 0 .. n2 : f[n1 + k] = h[n1] \o g[k]}
<1>7. 0 \in T
  <2>1. h[n1] \o << >> = h[n1] /\ n1 + 0 = n1 /\ g[0] = << >> /\ 0 \in 0 .. n2
    BY <1>1, <1>3, <1>6, ConcatEmptySeq DEF FlatRun
  <2> QED BY <1>5, <2>1
<1>8. ASSUME NEW k \in 1 .. n2, k - 1 \in T PROVE k \in T
  <2>1. k \in 0 .. n2 /\ k - 1 \in 0 .. n2 /\ (n1 + k) - 1 = n1 + (k - 1)
    BY <1>1
  <2>2. f[n1 + k] = f[n1 + (k - 1)] \o s2[k] /\ g[k] = g[k - 1] \o s2[k]
    <3>1. n1 + k \in 1 .. Len(tt) /\ k \in 1 .. Len(s2)
      BY <1>1 DEF n2
    <3>2. f[n1 + k] = f[(n1 + k) - 1] \o tt[n1 + k] /\ g[k] = g[k - 1] \o s2[k]
      BY <1>3, <1>4, <3>1, Zenon DEF FlatRun
    <3> QED BY <3>2, <2>1, <1>1
  <2>3. f[n1 + (k - 1)] = h[n1] \o g[k - 1] /\ g[k - 1] \in Seq(A) /\ s2[k] \in Seq(A)
    <3>1. s2[k] \in Seq(A)
      BY DEF n2
    <3> QED BY <3>1, <1>8, <1>6, <2>1
  <2>4. (h[n1] \o g[k - 1]) \o s2[k] = h[n1] \o (g[k - 1] \o s2[k])
    <3> DEFINE x == h[n1]
               y == g[k - 1]
               z == s2[k]
    <3>1. x \in Seq(A) /\ y \in Seq(A) /\ z \in Seq(A)
      BY <1>6, <2>3
    <3>2. (x \o y) \o z = x \o (y \o z)
      <4> HIDE DEF x, y, z
      <4> QED BY <3>1, ConcatAssoc, SMTT(30)
    <3> QED BY <3>2
  <2>5. f[n1 + k] = h[n1] \o g[k]
    BY <2>2, <2>3, <2>4, Zenon
  <2> QED BY <2>1, <2>5
<1>9. n2 \in T
  <2> HIDE DEF T
  <2> QED BY <1>1, <1>7, <1>8, PrefixInduction
<1>10. FlattenSeq(s1) = h[n1] /\ FlattenSeq(s2) = g[n2] /\ FlattenSeq(tt) = f[n1 + n2]
  BY <1>1, <1>2, <1>3, <1>4 DEF FlatRun, n1, n2
<1> QED
  BY <1>9, <1>10 DEF tt

\* The range of two sequences put together.
LEMMA ConcatSet ==
  ASSUME NEW A, NEW s \in Seq(A), NEW t \in Seq(A)
  PROVE  ToSet(s \o t) = ToSet(s) \cup ToSet(t)
<1>1. DOMAIN s = 1 .. Len(s) /\ DOMAIN t = 1 .. Len(t)
  OBVIOUS
<1>2. /\ DOMAIN (s \o t) = 1 .. (Len(s) + Len(t))
      /\ \A i \in 1 .. (Len(s) + Len(t)) :
            \/ i \in 1 .. Len(s) /\ (s \o t)[i] = s[i]
            \/ i - Len(s) \in 1 .. Len(t) /\ (s \o t)[i] = t[i - Len(s)]
      /\ \A i \in 1 .. Len(s) : i \in 1 .. (Len(s) + Len(t)) /\ (s \o t)[i] = s[i]
      /\ \A i \in 1 .. Len(t) : i + Len(s) \in 1 .. (Len(s) + Len(t)) /\ (s \o t)[i + Len(s)] = t[i]
  BY ConcatRange
<1>3. ASSUME NEW x PROVE x \in ToSet(s \o t) <=> x \in ToSet(s) \/ x \in ToSet(t)
  <2>1. x \in ToSet(s \o t) <=> \E i \in 1 .. (Len(s) + Len(t)) : x = (s \o t)[i]
    BY <1>2 DEF ToSet
  <2>2. x \in ToSet(s) <=> \E i \in 1 .. Len(s) : x = s[i]
    BY <1>1 DEF ToSet
  <2>3. x \in ToSet(t) <=> \E i \in 1 .. Len(t) : x = t[i]
    BY <1>1 DEF ToSet
  <2> QED BY <1>2, <2>1, <2>2, <2>3, Zenon
<1> QED
  BY <1>3

\* What is laid end to end is what the segments hold.
LEMMA FlatSet ==
  ASSUME NEW A, NEW ss \in Seq(Seq(A))
  PROVE  ToSet(FlattenSeq(ss)) = UNION {ToSet(ss[i]) : i \in 1 .. Len(ss)}
<1> DEFINE n == Len(ss)
           Held(k) == UNION {ToSet(ss[i]) : i \in 1 .. k}
<1>1. n \in Nat /\ \A k \in 1 .. n : ss[k] \in Seq(A)
  OBVIOUS
<1>2. PICK h : FlatRun(h, ss, A)
  BY FlatSteps, Zenon
<1> DEFINE T == {k \in 0 .. n : ToSet(h[k]) = Held(k)}
<1>3. 0 \in T
  <2>1. h[0] = << >> /\ ToSet(<< >>) = {} /\ Held(0) = {} /\ 0 \in 0 .. n
    BY <1>1, <1>2 DEF FlatRun, ToSet
  <2> HIDE DEF Held, n
  <2> QED BY <2>1
<1>4. ASSUME NEW k \in 1 .. n, k - 1 \in T PROVE k \in T
  <2>1. h[k] = h[k - 1] \o ss[k] /\ h[k - 1] \in Seq(A) /\ ss[k] \in Seq(A) /\ k \in 0 .. n
    <3>1. k - 1 \in 0 .. n
      BY <1>1
    <3>2. h[k] = h[k - 1] \o ss[k] /\ h[k - 1] \in Seq(A)
      BY <1>2, <3>1, Zenon DEF FlatRun, n
    <3> QED BY <1>1, <3>2
  <2>2. ToSet(h[k]) = ToSet(h[k - 1]) \cup ToSet(ss[k])
    BY <2>1, ConcatSet
  <2>3. Held(k) = Held(k - 1) \cup ToSet(ss[k])
    <3>1. \A j \in 1 .. k : j \in 1 .. (k - 1) \/ j = k
      OBVIOUS
    <3>2. k \in 1 .. k /\ \A j \in 1 .. (k - 1) : j \in 1 .. k
      OBVIOUS
    <3> QED BY <3>1, <3>2
  <2>4. ToSet(h[k - 1]) = Held(k - 1)
    BY <1>4
  <2> HIDE DEF Held
  <2> QED BY <2>1, <2>2, <2>3, <2>4
<1>5. n \in T
  <2> HIDE DEF T
  <2> QED BY <1>1, <1>3, <1>4, PrefixInduction
<1>6. FlattenSeq(ss) = h[n]
  BY <1>2 DEF FlatRun
<1> QED
  BY <1>5, <1>6

\* Placing an action lays it behind the others, whatever the scope and the size.
LEMMA PlaceFlat ==
  ASSUME NEW segs \in Seq(Seq(Action)), NEW a \in Action, NEW scope, NEW size
  PROVE  FlattenSeq(PlaceAction(segs, a, scope, size)) = FlattenSeq(segs) \o << a >>
<1>1. FlattenSeq(Append(segs, << a >>)) = FlattenSeq(segs) \o << a >>
  <2> DEFINE s == << a >>
  <2>1. s \in Seq(Action)
    OBVIOUS
  <2> HIDE DEF s
  <2>2. FlattenSeq(Append(segs, s)) = FlattenSeq(segs) \o s
    BY <2>1, FlatAppend
  <2> QED BY <2>2 DEF s
<1>2. segs # << >> =>
        FlattenSeq([segs EXCEPT ![Len(segs)] = Append(@, a)]) = FlattenSeq(segs) \o << a >>
  BY FlatExtend
<1> QED
  BY <1>1, <1>2 DEF PlaceAction

\* Cutting a segment lays it behind the others.
LEMMA CutFlat ==
  ASSUME NEW segs \in Seq(Seq(Action)), NEW segment \in Seq(Action), NEW scope, NEW size
  PROVE  FlattenSeq(CutSegment(segs, segment, scope, size)) = FlattenSeq(segs) \o segment
<1> DEFINE n == Len(segment)
           base == FlattenSeq(segs)
           Upto(k) == SubSeq(segment, 1, k)
<1>1. n \in Nat /\ base \in Seq(Action) /\ \A k \in 1 .. n : segment[k] \in Action
  BY FlatType
<1>2. PICK h : CutRun(h, segs, segment, scope, size)
  BY CutSteps, Zenon
<1> DEFINE T == {k \in 0 .. n : FlattenSeq(h[k]) = base \o Upto(k)}
<1>3. 0 \in T
  <2>1. h[0] = segs /\ Upto(0) = << >> /\ 0 \in 0 .. n
    BY <1>1, <1>2, SubSeqEmpty DEF CutRun
  <2>2. base \o << >> = base
    BY <1>1, ConcatEmptySeq
  <2> HIDE DEF Upto, n
  <2> QED BY <2>1, <2>2 DEF base
<1>4. ASSUME NEW k \in 1 .. n, k - 1 \in T PROVE k \in T
  <2> DEFINE x == Upto(k - 1)
             y == << segment[k] >>
             was == h[k - 1]
             now == h[k]
  <2>1. x \in Seq(Action) /\ y \in Seq(Action) /\ Upto(k) = x \o y
    <3>1. \A i \in 1 .. (k - 1) : segment[i] \in Action
      BY <1>1
    <3>2. x \in Seq(Action)
      BY <3>1, SubSeqProperties
    <3>3. 1 \in 1 .. Len(segment) /\ k \in 1 .. Len(segment)
      BY <1>1
    <3> QED BY <1>1, <3>2, <3>3, SubSeqRecursiveSecond
  <2>2. k \in 0 .. n /\ k - 1 \in 0 .. n
    BY <1>1
  <2>3. was \in Seq(Seq(Action)) /\ now = PlaceAction(was, segment[k], scope, size)
    BY <1>2, <2>2, Zenon DEF CutRun, n
  <2>4. FlattenSeq(was) = base \o x
    BY <1>4
  <2> HIDE DEF was, x, base, Upto
  <2>5. FlattenSeq(now) = FlattenSeq(was) \o y
    BY <1>1, <2>3, PlaceFlat
  <2> HIDE DEF y, now
  <2>6. (base \o x) \o y = base \o (x \o y)
    <3>1. base \in Seq(Action) /\ x \in Seq(Action) /\ y \in Seq(Action)
      BY <1>1, <2>1, Zenon
    <3> QED BY <3>1, ConcatAssoc, SMTT(30)
  <2>7. FlattenSeq(now) = base \o Upto(k)
    BY <2>1, <2>4, <2>5, <2>6, Zenon
  <2> QED BY <2>2, <2>7 DEF now
<1>5. n \in T
  <2> HIDE DEF T
  <2> QED BY <1>1, <1>3, <1>4, PrefixInduction
<1>6. Upto(n) = segment
  BY SubSeqFull
<1>7. FlattenSeq(h[n]) = base \o segment
  BY <1>5, <1>6
<1>8. FlattenSeq(Append(segs, segment)) = base \o segment
  BY FlatAppend
<1> QED
  BY <1>2, <1>7, <1>8, Zenon DEF CutRun, base, n

\* A row lays its segments as it found them.
LEMMA RowFlat ==
  ASSUME NEW ids, NEW segs \in Seq(Seq(Action)), NEW row
  PROVE  FlattenSeq(ApplyRow(ids, segs, row)) = FlattenSeq(segs)
<1> DEFINE n == Len(segs)
<1>1. n \in Nat
  OBVIOUS
<1>2. PICK scope : scope = IF row.scope = {} THEN ToSet(ids) ELSE row.scope
  OBVIOUS
<1>3. PICK h : RowRun(h, ids, segs, row, scope)
  BY <1>2, RowSteps, Zenon
<1>4. PICK g : FlatRun(g, segs, Action)
  BY FlatSteps, Zenon
<1> DEFINE T == {k \in 0 .. n : FlattenSeq(h[k]) = g[k]}
<1>5. 0 \in T
  <2>1. h[0] = << >> /\ g[0] = << >> /\ 0 \in 0 .. n
    BY <1>1, <1>3, <1>4 DEF RowRun, FlatRun
  <2>2. << >> \in Seq(Seq(Action))
    OBVIOUS
  <2>3. FlattenSeq(<< >>) = << >>
    BY <2>2, FlatType
  <2> QED BY <2>1, <2>3
<1>6. ASSUME NEW k \in 1 .. n, k - 1 \in T PROVE k \in T
  <2> DEFINE was == h[k - 1]
             seg == segs[k]
  <2>1. k \in 0 .. n /\ k - 1 \in 0 .. n /\ seg \in Seq(Action)
    BY <1>1
  <2>2. was \in Seq(Seq(Action)) /\ h[k] = CutSegment(was, seg, scope, ChunkSize(row))
    BY <1>3, <2>1, Zenon DEF RowRun, n
  <2>3. g[k] = g[k - 1] \o seg
    BY <1>4, Zenon DEF FlatRun, n
  <2>4. FlattenSeq(was) = g[k - 1]
    BY <1>6
  <2> HIDE DEF was, seg
  <2>5. FlattenSeq(h[k]) = FlattenSeq(was) \o seg
    BY <2>1, <2>2, CutFlat
  <2> QED BY <2>1, <2>3, <2>4, <2>5
<1>7. n \in T
  <2> HIDE DEF T
  <2> QED BY <1>1, <1>5, <1>6, PrefixInduction
<1>8. FlattenSeq(h[n]) = FlattenSeq(segs)
  BY <1>7, <1>4 DEF FlatRun
<1> QED
  BY <1>3, <1>8, Zenon DEF RowRun, n

\* The segments of a group, laid end to end, are the group.
LEMMA GroupFlat ==
  ASSUME NEW ids \in Seq(Action), NEW R, NEW rows \in Seq(R)
  PROVE  FlattenSeq(ReshapeGroup(ids, rows)) = ids
<1> DEFINE n == Len(rows)
<1>1. n \in Nat
  OBVIOUS
<1>2. PICK h : GroupRun(h, ids, rows)
  BY GroupSteps, Zenon
<1> DEFINE T == {k \in 0 .. n : FlattenSeq(h[k]) = ids}
<1>3. 0 \in T
  <2> DEFINE none == << >>
  <2>1. none \in Seq(Seq(Action)) /\ FlattenSeq(none) = << >>
    <3>1. none \in Seq(Seq(Action))
      OBVIOUS
    <3>2. FlattenSeq(none) \in Seq(Action) /\ (none = << >> => FlattenSeq(none) = << >>)
      <4> HIDE DEF none
      <4> QED BY <3>1, FlatType
    <3> QED BY <3>1, <3>2
  <2>2. << >> \o ids = ids
    BY ConcatEmptySeq
  <2>3. Append(none, ids) = << ids >>
    OBVIOUS
  <2>4. FlattenSeq(Append(none, ids)) = FlattenSeq(none) \o ids
    <3> HIDE DEF none
    <3> QED BY <2>1, FlatAppend
  <2>5. FlattenSeq(<< ids >>) = ids
    BY <2>1, <2>2, <2>3, <2>4
  <2>6. h[0] = << ids >> /\ 0 \in 0 .. n
    BY <1>1, <1>2 DEF GroupRun
  <2> QED BY <2>5, <2>6
<1>4. ASSUME NEW k \in 1 .. n, k - 1 \in T PROVE k \in T
  <2> DEFINE was == h[k - 1]
  <2>1. k \in 0 .. n /\ k - 1 \in 0 .. n
    BY <1>1
  <2>2. was \in Seq(Seq(Action)) /\ h[k] = ApplyRow(ids, was, rows[k])
    BY <1>2, <2>1, Zenon DEF GroupRun, n
  <2>3. FlattenSeq(was) = ids
    BY <1>4
  <2> HIDE DEF was
  <2>4. FlattenSeq(h[k]) = FlattenSeq(was)
    BY <2>2, RowFlat
  <2> QED BY <2>1, <2>3, <2>4
<1>5. n \in T
  <2> HIDE DEF T
  <2> QED BY <1>1, <1>3, <1>4, PrefixInduction
<1> QED
  BY <1>2, <1>5 DEF GroupRun

\* Reshaping a batch reorders nothing: laid end to end it is what it was.
LEMMA ReshapeFlat ==
  ASSUME NEW gs \in Seq(Seq(Action)), NEW R, NEW rows \in Seq(R)
  PROVE  FlattenSeq(Reshape(gs, rows)) = FlattenSeq(gs)
<1> DEFINE n == Len(gs)
<1>1. n \in Nat
  OBVIOUS
<1>2. PICK h : ReshapeRun(h, gs, rows)
  BY ReshapeSteps, Zenon
<1>3. PICK g : FlatRun(g, gs, Action)
  BY FlatSteps, Zenon
<1> DEFINE T == {k \in 0 .. n : FlattenSeq(h[k]) = g[k]}
<1>4. 0 \in T
  <2>1. h[0] = << >> /\ g[0] = << >> /\ 0 \in 0 .. n
    BY <1>1, <1>2, <1>3 DEF ReshapeRun, FlatRun
  <2>2. << >> \in Seq(Seq(Action))
    OBVIOUS
  <2>3. FlattenSeq(<< >>) = << >>
    BY <2>2, FlatType
  <2> QED BY <2>1, <2>3
<1>5. ASSUME NEW k \in 1 .. n, k - 1 \in T PROVE k \in T
  <2> DEFINE was == h[k - 1]
             parts == ReshapeGroup(gs[k], rows)
  <2>1. k \in 0 .. n /\ k - 1 \in 0 .. n /\ gs[k] \in Seq(Action)
    BY <1>1
  <2>2. was \in Seq(Seq(Action)) /\ h[k] = was \o parts
    BY <1>2, <2>1, Zenon DEF ReshapeRun, n
  <2>3. parts \in Seq(Seq(Action)) /\ FlattenSeq(parts) = gs[k]
    BY <2>1, GroupType, GroupFlat
  <2>4. g[k] = g[k - 1] \o gs[k]
    BY <1>3, Zenon DEF FlatRun, n
  <2>5. FlattenSeq(was) = g[k - 1]
    BY <1>5
  <2> HIDE DEF was, parts
  <2>6. FlattenSeq(was \o parts) = FlattenSeq(was) \o FlattenSeq(parts)
    BY <2>2, <2>3, FlatConcat
  <2> QED BY <2>1, <2>2, <2>3, <2>4, <2>5, <2>6
<1>6. n \in T
  <2> HIDE DEF T
  <2> QED BY <1>1, <1>4, <1>5, PrefixInduction
<1> QED
  BY <1>2, <1>3, <1>6 DEF ReshapeRun, FlatRun

\* What is appended to batch.fallback are rows.
FallbackKept == fallback \in Seq(FallbackRow)

\* Rows are only appended.
LEMMA FallbackInductive ==
  /\ BatchInit => FallbackKept
  /\ FallbackKept /\ [BatchNext]_batchVars => FallbackKept'
<1>1. BatchInit => FallbackKept
  BY DEF BatchInit, FallbackKept
<1>2. ASSUME FallbackKept, [BatchNext]_batchVars PROVE FallbackKept'
  <2>1. CASE UNCHANGED batchVars
    BY <1>2, <2>1 DEF batchVars, FallbackKept
  <2>2. ASSUME NEW row \in Rows, AppendFallback(row) PROVE FallbackKept'
    <3>1. row \in FallbackRow
      BY PatchAssumption DEF PatchAssumption
    <3> HIDE DEF FallbackRow
    <3> QED BY <1>2, <2>2, <3>1, AppendProperties DEF AppendFallback, FallbackKept
  <2>3. CASE ObserveGuards
    BY <1>2, <2>3 DEF ObserveGuards, FallbackKept
  <2> QED BY <1>2, <2>1, <2>2, <2>3 DEF BatchNext
<1> QED
  BY <1>1, <1>2

\* The initial groups are groups, and so is what is cut of them.
LEMMA SegmentsType ==
  ASSUME FallbackKept
  PROVE  InitialGroups \in Seq(Seq(Action)) /\ fallback \in Seq(FallbackRow)
BY PatchAssumption DEF PatchAssumption, FallbackKept

\* Cutting a batch loses, repeats and reorders nothing: whatever rows are appended in whatever
\* order (_reshape_groups_for_fallbacks).
THEOREM CutInOrder == BatchSpec => []OrderKept
<1>1. FallbackKept => OrderKept
  <2> SUFFICES ASSUME FallbackKept PROVE OrderKept
    OBVIOUS
  <2>1. InitialGroups \in Seq(Seq(Action)) /\ fallback \in Seq(FallbackRow)
    BY SegmentsType
  <2> HIDE DEF FallbackRow
  <2> QED BY <2>1, ReshapeFlat DEF OrderKept, segments
<1> QED
  BY <1>1, FallbackInductive, PTL DEF BatchSpec

-----------------------------------------------------------------------------
(* The row read last                                                       *)

\* What Only picks of a group, whether or not it lists an action twice.
LEMMA OnlySet ==
  ASSUME NEW s \in Seq(Action), NEW T
  PROVE  Only(s, T) \in Seq(Action) /\ ToSet(Only(s, T)) = ToSet(s) \cap T
<1> DEFINE n == Len(s)
           Seen(k) == {s[j] : j \in 1 .. k}
<1>1. n \in Nat /\ DOMAIN s = 1 .. n /\ \A k \in 1 .. n : s[k] \in Action
  OBVIOUS
<1>2. PICK h : OnlyRun(h, s, T)
  BY OnlySteps, Zenon
<1> DEFINE Picked(k) == h[k] \in Seq(Action) /\ ToSet(h[k]) = Seen(k) \cap T
           U == {k \in 0 .. n : Picked(k)}
<1>3. 0 \in U
  <2>1. h[0] = << >> /\ Seen(0) = {} /\ 0 \in 0 .. n
    BY <1>1, <1>2 DEF OnlyRun
  <2>2. ToSet(<< >>) = {}
    BY DEF ToSet
  <2>3. h[0] \in Seq(Action) /\ Seen(0) \cap T = {}
    BY <2>1
  <2>4. Picked(0)
    <3> HIDE DEF Seen
    <3> QED BY <2>1, <2>2, <2>3
  <2> HIDE DEF Picked, n
  <2> QED BY <2>1, <2>4
<1>4. ASSUME NEW k \in 1 .. n, k - 1 \in U PROVE k \in U
  <2>1. h[k] = IF s[k] \in T THEN Append(h[k - 1], s[k]) ELSE h[k - 1]
    BY <1>2 DEF OnlyRun
  <2>3. Seen(k) = Seen(k - 1) \cup {s[k]}
    <3>1. \A j \in 1 .. k : j \in 1 .. (k - 1) \/ j = k
      OBVIOUS
    <3>2. k \in 1 .. k /\ \A j \in 1 .. (k - 1) : j \in 1 .. k
      OBVIOUS
    <3> QED BY <3>1, <3>2
  <2>4. Picked(k - 1) /\ k \in 0 .. n /\ s[k] \in Action
    BY <1>1, <1>4
  <2> HIDE DEF Seen, n
  <2>5. CASE s[k] \in T
    <3>1. h[k] \in Seq(Action) /\ ToSet(h[k]) = ToSet(h[k - 1]) \cup {s[k]}
      BY <2>1, <2>4, <2>5, AppendRange, AppendProperties
    <3> QED BY <2>3, <2>4, <2>5, <3>1
  <2>6. CASE s[k] \notin T
    BY <2>1, <2>3, <2>4, <2>6
  <2> QED BY <2>5, <2>6
<1>5. n \in U
  <2> HIDE DEF U
  <2> QED BY <1>1, <1>3, <1>4, PrefixInduction
<1>6. Seen(n) = ToSet(s) /\ Only(s, T) = h[n]
  BY <1>1, <1>2 DEF ToSet, OnlyRun
<1> QED
  BY <1>5, <1>6

\* A segment with at most one action in the scope, or no longer than the chunks.
FewOf(seg, scope) == Len(Only(seg, scope)) <= 1
Short(seg, scope, size) == Len(seg) <= size \/ FewOf(seg, scope)
AllShort(segs, scope, size) == \A i \in 1 .. Len(segs) : Short(segs[i], scope, size)

\* A chunk grows only while it has room.
LEMMA PlaceShort ==
  ASSUME NEW segs \in Seq(Seq(Action)), NEW a \in Action, NEW scope, NEW size \in Nat \ {0},
         AllShort(segs, scope, size)
  PROVE  AllShort(PlaceAction(segs, a, scope, size), scope, size)
<1> DEFINE n == Len(segs)
<1>1. n \in Nat /\ \A i \in 1 .. n : segs[i] \in Seq(Action)
  OBVIOUS
<1>2. AllShort(Append(segs, << a >>), scope, size)
  <2> DEFINE t == Append(segs, << a >>)
  <2>1. Len(t) = n + 1 /\ t[n + 1] = << a >> /\ \A i \in 1 .. n : t[i] = segs[i]
    <3> DEFINE s == << a >>
    <3>1. s \in Seq(Action)
      OBVIOUS
    <3> HIDE DEF s
    <3>2. Len(Append(segs, s)) = n + 1 /\ Append(segs, s)[n + 1] = s /\ \A i \in 1 .. n : Append(segs, s)[i] = segs[i]
      BY <3>1, AppendProperties
    <3> QED BY <3>2 DEF s
  <2>2. Short(t[n + 1], scope, size)
    BY <2>1 DEF Short
  <2>3. \A i \in 1 .. (n + 1) : i \in 1 .. n \/ i = n + 1
    BY <1>1
  <2> HIDE DEF t
  <2>4. AllShort(t, scope, size)
    BY <2>1, <2>2, <2>3 DEF AllShort
  <2> QED BY <2>4 DEF t
<1>3. ASSUME segs # << >>, Len(Last(segs)) < size
      PROVE  AllShort([segs EXCEPT ![Len(segs)] = Append(@, a)], scope, size)
  <2> DEFINE l == Append(segs[n], a)
             t == [segs EXCEPT ![n] = l]
  <2>1. n \in 1 .. n /\ segs[n] \in Seq(Action) /\ Last(segs) = segs[n]
    BY <1>3, <1>1 DEF Last
  <2>2. l \in Seq(Action) /\ Len(l) = Len(segs[n]) + 1
    BY <2>1, AppendProperties
  <2>3. Len(l) <= size
    BY <2>1, <2>2, <1>3
  <2> HIDE DEF l
  <2>4. Len(t) = n /\ \A i \in 1 .. n : t[i] = IF i = n THEN l ELSE segs[i]
    BY <2>1, <2>2, ExceptSeq
  <2> HIDE DEF t
  <2>5. AllShort(t, scope, size)
    BY <2>3, <2>4 DEF AllShort, Short
  <2> QED BY <2>5 DEF t, l
<1> QED
  BY <1>2, <1>3, Zenon DEF PlaceAction

\* Cutting a segment leaves chunks that are short.
LEMMA CutShort ==
  ASSUME NEW segs \in Seq(Seq(Action)), NEW segment \in Seq(Action), NEW scope, NEW size \in Nat \ {0},
         AllShort(segs, scope, size)
  PROVE  AllShort(CutSegment(segs, segment, scope, size), scope, size)
<1> DEFINE n == Len(segment)
<1>1. n \in Nat /\ \A k \in 1 .. n : segment[k] \in Action
  OBVIOUS
<1>2. PICK h : CutRun(h, segs, segment, scope, size)
  BY CutSteps, Zenon
<1> DEFINE T == {k \in 0 .. n : AllShort(h[k], scope, size)}
<1>3. 0 \in T
  BY <1>1, <1>2 DEF CutRun
<1>4. ASSUME NEW k \in 1 .. n, k - 1 \in T PROVE k \in T
  <2> DEFINE was == h[k - 1]
             a == segment[k]
  <2>1. k \in 0 .. n /\ k - 1 \in 0 .. n /\ a \in Action
    BY <1>1
  <2>2. was \in Seq(Seq(Action)) /\ h[k] = PlaceAction(was, a, scope, size)
    BY <1>2, <2>1, Zenon DEF CutRun, n
  <2>3. AllShort(was, scope, size)
    BY <1>4
  <2> HIDE DEF was, a
  <2>4. AllShort(h[k], scope, size)
    BY <2>1, <2>2, <2>3, PlaceShort
  <2> QED BY <2>1, <2>4
<1>5. n \in T
  <2> HIDE DEF T
  <2> QED BY <1>1, <1>3, <1>4, PrefixInduction
<1>6. AllShort(h[n], scope, size)
  BY <1>5
<1>7. Len(Only(segment, scope)) <= 1 => AllShort(Append(segs, segment), scope, size)
  <2> SUFFICES ASSUME Len(Only(segment, scope)) <= 1 PROVE AllShort(Append(segs, segment), scope, size)
    OBVIOUS
  <2> DEFINE m == Len(segs)
             t == Append(segs, segment)
  <2>1. m \in Nat /\ Len(t) = m + 1 /\ t[m + 1] = segment /\ \A i \in 1 .. m : t[i] = segs[i]
    BY AppendProperties
  <2>2. Short(t[m + 1], scope, size)
    BY <2>1 DEF Short, FewOf
  <2>3. \A i \in 1 .. (m + 1) : i \in 1 .. m \/ i = m + 1
    BY <2>1
  <2> HIDE DEF t
  <2>4. AllShort(t, scope, size)
    BY <2>1, <2>2, <2>3 DEF AllShort
  <2> QED BY <2>4 DEF t
<1> QED
  BY <1>2, <1>6, <1>7, Zenon DEF CutRun, n

\* A row that shrinks batches leaves chunks that are short.
LEMMA RowShort ==
  ASSUME NEW ids, NEW segs \in Seq(Seq(Action)), NEW row, row.mode \in BatchModes,
         ChunkSize(row) \in Nat \ {0},
         NEW scope, scope = IF row.scope = {} THEN ToSet(ids) ELSE row.scope
  PROVE  AllShort(ApplyRow(ids, segs, row), scope, ChunkSize(row))
<1> DEFINE n == Len(segs)
           size == ChunkSize(row)
<1>1. n \in Nat /\ \A k \in 1 .. n : segs[k] \in Seq(Action)
  OBVIOUS
<1>2. PICK h : RowRun(h, ids, segs, row, scope)
  BY RowSteps, Zenon
<1> DEFINE T == {k \in 0 .. n : AllShort(h[k], scope, size)}
<1>3. 0 \in T
  <2>1. h[0] = << >> /\ 0 \in 0 .. n
    BY <1>1, <1>2 DEF RowRun
  <2>2. AllShort(<< >>, scope, size)
    BY DEF AllShort
  <2> QED BY <2>1, <2>2
<1>4. ASSUME NEW k \in 1 .. n, k - 1 \in T PROVE k \in T
  <2> DEFINE was == h[k - 1]
             seg == segs[k]
  <2>1. k \in 0 .. n /\ k - 1 \in 0 .. n /\ seg \in Seq(Action)
    BY <1>1
  <2>2. was \in Seq(Seq(Action)) /\ h[k] = CutSegment(was, seg, scope, size)
    BY <1>2, <2>1, Zenon DEF RowRun, n
  <2>3. AllShort(was, scope, size)
    BY <1>4
  <2> HIDE DEF was, seg, size
  <2>4. size \in Nat \ {0}
    BY DEF size
  <2>5. AllShort(h[k], scope, size)
    BY <2>1, <2>2, <2>3, <2>4, CutShort
  <2> QED BY <2>1, <2>5
<1>5. n \in T
  <2> HIDE DEF T
  <2> QED BY <1>1, <1>3, <1>4, PrefixInduction
<1>6. AllShort(h[n], scope, size)
  BY <1>5
<1> QED
  BY <1>2, <1>6, Zenon DEF RowRun, n

\* Of a group, the row read last has the last word.
LEMMA GroupShort ==
  ASSUME NEW ids \in Seq(Action), NEW rows \in Seq(FallbackRow), rows # << >>,
         Last(rows).mode \in BatchModes, ChunkSize(Last(rows)) \in Nat \ {0},
         NEW scope, scope = IF Last(rows).scope = {} THEN ToSet(ids) ELSE Last(rows).scope
  PROVE  AllShort(ReshapeGroup(ids, rows), scope, ChunkSize(Last(rows)))
<1> DEFINE n == Len(rows)
           row == Last(rows)
<1>1. n \in Nat /\ n \in 1 .. n /\ n - 1 \in 0 .. n /\ row = rows[n]
  BY DEF Last
<1>2. PICK h : GroupRun(h, ids, rows)
  <2> HIDE DEF FallbackRow
  <2> QED BY GroupSteps, Zenon
<1> DEFINE was == h[n - 1]
<1>3. was \in Seq(Seq(Action)) /\ h[n] = ApplyRow(ids, was, row) /\ ReshapeGroup(ids, rows) = h[n]
  BY <1>1, <1>2, Zenon DEF GroupRun
<1> HIDE DEF was, row
<1>4. row.mode \in BatchModes /\ ChunkSize(row) \in Nat \ {0}
      /\ scope = IF row.scope = {} THEN ToSet(ids) ELSE row.scope
  BY DEF row
<1>5. AllShort(ApplyRow(ids, was, row), scope, ChunkSize(row))
  BY <1>3, <1>4, RowShort
<1> QED
  BY <1>3, <1>5 DEF row

\* Where a segment of a batch comes from.
LEMMA SegmentOf ==
  ASSUME NEW gs \in Seq(Seq(Action)), NEW R, NEW rows \in Seq(R),
         NEW i \in 1 .. Len(Reshape(gs, rows))
  PROVE  \E j \in 1 .. Len(gs) : \E k \in 1 .. Len(ReshapeGroup(gs[j], rows)) :
            Reshape(gs, rows)[i] = ReshapeGroup(gs[j], rows)[k]
<1> DEFINE n == Len(gs)
           Of(seg) == \E j \in 1 .. n : \E k \in 1 .. Len(ReshapeGroup(gs[j], rows)) :
                         seg = ReshapeGroup(gs[j], rows)[k]
<1>1. n \in Nat
  OBVIOUS
<1>2. PICK h : ReshapeRun(h, gs, rows)
  BY ReshapeSteps, Zenon
<1> DEFINE T == {k \in 0 .. n : \A m \in 1 .. Len(h[k]) : Of(h[k][m])}
<1>3. 0 \in T
  BY <1>1, <1>2 DEF ReshapeRun
<1>4. ASSUME NEW k \in 1 .. n, k - 1 \in T PROVE k \in T
  <2> DEFINE was == h[k - 1]
             parts == ReshapeGroup(gs[k], rows)
  <2>1. k \in 0 .. n /\ k - 1 \in 0 .. n /\ gs[k] \in Seq(Action)
    BY <1>1
  <2>2. was \in Seq(Seq(Action)) /\ h[k] = was \o parts
    BY <1>2, <2>1, Zenon DEF ReshapeRun, n
  <2>3. parts \in Seq(Seq(Action))
    BY <2>1, GroupType
  <2>4. \A m \in 1 .. Len(was) : Of(was[m])
    BY <1>4
  <2>5. \A m \in 1 .. Len(parts) : Of(parts[m])
    OBVIOUS
  <2> HIDE DEF was, parts, Of
  <2>6. Len(h[k]) = Len(was) + Len(parts)
        /\ \A m \in 1 .. Len(was) + Len(parts) :
              h[k][m] = IF m <= Len(was) THEN was[m] ELSE parts[m - Len(was)]
    BY <2>2, <2>3, ConcatProperties
  <2>7. \A m \in 1 .. Len(h[k]) : Of(h[k][m])
    <3> SUFFICES ASSUME NEW m \in 1 .. Len(h[k]) PROVE Of(h[k][m])
      OBVIOUS
    <3>0. Len(was) \in Nat /\ Len(parts) \in Nat
      BY <2>2, <2>3
    <3>1. CASE m <= Len(was)
      <4>1. m \in 1 .. Len(was) /\ h[k][m] = was[m]
        BY <3>0, <3>1, <2>6
      <4> QED BY <4>1, <2>4
    <3>2. CASE ~ m <= Len(was)
      <4>1. m - Len(was) \in 1 .. Len(parts) /\ h[k][m] = parts[m - Len(was)]
        BY <3>0, <3>2, <2>6
      <4> QED BY <4>1, <2>5
    <3> QED BY <3>1, <3>2
  <2> QED BY <2>1, <2>7
<1>5. n \in T
  <2> HIDE DEF T
  <2> QED BY <1>1, <1>3, <1>4, PrefixInduction
<1>6. Of(Reshape(gs, rows)[i])
  <2> HIDE DEF Of
  <2> QED BY <1>2, <1>5 DEF ReshapeRun
<1> QED
  BY <1>6

\* Few actions are picked of a segment with a short choice.
LEMMA FewPicked ==
  ASSUME NEW s \in Seq(Action), NEW T, FewOf(s, T), NEW U, U \subseteq ToSet(s) \cap T
  PROVE  Cardinality(U) \in {0, 1}
<1> DEFINE o == Only(s, T)
<1>1. o \in Seq(Action) /\ U \subseteq ToSet(o)
  BY OnlySet
<1>0. Len(o) <= 1
  BY DEF FewOf
<1> HIDE DEF o
<1>2. Len(o) = 0 \/ Len(o) = 1
  <2>1. Len(o) \in Nat
    BY <1>1
  <2>2. \A m \in Nat : m <= 1 => m = 0 \/ m = 1
    OBVIOUS
  <2> QED BY <1>0, <2>1, <2>2, Zenon
<1>3. CASE U = {}
  BY <1>3, FS_EmptySet
<1>4. CASE U # {}
  <2>1. \A x \in U : x = o[1]
    BY <1>1, <1>2 DEF ToSet
  <2>2. PICK x \in U : TRUE
    BY <1>4
  <2>3. U = {x}
    BY <2>1, <2>2
  <2> QED BY <2>3, FS_Singleton
<1> QED
  BY <1>3, <1>4

\* A segment holds actions of its group only.
LEMMA SegmentInGroup ==
  ASSUME NEW ids \in Seq(Action), NEW R, NEW rows \in Seq(R),
         NEW k \in 1 .. Len(ReshapeGroup(ids, rows))
  PROVE  /\ ReshapeGroup(ids, rows)[k] \in Seq(Action)
         /\ ToSet(ReshapeGroup(ids, rows)[k]) \subseteq ToSet(ids)
<1> DEFINE parts == ReshapeGroup(ids, rows)
<1>1. parts \in Seq(Seq(Action)) /\ FlattenSeq(parts) = ids
  BY GroupType, GroupFlat
<1> HIDE DEF parts
<1>2. ToSet(ids) = UNION {ToSet(parts[i]) : i \in 1 .. Len(parts)}
  BY <1>1, FlatSet
<1>3. parts[k] \in Seq(Action)
  BY <1>1 DEF parts
<1>4. ToSet(parts[k]) \subseteq ToSet(ids)
  BY <1>2 DEF parts
<1> QED
  BY <1>3, <1>4 DEF parts

\* The row read last is obeyed: after a shrinking row no segment holds two actions of its
\* scope and is longer than its chunks.
THEOREM LastRowRules == BatchSpec => []LastRowObeyed
<1>1. FallbackKept => LastRowObeyed
  <2> DEFINE row == Last(fallback)
             Scope(g) == IF row.scope = {} THEN ToSet(g) ELSE row.scope
             Two(i, g) == Cardinality(ToSet(segments[i]) \cap ToSet(g) \cap Scope(g)) >= 2
  <2> SUFFICES ASSUME FallbackKept, fallback # << >>, row.mode \in BatchModes,
                      NEW i \in DOMAIN segments, NEW g \in ToSet(InitialGroups),
                      Two(i, g)
               PROVE  Len(segments[i]) <= ChunkSize(row)
    BY Zenon DEF LastRowObeyed
  <2> HIDE DEF Two
  <2>1. InitialGroups \in Seq(Seq(Action)) /\ fallback \in Seq(FallbackRow)
    BY SegmentsType
  <2>2. row \in FallbackRow /\ ChunkSize(row) \in Nat \ {0}
    <3>1. row \in FallbackRow
      <4> HIDE DEF FallbackRow
      <4> QED BY <2>1 DEF Last
    <3>2. row.size \in Nat
      BY <3>1 DEF FallbackRow
    <3> QED BY <3>1, <3>2 DEF ChunkSize
  <2> DEFINE cut == Reshape(InitialGroups, fallback)
  <2>3. cut \in Seq(Seq(Action)) /\ i \in 1 .. Len(cut) /\ segments = cut
    <3>1. cut \in Seq(Seq(Action))
      <4> HIDE DEF FallbackRow
      <4>1. PICK h : ReshapeRun(h, InitialGroups, fallback)
        BY <2>1, ReshapeSteps, Zenon
      <4>2. Len(InitialGroups) \in 0 .. Len(InitialGroups)
        BY <2>1
      <4> QED BY <4>1, <4>2, Zenon DEF ReshapeRun
    <3> HIDE DEF FallbackRow
    <3> QED BY <3>1 DEF segments
  <2>4. PICK j \in 1 .. Len(InitialGroups) :
           \E k \in 1 .. Len(ReshapeGroup(InitialGroups[j], fallback)) :
              cut[i] = ReshapeGroup(InitialGroups[j], fallback)[k]
    <3>1. i \in 1 .. Len(Reshape(InitialGroups, fallback))
      BY <2>3
    <3> HIDE DEF FallbackRow
    <3>2. \E j \in 1 .. Len(InitialGroups) : \E k \in 1 .. Len(ReshapeGroup(InitialGroups[j], fallback)) :
             Reshape(InitialGroups, fallback)[i] = ReshapeGroup(InitialGroups[j], fallback)[k]
      BY <2>1, <3>1, SegmentOf
    <3> QED BY <3>2
  <2> DEFINE ids == InitialGroups[j]
             parts == ReshapeGroup(ids, fallback)
             seg == cut[i]
  <2>5. PICK k \in 1 .. Len(parts) : seg = parts[k]
    BY <2>4
  <2>6. ids \in Seq(Action)
    BY <2>1
  <2> HIDE DEF ids, cut, row, FallbackRow
  <2>7. seg \in Seq(Action) /\ ToSet(seg) \subseteq ToSet(ids)
    BY <2>1, <2>5, <2>6, SegmentInGroup
  <2>8. AllShort(parts, Scope(ids), ChunkSize(row))
    <3> DEFINE scope == Scope(ids)
    <3>1. scope = IF Last(fallback).scope = {} THEN ToSet(ids) ELSE Last(fallback).scope
      BY DEF row
    <3>2. Last(fallback).mode \in BatchModes /\ ChunkSize(Last(fallback)) \in Nat \ {0}
      BY <2>2 DEF row
    <3> HIDE DEF scope
    <3>3. AllShort(parts, scope, ChunkSize(Last(fallback)))
      BY <2>1, <2>6, <3>1, <3>2, GroupShort
    <3> QED BY <3>3 DEF scope, row
  <2>9. Short(seg, Scope(ids), ChunkSize(row))
    BY <2>5, <2>8 DEF AllShort
  <2>10. CASE FewOf(seg, Scope(ids))
    <3> DEFINE U == ToSet(seg) \cap ToSet(g) \cap Scope(g)
               scope == Scope(ids)
    <3>1. U \subseteq ToSet(seg) \cap scope
      BY <2>7
    <3>2. Cardinality(U) >= 2
      BY <2>3 DEF Two
    <3>3. FewOf(seg, scope)
      BY <2>10
    <3> HIDE DEF U, scope, seg
    <3>4. Cardinality(U) \in {0, 1}
      BY <2>7, <3>1, <3>3, FewPicked
    <3> QED BY <3>2, <3>4
  <2>11. CASE Len(seg) <= ChunkSize(row)
    BY <2>3, <2>11
  <2> QED BY <2>9, <2>10, <2>11 DEF Short
<1> QED
  BY <1>1, FallbackInductive, PTL DEF BatchSpec

-----------------------------------------------------------------------------
(* Waves                                                                   *)

\* The waves of a batch, one segment after the other.
WavesRun(h, ss, failedScopes, rows) ==
    /\ h \in [0 .. Len(ss) -> Seq(SUBSET Action)]
    /\ h[0] = << >>
    /\ \A k \in 1 .. Len(ss) : h[k] = h[k - 1] \o GroupWaves(ParallelIds(ss[k], failedScopes, rows),
                                                            SerialIds(ss[k], failedScopes, rows))

\* The serial actions of a segment are actions of it.
LEMMA SerialType ==
  ASSUME NEW seg \in Seq(Action), NEW fs, NEW rows
  PROVE  /\ SerialIds(seg, fs, rows) \in Seq(Action)
         /\ ToSet(SerialIds(seg, fs, rows)) \subseteq ToSet(seg)
         /\ ParallelIds(seg, fs, rows) = ToSet(seg) \ ToSet(SerialIds(seg, fs, rows))
         /\ ToSet(seg) \subseteq Action
<1>1. /\ Only(seg, SerializeTargets(seg, fs, rows)) \in Seq(Action)
      /\ ToSet(Only(seg, SerializeTargets(seg, fs, rows))) \subseteq ToSet(seg)
  BY OnlySet
<1>2. ToSet(seg) \subseteq Action
  BY DEF ToSet
<1> QED
  BY <1>1, <1>2 DEF SerialIds, ParallelIds

\* A wave of its own for each serial action.
Singles(serials) == [i \in DOMAIN serials |-> {serials[i]}]

\* The waves of one segment.
LEMMA GroupWavesType ==
  ASSUME NEW P, P \subseteq Action, NEW serials \in Seq(Action)
  PROVE  /\ Singles(serials) \in Seq(SUBSET Action) /\ Len(Singles(serials)) = Len(serials)
         /\ \A i \in 1 .. Len(serials) : Singles(serials)[i] = {serials[i]}
         /\ GroupWaves(P, serials) = (IF P = {} THEN << >> ELSE << P >>) \o Singles(serials)
         /\ GroupWaves(P, serials) \in Seq(SUBSET Action)
<1>1. /\ Singles(serials) \in Seq(SUBSET Action) /\ Len(Singles(serials)) = Len(serials)
      /\ \A i \in 1 .. Len(serials) : Singles(serials)[i] = {serials[i]}
  BY DEF Singles
<1>2. (IF P = {} THEN << >> ELSE << P >>) \in Seq(SUBSET Action)
  <2>1. << >> \in Seq(SUBSET Action) /\ << P >> \in Seq(SUBSET Action)
    OBVIOUS
  <2> QED BY <2>1
<1>3. GroupWaves(P, serials) = (IF P = {} THEN << >> ELSE << P >>) \o Singles(serials)
  BY DEF GroupWaves, Singles
<1> DEFINE x == IF P = {} THEN << >> ELSE << P >>
           y == Singles(serials)
<1>4. x \o y \in Seq(SUBSET Action)
  <2>1. x \in Seq(SUBSET Action) /\ y \in Seq(SUBSET Action)
    BY <1>1, <1>2
  <2> HIDE DEF x, y
  <2> QED BY <2>1, ConcatProperties
<1> QED
  BY <1>1, <1>3, <1>4

\* The runner lays the waves of one segment behind those of another.
LEMMA WavesSteps ==
  ASSUME NEW gs, NEW rows, NEW fs, NEW ss \in Seq(Seq(Action)), ss = Reshape(gs, rows)
  PROVE  \E h : WavesRun(h, ss, fs, rows) /\ RuntimeWaves(gs, fs, rows) = h[Len(ss)]
<1> DEFINE n == Len(ss)
           D == Seq(SUBSET Action)
           W(s) == GroupWaves(ParallelIds(s, fs, rows), SerialIds(s, fs, rows))
           F == [p \in D \X (1 .. n) |-> p[1] \o W(ss[p[2]])]
           TurnOf(g, u) == IF u = {} THEN << >> ELSE g[u \ {Max(u)}] \o W(ss[Max(u)])
           iter == CHOOSE g : g = [u \in SUBSET DOMAIN ss |-> TurnOf(g, u)]
<1>1. n \in Nat /\ DOMAIN ss = 1 .. n /\ << >> \in D
  OBVIOUS
<1>0. \A k \in 1 .. n : 1 .. k \in SUBSET (1 .. n) /\ 1 .. k # {}
  BY <1>1, PrefixIsPart, Zenon
<1>2. \A x \in D, k \in 1 .. n : x \o W(ss[k]) \in D
  <2> SUFFICES ASSUME NEW x \in D, NEW k \in 1 .. n PROVE x \o W(ss[k]) \in D
    OBVIOUS
  <2>1. ss[k] \in Seq(Action)
    OBVIOUS
  <2>2. SerialIds(ss[k], fs, rows) \in Seq(Action) /\ ParallelIds(ss[k], fs, rows) \subseteq Action
    BY <2>1, SerialType
  <2>3. W(ss[k]) \in D
    BY <2>2, GroupWavesType
  <2> HIDE DEF W
  <2> QED BY <2>3, ConcatProperties
<1>3. F \in [D \X (1 .. n) -> D]
  <2> HIDE DEF W, D
  <2> QED BY <1>2
<1>4. PICK g \in [SUBSET (1 .. n) -> D] : IsFold(g, n, << >>, F)
  <2> HIDE DEF n, D, F
  <2> QED BY <1>1, <1>3, FoldExists, Zenon
<1>5. \A u \in SUBSET (1 .. n) : g[u] = TurnOf(g, u)
  <2> SUFFICES ASSUME NEW u \in SUBSET (1 .. n), u # {} PROVE g[u] = TurnOf(g, u)
    BY <1>4 DEF IsFold
  <2>1. Max(u) \in 1 .. n
    BY <1>1, MaxOfPart
  <2>2. g[u \ {Max(u)}] \in D
    OBVIOUS
  <2>3. g[u] = F[<< g[u \ {Max(u)}], Max(u) >>]
    <3> HIDE DEF F, D
    <3> QED BY <1>4 DEF IsFold
  <2> HIDE DEF W, D
  <2> QED
    BY <2>1, <2>2, <2>3
<1>6. iter = [u \in SUBSET (1 .. n) |-> TurnOf(iter, u)]
  <2> HIDE DEF TurnOf, D
  <2>1. g = [u \in SUBSET DOMAIN ss |-> TurnOf(g, u)]
    BY <1>1, <1>5
  <2> QED BY <1>1, <2>1
<1>7. RuntimeWaves(gs, fs, rows) = iter[1 .. n]
  BY <1>1 DEF RuntimeWaves, FoldLeft, MapThenFoldSet
<1> HIDE DEF iter, W
<1>8. \A u \in SUBSET (1 .. n) : iter[u] = TurnOf(iter, u)
  <2> HIDE DEF TurnOf, D
  <2> QED BY <1>6
<1>9. iter[{}] = << >>
  BY <1>8
<1>10. ASSUME NEW k \in 1 .. n, iter[1 .. (k - 1)] \in D
      PROVE  iter[1 .. k] = F[<< iter[1 .. (k - 1)], k >>]
  <2>1. 1 .. k \in SUBSET (1 .. n) /\ 1 .. k # {}
    BY <1>0, Zenon
  <2>2. Max(1 .. k) = k /\ (1 .. k) \ {k} = 1 .. (k - 1)
    BY MaxOfPrefix
  <2> QED
    BY <1>8, <1>10, <2>1, <2>2
<1>11. PICK h : IsRun(h, n, D, << >>, F, iter)
  <2> HIDE DEF n, D, F
  <2> QED BY <1>1, <1>3, <1>9, <1>10, RunExists, Zenon
<1>12. \A k \in 1 .. n : h[k] = h[k - 1] \o W(ss[k])
  <2> SUFFICES ASSUME NEW k \in 1 .. n PROVE h[k] = h[k - 1] \o W(ss[k])
    OBVIOUS
  <2>1. k - 1 \in 0 .. n
    BY <1>1
  <2>2. h[k - 1] \in D /\ h[k] = F[<< h[k - 1], k >>]
    <3> HIDE DEF D, F
    <3> QED BY <1>11, <2>1 DEF IsRun
  <2> QED BY <2>2
<1>13. WavesRun(h, ss, fs, rows)
  BY <1>11, <1>12 DEF WavesRun, IsRun, W
<1> QED
  BY <1>7, <1>11, <1>13 DEF IsRun

\* Waves that share no action, and have together the actions of S.
Apart(ws, S) ==
    /\ ws \in Seq(SUBSET Action)
    /\ \A i, j \in 1 .. Len(ws) : i # j => ws[i] \cap ws[j] = {}
    /\ \A x : x \in S <=> \E i \in 1 .. Len(ws) : x \in ws[i]

\* Waves of different actions behind each other.
LEMMA ApartConcat ==
  ASSUME NEW S1, NEW s1, Apart(s1, S1), NEW S2, NEW s2, Apart(s2, S2), S1 \cap S2 = {}
  PROVE  Apart(s1 \o s2, S1 \cup S2)
<1> DEFINE n1 == Len(s1)
           n2 == Len(s2)
           t == s1 \o s2
           A == SUBSET Action
<1>1. /\ s1 \in Seq(A) /\ s2 \in Seq(A) /\ n1 \in Nat /\ n2 \in Nat
      /\ \A i \in 1 .. n1 : s1[i] \subseteq S1
      /\ \A i \in 1 .. n2 : s2[i] \subseteq S2
      /\ \A i, j \in 1 .. n1 : i # j => s1[i] \cap s1[j] = {}
      /\ \A i, j \in 1 .. n2 : i # j => s2[i] \cap s2[j] = {}
  BY DEF Apart
<1>3. /\ t \in Seq(A) /\ Len(t) = n1 + n2
      /\ \A i \in 1 .. (n1 + n2) :
            \/ i \in 1 .. n1 /\ t[i] = s1[i]
            \/ i - n1 \in 1 .. n2 /\ t[i] = s2[i - n1]
      /\ \A i \in 1 .. n1 : i \in 1 .. (n1 + n2) /\ t[i] = s1[i]
      /\ \A i \in 1 .. n2 : i + n1 \in 1 .. (n1 + n2) /\ t[i + n1] = s2[i]
  <2> HIDE DEF A
  <2>1. Len(t) = n1 + n2
    BY <1>1
  <2> QED BY <1>1, <2>1, ConcatRange
<1>4. \A i, j \in 1 .. (n1 + n2) : i # j => i - n1 # j - n1
  BY <1>1
<1>7. ASSUME NEW x PROVE x \in S1 \cup S2 <=> \E i \in 1 .. (n1 + n2) : x \in t[i]
  <2>1. (x \in S1 <=> \E i \in 1 .. n1 : x \in s1[i]) /\ (x \in S2 <=> \E i \in 1 .. n2 : x \in s2[i])
    BY DEF Apart
  <2> HIDE DEF n1, n2, t, A
  <2>2. (\E i \in 1 .. (n1 + n2) : x \in t[i]) => x \in S1 \/ x \in S2
    BY <1>3, <2>1, Zenon
  <2>3. x \in S1 \/ x \in S2 => \E i \in 1 .. (n1 + n2) : x \in t[i]
    BY <1>3, <2>1, Zenon
  <2> QED BY <2>2, <2>3
<1> HIDE DEF n1, n2, t, A
<1>6. ASSUME NEW i \in 1 .. (n1 + n2), NEW j \in 1 .. (n1 + n2), i # j
      PROVE  t[i] \cap t[j] = {}
  <2>1. CASE i \in 1 .. n1 /\ t[i] = s1[i]
    <3>1. CASE j \in 1 .. n1 /\ t[j] = s1[j]
      BY <1>6, <2>1, <3>1, <1>1
    <3>2. CASE j - n1 \in 1 .. n2 /\ t[j] = s2[j - n1]
      <4>1. t[i] \subseteq S1 /\ t[j] \subseteq S2
        BY <2>1, <3>2, <1>1
      <4> QED BY <4>1
    <3> QED BY <3>1, <3>2, <1>3
  <2>2. CASE i - n1 \in 1 .. n2 /\ t[i] = s2[i - n1]
    <3>1. CASE j \in 1 .. n1 /\ t[j] = s1[j]
      <4>1. t[i] \subseteq S2 /\ t[j] \subseteq S1
        BY <2>2, <3>1, <1>1
      <4> QED BY <4>1
    <3>2. CASE j - n1 \in 1 .. n2 /\ t[j] = s2[j - n1]
      BY <1>6, <2>2, <3>2, <1>1, <1>4
    <3> QED BY <3>1, <3>2, <1>3
  <2> QED BY <2>1, <2>2, <1>3
<1>8. Apart(t, S1 \cup S2)
  BY <1>3, <1>6, <1>7 DEF Apart, A
<1> QED
  BY <1>8 DEF t

\* A segment that lists no action twice runs each of its actions in one wave.
LEMMA GroupApart ==
  ASSUME NEW seg \in Seq(Action), IsInjective(seg), NEW fs, NEW rows
  PROVE  Apart(GroupWaves(ParallelIds(seg, fs, rows), SerialIds(seg, fs, rows)), ToSet(seg))
<1> DEFINE P == ParallelIds(seg, fs, rows)
           s == SerialIds(seg, fs, rows)
           x == IF P = {} THEN << >> ELSE << P >>
           y == Singles(s)
<1>1. s \in Seq(Action) /\ ToSet(s) \subseteq ToSet(seg) /\ P = ToSet(seg) \ ToSet(s) /\ P \subseteq Action
  BY SerialType
<1>2. IsInjective(s)
  BY OnlyKeeps DEF SerialIds
<1> HIDE DEF P, s
<1>3. /\ y \in Seq(SUBSET Action) /\ Len(y) = Len(s)
      /\ \A i \in 1 .. Len(s) : y[i] = {s[i]}
      /\ GroupWaves(P, s) = x \o y
  BY <1>1, GroupWavesType
<1>4. DOMAIN s = 1 .. Len(s)
  BY <1>1
<1>5. Apart(y, ToSet(s))
  <2>1. \A i, j \in 1 .. Len(s) : i # j => s[i] # s[j]
    BY <1>2, <1>4 DEF IsInjective
  <2>2. \A i, j \in 1 .. Len(y) : i # j => y[i] \cap y[j] = {}
    <3> HIDE DEF y
    <3> QED BY <1>3, <2>1
  <2>3. ASSUME NEW z PROVE z \in ToSet(s) <=> \E i \in 1 .. Len(y) : z \in y[i]
    <3> HIDE DEF y
    <3> QED BY <1>3, <1>4 DEF ToSet
  <2> HIDE DEF y
  <2> QED BY <1>3, <2>2, <2>3 DEF Apart
<1>6. Apart(x, P)
  <2>1. CASE P = {}
    <3>1. x = << >>
      BY <2>1
    <3>2. Apart(<< >>, {})
      BY DEF Apart
    <3> QED BY <2>1, <3>1, <3>2
  <2>2. CASE P # {}
    <3>1. x = << P >>
      BY <2>2
    <3>2. << P >> \in Seq(SUBSET Action) /\ Len(<< P >>) = 1 /\ << P >>[1] = P
      BY <1>1
    <3>3. \A i \in 1 .. 1 : i = 1
      OBVIOUS
    <3>4. Apart(<< P >>, P)
      BY <3>2, <3>3 DEF Apart
    <3> QED BY <3>1, <3>4
  <2> QED BY <2>1, <2>2
<1>7. P \cap ToSet(s) = {} /\ P \cup ToSet(s) = ToSet(seg)
  BY <1>1
<1> HIDE DEF x, y
<1>8. Apart(x \o y, P \cup ToSet(s))
  BY <1>5, <1>6, <1>7, ApartConcat
<1> QED
  BY <1>3, <1>7, <1>8 DEF P, s

\* A layout that lists every action once runs every action in one wave.
LEMMA WavesApart ==
  ASSUME NEW S, NEW ss, Lists(ss, S), NEW fs, NEW rows, NEW h, WavesRun(h, ss, fs, rows)
  PROVE  Apart(h[Len(ss)], S)
<1> DEFINE n == Len(ss)
           Seen(k) == UNION {ToSet(ss[j]) : j \in 1 .. k}
           W(s) == GroupWaves(ParallelIds(s, fs, rows), SerialIds(s, fs, rows))
<1>1. /\ n \in Nat /\ DOMAIN ss = 1 .. n
      /\ \A i \in 1 .. n : ss[i] \in Seq(Action) /\ IsInjective(ss[i])
      /\ \A i, j \in 1 .. n : i # j => ToSet(ss[i]) \cap ToSet(ss[j]) = {}
  BY ListsFacts, Zenon
<1> DEFINE T == {k \in 0 .. n : Apart(h[k], Seen(k))}
<1>2. 0 \in T
  <2>1. Seen(0) = {} /\ h[0] = << >> /\ 0 \in 0 .. n
    BY <1>1 DEF WavesRun
  <2>2. Apart(<< >>, {})
    BY DEF Apart
  <2> HIDE DEF Seen, n
  <2> QED BY <2>1, <2>2
<1>3. ASSUME NEW k \in 1 .. n, k - 1 \in T PROVE k \in T
  <2>1. h[k] = h[k - 1] \o W(ss[k]) /\ k \in 0 .. n
    BY <1>1 DEF WavesRun
  <2>2. ss[k] \in Seq(Action) /\ IsInjective(ss[k])
    BY <1>1
  <2>3. Apart(W(ss[k]), ToSet(ss[k]))
    BY <2>2, GroupApart
  <2>4. Seen(k - 1) \cap ToSet(ss[k]) = {}
    <3>1. \A j \in 1 .. (k - 1) : j \in 1 .. n /\ j # k
      BY <1>1
    <3>2. \A j \in 1 .. (k - 1) : ToSet(ss[k]) \cap ToSet(ss[j]) = {}
      BY <1>1, <3>1
    <3> QED BY <3>2
  <2>5. Seen(k) = Seen(k - 1) \cup ToSet(ss[k])
    <3>1. \A j \in 1 .. k : j \in 1 .. (k - 1) \/ j = k
      OBVIOUS
    <3>2. k \in 1 .. k /\ \A j \in 1 .. (k - 1) : j \in 1 .. k
      OBVIOUS
    <3> QED BY <3>1, <3>2
  <2>6. Apart(h[k - 1], Seen(k - 1))
    BY <1>3
  <2> HIDE DEF Seen, W
  <2>7. Apart(h[k], Seen(k))
    BY <2>1, <2>3, <2>4, <2>5, <2>6, ApartConcat
  <2> QED BY <2>1, <2>7
<1>4. n \in T
  <2> HIDE DEF T
  <2> QED BY <1>1, <1>2, <1>3, PrefixInduction
<1>5. Seen(n) = S
  BY <1>1 DEF Lists
<1> QED
  BY <1>4, <1>5

\* The segments of the batch.
LEMMA SegmentsListed ==
  ASSUME FallbackKept
  PROVE  /\ segments = Reshape(InitialGroups, fallback) /\ segments \in Seq(Seq(Action))
         /\ GroupsOnce => Lists(segments, ToSet(FlattenSeq(InitialGroups)))
<1> HIDE DEF FallbackRow
<1>1. InitialGroups \in Seq(Seq(Action)) /\ fallback \in Seq(FallbackRow)
  BY SegmentsType
<1>2. PICK h : ReshapeRun(h, InitialGroups, fallback)
  BY <1>1, ReshapeSteps, Zenon
<1>3. Len(InitialGroups) \in 0 .. Len(InitialGroups)
  BY <1>1
<1>4. Reshape(InitialGroups, fallback) \in Seq(Seq(Action))
  BY <1>2, <1>3, Zenon DEF ReshapeRun
<1>5. GroupsOnce => Lists(Reshape(InitialGroups, fallback), ToSet(FlattenSeq(InitialGroups)))
  BY <1>1, ReshapeKeeps DEF GroupsOnce
<1> QED
  BY <1>4, <1>5 DEF segments

\* Every action of a batch that names it once runs in exactly one wave, whatever guards fail
\* and whatever rows cut and serialise (_run_group).
THEOREM EachOnceWhenListed == GroupsOnce => (BatchSpec => []EachActionOnce)
<1> SUFFICES ASSUME GroupsOnce PROVE BatchSpec => []EachActionOnce
  OBVIOUS
<1>1. FallbackKept => EachActionOnce
  <2> SUFFICES ASSUME FallbackKept PROVE EachActionOnce
    OBVIOUS
  <2> DEFINE S == ToSet(FlattenSeq(InitialGroups))
  <2>1. segments = Reshape(InitialGroups, fallback) /\ segments \in Seq(Seq(Action)) /\ Lists(segments, S)
    BY SegmentsListed
  <2>2. PICK ss : ss = segments
    OBVIOUS
  <2>3. PICK h : WavesRun(h, ss, failed, fallback) /\ RuntimeWaves(InitialGroups, failed, fallback) = h[Len(ss)]
    <3>1. ss \in Seq(Seq(Action)) /\ ss = Reshape(InitialGroups, fallback)
      BY <2>1, <2>2
    <3> QED BY <3>1, WavesSteps
  <2>4. Lists(ss, S)
    BY <2>1, <2>2
  <2> HIDE DEF S
  <2>5. Apart(h[Len(ss)], S)
    BY <2>3, <2>4, WavesApart
  <2>6. Apart(runtime, S)
    BY <2>3, <2>5 DEF runtime
  <2> DEFINE waves == runtime
  <2>7. ASSUME NEW a \in S PROVE Cardinality({i \in DOMAIN waves : a \in waves[i]}) = 1
    <3>1. waves \in Seq(SUBSET Action)
      BY <2>6 DEF Apart
    <3>2. DOMAIN waves = 1 .. Len(waves)
      BY <3>1
    <3>3. PICK i \in 1 .. Len(waves) : a \in waves[i]
      BY <2>6, <2>7 DEF Apart
    <3>4. ASSUME NEW j \in 1 .. Len(waves), a \in waves[j] PROVE j = i
      BY <2>6, <3>3, <3>4 DEF Apart
    <3> HIDE DEF waves
    <3>5. {j \in DOMAIN waves : a \in waves[j]} = {i}
      BY <3>2, <3>3, <3>4
    <3> QED BY <3>5, FS_Singleton
  <2> QED BY <2>7 DEF EachActionOnce, S
<1> QED
  BY <1>1, FallbackInductive, PTL DEF BatchSpec

-----------------------------------------------------------------------------
(* What a wave is made of                                                  *)

\* The parallel part of a segment, or one serial action.
WaveOfSegment(w, seg, fs, rows) == w = ParallelIds(seg, fs, rows) \/ \E a \in Action : w = {a}

\* Each wave belongs to a segment.
LEMMA WavesBelong ==
  ASSUME NEW ss \in Seq(Seq(Action)), NEW fs, NEW rows, NEW h, WavesRun(h, ss, fs, rows),
         NEW i \in 1 .. Len(h[Len(ss)])
  PROVE  \E j \in 1 .. Len(ss) : WaveOfSegment(h[Len(ss)][i], ss[j], fs, rows)
<1> DEFINE n == Len(ss)
           Of(w) == \E j \in 1 .. n : WaveOfSegment(w, ss[j], fs, rows)
           P(s) == ParallelIds(s, fs, rows)
           L(s) == SerialIds(s, fs, rows)
<1>1. n \in Nat
  OBVIOUS
<1> DEFINE T == {k \in 0 .. n : \A m \in 1 .. Len(h[k]) : Of(h[k][m])}
<1>3. 0 \in T
  <2>1. h[0] = << >> /\ 0 \in 0 .. n
    BY <1>1 DEF WavesRun
  <2> QED BY <2>1
<1>4. ASSUME NEW k \in 1 .. n, k - 1 \in T PROVE k \in T
  <2> DEFINE was == h[k - 1]
             x == IF P(ss[k]) = {} THEN << >> ELSE << P(ss[k]) >>
             y == Singles(L(ss[k]))
             parts == GroupWaves(P(ss[k]), L(ss[k]))
  <2>1. k \in 0 .. n /\ k - 1 \in 0 .. n /\ ss[k] \in Seq(Action)
    BY <1>1
  <2>2. was \in Seq(SUBSET Action) /\ h[k] = was \o parts
    BY <2>1, Zenon DEF WavesRun, n, P, L
  <2>3. L(ss[k]) \in Seq(Action) /\ P(ss[k]) \subseteq Action
    BY <2>1, SerialType
  <2>4. \A m \in 1 .. Len(was) : Of(was[m])
    BY <1>4
  <2>5. /\ parts \in Seq(SUBSET Action) /\ parts = x \o y
        /\ y \in Seq(SUBSET Action) /\ Len(y) = Len(L(ss[k]))
        /\ \A m \in 1 .. Len(L(ss[k])) : y[m] = {L(ss[k])[m]}
    <3> DEFINE p == P(ss[k])
               l == L(ss[k])
    <3>1. l \in Seq(Action) /\ p \subseteq Action
      BY <2>3
    <3> HIDE DEF p, l
    <3>2. /\ Singles(l) \in Seq(SUBSET Action) /\ Len(Singles(l)) = Len(l)
          /\ \A m \in 1 .. Len(l) : Singles(l)[m] = {l[m]}
          /\ GroupWaves(p, l) = (IF p = {} THEN << >> ELSE << p >>) \o Singles(l)
          /\ GroupWaves(p, l) \in Seq(SUBSET Action)
      BY <3>1, GroupWavesType
    <3> QED BY <3>2 DEF p, l
  <2>6. ASSUME NEW m \in 1 .. Len(y) PROVE Of(y[m])
    <3>1. m \in 1 .. Len(L(ss[k])) /\ y[m] = {L(ss[k])[m]}
      BY <2>5, <2>6
    <3>2. L(ss[k])[m] \in Action
      BY <2>3, <3>1
    <3> HIDE DEF y, L
    <3> QED BY <3>1, <3>2 DEF WaveOfSegment
  <2>7. ASSUME NEW m \in 1 .. Len(x) PROVE Of(x[m])
    <3>1. P(ss[k]) # {} /\ x = << P(ss[k]) >> /\ m = 1
      <4>1. CASE P(ss[k]) = {}
        <5>1. x = << >> /\ Len(<< >>) = 0
          BY <4>1
        <5> HIDE DEF x
        <5> QED BY <2>7, <5>1
      <4>2. CASE P(ss[k]) # {}
        <5>1. x = << P(ss[k]) >> /\ Len(<< P(ss[k]) >>) = 1
          BY <4>2
        <5>2. m = 1
          <6> HIDE DEF x, P
          <6> QED BY <2>7, <5>1
        <5> QED BY <4>2, <5>1, <5>2
      <4> QED BY <4>1, <4>2
    <3>2. x[m] = P(ss[k])
      <4> HIDE DEF x, P
      <4> QED BY <3>1
    <3> HIDE DEF x
    <3> QED BY <3>2 DEF WaveOfSegment
  <2>8. x \in Seq(SUBSET Action)
    <3>1. << >> \in Seq(SUBSET Action) /\ << P(ss[k]) >> \in Seq(SUBSET Action)
      BY <2>3
    <3> QED BY <3>1
  <2> HIDE DEF was, parts, Of, x, y
  <2>9. ASSUME NEW m \in 1 .. Len(parts) PROVE Of(parts[m])
    <3>1. \/ m \in 1 .. Len(x) /\ (x \o y)[m] = x[m]
          \/ m - Len(x) \in 1 .. Len(y) /\ (x \o y)[m] = y[m - Len(x)]
      <4>1. Len(x \o y) = Len(x) + Len(y)
        <5>1. x \in Seq(SUBSET Action) /\ y \in Seq(SUBSET Action)
          BY <2>5, <2>8
        <5> QED BY <5>1, ConcatProperties, Zenon
      <4> QED BY <2>5, <2>8, <2>9, <4>1, ConcatRange
    <3> QED BY <2>5, <2>6, <2>7, <3>1
  <2>10. ASSUME NEW m \in 1 .. Len(h[k]) PROVE Of(h[k][m])
    <3>1. \/ m \in 1 .. Len(was) /\ (was \o parts)[m] = was[m]
          \/ m - Len(was) \in 1 .. Len(parts) /\ (was \o parts)[m] = parts[m - Len(was)]
      <4>1. Len(was \o parts) = Len(was) + Len(parts)
        BY <2>5, <2>2
      <4> QED BY <2>5, <2>2, <2>10, <4>1, ConcatRange
    <3> QED BY <2>2, <2>4, <2>9, <3>1
  <2> QED BY <2>1, <2>10
<1>5. n \in T
  <2> HIDE DEF T
  <2> QED BY <1>1, <1>3, <1>4, PrefixInduction
<1>6. Of(h[Len(ss)][i])
  <2> HIDE DEF Of
  <2> QED BY <1>5
<1> QED
  BY <1>6

\* What a failed guard speaks of is not in the parallel part of a segment.
LEMMA FailedIsSerial ==
  ASSUME NEW seg \in Seq(Action), NEW fs, NEW rows, NEW scope \in fs
  PROVE  /\ ParallelIds(seg, fs, rows) \cap scope = {}
         /\ scope = {} => ParallelIds(seg, fs, rows) = {}
<1> DEFINE ST == SerializeTargets(seg, fs, rows)
<1>1. CASE RequiresOrder(seg, rows)
  BY <1>1 DEF ParallelIds, SerialIds
<1>2. CASE ~RequiresOrder(seg, rows)
  <2>1. ParallelIds(seg, fs, rows) = ToSet(seg) \ ST
    <3> HIDE DEF ST
    <3>1. ToSet(Only(seg, ST)) = ToSet(seg) \cap ST
      BY OnlySet
    <3>2. ParallelIds(seg, fs, rows) = ToSet(seg) \ ToSet(Only(seg, ST))
      BY <1>2 DEF ParallelIds, SerialIds, ST
    <3> QED BY <3>1, <3>2
  <2>2. Relevant(scope, seg) => Within(scope, seg) \subseteq ST
    BY DEF SerializeTargets
  <2>3. /\ scope = {} => Relevant(scope, seg) /\ Within(scope, seg) = ToSet(seg)
        /\ scope \cap ToSet(seg) # {} => Relevant(scope, seg) /\ Within(scope, seg) = scope \cap ToSet(seg)
    BY DEF Relevant, Within
  <2> HIDE DEF ST
  <2> QED BY <2>1, <2>2, <2>3
<1> QED
  BY <1>1, <1>2

\* The runner reads in every guard what it says.
GuardsRead == \A g \in guards : GuardOk(g.expr.text, flags) = g.expr.says[flags]

\* At most one action in a part of a set with one.
LEMMA OneAtMost == \A a, U : U \subseteq {a} => Cardinality(U) <= 1
<1> SUFFICES ASSUME NEW a, NEW U, U \subseteq {a} PROVE Cardinality(U) <= 1
  OBVIOUS
<1>1. CASE U = {}
  BY <1>1, FS_EmptySet
<1>2. CASE U = {a}
  BY <1>2, FS_Singleton
<1> QED
  BY <1>1, <1>2

\* What a guard was to serialise is kept apart, if the guard is read right.
LEMMA ReadIsApart == FallbackKept /\ GuardsRead => SerialisedApart
<1> SUFFICES ASSUME FallbackKept, GuardsRead, NEW g \in guards, g.expr.says[flags] = "false",
                    NEW i \in DOMAIN runtime
             PROVE  Cardinality(IF g.scope = {} THEN runtime[i] ELSE runtime[i] \intersect g.scope) <= 1
  BY Zenon DEF SerialisedApart
<1>1. g.scope \in failed
  BY DEF failed, GuardsRead
<1>2. PICK ss : ss = segments
  OBVIOUS
<1>3. ss \in Seq(Seq(Action)) /\ ss = Reshape(InitialGroups, fallback)
  BY <1>2, SegmentsListed
<1>4. PICK h : WavesRun(h, ss, failed, fallback) /\ RuntimeWaves(InitialGroups, failed, fallback) = h[Len(ss)]
  BY <1>3, WavesSteps
<1>5. runtime = h[Len(ss)] /\ h[Len(ss)] \in Seq(SUBSET Action)
  <2>1. Len(ss) \in 0 .. Len(ss)
    BY <1>3
  <2> QED BY <1>4, <2>1, Zenon DEF WavesRun, runtime
<1>6. i \in 1 .. Len(h[Len(ss)])
  BY <1>5
<1>7. PICK j \in 1 .. Len(ss) : WaveOfSegment(h[Len(ss)][i], ss[j], failed, fallback)
  BY <1>3, <1>4, <1>6, WavesBelong
<1> DEFINE w == runtime[i]
           scope == g.scope
<1>8. WaveOfSegment(w, ss[j], failed, fallback)
  BY <1>5, <1>7
<1>9. CASE \E a \in Action : w = {a}
  <2>1. PICK a \in Action : w = {a}
    BY <1>9
  <2>2. (IF scope = {} THEN w ELSE w \cap scope) \subseteq {a}
    BY <2>1
  <2> HIDE DEF w, scope
  <2>3. Cardinality(IF scope = {} THEN w ELSE w \cap scope) <= 1
    BY <2>2, OneAtMost, Zenon
  <2> QED BY <2>3 DEF w, scope
<1>10. CASE w = ParallelIds(ss[j], failed, fallback)
  <2>1. ss[j] \in Seq(Action) /\ scope \in failed
    BY <1>1, <1>3
  <2> HIDE DEF w, scope
  <2>2. w \cap scope = {} /\ (scope = {} => w = {})
    BY <1>10, <2>1, FailedIsSerial
  <2>3. (IF scope = {} THEN w ELSE w \cap scope) = {}
    BY <2>2
  <2>4. Cardinality(IF scope = {} THEN w ELSE w \cap scope) = 0
    BY <2>3, FS_EmptySet, Zenon
  <2>5. Cardinality(IF scope = {} THEN w ELSE w \cap scope) <= 1
    BY <2>4
  <2> QED BY <2>5 DEF w, scope
<1> QED
  BY <1>8, <1>9, <1>10 DEF WaveOfSegment

-----------------------------------------------------------------------------
(* The order the trust layer compares under                                *)

\* Waves laid by the same steps are the same.
LEMMA WavesAgree ==
  ASSUME NEW ss \in Seq(Seq(Action)), NEW fs, NEW rows, NEW h, WavesRun(h, ss, fs, rows),
         NEW g, WavesRun(g, ss, fs, rows)
  PROVE  h[Len(ss)] = g[Len(ss)]
<1> DEFINE n == Len(ss)
           T == {k \in 0 .. n : h[k] = g[k]}
<1>1. n \in Nat
  OBVIOUS
<1>2. 0 \in T
  BY <1>1 DEF WavesRun
<1>3. ASSUME NEW k \in 1 .. n, k - 1 \in T PROVE k \in T
  <2>1. k \in 0 .. n /\ k \in 1 .. Len(ss) /\ h[k - 1] = g[k - 1]
    BY <1>1, <1>3
  <2>2. /\ h[k] = h[k - 1] \o GroupWaves(ParallelIds(ss[k], fs, rows), SerialIds(ss[k], fs, rows))
        /\ g[k] = g[k - 1] \o GroupWaves(ParallelIds(ss[k], fs, rows), SerialIds(ss[k], fs, rows))
    BY <2>1, Zenon DEF WavesRun
  <2>3. h[k] = g[k]
    BY <2>1, <2>2, Zenon
  <2> QED BY <2>1, <2>3
<1>4. n \in T
  <2> HIDE DEF T
  <2> QED BY <1>1, <1>2, <1>3, PrefixInduction
<1> QED
  BY <1>4

\* The validator serialises what the runner does.
SameSerial(ss, rows) ==
    \A k \in 1 .. Len(ss) : ValidatorSerialIds(ss[k], rows) = SerialIds(ss[k], {}, rows)

\* The validator lays its waves as the runner does, as long as both serialise the same.
LEMMA ValidatorSteps ==
  ASSUME NEW rows, NEW ss \in Seq(Seq(Action)), SameSerial(ss, rows)
  PROVE  \E h : WavesRun(h, ss, {}, rows) /\ ValidatorWaves(ss, rows) = h[Len(ss)]
<1> DEFINE n == Len(ss)
           D == Seq(SUBSET Action)
           W(s) == GroupWaves(ToSet(s) \ ToSet(ValidatorSerialIds(s, rows)), ValidatorSerialIds(s, rows))
           F == [p \in D \X (1 .. n) |-> p[1] \o W(ss[p[2]])]
           TurnOf(g, u) == IF u = {} THEN << >> ELSE g[u \ {Max(u)}] \o W(ss[Max(u)])
           iter == CHOOSE g : g = [u \in SUBSET DOMAIN ss |-> TurnOf(g, u)]
<1>1. n \in Nat /\ DOMAIN ss = 1 .. n /\ << >> \in D
  OBVIOUS
<1>0. \A k \in 1 .. n : 1 .. k \in SUBSET (1 .. n) /\ 1 .. k # {}
  BY <1>1, PrefixIsPart, Zenon
<1>2. \A x \in D, k \in 1 .. n : x \o W(ss[k]) \in D
  <2> SUFFICES ASSUME NEW x \in D, NEW k \in 1 .. n PROVE x \o W(ss[k]) \in D
    OBVIOUS
  <2>1. ss[k] \in Seq(Action)
    OBVIOUS
  <2>2. /\ ValidatorSerialIds(ss[k], rows) \in Seq(Action)
        /\ ToSet(ss[k]) \ ToSet(ValidatorSerialIds(ss[k], rows)) \subseteq Action
    BY <2>1, SerialType DEF SameSerial
  <2>3. W(ss[k]) \in D
    BY <2>2, GroupWavesType
  <2> HIDE DEF W
  <2> QED BY <2>3, ConcatProperties
<1>3. F \in [D \X (1 .. n) -> D]
  <2> HIDE DEF W, D
  <2> QED BY <1>2
<1>4. PICK g \in [SUBSET (1 .. n) -> D] : IsFold(g, n, << >>, F)
  <2> HIDE DEF n, D, F
  <2> QED BY <1>1, <1>3, FoldExists, Zenon
<1>5. \A u \in SUBSET (1 .. n) : g[u] = TurnOf(g, u)
  <2> SUFFICES ASSUME NEW u \in SUBSET (1 .. n), u # {} PROVE g[u] = TurnOf(g, u)
    BY <1>4 DEF IsFold
  <2>1. Max(u) \in 1 .. n
    BY <1>1, MaxOfPart
  <2>2. g[u \ {Max(u)}] \in D
    OBVIOUS
  <2>3. g[u] = F[<< g[u \ {Max(u)}], Max(u) >>]
    <3> HIDE DEF F, D
    <3> QED BY <1>4 DEF IsFold
  <2> HIDE DEF W, D
  <2> QED
    BY <2>1, <2>2, <2>3
<1>6. iter = [u \in SUBSET (1 .. n) |-> TurnOf(iter, u)]
  <2> HIDE DEF TurnOf, D
  <2>1. g = [u \in SUBSET DOMAIN ss |-> TurnOf(g, u)]
    BY <1>1, <1>5
  <2> QED BY <1>1, <2>1
<1>7. ValidatorWaves(ss, rows) = iter[1 .. n]
  BY <1>1 DEF ValidatorWaves, FoldLeft, MapThenFoldSet
<1> HIDE DEF iter, W
<1>8. \A u \in SUBSET (1 .. n) : iter[u] = TurnOf(iter, u)
  <2> HIDE DEF TurnOf, D
  <2> QED BY <1>6
<1>9. iter[{}] = << >>
  BY <1>8
<1>10. ASSUME NEW k \in 1 .. n, iter[1 .. (k - 1)] \in D
      PROVE  iter[1 .. k] = F[<< iter[1 .. (k - 1)], k >>]
  <2>1. 1 .. k \in SUBSET (1 .. n) /\ 1 .. k # {}
    BY <1>0, Zenon
  <2>2. Max(1 .. k) = k /\ (1 .. k) \ {k} = 1 .. (k - 1)
    BY MaxOfPrefix
  <2> QED
    BY <1>8, <1>10, <2>1, <2>2
<1>11. PICK h : IsRun(h, n, D, << >>, F, iter)
  <2> HIDE DEF n, D, F
  <2> QED BY <1>1, <1>3, <1>9, <1>10, RunExists, Zenon
<1>12. \A k \in 1 .. n : h[k] = h[k - 1] \o W(ss[k])
  <2> SUFFICES ASSUME NEW k \in 1 .. n PROVE h[k] = h[k - 1] \o W(ss[k])
    OBVIOUS
  <2>1. k - 1 \in 0 .. n
    BY <1>1
  <2>2. h[k - 1] \in D /\ h[k] = F[<< h[k - 1], k >>]
    <3> HIDE DEF D, F
    <3> QED BY <1>11, <2>1 DEF IsRun
  <2> QED BY <2>2
<1>13. WavesRun(h, ss, {}, rows)
  <2>1. ASSUME NEW k \in 1 .. n PROVE W(ss[k]) = GroupWaves(ParallelIds(ss[k], {}, rows), SerialIds(ss[k], {}, rows))
    <3>1. k \in 1 .. Len(ss)
      OBVIOUS
    <3> QED BY <3>1 DEF W, SameSerial, ParallelIds
  <2> HIDE DEF D
  <2>2. \A k \in 1 .. n : h[k] = h[k - 1] \o GroupWaves(ParallelIds(ss[k], {}, rows), SerialIds(ss[k], {}, rows))
    BY <1>12, <2>1
  <2> QED BY <1>11, <2>2 DEF WavesRun, IsRun, D
<1> QED
  BY <1>7, <1>11, <1>13 DEF IsRun

\* Rows that cut nothing leave a group as it is.
LEMMA GroupUncut ==
  ASSUME NEW ids \in Seq(Action), NEW R, NEW rows \in Seq(R),
         \A i \in 1 .. Len(rows) : rows[i].mode \notin BatchModes
  PROVE  ReshapeGroup(ids, rows) = << ids >>
<1> DEFINE n == Len(rows)
<1>1. n \in Nat
  OBVIOUS
<1>2. PICK h : GroupRun(h, ids, rows)
  BY GroupSteps, Zenon
<1> DEFINE T == {k \in 0 .. n : h[k] = << ids >>}
<1>3. 0 \in T
  BY <1>1, <1>2 DEF GroupRun
<1>4. ASSUME NEW k \in 1 .. n, k - 1 \in T PROVE k \in T
  <2>1. h[k] = ApplyRow(ids, h[k - 1], rows[k]) /\ h[k - 1] = << ids >> /\ k \in 0 .. n
    BY <1>1, <1>2, <1>4 DEF GroupRun
  <2>2. rows[k].mode \notin BatchModes
    OBVIOUS
  <2> QED BY <2>1, <2>2 DEF ApplyRow
<1>5. n \in T
  <2> HIDE DEF T
  <2> QED BY <1>1, <1>3, <1>4, PrefixInduction
<1> QED
  BY <1>2, <1>5 DEF GroupRun

\* And a batch.
LEMMA ReshapeUncut ==
  ASSUME NEW gs \in Seq(Seq(Action)), NEW R, NEW rows \in Seq(R),
         \A i \in 1 .. Len(rows) : rows[i].mode \notin BatchModes
  PROVE  Reshape(gs, rows) = gs
<1> DEFINE n == Len(gs)
           Upto(k) == SubSeq(gs, 1, k)
<1>1. n \in Nat
  OBVIOUS
<1>2. PICK h : ReshapeRun(h, gs, rows)
  BY ReshapeSteps, Zenon
<1> DEFINE T == {k \in 0 .. n : h[k] = Upto(k)}
<1>3. 0 \in T
  <2>1. Upto(0) = << >>
    BY SubSeqEmpty
  <2> QED BY <1>1, <1>2, <2>1 DEF ReshapeRun
<1>4. ASSUME NEW k \in 1 .. n, k - 1 \in T PROVE k \in T
  <2>0. h[k - 1] = Upto(k - 1) /\ k \in 0 .. n
    <3> HIDE DEF Upto
    <3> QED BY <1>1, <1>4
  <2>1. h[k] = h[k - 1] \o ReshapeGroup(gs[k], rows) /\ h[k - 1] = Upto(k - 1) /\ k \in 0 .. n
    <3> HIDE DEF Upto
    <3> QED BY <2>0, <1>2, Zenon DEF ReshapeRun, n
  <2>2. ReshapeGroup(gs[k], rows) = << gs[k] >>
    <3> DEFINE ids == gs[k]
    <3>1. ids \in Seq(Action)
      OBVIOUS
    <3> HIDE DEF ids
    <3>2. ReshapeGroup(ids, rows) = << ids >>
      BY <3>1, GroupUncut
    <3> QED BY <3>2 DEF ids
  <2>3. Upto(k) = Upto(k - 1) \o << gs[k] >>
    <3>1. 1 \in 1 .. Len(gs) /\ k \in 1 .. Len(gs)
      BY <1>1
    <3> QED BY <3>1, SubSeqRecursiveSecond
  <2> HIDE DEF Upto
  <2> QED BY <2>1, <2>2, <2>3
<1>5. n \in T
  <2> HIDE DEF T
  <2> QED BY <1>1, <1>3, <1>4, PrefixInduction
<1>6. Upto(n) = gs
  BY SubSeqFull
<1> QED
  BY <1>2, <1>5, <1>6 DEF ReshapeRun

\* Rows that only keep the order or serialise mean the same to both.
LEMMA PlainSerial ==
  ASSUME NEW seg, NEW rows,
         \A i \in DOMAIN rows : rows[i].mode \in OrderModes \cup SerialModes
  PROVE  ValidatorSerialIds(seg, rows) = SerialIds(seg, {}, rows)
<1> DEFINE mine == {row \in RelevantRows(seg, rows) : row.mode \in SerialModes}
<1>1. \A row \in RelevantRows(seg, rows) : row.mode \in OrderModes \cup SerialModes
  BY DEF RelevantRows, ToSet
<1>2. \A row \in RelevantRows(seg, rows) :
        RowSerialises(seg, row) = IF row.mode \in SerialModes THEN Within(row.scope, seg) ELSE {}
  BY <1>1 DEF RowSerialises, OrderModes, SerialModes, CloudModes, BleModes
<1>3. SerializeTargets(seg, {}, rows) = UNION {RowSerialises(seg, row) : row \in RelevantRows(seg, rows)}
  BY DEF SerializeTargets
<1>4. UNION {RowSerialises(seg, row) : row \in RelevantRows(seg, rows)}
        = UNION {Within(row.scope, seg) : row \in mine}
  BY <1>2
<1> QED
  BY <1>3, <1>4 DEF ValidatorSerialIds, SerialIds

\* While no guard fails and no row cuts groups or serialises a protocol, the validator's order
\* is the runner's, if the guards are read right.
LEMMA ReadFollows == FallbackKept /\ GuardsRead => FollowsRuntimeWhenPlain
<1> SUFFICES ASSUME FallbackKept, GuardsRead, Plain PROVE FollowsRuntime
  BY DEF FollowsRuntimeWhenPlain
<1>1. failed = {}
  BY DEF failed, GuardsRead, Plain
<1>2. InitialGroups \in Seq(Seq(Action)) /\ fallback \in Seq(FallbackRow)
  BY SegmentsType
<1>3. \A i \in DOMAIN fallback : fallback[i].mode \in OrderModes \cup SerialModes
  BY DEF Plain
<1>4. Reshape(InitialGroups, fallback) = InitialGroups
  <2>1. \A i \in 1 .. Len(fallback) : fallback[i].mode \notin BatchModes
    <3>1. DOMAIN fallback = 1 .. Len(fallback)
      BY <1>2
    <3> QED BY <1>3, <3>1 DEF OrderModes, SerialModes, BatchModes
  <2> HIDE DEF FallbackRow
  <2> QED BY <1>2, <2>1, ReshapeUncut
<1>5. PICK ss : ss = InitialGroups
  OBVIOUS
<1>6. ss \in Seq(Seq(Action)) /\ ss = Reshape(InitialGroups, fallback)
  BY <1>2, <1>4, <1>5
<1>7. PICK h : WavesRun(h, ss, {}, fallback) /\ RuntimeWaves(InitialGroups, {}, fallback) = h[Len(ss)]
  BY <1>6, WavesSteps
<1>8. PICK g : WavesRun(g, ss, {}, fallback) /\ ValidatorWaves(ss, fallback) = g[Len(ss)]
  <2>1. SameSerial(ss, fallback)
    BY <1>3, PlainSerial DEF SameSerial
  <2> QED BY <1>6, <2>1, ValidatorSteps
<1>9. h[Len(ss)] = g[Len(ss)]
  BY <1>6, <1>7, <1>8, WavesAgree
<1>10. ValidatorWaves(InitialGroups, fallback) = runtime
  BY <1>1, <1>5, <1>7, <1>8, <1>9 DEF runtime
<1> QED
  BY <1>10 DEF FollowsRuntime

-----------------------------------------------------------------------------
(* Guards: the walk of a reader along a text                               *)

\* The greater of 0 and a number.
LEMMA GreatestOfTwo == \A k \in Nat : Max({0, k}) = k
<1> SUFFICES ASSUME NEW k \in Nat PROVE Max({0, k}) = k
  OBVIOUS
<1>1. \E x \in {0, k} : \A y \in {0, k} : x >= y
  OBVIOUS
<1>2. Max({0, k}) \in {0, k} /\ \A y \in {0, k} : Max({0, k}) >= y
  BY <1>1, Zenon DEF Max
<1> QED
  BY <1>2

\* What the walk of PartsOf has seen after each word.
SplitRun(g, text, op, nested) ==
    /\ g[0] = [depth |-> 0, parts |-> << << >> >>]
    /\ \A n \in 1 .. Len(text) : g[n] = NextWord(g[n - 1], text[n], op, nested)
    /\ PartsOf(text, op, nested) = g[Len(text)].parts

\* The walk of PartsOf has its steps.
LEMMA SplitSteps ==
  ASSUME NEW text \in Seq(Word), NEW op, NEW nested
  PROVE  \E g : SplitRun(g, text, op, nested)
<1> DEFINE L == Len(text)
           base == [depth |-> 0, parts |-> << << >> >>]
           step(was, n) == NextWord(was, text[n], op, nested)
           Chain(h, k) == h = [n \in 0 .. k |-> IF n = 0 THEN base ELSE step(h[n - 1], n)]
           T == {k \in 0 .. L : \E h : Chain(h, k)}
           walk == CHOOSE w : w = [n \in 0 .. L |-> IF n = 0 THEN base ELSE NextWord(w[n - 1], text[n], op, nested)]
<1>1. L \in Nat
  OBVIOUS
<1>2. PartsOf(text, op, nested) = walk[L].parts
  BY DEF PartsOf
<1> HIDE DEF base, L
<1>3. 0 \in T
  <2> DEFINE h == [n \in 0 .. 0 |-> base]
  <2> HIDE DEF step
  <2>1. h = [n \in 0 .. 0 |-> IF n = 0 THEN base ELSE step(h[n - 1], n)]
    <3>1. \A n \in 0 .. 0 : n = 0
      OBVIOUS
    <3>2. \A x : \A n \in 0 .. 0 : base = IF n = 0 THEN base ELSE step(x[n - 1], n)
      BY <3>1
    <3> QED BY <3>2
  <2> HIDE DEF h
  <2>2. Chain(h, 0) /\ 0 \in 0 .. L
    BY <1>1, <2>1
  <2> HIDE DEF Chain
  <2> QED BY <2>2
<1>4. ASSUME NEW k \in 1 .. L, k - 1 \in T PROVE k \in T
  <2> HIDE DEF step
  <2>1. PICK h : Chain(h, k - 1)
    BY <1>4
  <2> DEFINE f == [n \in 0 .. k |-> IF n = 0 THEN base ELSE step(h[n - 1], n)]
  <2>2. \A n \in 0 .. (k - 1) : f[n] = h[n]
    <3> SUFFICES ASSUME NEW n \in 0 .. (k - 1) PROVE f[n] = h[n]
      OBVIOUS
    <3>1. h = [j \in 0 .. (k - 1) |-> IF j = 0 THEN base ELSE step(h[j - 1], j)]
      BY <2>1
    <3>2. h[n] = IF n = 0 THEN base ELSE step(h[n - 1], n)
      BY <3>1
    <3>3. n \in 0 .. k
      BY <1>1
    <3> QED BY <3>2, <3>3
  <2>3. \A n \in 0 .. k : n # 0 => n - 1 \in 0 .. (k - 1)
    BY <1>1
  <2>4. Chain(f, k)
    <3>1. \A n \in 0 .. k : n # 0 => step(h[n - 1], n) = step(f[n - 1], n)
      <4> HIDE DEF f
      <4> QED BY <2>2, <2>3
    <3> QED BY <3>1
  <2>5. k \in 0 .. L
    BY <1>1
  <2> HIDE DEF f, Chain
  <2> QED BY <2>4, <2>5
<1>5. L \in T
  <2> HIDE DEF T
  <2> QED BY <1>1, <1>3, <1>4, PrefixInduction
<1>6. \E w : w = [n \in 0 .. L |-> IF n = 0 THEN base ELSE NextWord(w[n - 1], text[n], op, nested)]
  BY <1>5
<1>7. walk = [n \in 0 .. L |-> IF n = 0 THEN base ELSE NextWord(walk[n - 1], text[n], op, nested)]
  BY <1>6
<1> HIDE DEF walk
<1>8. walk[0] = base /\ \A n \in 1 .. L : walk[n] = NextWord(walk[n - 1], text[n], op, nested)
  BY <1>1, <1>7
<1>9. SplitRun(walk, text, op, nested)
  BY <1>2, <1>8 DEF SplitRun, base, L
<1> QED
  BY <1>9

\* What the walk has seen: a depth, and parts of which there is one at least.
Seen == [depth : Nat, parts : Seq(Seq(Word)) \ {<< >>}]

\* A depth does not fall below 0.
LEMMA GreaterIsNat == \A k \in Int : Max({0, k}) \in Nat /\ (k >= 0 => Max({0, k}) = k)
<1> SUFFICES ASSUME NEW k \in Int PROVE Max({0, k}) \in Nat /\ (k >= 0 => Max({0, k}) = k)
  OBVIOUS
<1>1. \E x \in {0, k} : \A y \in {0, k} : x >= y
  OBVIOUS
<1>2. Max({0, k}) \in {0, k} /\ \A y \in {0, k} : Max({0, k}) >= y
  BY <1>1, Zenon DEF Max
<1> QED
  BY <1>2

\* A word turns the depth by a number.
LEMMA TurnIsInt == \A word, nested : Turn(word, nested) \in Int
BY DEF Turn

\* A part more, field by field.
LEMMA SeenParts ==
  ASSUME NEW d, NEW ps \in Seq(Seq(Word)), NEW was, was = [depth |-> d, parts |-> ps]
  PROVE  /\ [was EXCEPT !.parts = Append(@, << >>)] = [depth |-> d, parts |-> Append(ps, << >>)]
         /\ Append(ps, << >>) \in Seq(Seq(Word)) /\ Append(ps, << >>) # << >>
<1>1. << >> \in Seq(Word)
  OBVIOUS
<1> DEFINE S == Seq(Word)
<1>2. ps \in Seq(S) /\ << >> \in S
  BY <1>1
<1> HIDE DEF S
<1>3. Append(ps, << >>) \in Seq(S) /\ Append(ps, << >>) # << >>
  BY <1>2
<1> DEFINE qs == Append(ps, << >>)
<1>4. [[depth |-> d, parts |-> ps] EXCEPT !.parts = qs] = [depth |-> d, parts |-> qs]
  <2> HIDE DEF qs
  <2> QED OBVIOUS
<1>5. [was EXCEPT !.parts = Append(@, << >>)] = [was EXCEPT !.parts = qs]
  OBVIOUS
<1> QED
  BY <1>3, <1>4, <1>5 DEF S

\* An operator that ends a part, and another word.
AfterOp(was) == [depth |-> 0, parts |-> Append(was.parts, << >>)]
AfterWord(was, word, nested) ==
    [depth |-> Max({0, was.depth + Turn(word, nested)}),
     parts |-> [was.parts EXCEPT ![Len(was.parts)] = Append(@, word)]]

\* One word more leaves a depth and parts, and is one of two steps.
LEMMA NextFacts ==
  ASSUME NEW was \in Seen, NEW word \in Word, NEW op, NEW nested
  PROVE  /\ NextWord(was, word, op, nested) \in Seen
         /\ NextWord(was, word, op, nested)
               = IF word = op /\ was.depth = 0 THEN AfterOp(was) ELSE AfterWord(was, word, nested)
<1> DEFINE d == was.depth
           ps == was.parts
<1>1. was = [depth |-> d, parts |-> ps] /\ d \in Nat /\ ps \in Seq(Seq(Word)) /\ ps # << >>
  BY DEF Seen
<1>2. CASE word = op /\ d = 0
  <2>1. NextWord(was, word, op, nested) = [was EXCEPT !.parts = Append(@, << >>)]
    BY <1>2 DEF NextWord
  <2> HIDE DEF d, ps
  <2>2. /\ [was EXCEPT !.parts = Append(@, << >>)] = [depth |-> d, parts |-> Append(ps, << >>)]
        /\ Append(ps, << >>) \in Seq(Seq(Word)) /\ Append(ps, << >>) # << >>
    BY <1>1, SeenParts, Zenon
  <2> QED BY <1>1, <1>2, <2>1, <2>2 DEF Seen, AfterOp, d, ps
<1>3. CASE ~(word = op /\ d = 0)
  <2> DEFINE e == Max({0, d + Turn(word, nested)})
             qs == [ps EXCEPT ![Len(ps)] = Append(@, word)]
  <2>1. NextWord(was, word, op, nested) = [depth |-> e, parts |-> qs]
    BY <1>3 DEF NextWord
  <2>2. e \in Nat
    <3>1. d + Turn(word, nested) \in Int
      BY <1>1, TurnIsInt
    <3> QED BY <3>1, GreaterIsNat
  <2>3. qs \in Seq(Seq(Word)) /\ qs # << >>
    BY <1>1
  <2> QED BY <1>3, <2>1, <2>2, <2>3 DEF Seen, AfterWord
<1> QED
  BY <1>2, <1>3

-----------------------------------------------------------------------------
(* Guards: a part without the operator                                     *)

\* D is the depth of the parentheses after each word of u: none is closed that is not open,
\* and where an operator of op stands, one is.
CalmBy(D, u, op, nested) ==
    /\ D \in [0 .. Len(u) -> Nat] /\ D[0] = 0 /\ D[Len(u)] = 0
    /\ \A n \in 1 .. Len(u) : /\ D[n] = D[n - 1] + Turn(u[n], nested)
                              /\ u[n] = op => D[n - 1] > 0
Calm(u, op, nested) == \E D : CalmBy(D, u, op, nested)

\* text goes on as u does.
BeginsWith(text, u) == Len(u) <= Len(text) /\ \A n \in 1 .. Len(u) : text[n] = u[n]

\* The only part is the last.
LEMMA OnePart == \A p, q : [<< p >> EXCEPT ![Len(<< p >>)] = q] = << q >>
OBVIOUS

\* A prefix, and the word behind it.
LEMMA OneMore ==
  ASSUME NEW u \in Seq(Word), NEW n \in 1 .. Len(u)
  PROVE  Append(SubSeq(u, 1, n - 1), u[n]) = SubSeq(u, 1, n) /\ SubSeq(u, 1, n - 1) \in Seq(Word)
OBVIOUS

\* The walk along a calm text holds that text in one part.
LEMMA CalmRun ==
  ASSUME NEW text \in Seq(Word), NEW u \in Seq(Word), BeginsWith(text, u), NEW op, NEW nested,
         NEW D, CalmBy(D, u, op, nested), NEW g, SplitRun(g, text, op, nested)
  PROVE  g[Len(u)] = [depth |-> 0, parts |-> << u >>]
<1> DEFINE L == Len(u)
           At(n) == [depth |-> D[n], parts |-> << SubSeq(u, 1, n) >>]
           T == {n \in 0 .. L : g[n] = At(n)}
<1>1. L \in Nat /\ \A n \in 1 .. L : u[n] \in Word
  OBVIOUS
<1>2. /\ D \in [0 .. L -> Nat] /\ D[0] = 0 /\ D[L] = 0
      /\ \A n \in 1 .. L : D[n] = D[n - 1] + Turn(u[n], nested) /\ (u[n] = op => D[n - 1] > 0)
  BY Zenon DEF CalmBy
<1>3. g[0] = [depth |-> 0, parts |-> << << >> >>] /\ \A n \in 1 .. L : g[n] = NextWord(g[n - 1], u[n], op, nested)
  <2>1. \A n \in 1 .. L : n \in 1 .. Len(text) /\ text[n] = u[n]
    BY DEF BeginsWith
  <2> QED BY <2>1 DEF SplitRun
<1> HIDE DEF L
<1>4. 0 \in T
  <2>1. SubSeq(u, 1, 0) = << >>
    OBVIOUS
  <2> QED BY <1>1, <1>2, <1>3, <2>1
<1>5. ASSUME NEW n \in 1 .. L, n - 1 \in T PROVE n \in T
  <2> DEFINE p == SubSeq(u, 1, n - 1)
             was == [depth |-> D[n - 1], parts |-> << p >>]
  <2>1. n - 1 \in 0 .. L /\ n \in 0 .. L /\ n \in 1 .. Len(u)
    BY <1>1 DEF L
  <2>2. D[n - 1] \in Nat /\ D[n] \in Nat /\ u[n] \in Word
    BY <1>1, <1>2, <2>1
  <2>3. Append(p, u[n]) = SubSeq(u, 1, n) /\ p \in Seq(Word)
    BY <2>1, OneMore
  <2>4. g[n - 1] = was
    BY <1>5
  <2> HIDE DEF p
  <2>5. was \in Seen /\ was.depth = D[n - 1] /\ was.parts = << p >>
    <3>1. << p >> \in Seq(Seq(Word)) \ {<< >>}
      BY <2>3
    <3> QED BY <2>2, <3>1 DEF Seen
  <2> HIDE DEF was
  <2>6. ~(u[n] = op /\ was.depth = 0)
    BY <1>2, <2>2, <2>5
  <2>7. NextWord(was, u[n], op, nested) = AfterWord(was, u[n], nested)
    BY <2>2, <2>5, <2>6, NextFacts, Zenon
  <2>8. [was.parts EXCEPT ![Len(was.parts)] = Append(@, u[n])] = << SubSeq(u, 1, n) >>
    <3>1. [<< p >> EXCEPT ![Len(<< p >>)] = Append(@, u[n])] = << Append(p, u[n]) >>
      OBVIOUS
    <3> QED BY <2>3, <2>5, <3>1
  <2>9. Max({0, was.depth + Turn(u[n], nested)}) = D[n]
    <3>1. was.depth + Turn(u[n], nested) = D[n]
      BY <1>2, <2>5
    <3>2. Max({0, D[n]}) = D[n]
      BY <2>2, GreatestOfTwo
    <3> QED BY <3>1, <3>2, Zenon
  <2>10. g[n] = NextWord(was, u[n], op, nested)
    BY <1>3, <2>4
  <2>11. g[n] = [depth |-> D[n], parts |-> << SubSeq(u, 1, n) >>]
    BY <2>7, <2>8, <2>9, <2>10, Zenon DEF AfterWord
  <2> QED BY <2>1, <2>11
<1>6. L \in T
  <2> HIDE DEF T
  <2> QED BY <1>1, <1>4, <1>5, PrefixInduction
<1>7. SubSeq(u, 1, L) = u
  BY DEF L
<1> QED
  BY <1>2, <1>6, <1>7 DEF L

\* A text with no operator outside parentheses is one part.
LEMMA SplitWhole ==
  ASSUME NEW u \in Seq(Word), NEW op, NEW nested, Calm(u, op, nested)
  PROVE  PartsOf(u, op, nested) = << u >>
<1>1. PICK D : CalmBy(D, u, op, nested)
  BY DEF Calm
<1>2. PICK g : SplitRun(g, u, op, nested)
  BY SplitSteps
<1>3. BeginsWith(u, u)
  BY DEF BeginsWith
<1>4. g[Len(u)] = [depth |-> 0, parts |-> << u >>]
  BY <1>1, <1>2, <1>3, CalmRun
<1> QED
  BY <1>2, <1>4 DEF SplitRun

\* The last part stays the last behind another.
LEMMA LastBehind ==
  ASSUME NEW u \in Seq(Word), NEW ps \in Seq(Seq(Word)), ps # << >>, NEW word \in Word
  PROVE  [<< u >> \o ps EXCEPT ![Len(<< u >> \o ps)] = Append(@, word)]
           = << u >> \o [ps EXCEPT ![Len(ps)] = Append(@, word)]
<1> DEFINE S == Seq(Word)
           n == Len(ps)
           q == Append(ps[n], word)
<1>1. u \in S /\ ps \in Seq(S) /\ n \in Nat /\ n > 0 /\ ps[n] \in S
  OBVIOUS
<1>2. q \in S
  BY <1>1
<1>3. Len(<< u >> \o ps) = n + 1 /\ (<< u >> \o ps)[n + 1] = ps[n]
  BY <1>1
<1>4. [ps EXCEPT ![n] = q] \in Seq(S) /\ Len([ps EXCEPT ![n] = q]) = n
  <2> HIDE DEF q, S
  <2> QED BY <1>1, <1>2
<1>5. [<< u >> \o ps EXCEPT ![n + 1] = q] = << u >> \o [ps EXCEPT ![n] = q]
  <2> HIDE DEF q, S
  <2> DEFINE v == << u >> \o ps
             x == [v EXCEPT ![n + 1] = q]
             y == << u >> \o [ps EXCEPT ![n] = q]
  <2>1. x \in Seq(S) /\ Len(x) = n + 1 /\ y \in Seq(S) /\ Len(y) = n + 1
    BY <1>1, <1>2, <1>4
  <2>2. ASSUME NEW i \in 1 .. (n + 1) PROVE x[i] = y[i]
    <3>1. v \in Seq(S) /\ Len(v) = n + 1 /\ v[1] = u /\ \A j \in 1 .. n : v[j + 1] = ps[j]
      BY <1>1
    <3>2. x[i] = IF i = n + 1 THEN q ELSE v[i]
      <4> HIDE DEF v
      <4> QED BY <1>2, <3>1
    <3>3. y[i] = IF i = 1 THEN u ELSE [ps EXCEPT ![n] = q][i - 1]
      BY <1>1, <1>4
    <3> HIDE DEF v, x, y
    <3>4. CASE i = 1
      BY <1>1, <3>1, <3>2, <3>3, <3>4
    <3>5. CASE i # 1
      <4>1. i - 1 \in 1 .. n /\ i = (i - 1) + 1
        BY <1>1, <3>5
      <4>2. [ps EXCEPT ![n] = q][i - 1] = IF i - 1 = n THEN q ELSE ps[i - 1]
        BY <1>1, <4>1
      <4>3. i - 1 = n <=> i = n + 1
        BY <1>1
      <4>4. v[i] = ps[i - 1]
        BY <3>1, <4>1
      <4>5. i = 1 <=> FALSE
        BY <3>5
      <4> QED BY <3>2, <3>3, <4>2, <4>3, <4>4, <4>5, Zenon
    <3> QED BY <3>4, <3>5
  <2> HIDE DEF x, y
  <2>3. x = y
    BY <2>1, <2>2
  <2> QED BY <2>3 DEF x, y
<1> HIDE DEF q, n
<1>6. [<< u >> \o ps EXCEPT ![Len(<< u >> \o ps)] = Append(@, word)] = [<< u >> \o ps EXCEPT ![n + 1] = q]
  BY <1>3 DEF q
<1>7. [ps EXCEPT ![Len(ps)] = Append(@, word)] = [ps EXCEPT ![n] = q]
  BY DEF q, n
<1> QED
  BY <1>5, <1>6, <1>7, Zenon

\* What the walk has seen when u is a part it is done with.
Behind(u, was) == [depth |-> was.depth, parts |-> << u >> \o was.parts]

\* A walk behind a part goes as it would alone.
LEMMA NextBehind ==
  ASSUME NEW was \in Seen, NEW word \in Word, NEW op, NEW nested, NEW u \in Seq(Word)
  PROVE  NextWord(Behind(u, was), word, op, nested) = Behind(u, NextWord(was, word, op, nested))
<1> DEFINE d == was.depth
           ps == was.parts
           qs == << u >> \o ps
           late == [depth |-> d, parts |-> qs]
<1>1. d \in Nat /\ ps \in Seq(Seq(Word)) /\ ps # << >>
  BY DEF Seen
<1>2. qs \in Seq(Seq(Word)) /\ qs # << >> /\ Len(qs) = Len(ps) + 1
  <2> HIDE DEF ps
  <2> QED BY <1>1
<1>3. late \in Seen /\ late.depth = d /\ late.parts = qs
  <2> HIDE DEF d, qs
  <2> QED BY <1>1, <1>2 DEF Seen
<1> DEFINE after == NextWord(was, word, op, nested)
<1> HIDE DEF late
<1>4. CASE word = op /\ was.depth = 0
  <2>1. after = AfterOp(was)
    BY <1>4, NextFacts, Zenon
  <2>2. NextWord(late, word, op, nested) = AfterOp(late)
    BY <1>3, <1>4, NextFacts, Zenon
  <2> HIDE DEF d, ps, after
  <2>3. Append(qs, << >>) = << u >> \o Append(ps, << >>)
    <3> DEFINE S == Seq(Word)
    <3>1. u \in S /\ ps \in Seq(S) /\ << >> \in S
      BY <1>1
    <3> HIDE DEF S
    <3> QED BY <3>1
  <2>4. after.depth = 0 /\ after.parts = Append(ps, << >>)
    BY <2>1 DEF AfterOp, ps
  <2>5. AfterOp(late) = [depth |-> 0, parts |-> Append(qs, << >>)]
    BY <1>3 DEF AfterOp
  <2> QED BY <2>2, <2>3, <2>4, <2>5, Zenon DEF Behind, late, d, ps, after
<1>5. CASE ~(word = op /\ was.depth = 0)
  <2> DEFINE e == Max({0, d + Turn(word, nested)})
             rs == [ps EXCEPT ![Len(ps)] = Append(@, word)]
             ts == [qs EXCEPT ![Len(qs)] = Append(@, word)]
  <2>1. after = AfterWord(was, word, nested)
    BY <1>5, NextFacts, Zenon
  <2>2. NextWord(late, word, op, nested) = AfterWord(late, word, nested)
    BY <1>3, <1>5, NextFacts, Zenon
  <2>4. after.depth = e /\ after.parts = rs
    BY <2>1 DEF AfterWord
  <2>5. AfterWord(late, word, nested) = [depth |-> e, parts |-> ts]
    BY <1>3, Zenon DEF AfterWord
  <2>3. ts = << u >> \o rs
    <3> HIDE DEF ps
    <3> QED BY <1>1, LastBehind
  <2> HIDE DEF e, rs, ts
  <2> QED BY <2>2, <2>3, <2>4, <2>5, Zenon DEF Behind, late, d, ps, after
<1> QED
  BY <1>4, <1>5 DEF Behind, late

-----------------------------------------------------------------------------
(* Guards: a part, the operator, and what is left                          *)

\* The walk keeps a depth and parts.
LEMMA SplitSeen ==
  ASSUME NEW text \in Seq(Word), NEW op, NEW nested, NEW g, SplitRun(g, text, op, nested)
  PROVE  \A n \in 0 .. Len(text) : g[n] \in Seen
<1> SUFFICES ASSUME NEW m \in 0 .. Len(text) PROVE g[m] \in Seen
  OBVIOUS
<1> DEFINE T == {n \in 0 .. m : g[n] \in Seen}
<1>1. m \in Nat
  OBVIOUS
<1>2. 0 \in T
  <2>1. g[0] = [depth |-> 0, parts |-> << << >> >>]
    BY DEF SplitRun
  <2>2. [depth |-> 0, parts |-> << << >> >>] \in Seen
    <3>1. << << >> >> \in Seq(Seq(Word)) \ {<< >>}
      OBVIOUS
    <3> QED BY <3>1 DEF Seen
  <2> QED BY <2>1, <2>2
<1>3. ASSUME NEW n \in 1 .. m, n - 1 \in T PROVE n \in T
  <2>1. n \in 1 .. Len(text) /\ text[n] \in Word /\ g[n - 1] \in Seen
    BY <1>3
  <2>2. g[n] = NextWord(g[n - 1], text[n], op, nested)
    BY <2>1 DEF SplitRun
  <2> DEFINE s == g[n - 1]
             word == text[n]
  <2>3. s \in Seen /\ word \in Word
    BY <2>1
  <2> HIDE DEF s, word
  <2>4. NextWord(s, word, op, nested) \in Seen
    BY <2>3, NextFacts, Zenon
  <2>5. g[n] \in Seen
    BY <2>2, <2>4, Zenon DEF s, word
  <2> QED BY <2>5
<1>4. m \in T
  <2> HIDE DEF T
  <2> QED BY <1>1, <1>2, <1>3, PrefixInduction
<1> QED
  BY <1>4

\* The text of two expressions and what joins them.
Join(u, op, v) == u \o << op >> \o v

\* What stands where in two texts with an operator between them.
LEMMA JoinFacts ==
  ASSUME NEW u \in Seq(Word), NEW v \in Seq(Word), NEW op \in Word
  PROVE  /\ Join(u, op, v) \in Seq(Word) /\ Len(Join(u, op, v)) = Len(u) + 1 + Len(v)
         /\ \A n \in 1 .. Len(u) : Join(u, op, v)[n] = u[n]
         /\ Join(u, op, v)[Len(u) + 1] = op
         /\ \A n \in 1 .. Len(v) : Join(u, op, v)[Len(u) + 1 + n] = v[n]
<1> DEFINE w == u \o << op >>
<1>1. << op >> \in Seq(Word) /\ Len(<< op >>) = 1
  OBVIOUS
<1>2. w \in Seq(Word) /\ Len(w) = Len(u) + 1 /\ w[Len(u) + 1] = op /\ \A n \in 1 .. Len(u) : w[n] = u[n]
  OBVIOUS
<1> HIDE DEF w
<1>3. /\ w \o v \in Seq(Word) /\ Len(w \o v) = Len(w) + Len(v)
      /\ \A n \in 1 .. Len(w) : (w \o v)[n] = w[n]
      /\ \A n \in 1 .. Len(v) : (w \o v)[Len(w) + n] = v[n]
  BY <1>2
<1>4. Join(u, op, v) = w \o v
  BY DEF Join, w
<1>5. \A n \in 1 .. Len(u) : n \in 1 .. Len(w)
  BY <1>2
<1>6. Len(u) + 1 \in 1 .. Len(w)
  BY <1>2
<1> QED
  BY <1>2, <1>3, <1>4, <1>5, <1>6

\* Two places, however they are put together.
LEMMA TwoPlaces ==
  ASSUME NEW S, NEW p \in S, NEW q \in S, NEW one, NEW two, one = << p >>, two = << q >>
  PROVE  /\ one \o two \in Seq(S) /\ Len(one \o two) = 2 /\ (one \o two)[1] = p /\ (one \o two)[2] = q
         /\ Append(one, q) \in Seq(S) /\ Len(Append(one, q)) = 2 /\ Append(one, q)[1] = p /\ Append(one, q)[2] = q
OBVIOUS

\* Two places are one sequence, however they are put together.
LEMMA TwoInOne ==
  ASSUME NEW S, NEW p \in S, NEW q \in S
  PROVE  Append(<< p >>, q) = << p, q >> /\ << p >> \o << q >> = << p, q >>
<1>1. \A x \in Seq(S) : Len(x) = 2 /\ x[1] = p /\ x[2] = q => x = << p, q >>
  <2> SUFFICES ASSUME NEW x \in Seq(S), Len(x) = 2, x[1] = p, x[2] = q PROVE x = << p, q >>
    OBVIOUS
  <2> DEFINE both == << p, q >>
  <2>1. both \in Seq(S) /\ Len(both) = 2 /\ both[1] = p /\ both[2] = q
    OBVIOUS
  <2> HIDE DEF both
  <2>2. \A i \in 1 .. 2 : i = 1 \/ i = 2
    OBVIOUS
  <2>3. x = both
    BY <2>1, <2>2
  <2> QED BY <2>3 DEF both
<1> DEFINE one == << p >>
           two == << q >>
           x == Append(one, q)
           y == one \o two
<1>2. /\ y \in Seq(S) /\ Len(y) = 2 /\ y[1] = p /\ y[2] = q
      /\ x \in Seq(S) /\ Len(x) = 2 /\ x[1] = p /\ x[2] = q
  BY TwoPlaces
<1> HIDE DEF x, y
<1>3. x = << p, q >> /\ y = << p, q >>
  BY <1>1, <1>2, Zenon
<1> QED
  BY <1>3 DEF x, y

\* The text without words.
LEMMA NoWordsYet == << >> \in Seq(Word)
OBVIOUS

\* The part before an operator comes first, and the rest is read as it would be alone.
LEMMA SplitMore ==
  ASSUME NEW u \in Seq(Word), NEW v \in Seq(Word), NEW op \in Word, NEW nested, Calm(u, op, nested)
  PROVE  PartsOf(Join(u, op, v), op, nested) = << u >> \o PartsOf(v, op, nested)
<1> DEFINE t == Join(u, op, v)
           a == Len(u) + 1
           L == Len(v)
<1>1. /\ t \in Seq(Word) /\ Len(t) = a + L /\ a \in Nat /\ L \in Nat
      /\ \A n \in 1 .. Len(u) : t[n] = u[n]
      /\ t[a] = op
      /\ \A n \in 1 .. L : t[a + n] = v[n]
  <2>1. /\ t \in Seq(Word) /\ Len(t) = a + L
        /\ \A n \in 1 .. Len(u) : t[n] = u[n]
        /\ t[a] = op
        /\ \A n \in 1 .. L : t[a + n] = v[n]
    <3>1. /\ Join(u, op, v) \in Seq(Word) /\ Len(Join(u, op, v)) = Len(u) + 1 + Len(v)
          /\ \A n \in 1 .. Len(u) : Join(u, op, v)[n] = u[n]
          /\ Join(u, op, v)[Len(u) + 1] = op
          /\ \A n \in 1 .. Len(v) : Join(u, op, v)[Len(u) + 1 + n] = v[n]
      BY JoinFacts
    <3> QED BY <3>1
  <2>2. a \in Nat /\ L \in Nat
    OBVIOUS
  <2> QED BY <2>1, <2>2, Zenon
<1> HIDE DEF t
<1>2. PICK D : CalmBy(D, u, op, nested)
  BY DEF Calm
<1>3. PICK g : SplitRun(g, t, op, nested)
  BY <1>1, SplitSteps
<1>4. PICK h : SplitRun(h, v, op, nested)
  BY SplitSteps
<1>5. \A n \in 0 .. L : h[n] \in Seen
  BY <1>4, SplitSeen
<1>6. g[Len(u)] = [depth |-> 0, parts |-> << u >>]
  <2>1. BeginsWith(t, u)
    BY <1>1 DEF BeginsWith
  <2> QED BY <1>1, <1>2, <1>3, <2>1, CalmRun
<1>7. \A n \in 1 .. (a + L) : g[n] = NextWord(g[n - 1], t[n], op, nested)
  BY <1>1, <1>3 DEF SplitRun
<1>8. h[0] = [depth |-> 0, parts |-> << << >> >>] /\ \A n \in 1 .. L : h[n] = NextWord(h[n - 1], v[n], op, nested)
  BY <1>4 DEF SplitRun
<1> DEFINE T == {n \in 0 .. L : g[a + n] = Behind(u, h[n])}
<1>9. 0 \in T
  <2>1. g[a] = NextWord(g[Len(u)], op, op, nested)
    <3>1. a \in 1 .. (a + L) /\ a - 1 = Len(u)
      BY <1>1
    <3> QED BY <1>1, <1>7, <3>1
  <2> DEFINE s == [depth |-> 0, parts |-> << u >>]
  <2>2. s \in Seen /\ s.depth = 0 /\ s.parts = << u >>
    <3>1. << u >> \in Seq(Seq(Word)) \ {<< >>}
      OBVIOUS
    <3> QED BY <3>1 DEF Seen
  <2> HIDE DEF s
  <2>3. NextWord(s, op, op, nested) = AfterOp(s)
    BY <2>2, NextFacts, Zenon
  <2>4. AfterOp(s) = [depth |-> 0, parts |-> << u, << >> >>]
    <3>1. Append(<< u >>, << >>) = << u, << >> >>
      BY NoWordsYet, TwoInOne, Zenon
    <3> QED BY <2>2, <3>1 DEF AfterOp
  <2>5. Behind(u, h[0]) = [depth |-> 0, parts |-> << u, << >> >>]
    <3>1. << u >> \o << << >> >> = << u, << >> >>
      BY NoWordsYet, TwoInOne, Zenon
    <3>2. h[0].depth = 0 /\ h[0].parts = << << >> >>
      BY <1>8
    <3> QED BY <3>1, <3>2, Zenon DEF Behind
  <2>6. a + 0 = a /\ 0 \in 0 .. L
    BY <1>1
  <2>7. g[a] = AfterOp(s)
    BY <1>6, <2>1, <2>3, Zenon DEF s
  <2> HIDE DEF a
  <2> QED BY <2>4, <2>5, <2>6, <2>7
<1>10. ASSUME NEW n \in 1 .. L, n - 1 \in T PROVE n \in T
  <2>1. n \in 0 .. L /\ n - 1 \in 0 .. L /\ a + n \in 1 .. (a + L) /\ (a + n) - 1 = a + (n - 1)
    BY <1>1
  <2>2. g[a + n] = NextWord(g[a + (n - 1)], v[n], op, nested)
    BY <1>1, <1>7, <2>1
  <2>3. g[a + (n - 1)] = Behind(u, h[n - 1])
    BY <1>10
  <2>4. v[n] \in Word /\ h[n - 1] \in Seen
    BY <1>5, <2>1
  <2> DEFINE s == h[n - 1]
  <2>5. NextWord(Behind(u, s), v[n], op, nested) = Behind(u, NextWord(s, v[n], op, nested))
    <3> DEFINE word == v[n]
    <3>1. s \in Seen /\ word \in Word
      BY <2>4
    <3> HIDE DEF s, word
    <3>2. NextWord(Behind(u, s), word, op, nested) = Behind(u, NextWord(s, word, op, nested))
      BY <3>1, NextBehind
    <3> QED BY <3>2 DEF word
  <2>6. h[n] = NextWord(h[n - 1], v[n], op, nested)
    BY <1>8
  <2> QED BY <2>1, <2>2, <2>3, <2>5, <2>6
<1>11. L \in T
  <2> HIDE DEF T
  <2> QED BY <1>1, <1>9, <1>10, PrefixInduction
<1>12. g[Len(t)].parts = << u >> \o h[L].parts
  <2>1. g[a + L] = Behind(u, h[L])
    BY <1>11
  <2> QED BY <1>1, <2>1 DEF Behind
<1> QED
  BY <1>3, <1>4, <1>12 DEF SplitRun, t

-----------------------------------------------------------------------------
(* Guards: texts that parentheses keep shut                                *)

\* D is the depth of the parentheses after each word of u, and none of the words in ops
\* stands outside them.
DepthBy(D, u, ops) ==
    /\ D \in [0 .. Len(u) -> Nat] /\ D[0] = 0 /\ D[Len(u)] = 0
    /\ \A n \in 1 .. Len(u) : D[n] = D[n - 1] + Turn(u[n], TRUE)
    /\ \A n \in 1 .. Len(u) : u[n] \in ops => D[n - 1] > 0
Shut(u, ops) == \E D : DepthBy(D, u, ops)

\* What is shut to an operator is calm, to the reader that sees parentheses.
LEMMA ShutIsCalm ==
  ASSUME NEW u, NEW ops, Shut(u, ops), NEW op \in ops
  PROVE  Calm(u, op, TRUE)
<1>1. PICK D : DepthBy(D, u, ops)
  BY DEF Shut
<1>2. CalmBy(D, u, op, TRUE)
  BY <1>1 DEF DepthBy, CalmBy
<1> QED
  BY <1>2 DEF Calm

\* What is shut to operators is shut to some of them.
LEMMA ShutLess ==
  ASSUME NEW u, NEW ops, Shut(u, ops), NEW few, few \subseteq ops
  PROVE  Shut(u, few)
<1>1. PICK D : DepthBy(D, u, ops)
  BY DEF Shut
<1>2. DepthBy(D, u, few)
  BY <1>1 DEF DepthBy
<1> QED
  BY <1>2 DEF Shut

\* A reader that sees no parentheses splits at every operator.
LEMMA AbsentIsCalm ==
  ASSUME NEW u \in Seq(Word), NEW op, \A n \in 1 .. Len(u) : u[n] # op
  PROVE  Calm(u, op, FALSE)
<1> DEFINE D == [n \in 0 .. Len(u) |-> 0]
<1>1. \A w : Turn(w, FALSE) = 0
  BY DEF Turn
<1>2. Len(u) \in Nat
  OBVIOUS
<1>3. /\ D \in [0 .. Len(u) -> Nat] /\ D[0] = 0 /\ D[Len(u)] = 0
      /\ \A n \in 1 .. Len(u) : D[n] = 0 /\ D[n - 1] = 0
  BY <1>2
<1> HIDE DEF D
<1>4. ASSUME NEW n \in 1 .. Len(u)
      PROVE  D[n] = D[n - 1] + Turn(u[n], FALSE) /\ (u[n] = op => D[n - 1] > 0)
  <2>1. D[n] = 0 /\ D[n - 1] = 0 /\ Turn(u[n], FALSE) = 0
    BY <1>1, <1>3, Zenon
  <2>2. u[n] # op
    OBVIOUS
  <2>3. 0 = 0 + 0
    OBVIOUS
  <2> QED BY <2>1, <2>2, <2>3, Zenon
<1>5. CalmBy(D, u, op, FALSE)
  BY <1>3, <1>4, Zenon DEF CalmBy
<1> QED
  BY <1>5 DEF Calm

\* A word that is no parenthesis.
LEMMA ShutWord ==
  ASSUME NEW w \in Word, w \notin {"(", ")"}, NEW ops, w \notin ops
  PROVE  Shut(<< w >>, ops)
<1> DEFINE u == << w >>
           D == [n \in 0 .. 1 |-> 0]
<1>1. Len(u) = 1 /\ u[1] = w /\ Turn(w, TRUE) = 0
  BY DEF Turn
<1> HIDE DEF u
<1>2. \A n \in 1 .. 1 : n = 1 /\ n - 1 = 0
  OBVIOUS
<1>3. D \in [0 .. 1 -> Nat] /\ D[0] = 0 /\ D[1] = 0
  OBVIOUS
<1> HIDE DEF D
<1>4. ASSUME NEW n \in 1 .. 1
      PROVE  D[n] = D[n - 1] + Turn(u[n], TRUE) /\ (u[n] \in ops => D[n - 1] > 0)
  <2>1. D[n] = 0 /\ D[n - 1] = 0 /\ u[n] = w
    BY <1>1, <1>2, <1>3, Zenon
  <2>2. 0 = 0 + 0
    OBVIOUS
  <2> QED BY <1>1, <2>1, <2>2, Zenon
<1>5. DepthBy(D, u, ops)
  BY <1>1, <1>3, <1>4 DEF DepthBy
<1> QED
  BY <1>5 DEF Shut, u

\* One text after another; the depth is none in between.
LEMMA DepthConcat ==
  ASSUME NEW u \in Seq(Word), NEW v \in Seq(Word), NEW ops, Shut(u, ops), Shut(v, ops)
  PROVE  \E D : DepthBy(D, u \o v, ops) /\ D[Len(u)] = 0
<1> DEFINE a == Len(u)
           b == Len(v)
           t == u \o v
<1>1. PICK E : DepthBy(E, u, ops)
  BY DEF Shut
<1>2. PICK F : DepthBy(F, v, ops)
  BY DEF Shut
<1>3. /\ a \in Nat /\ b \in Nat /\ t \in Seq(Word) /\ Len(t) = a + b
      /\ \A n \in 1 .. a : t[n] = u[n]
      /\ \A n \in 1 .. b : t[a + n] = v[n]
  OBVIOUS
<1>4. /\ E \in [0 .. a -> Nat] /\ E[0] = 0 /\ E[a] = 0
      /\ \A n \in 1 .. a : E[n] = E[n - 1] + Turn(u[n], TRUE)
      /\ \A n \in 1 .. a : u[n] \in ops => E[n - 1] > 0
  BY <1>1 DEF DepthBy
<1>5. /\ F \in [0 .. b -> Nat] /\ F[0] = 0 /\ F[b] = 0
      /\ \A n \in 1 .. b : F[n] = F[n - 1] + Turn(v[n], TRUE)
      /\ \A n \in 1 .. b : v[n] \in ops => F[n - 1] > 0
  BY <1>2 DEF DepthBy
<1> HIDE DEF a, b, t
<1> DEFINE D == [n \in 0 .. (a + b) |-> IF n <= a THEN E[n] ELSE F[n - a]]
<1>6. D \in [0 .. (a + b) -> Nat]
  <2>1. \A n \in 0 .. (a + b) : IF n <= a THEN n \in 0 .. a ELSE n - a \in 0 .. b
    BY <1>3
  <2>2. \A n \in 0 .. (a + b) : (IF n <= a THEN E[n] ELSE F[n - a]) \in Nat
    BY <1>4, <1>5, <2>1
  <2> QED BY <2>2
<1>7. (\A n \in 0 .. a : D[n] = E[n]) /\ \A n \in 0 .. b : D[a + n] = F[n]
  <2>1. \A n \in 0 .. a : n \in 0 .. (a + b) /\ n <= a
    BY <1>3
  <2>2. \A n \in 0 .. b : a + n \in 0 .. (a + b) /\ (a + n) - a = n /\ (a + n <= a => n = 0) /\ a + 0 = a
    BY <1>3
  <2>3. \A n \in 0 .. b : D[a + n] = F[n]
    <3> SUFFICES ASSUME NEW n \in 0 .. b PROVE D[a + n] = F[n]
      OBVIOUS
    <3>1. CASE n = 0
      BY <1>3, <1>4, <1>5, <2>2, <3>1
    <3>2. CASE n # 0
      BY <2>2, <3>2
    <3> QED BY <3>1, <3>2
  <2> QED BY <2>1, <2>3
<1> HIDE DEF D
<1>8. \A n \in 1 .. (a + b) : \/ n \in 1 .. a /\ n - 1 \in 0 .. a /\ n \in 0 .. a
                              \/ n - a \in 1 .. b /\ (n - a) - 1 \in 0 .. b /\ n - a \in 0 .. b
                                 /\ n = a + (n - a) /\ n - 1 = a + ((n - a) - 1)
  BY <1>3
<1>9. ASSUME NEW n \in 1 .. (a + b)
      PROVE  D[n] = D[n - 1] + Turn(t[n], TRUE) /\ (t[n] \in ops => D[n - 1] > 0)
  <2>1. CASE n \in 1 .. a /\ n - 1 \in 0 .. a /\ n \in 0 .. a
    <3>1. D[n] = E[n] /\ D[n - 1] = E[n - 1] /\ t[n] = u[n]
      BY <1>3, <1>7, <2>1
    <3> QED BY <1>4, <2>1, <3>1
  <2>2. CASE n - a \in 1 .. b /\ (n - a) - 1 \in 0 .. b /\ n - a \in 0 .. b
             /\ n = a + (n - a) /\ n - 1 = a + ((n - a) - 1)
    <3> DEFINE m == n - a
    <3>1. m \in 1 .. b /\ m - 1 \in 0 .. b /\ m \in 0 .. b /\ n = a + m /\ n - 1 = a + (m - 1)
      BY <2>2
    <3> HIDE DEF m
    <3>2. D[n] = F[m] /\ D[n - 1] = F[m - 1] /\ t[n] = v[m]
      BY <1>3, <1>7, <3>1
    <3> QED BY <1>5, <3>1, <3>2
  <2> QED BY <1>8, <2>1, <2>2
<1>10. D[0] = 0 /\ D[a] = 0 /\ D[a + b] = 0
  <2>1. 0 \in 0 .. a /\ a \in 0 .. a /\ b \in 0 .. b
    BY <1>3
  <2> QED BY <1>4, <1>5, <1>7, <2>1
<1>11. DepthBy(D, t, ops)
  BY <1>3, <1>6, <1>9, <1>10 DEF DepthBy
<1> QED
  BY <1>10, <1>11 DEF a, t

\* Two shut texts are a shut text.
LEMMA ShutConcat ==
  ASSUME NEW u \in Seq(Word), NEW v \in Seq(Word), NEW ops, Shut(u, ops), Shut(v, ops)
  PROVE  Shut(u \o v, ops)
BY DepthConcat DEF Shut

-----------------------------------------------------------------------------
(* Guards: depths                                                          *)

Paren(u) == << "(" >> \o u \o << ")" >>

\* What stands where in two sequences.
LEMMA ConcatPlaces ==
  ASSUME NEW S, NEW s \in Seq(S), NEW t \in Seq(S)
  PROVE  /\ s \o t \in Seq(S) /\ Len(s \o t) = Len(s) + Len(t)
         /\ \A i \in 1 .. Len(s) : (s \o t)[i] = s[i]
         /\ \A i \in 1 .. Len(t) : (s \o t)[Len(s) + i] = t[i]
OBVIOUS

\* What stands where in a text with parentheses around it.
LEMMA ParenFacts ==
  ASSUME NEW u \in Seq(Word)
  PROVE  /\ Paren(u) \in Seq(Word) /\ Len(Paren(u)) = Len(u) + 2
         /\ Paren(u)[1] = "(" /\ Paren(u)[Len(u) + 2] = ")"
         /\ \A n \in 1 .. Len(u) : Paren(u)[n + 1] = u[n]
<1> DEFINE w == << "(" >> \o u
           p == << "(" >>
           q == << ")" >>
           a == Len(u)
<1>0. "(" \in Word /\ ")" \in Word
  BY DEF Word, Reserved
<1>1. p \in Seq(Word) /\ Len(p) = 1 /\ p[1] = "(" /\ q \in Seq(Word) /\ Len(q) = 1 /\ q[1] = ")"
  BY <1>0
<1> HIDE DEF p, q
<1> DEFINE x == p \o u
<1>3. x \in Seq(Word) /\ Len(x) = 1 + a /\ x[1] = "(" /\ \A n \in 1 .. a : x[1 + n] = u[n]
  <2>1. /\ x \in Seq(Word) /\ Len(x) = Len(p) + Len(u)
        /\ \A i \in 1 .. Len(p) : x[i] = p[i]
        /\ \A i \in 1 .. Len(u) : x[Len(p) + i] = u[i]
    <3>1. p \in Seq(Word)
      BY <1>1
    <3> QED BY <3>1, ConcatPlaces
  <2> HIDE DEF x
  <2> QED BY <1>1, <2>1
<1> HIDE DEF x
<1> DEFINE y == x \o q
<1>4. /\ y \in Seq(Word) /\ Len(y) = (1 + a) + 1
      /\ \A n \in 1 .. (1 + a) : y[n] = x[n]
      /\ y[(1 + a) + 1] = ")"
  <2>1. /\ y \in Seq(Word) /\ Len(y) = Len(x) + Len(q)
        /\ \A i \in 1 .. Len(x) : y[i] = x[i]
        /\ \A i \in 1 .. Len(q) : y[Len(x) + i] = q[i]
    <3>1. x \in Seq(Word) /\ q \in Seq(Word)
      BY <1>1, <1>3
    <3> QED BY <3>1, ConcatPlaces
  <2> HIDE DEF y, a
  <2> QED BY <1>1, <1>3, <2>1
<1> HIDE DEF y
<1>5. Paren(u) = y
  BY DEF Paren, p, q, x, y
<1>6. /\ a \in Nat /\ (1 + a) + 1 = a + 2 /\ 1 \in 1 .. (1 + a)
      /\ \A n \in 1 .. a : n + 1 \in 1 .. (1 + a) /\ n + 1 = 1 + n
  OBVIOUS
<1> HIDE DEF a
<1>7. \A n \in 1 .. a : y[n + 1] = u[n]
  BY <1>3, <1>4, <1>6
<1> QED
  BY <1>3, <1>4, <1>5, <1>6, <1>7, Zenon DEF a

\* In parentheses a text stands inside them everywhere.
LEMMA DepthParen ==
  ASSUME NEW u \in Seq(Word), NEW few, Shut(u, few), NEW ops, {"(", ")"} \cap ops = {}
  PROVE  \E D : DepthBy(D, Paren(u), ops) /\ \A n \in 1 .. (Len(u) + 1) : D[n] > 0
<1> DEFINE a == Len(u)
           t == Paren(u)
<1>1. PICK E : DepthBy(E, u, few)
  BY DEF Shut
<1>2. /\ t \in Seq(Word) /\ Len(t) = a + 2 /\ a \in Nat /\ t[1] = "(" /\ t[a + 2] = ")"
      /\ \A n \in 1 .. a : t[n + 1] = u[n]
  BY ParenFacts
<1>3. /\ E \in [0 .. a -> Nat] /\ E[0] = 0 /\ E[a] = 0
      /\ \A n \in 1 .. a : E[n] = E[n - 1] + Turn(u[n], TRUE)
  BY <1>1 DEF DepthBy
<1> HIDE DEF a, t
<1> DEFINE F == [n \in 0 .. (a + 2) |-> IF n = 0 THEN 0 ELSE IF n = a + 2 THEN 0 ELSE E[n - 1] + 1]
<1>4. \A n \in 0 .. a : n + 1 \in 0 .. (a + 2) /\ n + 1 # 0 /\ n + 1 # a + 2 /\ (n + 1) - 1 = n /\ E[n] \in Nat
  BY <1>2, <1>3
<1>5. F[0] = 0 /\ F[a + 2] = 0 /\ \A n \in 0 .. a : F[n + 1] = E[n] + 1
  <2>1. 0 \in 0 .. (a + 2) /\ a + 2 \in 0 .. (a + 2) /\ a + 2 # 0
    BY <1>2
  <2> QED BY <1>4, <2>1
<1>6. F \in [0 .. (a + 2) -> Nat]
  <2>1. ASSUME NEW n \in 0 .. (a + 2), n # 0, n # a + 2 PROVE E[n - 1] + 1 \in Nat
    <3>1. n - 1 \in 0 .. a
      BY <1>2, <2>1
    <3> QED BY <1>4, <3>1
  <2> QED BY <2>1
<1> HIDE DEF F
<1>7. Turn("(", TRUE) = 1 /\ Turn(")", TRUE) = -1 /\ "(" \notin ops /\ ")" \notin ops
  BY DEF Turn
<1>8. ASSUME NEW n \in 1 .. (a + 2)
      PROVE  F[n] = F[n - 1] + Turn(t[n], TRUE) /\ (t[n] \in ops => F[n - 1] > 0)
  <2>1. CASE n = 1
    <3>1. F[1] = 1 /\ F[0] = 0
      <4>1. 0 \in 0 .. a /\ 0 + 1 = 1
        BY <1>2
      <4> QED BY <1>3, <1>5, <4>1
    <3>2. n - 1 = 0 /\ t[n] = "("
      BY <1>2, <2>1
    <3>3. t[n] \notin ops /\ Turn(t[n], TRUE) = 1
      BY <1>7, <3>2, Zenon
    <3>4. F[n] = 1 /\ F[n - 1] = 0
      BY <2>1, <3>1, <3>2, Zenon
    <3>5. 1 = 0 + 1
      OBVIOUS
    <3> QED BY <3>3, <3>4, <3>5, Zenon
  <2>2. CASE n = a + 2
    <3>1. F[a + 2] = 0 /\ F[a + 1] = 1
      <4>1. a \in 0 .. a
        BY <1>2
      <4> QED BY <1>3, <1>5, <4>1
    <3>2. n - 1 = a + 1 /\ t[n] = ")"
      BY <1>2, <2>2
    <3>3. t[n] \notin ops /\ Turn(t[n], TRUE) = -1
      BY <1>7, <3>2, Zenon
    <3>4. F[n] = 0 /\ F[n - 1] = 1
      BY <2>2, <3>1, <3>2, Zenon
    <3>5. 0 = 1 + (-1)
      OBVIOUS
    <3> QED BY <3>3, <3>4, <3>5, Zenon
  <2>3. CASE n # 1 /\ n # a + 2
    <3> DEFINE m == n - 1
    <3>1. m \in 1 .. a /\ n = m + 1 /\ m \in 0 .. a /\ m - 1 \in 0 .. a /\ (m - 1) + 1 = m /\ n - 1 = m
      BY <1>2, <2>3
    <3> HIDE DEF m
    <3>2. F[n] = E[m] + 1 /\ F[n - 1] = E[m - 1] + 1 /\ t[n] = u[m]
      BY <1>2, <1>5, <3>1
    <3>3. E[m] = E[m - 1] + Turn(u[m], TRUE) /\ E[m - 1] \in Nat /\ E[m] \in Nat /\ Turn(u[m], TRUE) \in Int
      BY <1>3, <1>4, <3>1, TurnIsInt
    <3>4. F[n - 1] > 0
      BY <3>2, <3>3
    <3>5. F[n] = F[n - 1] + Turn(t[n], TRUE)
      <4>1. F[n] = (E[m - 1] + Turn(u[m], TRUE)) + 1 /\ F[n - 1] = E[m - 1] + 1 /\ Turn(t[n], TRUE) = Turn(u[m], TRUE)
        BY <3>2, <3>3, Zenon
      <4>2. \A x, y \in Int : (x + y) + 1 = (x + 1) + y
        OBVIOUS
      <4>3. (E[m - 1] + Turn(u[m], TRUE)) + 1 = (E[m - 1] + 1) + Turn(u[m], TRUE)
        <5>1. \A x \in Nat : x \in Int
          OBVIOUS
        <5>2. E[m - 1] \in Int /\ Turn(u[m], TRUE) \in Int
          BY <3>3, <5>1, Zenon
        <5> QED BY <4>2, <5>2, Zenon
      <4> QED BY <4>1, <4>3, Zenon
    <3> QED BY <3>4, <3>5
  <2> QED BY <2>1, <2>2, <2>3
<1>9. DepthBy(F, t, ops)
  BY <1>2, <1>5, <1>6, <1>8 DEF DepthBy
<1>10. \A n \in 1 .. (a + 1) : F[n] > 0
  <2> SUFFICES ASSUME NEW n \in 1 .. (a + 1) PROVE F[n] > 0
    OBVIOUS
  <2>1. n - 1 \in 0 .. a /\ (n - 1) + 1 = n
    BY <1>2
  <2>2. F[n] = E[n - 1] + 1 /\ E[n - 1] \in Nat
    BY <1>4, <1>5, <2>1
  <2> QED BY <2>2
<1> QED
  BY <1>9, <1>10 DEF a, t

DepthsRun(h, text) ==
    /\ h[0] = 0
    /\ \A n \in 1 .. Len(text) : h[n] = h[n - 1] + Turn(text[n], TRUE)

\* Depths has its steps.
LEMMA DepthsSteps == ASSUME NEW text \in Seq(Word) PROVE DepthsRun(Depths(text), text)
<1> DEFINE L == Len(text)
           step(was, n) == was + Turn(text[n], TRUE)
           Chain(h, k) == h = [n \in 0 .. k |-> IF n = 0 THEN 0 ELSE step(h[n - 1], n)]
           T == {k \in 0 .. L : \E h : Chain(h, k)}
           walk == CHOOSE w : w = [n \in 0 .. L |-> IF n = 0 THEN 0 ELSE w[n - 1] + Turn(text[n], TRUE)]
<1>1. L \in Nat
  OBVIOUS
<1>2. Depths(text) = walk
  BY DEF Depths
<1> HIDE DEF L
<1>3. 0 \in T
  <2> DEFINE h == [n \in 0 .. 0 |-> 0]
  <2> HIDE DEF step
  <2>1. h = [n \in 0 .. 0 |-> IF n = 0 THEN 0 ELSE step(h[n - 1], n)]
    <3>1. \A n \in 0 .. 0 : n = 0
      OBVIOUS
    <3>2. \A x : \A n \in 0 .. 0 : 0 = IF n = 0 THEN 0 ELSE step(x[n - 1], n)
      BY <3>1
    <3> QED BY <3>2
  <2> HIDE DEF h
  <2>2. Chain(h, 0) /\ 0 \in 0 .. L
    BY <1>1, <2>1
  <2> HIDE DEF Chain
  <2> QED BY <2>2
<1>4. ASSUME NEW k \in 1 .. L, k - 1 \in T PROVE k \in T
  <2> HIDE DEF step
  <2>1. PICK h : Chain(h, k - 1)
    BY <1>4
  <2> DEFINE f == [n \in 0 .. k |-> IF n = 0 THEN 0 ELSE step(h[n - 1], n)]
  <2>2. \A n \in 0 .. (k - 1) : f[n] = h[n]
    <3> SUFFICES ASSUME NEW n \in 0 .. (k - 1) PROVE f[n] = h[n]
      OBVIOUS
    <3>1. h = [j \in 0 .. (k - 1) |-> IF j = 0 THEN 0 ELSE step(h[j - 1], j)]
      BY <2>1
    <3>2. h[n] = IF n = 0 THEN 0 ELSE step(h[n - 1], n)
      BY <3>1
    <3>3. n \in 0 .. k
      BY <1>1
    <3> QED BY <3>2, <3>3
  <2>3. \A n \in 0 .. k : n # 0 => n - 1 \in 0 .. (k - 1)
    BY <1>1
  <2>4. Chain(f, k)
    <3>1. \A n \in 0 .. k : n # 0 => step(h[n - 1], n) = step(f[n - 1], n)
      <4> HIDE DEF f
      <4> QED BY <2>2, <2>3
    <3> QED BY <3>1
  <2>5. k \in 0 .. L
    BY <1>1
  <2> HIDE DEF f, Chain
  <2> QED BY <2>4, <2>5
<1>5. L \in T
  <2> HIDE DEF T
  <2> QED BY <1>1, <1>3, <1>4, PrefixInduction
<1>6. \E w : w = [n \in 0 .. L |-> IF n = 0 THEN 0 ELSE w[n - 1] + Turn(text[n], TRUE)]
  BY <1>5
<1>7. walk = [n \in 0 .. L |-> IF n = 0 THEN 0 ELSE walk[n - 1] + Turn(text[n], TRUE)]
  BY <1>6
<1> HIDE DEF walk
<1>8. walk[0] = 0 /\ \A n \in 1 .. L : walk[n] = walk[n - 1] + Turn(text[n], TRUE)
  BY <1>1, <1>7
<1> QED
  BY <1>2, <1>8 DEF DepthsRun, L

\* The depths of a text are the only ones that count so.
LEMMA DepthsAre ==
  ASSUME NEW text \in Seq(Word), NEW ops, NEW D, DepthBy(D, text, ops)
  PROVE  \A n \in 0 .. Len(text) : Depths(text)[n] = D[n]
<1> SUFFICES ASSUME NEW m \in 0 .. Len(text) PROVE Depths(text)[m] = D[m]
  OBVIOUS
<1> DEFINE h == Depths(text)
           T == {n \in 0 .. m : h[n] = D[n]}
<1>1. h[0] = 0 /\ \A n \in 1 .. Len(text) : h[n] = h[n - 1] + Turn(text[n], TRUE)
  BY DepthsSteps DEF DepthsRun
<1>2. D[0] = 0 /\ \A n \in 1 .. Len(text) : D[n] = D[n - 1] + Turn(text[n], TRUE)
  BY DEF DepthBy
<1> HIDE DEF h
<1>3. 0 \in T
  BY <1>1, <1>2
<1>4. ASSUME NEW n \in 1 .. m, n - 1 \in T PROVE n \in T
  <2>1. n \in 1 .. Len(text) /\ n \in 0 .. m
    OBVIOUS
  <2>2. h[n - 1] = D[n - 1]
    BY <1>4
  <2>3. h[n] = D[n]
    BY <1>1, <1>2, <2>1, <2>2, Zenon
  <2> QED BY <2>1, <2>3
<1>5. m \in Nat
  OBVIOUS
<1>6. m \in T
  <2> HIDE DEF T
  <2> QED BY <1>3, <1>4, <1>5, PrefixInduction
<1> QED
  BY <1>6 DEF h

\* A text whose parentheses are shut before its end is not wrapped in them.
LEMMA ShutBefore ==
  ASSUME NEW text \in Seq(Word), NEW ops, NEW D, DepthBy(D, text, ops),
         NEW k \in 1 .. (Len(text) - 1), D[k] = 0
  PROVE  ~Wrapped(text)
<1>1. k \in 0 .. Len(text)
  OBVIOUS
<1>2. Depths(text)[k] = 0
  BY <1>1, DepthsAre
<1> QED
  BY <1>2 DEF Wrapped

\* Parentheses around a shut text wrap it, and nothing else is left without them.
LEMMA ParenWrapped ==
  ASSUME NEW u \in Seq(Word), NEW few, Shut(u, few)
  PROVE  Wrapped(Paren(u)) /\ SubSeq(Paren(u), 2, Len(Paren(u)) - 1) = u
<1> DEFINE t == Paren(u)
           a == Len(u)
<1>1. PICK D : DepthBy(D, t, {}) /\ \A n \in 1 .. (a + 1) : D[n] > 0
  <2>1. {"(", ")"} \cap {} = {}
    OBVIOUS
  <2> QED BY <2>1, DepthParen, Zenon
<1>2. /\ t \in Seq(Word) /\ Len(t) = a + 2 /\ a \in Nat /\ t[1] = "(" /\ t[a + 2] = ")"
      /\ \A n \in 1 .. a : t[n + 1] = u[n]
  BY ParenFacts
<1> HIDE DEF t
<1>3. \A n \in 0 .. (a + 2) : Depths(t)[n] = D[n]
  BY <1>1, <1>2, DepthsAre
<1>4. D[a + 2] = 0
  BY <1>1, <1>2 DEF DepthBy
<1>5. t # << >> /\ Head(t) = "(" /\ Last(t) = ")"
  <2> HIDE DEF a
  <2> QED BY <1>2 DEF Last
<1>6. \A n \in 1 .. Len(t) - 1 : Depths(t)[n] > 0
  <2>1. \A n \in 1 .. Len(t) - 1 : n \in 1 .. (a + 1) /\ n \in 0 .. (a + 2)
    BY <1>2
  <2> QED BY <1>1, <1>3, <2>1
<1>7. Depths(t)[Len(t)] = 0
  <2>1. a + 2 \in 0 .. (a + 2)
    BY <1>2
  <2> QED BY <1>2, <1>3, <1>4, <2>1
<1>8. SubSeq(t, 2, Len(t) - 1) = u
  <2> DEFINE s == SubSeq(t, 2, a + 1)
  <2>1. s \in Seq(Word) /\ Len(s) = a /\ \A n \in 1 .. a : s[n] = t[n + 1]
    <3> HIDE DEF a
    <3> QED BY <1>2
  <2> HIDE DEF s
  <2>2. s = u
    BY <1>2, <2>1
  <2> QED BY <1>2, <2>2 DEF s
<1> QED
  BY <1>5, <1>6, <1>7, <1>8 DEF Wrapped, t

-----------------------------------------------------------------------------
(* Guards: parentheses that wrap a text                                    *)

Stripped(was) == IF Wrapped(was) THEN SubSeq(was, 2, Len(was) - 1) ELSE was

StripRun(h, text) ==
    /\ h[0] = text
    /\ \A n \in 1 .. Len(text) : h[n] = Stripped(h[n - 1])
    /\ StripParens(text) = h[Len(text)]

\* StripParens has its steps.
LEMMA StripSteps == ASSUME NEW text \in Seq(Word) PROVE \E h : StripRun(h, text)
<1> DEFINE L == Len(text)
           Chain(h, k) == h = [n \in 0 .. k |-> IF n = 0 THEN text ELSE Stripped(h[n - 1])]
           T == {k \in 0 .. L : \E h : Chain(h, k)}
           walk == CHOOSE w : w = [n \in 0 .. L |-> IF n = 0 THEN text
                                                     ELSE IF Wrapped(w[n - 1])
                                                          THEN SubSeq(w[n - 1], 2, Len(w[n - 1]) - 1)
                                                          ELSE w[n - 1]]
<1>1. L \in Nat
  OBVIOUS
<1>2. StripParens(text) = walk[L]
  BY DEF StripParens
<1> HIDE DEF L
<1>3. 0 \in T
  <2> DEFINE h == [n \in 0 .. 0 |-> text]
  <2>1. h = [n \in 0 .. 0 |-> IF n = 0 THEN text ELSE Stripped(h[n - 1])]
    <3>1. \A n \in 0 .. 0 : n = 0
      OBVIOUS
    <3>2. \A x : \A n \in 0 .. 0 : text = IF n = 0 THEN text ELSE Stripped(x[n - 1])
      BY <3>1
    <3> QED BY <3>2
  <2> HIDE DEF h
  <2>2. Chain(h, 0) /\ 0 \in 0 .. L
    BY <1>1, <2>1
  <2> HIDE DEF Chain
  <2> QED BY <2>2
<1>4. ASSUME NEW k \in 1 .. L, k - 1 \in T PROVE k \in T
  <2>1. PICK h : Chain(h, k - 1)
    BY <1>4
  <2> DEFINE f == [n \in 0 .. k |-> IF n = 0 THEN text ELSE Stripped(h[n - 1])]
  <2>2. \A n \in 0 .. (k - 1) : f[n] = h[n]
    <3> SUFFICES ASSUME NEW n \in 0 .. (k - 1) PROVE f[n] = h[n]
      OBVIOUS
    <3>1. h = [j \in 0 .. (k - 1) |-> IF j = 0 THEN text ELSE Stripped(h[j - 1])]
      BY <2>1
    <3>2. h[n] = IF n = 0 THEN text ELSE Stripped(h[n - 1])
      BY <3>1
    <3>3. n \in 0 .. k
      BY <1>1
    <3> QED BY <3>2, <3>3
  <2>3. \A n \in 0 .. k : n # 0 => n - 1 \in 0 .. (k - 1)
    BY <1>1
  <2>4. Chain(f, k)
    <3>1. \A n \in 0 .. k : n # 0 => Stripped(h[n - 1]) = Stripped(f[n - 1])
      <4> HIDE DEF f
      <4> QED BY <2>2, <2>3
    <3> QED BY <3>1
  <2>5. k \in 0 .. L
    BY <1>1
  <2> HIDE DEF f, Chain
  <2> QED BY <2>4, <2>5
<1>5. L \in T
  <2> HIDE DEF T
  <2> QED BY <1>1, <1>3, <1>4, PrefixInduction
<1>6. \E w : w = [n \in 0 .. L |-> IF n = 0 THEN text
                                  ELSE IF Wrapped(w[n - 1])
                                       THEN SubSeq(w[n - 1], 2, Len(w[n - 1]) - 1)
                                       ELSE w[n - 1]]
  BY <1>5 DEF Stripped
<1>7. walk = [n \in 0 .. L |-> IF n = 0 THEN text
                               ELSE IF Wrapped(walk[n - 1])
                                    THEN SubSeq(walk[n - 1], 2, Len(walk[n - 1]) - 1)
                                    ELSE walk[n - 1]]
  BY <1>6
<1> HIDE DEF walk
<1>8. walk[0] = text /\ \A n \in 1 .. L : walk[n] = Stripped(walk[n - 1])
  <2>1. walk = [n \in 0 .. L |-> IF n = 0 THEN text ELSE Stripped(walk[n - 1])]
    BY <1>7 DEF Stripped
  <2> QED BY <1>1, <2>1
<1>9. StripRun(walk, text)
  BY <1>2, <1>8 DEF StripRun, L
<1> QED
  BY <1>9

\* A text that no parentheses wrap stays as it is.
LEMMA StripNothing ==
  ASSUME NEW text \in Seq(Word), ~Wrapped(text)
  PROVE  StripParens(text) = text
<1> DEFINE L == Len(text)
<1>1. L \in Nat
  OBVIOUS
<1>2. PICK h : StripRun(h, text)
  BY StripSteps
<1> DEFINE T == {n \in 0 .. L : h[n] = text}
<1>3. h[0] = text /\ \A n \in 1 .. L : h[n] = Stripped(h[n - 1])
  BY <1>2 DEF StripRun
<1> HIDE DEF L
<1>4. 0 \in T
  BY <1>1, <1>3
<1>5. ASSUME NEW n \in 1 .. L, n - 1 \in T PROVE n \in T
  <2>1. h[n] = text
    BY <1>3, <1>5 DEF Stripped
  <2> QED BY <1>1, <2>1
<1>6. L \in T
  <2> HIDE DEF T
  <2> QED BY <1>1, <1>4, <1>5, PrefixInduction
<1> QED
  BY <1>2, <1>6 DEF StripRun, L

\* What is left of a text is a text; and either nothing wraps it, or it has lost two words
\* every time.
Left(w, n, L) == w \in Seq(Word) /\ (~Wrapped(w) \/ Len(w) + n + n <= L)

\* A wrapped text has two words to lose.
LEMMA WrappedLong ==
  ASSUME NEW w \in Seq(Word), Wrapped(w)
  PROVE  Len(w) >= 2 /\ SubSeq(w, 2, Len(w) - 1) \in Seq(Word) /\ Len(SubSeq(w, 2, Len(w) - 1)) = Len(w) - 2
<1>1. w # << >> /\ w[1] = "(" /\ w[Len(w)] = ")"
  BY DEF Wrapped, Last
<1>2. w[1] # w[Len(w)]
  BY <1>1
<1>3. Len(w) >= 2
  BY <1>1, <1>2
<1> DEFINE m == Len(w) - 1
<1>4. m \in Nat /\ m >= 1 /\ Len(w) = m + 1
  BY <1>3
<1>5. \A i \in 2 .. m : i \in 1 .. Len(w)
  BY <1>4
<1>6. SubSeq(w, 2, m) \in Seq(Word) /\ Len(SubSeq(w, 2, m)) = m - 1
  <2> HIDE DEF m
  <2> QED BY <1>4, <1>5
<1>7. m - 1 = Len(w) - 2
  BY <1>4
<1> QED
  BY <1>3, <1>6, <1>7

\* What is left of a text is short, as long as it is wrapped.
LEMMA StripLeft ==
  ASSUME NEW text \in Seq(Word), NEW h, StripRun(h, text)
  PROVE  \A n \in 0 .. Len(text) : Left(h[n], n, Len(text))
<1> SUFFICES ASSUME NEW m \in 0 .. Len(text) PROVE Left(h[m], m, Len(text))
  OBVIOUS
<1> DEFINE L == Len(text)
           T == {n \in 0 .. m : Left(h[n], n, L)}
<1>1. L \in Nat /\ m \in Nat
  OBVIOUS
<1>2. h[0] = text /\ \A n \in 1 .. L : h[n] = Stripped(h[n - 1])
  BY DEF StripRun
<1>3. 0 \in T
  <2>1. Left(text, 0, L)
    BY DEF Left
  <2> QED BY <1>1, <1>2, <2>1
<1> HIDE DEF L
<1>4. ASSUME NEW n \in 1 .. m, n - 1 \in T PROVE n \in T
  <2> DEFINE w == h[n - 1]
  <2>1. Left(w, n - 1, L) /\ n \in 1 .. L /\ n \in 0 .. m /\ n \in Nat
    BY <1>1, <1>4 DEF L
  <2>2. h[n] = Stripped(w)
    BY <1>2, <2>1
  <2> HIDE DEF w
  <2>3. w \in Seq(Word) /\ (~Wrapped(w) \/ Len(w) + (n - 1) + (n - 1) <= L)
    BY <2>1 DEF Left
  <2>4. CASE Wrapped(w)
    <3> DEFINE x == SubSeq(w, 2, Len(w) - 1)
    <3>1. x \in Seq(Word) /\ Len(x) = Len(w) - 2 /\ Len(w) \in Nat
      BY <2>3, <2>4, WrappedLong
    <3>2. Stripped(w) = x
      BY <2>4 DEF Stripped
    <3> HIDE DEF x
    <3>3. Len(x) + n + n <= L
      BY <1>1, <2>1, <2>3, <2>4, <3>1
    <3>4. Left(x, n, L)
      BY <3>1, <3>3 DEF Left
    <3> QED BY <2>1, <2>2, <3>2, <3>4
  <2>5. CASE ~Wrapped(w)
    <3>1. Stripped(w) = w
      BY <2>5 DEF Stripped
    <3>2. Left(w, n, L)
      BY <2>3, <2>5 DEF Left
    <3> QED BY <2>1, <2>2, <3>1, <3>2
  <2> QED BY <2>4, <2>5
<1>5. m \in T
  <2> HIDE DEF T
  <2> QED BY <1>1, <1>3, <1>4, PrefixInduction
<1> QED
  BY <1>5 DEF L

\* In the end nothing is left to strip, and parentheses around the text change nothing.
LEMMA StripParenthesised ==
  ASSUME NEW u \in Seq(Word), NEW few, Shut(u, few)
  PROVE  StripParens(Paren(u)) = StripParens(u)
<1> DEFINE L == Len(u)
           t == Paren(u)
<1>1. t \in Seq(Word) /\ Len(t) = L + 2 /\ L \in Nat
  BY ParenFacts
<1>2. Wrapped(t) /\ SubSeq(t, 2, Len(t) - 1) = u
  BY ParenWrapped
<1> HIDE DEF t
<1>3. PICK h : StripRun(h, t)
  BY <1>1, StripSteps
<1>4. PICK k : StripRun(k, u)
  BY StripSteps
<1>5. h[0] = t /\ \A n \in 1 .. (L + 2) : h[n] = Stripped(h[n - 1])
  BY <1>1, <1>3 DEF StripRun
<1>6. k[0] = u /\ \A n \in 1 .. L : k[n] = Stripped(k[n - 1])
  BY <1>4 DEF StripRun
<1>7. Left(k[L], L, L)
  BY <1>1, <1>4, StripLeft
<1> HIDE DEF L
<1> DEFINE T == {n \in 0 .. L : h[n + 1] = k[n]}
<1>8. 0 \in T
  <2>1. h[1] = Stripped(t)
    <3>1. 1 \in 1 .. (L + 2) /\ 1 - 1 = 0
      BY <1>1
    <3> QED BY <1>5, <3>1
  <2>2. Stripped(t) = u
    BY <1>2 DEF Stripped
  <2>3. 0 \in 0 .. L /\ 0 + 1 = 1
    BY <1>1
  <2> QED BY <1>6, <2>1, <2>2, <2>3
<1>9. ASSUME NEW n \in 1 .. L, n - 1 \in T PROVE n \in T
  <2>1. n \in 0 .. L /\ n + 1 \in 1 .. (L + 2) /\ (n + 1) - 1 = n /\ (n - 1) + 1 = n
    BY <1>1
  <2>2. h[n] = k[n - 1]
    BY <1>9, <2>1
  <2>3. h[n + 1] = Stripped(h[n]) /\ k[n] = Stripped(k[n - 1])
    BY <1>5, <1>6, <2>1
  <2> QED BY <2>1, <2>2, <2>3
<1>10. L \in T
  <2> HIDE DEF T
  <2> QED BY <1>1, <1>8, <1>9, PrefixInduction
<1>11. ~Wrapped(k[L])
  <2> SUFFICES ASSUME Wrapped(k[L]) PROVE FALSE
    OBVIOUS
  <2> DEFINE w == k[L]
  <2>1. w \in Seq(Word) /\ Len(w) + L + L <= L
    BY <1>7 DEF Left
  <2>2. Len(w) >= 2 /\ Len(w) \in Nat
    <3>1. Wrapped(w)
      OBVIOUS
    <3> HIDE DEF w
    <3> QED BY <2>1, <3>1, WrappedLong
  <2> HIDE DEF w
  <2> QED BY <1>1, <2>1, <2>2
<1>12. h[L + 2] = k[L]
  <2>1. L + 2 \in 1 .. (L + 2) /\ (L + 2) - 1 = L + 1
    BY <1>1
  <2>2. h[L + 2] = Stripped(h[L + 1])
    BY <1>5, <2>1
  <2>3. h[L + 1] = k[L]
    BY <1>10
  <2> QED BY <1>11, <2>2, <2>3 DEF Stripped
<1> QED
  BY <1>1, <1>3, <1>4, <1>12 DEF StripRun, L, t

-----------------------------------------------------------------------------
(* Guards: what the grammar derives                                        *)

\* What the grammar derives, and the order in which it does.
Derived == Factors \cup Terms \cup Sums
Shorter(y, x) == Len(y.text) < Len(x.text)

\* A text is finite.
LEMMA TextIsWords == \A x \in Derived : x.text \in Seq(Word) /\ Len(x.text) \in Nat
<1>1. \A x \in Derived : x.text \in Seq(Word)
  BY GrammarAssumption, Zenon DEF Derived
<1>2. \A t \in Seq(Word) : Len(t) \in Nat
  OBVIOUS
<1> QED
  BY <1>1, <1>2, Zenon

\* Induction over the length of a text.
LEMMA ByLength ==
  ASSUME NEW S, \A x \in Derived : (\A y \in Derived : Shorter(y, x) => y \in S) => x \in S
  PROVE  Derived \subseteq S
<1> SUFFICES ASSUME NEW x \in Derived PROVE x \in S
  OBVIOUS
<1> DEFINE n == Len(x.text)
           T == {k \in 0 .. n : \A y \in Derived : Len(y.text) <= k => y \in S}
           From(k) == \A y \in Derived : Len(y.text) < k => y \in S
<1>1. n \in Nat
  BY TextIsWords
<1>2. \A z \in Derived : From(Len(z.text)) => z \in S
  BY Zenon DEF Shorter
<1>3. From(0)
  BY TextIsWords
<1>4. ASSUME NEW k \in 0 .. n, From(k) PROVE \A y \in Derived : Len(y.text) <= k => y \in S
  <2> SUFFICES ASSUME NEW y \in Derived, Len(y.text) <= k PROVE y \in S
    OBVIOUS
  <2>1. From(Len(y.text))
    BY <1>4, TextIsWords
  <2> QED BY <1>2, <2>1, Zenon
<1>5. 0 \in T
  BY <1>1, <1>3, <1>4
<1>6. ASSUME NEW k \in 1 .. n, k - 1 \in T PROVE k \in T
  <2>1. From(k)
    BY <1>6, TextIsWords
  <2> QED BY <1>4, <2>1
<1>7. n \in T
  <2> HIDE DEF T, n
  <2> QED BY <1>1, <1>5, <1>6, PrefixInduction
<1> QED
  BY <1>7

\* The text of what is put together, and its length.
LEMMA NamedText == \A n \in Names : Named(n).text = << n >> /\ n \in Word /\ n \notin Reserved
BY NamesAssumption DEF Named, Word

\* A guard in parentheses.
LEMMA GroupedText ==
  ASSUME NEW y \in Derived
  PROVE  Grouped(y).text = Paren(y.text) /\ Len(Grouped(y).text) = Len(y.text) + 2
         /\ Grouped(y).says = y.says
<1>1. Grouped(y).text = Paren(y.text) /\ Grouped(y).says = y.says
  BY DEF Grouped, Paren
<1>2. y.text \in Seq(Word)
  BY TextIsWords
<1>3. Len(Paren(y.text)) = Len(y.text) + 2
  BY <1>2, ParenFacts
<1> QED
  BY <1>1, <1>3, Zenon

\* A negated guard.
LEMMA NotText ==
  ASSUME NEW y \in Derived
  PROVE  /\ Not(y).text = << "NOT" >> \o y.text /\ Len(Not(y).text) = Len(y.text) + 1
         /\ Head(Not(y).text) = "NOT" /\ Tail(Not(y).text) = y.text
         /\ Not(y).says = [f \in Flags |-> Negated(y.says[f])]
<1>1. Not(y).text = << "NOT" >> \o y.text /\ Not(y).says = [f \in Flags |-> Negated(y.says[f])]
  BY DEF Not
<1>2. y.text \in Seq(Word) /\ "NOT" \in Word
  BY TextIsWords DEF Word, Reserved
<1>3. ASSUME NEW t \in Seq(Word), NEW w \in Word
      PROVE  Len(<< w >> \o t) = Len(t) + 1 /\ Head(<< w >> \o t) = w /\ Tail(<< w >> \o t) = t
  OBVIOUS
<1>4. Len(<< "NOT" >> \o y.text) = Len(y.text) + 1 /\ Head(<< "NOT" >> \o y.text) = "NOT"
      /\ Tail(<< "NOT" >> \o y.text) = y.text
  BY <1>2, <1>3
<1> QED
  BY <1>1, <1>4, Zenon

\* x is y, op and z one after the other, and says what y does unless that is v.
Linked(x, y, z, op, v) ==
    /\ x.text = Join(y.text, op, z.text)
    /\ x.says = [f \in Flags |-> IF y.says[f] = v THEN z.says[f] ELSE y.says[f]]
    /\ Shorter(y, x) /\ Shorter(z, x)

\* What two guards and an operator are put together to is longer than either.
LEMMA LinkedWhole ==
  ASSUME NEW x, NEW y \in Derived, NEW z \in Derived, NEW op \in Word, NEW v,
         x.text = Join(y.text, op, z.text),
         x.says = [f \in Flags |-> IF y.says[f] = v THEN z.says[f] ELSE y.says[f]]
  PROVE  Linked(x, y, z, op, v)
<1>1. y.text \in Seq(Word) /\ z.text \in Seq(Word) /\ Len(y.text) \in Nat /\ Len(z.text) \in Nat
  BY TextIsWords
<1>2. Len(Join(y.text, op, z.text)) = Len(y.text) + 1 + Len(z.text)
  <2>1. \A u, w \in Seq(Word) : Len(Join(u, op, w)) = Len(u) + 1 + Len(w)
    <3> SUFFICES ASSUME NEW u \in Seq(Word), NEW w \in Seq(Word)
                 PROVE  Len(Join(u, op, w)) = Len(u) + 1 + Len(w)
      OBVIOUS
    <3> QED BY JoinFacts
  <2> QED BY <1>1, <2>1, Zenon
<1>a. \A m, n \in Nat : m < m + 1 + n /\ n < m + 1 + n
  OBVIOUS
<1>3. Len(y.text) < Len(x.text) /\ Len(z.text) < Len(x.text)
  BY <1>1, <1>2, <1>a, Zenon
<1> QED
  BY <1>3 DEF Linked, Shorter

\* Both puts two guards together.
LEMMA BothLinked == \A y, z \in Derived : Linked(Both(y, z), y, z, "AND", "true")
<1> SUFFICES ASSUME NEW y \in Derived, NEW z \in Derived PROVE Linked(Both(y, z), y, z, "AND", "true")
  OBVIOUS
<1>0. Both(y, z).says = [f \in Flags |-> IF y.says[f] = "true" THEN z.says[f] ELSE y.says[f]]
  BY DEF Both
<1>a. Both(y, z).text = Join(y.text, "AND", z.text)
  BY DEF Both, Join
<1>1. "AND" \in Word
  BY DEF Word, Reserved
<1> QED
  BY <1>0, <1>a, <1>1, LinkedWhole

\* Either puts two guards together.
LEMMA EitherLinked == \A y, z \in Derived : Linked(Either(y, z), y, z, "OR", "false")
<1> SUFFICES ASSUME NEW y \in Derived, NEW z \in Derived PROVE Linked(Either(y, z), y, z, "OR", "false")
  OBVIOUS
<1>0. Either(y, z).says = [f \in Flags |-> IF y.says[f] = "false" THEN z.says[f] ELSE y.says[f]]
  BY DEF Either
<1>a. Either(y, z).text = Join(y.text, "OR", z.text)
  BY DEF Either, Join
<1>1. "OR" \in Word
  BY DEF Word, Reserved
<1> QED
  BY <1>0, <1>a, <1>1, LinkedWhole

\* How a factor was derived.
LEMMA FactorCases ==
  ASSUME NEW x \in Factors
  PROVE  \/ \E n \in Names : x = Named(n)
         \/ \E y \in Factors : x = Not(y) /\ Shorter(y, x)
         \/ \E y \in Sums : x = Grouped(y) /\ Shorter(y, x)
<1>1. \/ \E n \in Names : x = Named(n)
      \/ \E y \in Factors : x = Not(y)
      \/ \E y \in Sums : x = Grouped(y)
  BY GrammarAssumption, Zenon
<1>2. \A n \in Nat : n < n + 1 /\ n < n + 2
  OBVIOUS
<1>3. ASSUME NEW y \in Factors, x = Not(y) PROVE Shorter(y, x)
  <2>1. y \in Derived /\ Len(y.text) \in Nat
    BY TextIsWords DEF Derived
  <2>2. Len(x.text) = Len(y.text) + 1
    BY <1>3, <2>1, NotText
  <2> QED BY <1>2, <2>1, <2>2 DEF Shorter
<1>4. ASSUME NEW y \in Sums, x = Grouped(y) PROVE Shorter(y, x)
  <2>1. y \in Derived /\ Len(y.text) \in Nat
    BY TextIsWords DEF Derived
  <2>2. Len(x.text) = Len(y.text) + 2
    BY <1>4, <2>1, GroupedText
  <2> QED BY <1>2, <2>1, <2>2 DEF Shorter
<1> QED
  BY <1>1, <1>3, <1>4, Zenon

\* How a term was derived.
LEMMA TermCases ==
  ASSUME NEW x \in Terms
  PROVE  x \in Factors \/ \E y \in Factors : \E z \in Terms : Linked(x, y, z, "AND", "true")
<1>1. x \in Factors \/ \E y \in Factors : \E z \in Terms : x = Both(y, z)
  BY GrammarAssumption, Zenon
<1>2. Factors \subseteq Derived /\ Terms \subseteq Derived
  BY DEF Derived
<1> QED
  BY <1>1, <1>2, BothLinked, Zenon

\* How a sum was derived.
LEMMA SumCases ==
  ASSUME NEW x \in Sums
  PROVE  x \in Terms \/ \E y \in Terms : \E z \in Sums : Linked(x, y, z, "OR", "false")
<1>1. x \in Terms \/ \E y \in Terms : \E z \in Sums : x = Either(y, z)
  BY GrammarAssumption, Zenon
<1>2. Sums \subseteq Derived /\ Terms \subseteq Derived
  BY DEF Derived
<1> QED
  BY <1>1, <1>2, EitherLinked, Zenon

-----------------------------------------------------------------------------
(* Guards: the shape of what the grammar derives                           *)

\* No operator of a reading stands outside the parentheses of what is below it.
Shape(x) ==
    /\ x.says \in [Flags -> Verdict]
    /\ x \in Factors => Shut(x.text, {"AND", "OR"})
    /\ x \in Terms => Shut(x.text, {"OR"})
    /\ x \in Sums => Shut(x.text, {})

\* NOT leaves one of the three values.
LEMMA NegatedVerdict == \A v \in Verdict : Negated(v) \in Verdict
<1>1. Negated("unknown") = "unknown" /\ Negated("true") = "false" /\ Negated("false") = "true"
  BY DEF Negated
<1> SUFFICES ASSUME NEW v \in Verdict PROVE Negated(v) \in Verdict
  OBVIOUS
<1>2. v = "unknown" \/ v = "true" \/ v = "false"
  BY Zenon DEF Verdict
<1>3. "unknown" \in Verdict /\ "true" \in Verdict /\ "false" \in Verdict
  BY Zenon DEF Verdict
<1> QED
  BY <1>1, <1>2, <1>3, Zenon

\* The shape of a name.
LEMMA NamedShape ==
  ASSUME NEW x, NEW n \in Names, x = Named(n)
  PROVE  x.says \in [Flags -> Verdict] /\ Shut(x.text, {"AND", "OR"})
<1>1. x.text = << n >> /\ n \in Word /\ n \notin Reserved
  BY NamedText
<1>2. n \notin {"(", ")"} /\ n \notin {"AND", "OR"}
  BY <1>1 DEF Reserved
<1>3. Shut(<< n >>, {"AND", "OR"})
  BY <1>1, <1>2, ShutWord
<1>4. x.says = [f \in Flags |-> f[n]]
  BY DEF Named
<1>5. \A f \in Flags : f[n] \in Verdict
  <2>1. \A f \in Flags : f \in [Names -> Verdict]
    BY NamesAssumption
  <2> HIDE DEF Verdict
  <2> QED BY <2>1
<1> QED
  BY <1>1, <1>3, <1>4, <1>5

\* The shape of a negated guard.
LEMMA NotShape ==
  ASSUME NEW x, NEW y \in Factors, x = Not(y), Shape(y)
  PROVE  x.says \in [Flags -> Verdict] /\ Shut(x.text, {"AND", "OR"})
<1>0. y \in Derived
  BY DEF Derived
<1>1. x.text = << "NOT" >> \o y.text /\ x.says = [f \in Flags |-> Negated(y.says[f])]
  BY <1>0, NotText
<1>2. y.says \in [Flags -> Verdict] /\ Shut(y.text, {"AND", "OR"})
  BY DEF Shape
<1>3. x.says \in [Flags -> Verdict]
  BY <1>1, <1>2, NegatedVerdict
<1>4. "NOT" \in Word /\ "NOT" \notin {"(", ")"} /\ "NOT" \notin {"AND", "OR"}
  BY DEF Word, Reserved
<1>5. Shut(<< "NOT" >>, {"AND", "OR"})
  BY <1>4, ShutWord
<1>6. << "NOT" >> \in Seq(Word)
  BY <1>4
<1>7. y.text \in Seq(Word)
  BY <1>0, TextIsWords
<1>8. Shut(<< "NOT" >> \o y.text, {"AND", "OR"})
  BY <1>2, <1>5, <1>6, <1>7, ShutConcat
<1> QED
  BY <1>1, <1>3, <1>8

\* Parentheses shut a text to AND and OR.
LEMMA ShutParen ==
  ASSUME NEW u \in Seq(Word), NEW few, Shut(u, few), NEW ops, {"(", ")"} \cap ops = {}
  PROVE  Shut(Paren(u), ops)
BY DepthParen DEF Shut

\* The shape of a guard in parentheses.
LEMMA GroupedShape ==
  ASSUME NEW x, NEW y \in Sums, x = Grouped(y), Shape(y)
  PROVE  x.says \in [Flags -> Verdict] /\ Shut(x.text, {"AND", "OR"})
<1>0. y \in Derived
  BY DEF Derived
<1>1. x.text = Paren(y.text) /\ x.says = y.says
  BY <1>0, GroupedText
<1>2. y.says \in [Flags -> Verdict] /\ Shut(y.text, {})
  BY DEF Shape
<1>3. y.text \in Seq(Word)
  BY <1>0, TextIsWords
<1>4. {"(", ")"} \cap {"AND", "OR"} = {}
  OBVIOUS
<1>5. Shut(Paren(y.text), {"AND", "OR"})
  BY <1>2, <1>3, <1>4, ShutParen
<1> QED
  BY <1>1, <1>2, <1>5

\* The shape of two guards with an operator between them, that is at depth 0.
LEMMA LinkedShape ==
  ASSUME NEW x, NEW y \in Derived, NEW z \in Derived, NEW op \in {"AND", "OR"}, NEW v, NEW ops,
         Linked(x, y, z, op, v), op \notin ops, Shut(y.text, ops), Shut(z.text, ops),
         y.says \in [Flags -> Verdict], z.says \in [Flags -> Verdict]
  PROVE  /\ x.says \in [Flags -> Verdict] /\ Shut(x.text, ops)
         /\ \E D : DepthBy(D, x.text, ops) /\ D[Len(y.text)] = 0
<1>1. x.says = [f \in Flags |-> IF y.says[f] = v THEN z.says[f] ELSE y.says[f]]
  BY DEF Linked
<1>2. x.says \in [Flags -> Verdict]
  BY <1>1
<1>3. y.text \in Seq(Word) /\ z.text \in Seq(Word)
  BY TextIsWords
<1>4. op \in Word /\ op \notin {"(", ")"}
  BY DEF Word, Reserved
<1>5. Shut(<< op >>, ops)
  BY <1>4, ShutWord
<1>6. << op >> \in Seq(Word)
  BY <1>4
<1> DEFINE w == << op >> \o z.text
<1>7. w \in Seq(Word)
  BY <1>3, <1>6
<1>8. Shut(w, ops)
  BY <1>3, <1>5, <1>6, ShutConcat
<1>9. x.text = y.text \o w
  <2>1. x.text = y.text \o << op >> \o z.text
    BY DEF Linked, Join
  <2>2. \A p, q, r \in Seq(Word) : p \o q \o r = p \o (q \o r)
    OBVIOUS
  <2> QED BY <1>3, <1>6, <2>1, <2>2
<1> HIDE DEF w
<1>10. \E D : DepthBy(D, y.text \o w, ops) /\ D[Len(y.text)] = 0
  BY <1>3, <1>7, <1>8, DepthConcat
<1> QED
  BY <1>2, <1>9, <1>10 DEF Shut

\* Every guard the grammar derives has its shape.
LEMMA EveryShape == \A x \in Derived : Shape(x)
<1> DEFINE S == {x \in Derived : Shape(x)}
<1>1. ASSUME NEW x \in Derived, \A y \in Derived : Shorter(y, x) => y \in S PROVE Shape(x)
  <2>0. Factors \subseteq Derived /\ Terms \subseteq Derived /\ Sums \subseteq Derived
    BY DEF Derived
  <2>a. \A y \in Derived : Shorter(y, x) => Shape(y)
    BY <1>1
  <2>1. CASE x \in Factors
    <3>1. x.says \in [Flags -> Verdict] /\ Shut(x.text, {"AND", "OR"})
      <4>1. CASE \E n \in Names : x = Named(n)
        BY <4>1, NamedShape, Zenon
      <4>2. CASE \E y \in Factors : x = Not(y) /\ Shorter(y, x)
        BY <2>0, <2>a, <4>2, NotShape, Zenon
      <4>3. CASE \E y \in Sums : x = Grouped(y) /\ Shorter(y, x)
        BY <2>0, <2>a, <4>3, GroupedShape, Zenon
      <4> QED BY <2>1, <4>1, <4>2, <4>3, FactorCases, Zenon
    <3>2. {"OR"} \subseteq {"AND", "OR"} /\ {} \subseteq {"AND", "OR"}
      OBVIOUS
    <3>3. Shut(x.text, {"OR"}) /\ Shut(x.text, {})
      BY <3>1, <3>2, ShutLess, Zenon
    <3> QED BY <3>1, <3>3 DEF Shape
  <2>2. CASE x \notin Factors /\ x \in Terms
    <3>1. PICK y \in Factors, z \in Terms : Linked(x, y, z, "AND", "true")
      BY <2>2, TermCases, Zenon
    <3>2. y \in Derived /\ z \in Derived /\ Shape(y) /\ Shape(z)
      BY <2>0, <2>a, <3>1, Zenon DEF Linked
    <3>3. {"OR"} \subseteq {"AND", "OR"} /\ {} \subseteq {"OR"} /\ "AND" \in {"AND", "OR"} /\ "AND" \notin {"OR"}
      OBVIOUS
    <3>4. Shut(y.text, {"OR"}) /\ Shut(z.text, {"OR"}) /\ y.says \in [Flags -> Verdict] /\ z.says \in [Flags -> Verdict]
      <4>1. Shut(y.text, {"AND", "OR"}) /\ Shut(z.text, {"OR"})
        BY <3>2, Zenon DEF Shape
      <4>2. Shut(y.text, {"OR"})
        BY <3>3, <4>1, ShutLess, Zenon
      <4> QED BY <3>2, <4>1, <4>2, Zenon DEF Shape
    <3>5. x.says \in [Flags -> Verdict] /\ Shut(x.text, {"OR"})
      BY <3>1, <3>2, <3>3, <3>4, LinkedShape, Zenon
    <3>6. Shut(x.text, {})
      BY <3>3, <3>5, ShutLess, Zenon
    <3> QED BY <2>2, <3>5, <3>6 DEF Shape
  <2>3. CASE x \notin Factors /\ x \notin Terms
    <3>0. x \in Sums
      BY <2>3 DEF Derived
    <3>1. PICK y \in Terms, z \in Sums : Linked(x, y, z, "OR", "false")
      BY <2>3, <3>0, SumCases, Zenon
    <3>2. y \in Derived /\ z \in Derived /\ Shape(y) /\ Shape(z)
      BY <2>0, <2>a, <3>1, Zenon DEF Linked
    <3>3. {} \subseteq {"OR"} /\ "OR" \in {"AND", "OR"} /\ "OR" \notin {}
      OBVIOUS
    <3>4. Shut(y.text, {}) /\ Shut(z.text, {}) /\ y.says \in [Flags -> Verdict] /\ z.says \in [Flags -> Verdict]
      <4>1. Shut(y.text, {"OR"}) /\ Shut(z.text, {})
        BY <3>2, Zenon DEF Shape
      <4>2. Shut(y.text, {})
        BY <3>3, <4>1, ShutLess, Zenon
      <4> QED BY <3>2, <4>1, <4>2, Zenon DEF Shape
    <3>5. x.says \in [Flags -> Verdict] /\ Shut(x.text, {})
      BY <3>1, <3>2, <3>3, <3>4, LinkedShape, Zenon
    <3> QED BY <2>3, <3>5 DEF Shape
  <2> QED BY <2>1, <2>2, <2>3
<1>2. Derived \subseteq S
  <2> HIDE DEF S
  <2>1. \A x \in Derived : (\A y \in Derived : Shorter(y, x) => y \in S) => x \in S
    BY <1>1 DEF S
  <2> QED BY <2>1, ByLength, Zenon
<1> QED
  BY <1>2

-----------------------------------------------------------------------------
(* Guards: the calls of the runner, and the first value that decides       *)

\* What the runner reads in calls of a depth, from what it reads in the calls below.
OkLevel(was, n, f) == [t \in Seq(Word) |-> IF n = 0 THEN GuardFlag(t, f) ELSE CallOk(was, t, f)]

OkRun(r, f, L) ==
    /\ \A t \in Seq(Word) : r[0][t] = GuardFlag(t, f)
    /\ \A n \in 1 .. L : \A t \in Seq(Word) : r[n][t] = CallOk(r[n - 1], t, f)

\* The calls of the runner have their steps.
LEMMA OkSteps ==
  ASSUME NEW text \in Seq(Word), NEW f
  PROVE  \E r : OkRun(r, f, Len(text)) /\ GuardOk(text, f) = r[Len(text)][text]
<1> DEFINE L == Len(text)
           Chain(h, k) == h = [n \in 0 .. k |-> OkLevel(h[n - 1], n, f)]
           T == {k \in 0 .. L : \E h : Chain(h, k)}
           walk == CHOOSE w : w = [n \in 0 .. L |->
                                      [t \in Seq(Word) |-> IF n = 0 THEN GuardFlag(t, f)
                                                           ELSE CallOk(w[n - 1], t, f)]]
<1>1. L \in Nat
  OBVIOUS
<1>2. GuardOk(text, f) = walk[L][text]
  BY DEF GuardOk
<1> HIDE DEF L
<1>a. \A x, y : OkLevel(x, 0, f) = OkLevel(y, 0, f)
  <2> SUFFICES ASSUME NEW x, NEW y PROVE OkLevel(x, 0, f) = OkLevel(y, 0, f)
    OBVIOUS
  <2>1. \A t \in Seq(Word) : (IF 0 = 0 THEN GuardFlag(t, f) ELSE CallOk(x, t, f))
                             = IF 0 = 0 THEN GuardFlag(t, f) ELSE CallOk(y, t, f)
    OBVIOUS
  <2> QED BY <2>1 DEF OkLevel
<1>3. 0 \in T
  <2> DEFINE h == [n \in 0 .. 0 |-> OkLevel(0, n, f)]
  <2>1. Chain(h, 0)
    <3>1. \A n \in 0 .. 0 : n = 0
      OBVIOUS
    <3>2. \A x : \A n \in 0 .. 0 : OkLevel(0, n, f) = OkLevel(x[n - 1], n, f)
      BY <1>a, <3>1, Zenon
    <3> QED BY <3>2
  <2> HIDE DEF h
  <2>2. 0 \in 0 .. L
    BY <1>1
  <2> HIDE DEF Chain
  <2> QED BY <2>1, <2>2
<1>4. ASSUME NEW k \in 1 .. L, k - 1 \in T PROVE k \in T
  <2>1. PICK h : Chain(h, k - 1)
    BY <1>4
  <2> DEFINE g == [n \in 0 .. k |-> OkLevel(h[n - 1], n, f)]
  <2>2. \A n \in 0 .. (k - 1) : g[n] = h[n]
    <3> SUFFICES ASSUME NEW n \in 0 .. (k - 1) PROVE g[n] = h[n]
      OBVIOUS
    <3>1. h = [j \in 0 .. (k - 1) |-> OkLevel(h[j - 1], j, f)]
      BY <2>1
    <3>2. h[n] = OkLevel(h[n - 1], n, f)
      BY <3>1
    <3>3. n \in 0 .. k
      BY <1>1
    <3> QED BY <3>2, <3>3
  <2>3. \A n \in 0 .. k : n # 0 => n - 1 \in 0 .. (k - 1)
    BY <1>1
  <2>4. Chain(g, k)
    <3>1. \A n \in 0 .. k : OkLevel(h[n - 1], n, f) = OkLevel(g[n - 1], n, f)
      <4> HIDE DEF g
      <4>1. \A n \in 0 .. k : n # 0 => h[n - 1] = g[n - 1]
        BY <2>2, <2>3
      <4> QED BY <1>a, <4>1, Zenon
    <3> QED BY <3>1
  <2>5. k \in 0 .. L
    BY <1>1
  <2> HIDE DEF g, Chain
  <2> QED BY <2>4, <2>5
<1>5. L \in T
  <2> HIDE DEF T
  <2> QED BY <1>1, <1>3, <1>4, PrefixInduction
<1>6. \E w : w = [n \in 0 .. L |-> [t \in Seq(Word) |-> IF n = 0 THEN GuardFlag(t, f)
                                                        ELSE CallOk(w[n - 1], t, f)]]
  BY <1>5 DEF OkLevel
<1>7. walk = [n \in 0 .. L |-> [t \in Seq(Word) |-> IF n = 0 THEN GuardFlag(t, f)
                                                    ELSE CallOk(walk[n - 1], t, f)]]
  BY <1>6
<1> HIDE DEF walk
<1>8. walk = [n \in 0 .. L |-> OkLevel(walk[n - 1], n, f)]
  BY <1>7 DEF OkLevel
<1>9. \A n \in 0 .. L : walk[n] = OkLevel(walk[n - 1], n, f)
  <2> DEFINE v(n) == OkLevel(walk[n - 1], n, f)
  <2>1. walk = [n \in 0 .. L |-> v(n)]
    BY <1>8
  <2> HIDE DEF v
  <2>2. \A n \in 0 .. L : walk[n] = v(n)
    BY <2>1
  <2> QED BY <2>2 DEF v
<1>10. \A was, t : t \in Seq(Word) =>
          /\ OkLevel(was, 0, f)[t] = GuardFlag(t, f)
          /\ \A n \in 1 .. L : OkLevel(was, n, f)[t] = CallOk(was, t, f)
  BY <1>1 DEF OkLevel
<1>11. OkRun(walk, f, L)
  <2>1. 0 \in 0 .. L /\ \A n \in 1 .. L : n \in 0 .. L
    BY <1>1
  <2>2. \A t \in Seq(Word) : walk[0][t] = GuardFlag(t, f)
    BY <1>9, <1>10, <2>1, Zenon
  <2>3. \A n \in 1 .. L : \A t \in Seq(Word) : walk[n][t] = CallOk(walk[n - 1], t, f)
    BY <1>9, <1>10, <2>1, ZenonT(30)
  <2> QED BY <2>2, <2>3 DEF OkRun
<1> QED
  BY <1>2, <1>11 DEF L

\* any and all, one value after the other.
LEMMA FirstOfOne == \A a, v : FirstOther(<< a >>, v) = a
<1> SUFFICES ASSUME NEW a, NEW v PROVE FirstOther(<< a >>, v) = a
  OBVIOUS
<1> DEFINE s == << a >>
<1>1. DOMAIN s = {1} /\ s[1] = a
  OBVIOUS
<1> HIDE DEF s
<1>2. CASE a = v
  BY <1>1, <1>2 DEF FirstOther
<1>3. CASE a # v
  <2>1. 1 - 1 = 0 /\ \A j : j \notin 1 .. 0
    OBVIOUS
  <2> DEFINE First1 == CHOOSE i \in DOMAIN s : s[i] # v /\ \A j \in 1 .. i - 1 : s[j] = v
  <2>2. \E i \in DOMAIN s : s[i] # v /\ \A j \in 1 .. i - 1 : s[j] = v
    BY <1>1, <1>3
  <2>3. First1 \in DOMAIN s
    BY <2>2, Zenon
  <2>4. FirstOther(s, v) = s[First1]
    BY <1>1, <1>3, Zenon DEF FirstOther
  <2> HIDE DEF First1
  <2> QED BY <1>1, <2>3, <2>4 DEF s
<1> QED
  BY <1>2, <1>3 DEF s

\* p is a value, and the values of q behind it.
InFront(p, a, q) ==
    /\ Len(q) \in Nat /\ DOMAIN q = 1 .. Len(q) /\ DOMAIN p = 1 .. (Len(q) + 1)
    /\ p[1] = a /\ \A i \in 1 .. Len(q) : p[i + 1] = q[i]

\* One value more, in front.
LEMMA FirstOfMore ==
  ASSUME NEW p, NEW a, NEW q, NEW v, InFront(p, a, q)
  PROVE  FirstOther(p, v) = IF a = v THEN FirstOther(q, v) ELSE a
<1> DEFINE n == Len(q)
           One(s, i) == s[i] # v /\ \A j \in 1 .. i - 1 : s[j] = v
           c(s) == CHOOSE i \in DOMAIN s : One(s, i)
<1>1. n \in Nat /\ DOMAIN q = 1 .. n /\ DOMAIN p = 1 .. (n + 1) /\ p[1] = a
      /\ \A i \in 1 .. n : p[i + 1] = q[i]
  BY DEF InFront
<1> HIDE DEF n
<1>2. \A s : FirstOther(s, v) = IF \A i \in DOMAIN s : s[i] = v THEN v ELSE s[c(s)]
  BY DEF FirstOther
<1>3. \A s : \A i, j \in Nat : One(s, i) /\ One(s, j) /\ i >= 1 /\ j >= 1 => i = j
  <2> SUFFICES ASSUME NEW s, NEW i \in Nat, NEW j \in Nat, One(s, i), One(s, j), i >= 1, j >= 1 PROVE i = j
    OBVIOUS
  <2>1. i < j => i \in 1 .. j - 1
    OBVIOUS
  <2>2. j < i => j \in 1 .. i - 1
    OBVIOUS
  <2>3. ~(i < j) /\ ~(j < i)
    BY <2>1, <2>2, Zenon
  <2> QED BY <2>3
<1>4. ASSUME NEW s, NEW i \in DOMAIN s, One(s, i), DOMAIN s \subseteq Nat \ {0}
      PROVE  FirstOther(s, v) = s[i]
  <2>1. c(s) \in DOMAIN s /\ One(s, c(s))
    BY <1>4, Zenon
  <2> HIDE DEF c
  <2>2. c(s) \in Nat /\ i \in Nat /\ c(s) >= 1 /\ i >= 1 /\ DOMAIN s \subseteq Nat
    BY <1>4, <2>1
  <2>3. c(s) = i
    BY <1>3, <1>4, <2>1, <2>2, Zenon
  <2>4. ~ \A j \in DOMAIN s : s[j] = v
    BY <1>4
  <2> QED BY <1>2, <2>3, <2>4
<1>5. DOMAIN p \subseteq Nat \ {0} /\ DOMAIN q \subseteq Nat \ {0} /\ 1 \in DOMAIN p
  BY <1>1
<1>6. CASE a # v
  <2>1. One(p, 1)
    BY <1>1, <1>6
  <2> HIDE DEF One
  <2>2. FirstOther(p, v) = p[1]
    BY <1>4, <1>5, <2>1
  <2> QED BY <1>1, <1>6, <2>2
<1>7. CASE a = v
  <2>1. CASE \A i \in DOMAIN q : q[i] = v
    <3>1. \A i \in DOMAIN p : p[i] = v
      <4> SUFFICES ASSUME NEW i \in DOMAIN p PROVE p[i] = v
        OBVIOUS
      <4>1. i = 1 \/ (i - 1 \in 1 .. n /\ (i - 1) + 1 = i)
        BY <1>1
      <4> QED BY <1>1, <1>7, <2>1, <4>1
    <3> QED BY <1>2, <1>7, <2>1, <3>1
  <2>2. CASE ~ \A i \in DOMAIN q : q[i] = v
    <3> DEFINE U == {i \in 1 .. n : q[i] # v}
    <3>1. U \subseteq Nat /\ \E i : i \in U
      BY <1>1, <2>2
    <3>2. PICK i \in U : \A y \in U : i <= y
      <4> HIDE DEF U
      <4> QED BY <3>1, LeastNat
    <3>3. i \in 1 .. n /\ q[i] # v
      BY <3>2
    <3>4. \A j \in 1 .. i - 1 : q[j] = v
      BY <1>1, <3>2
    <3>5. One(q, i)
      BY <3>3, <3>4
    <3>6. One(p, i + 1)
      <4>1. p[i + 1] # v
        BY <1>1, <3>3
      <4>2. ASSUME NEW j \in 1 .. (i + 1) - 1 PROVE p[j] = v
        <5>1. j = 1 \/ (j - 1 \in 1 .. i - 1 /\ j - 1 \in 1 .. n /\ (j - 1) + 1 = j)
          BY <1>1, <3>3
        <5> QED BY <1>1, <1>7, <3>4, <5>1
      <4> QED BY <4>1, <4>2
    <3>7. i \in DOMAIN q /\ i + 1 \in DOMAIN p /\ p[i + 1] = q[i]
      BY <1>1, <3>3
    <3> HIDE DEF One, U
    <3>8. FirstOther(q, v) = q[i]
      BY <1>4, <1>5, <3>5, <3>7
    <3>9. FirstOther(p, v) = p[i + 1]
      BY <1>4, <1>5, <3>6, <3>7
    <3> QED BY <1>7, <3>7, <3>8, <3>9
  <2> QED BY <2>1, <2>2
<1> QED
  BY <1>6, <1>7

-----------------------------------------------------------------------------
(* Guards: the parts of a guard say what it does                           *)

\* There is at least one part.
LEMMA PartsListed ==
  ASSUME NEW text \in Seq(Word), NEW op, NEW nested
  PROVE  PartsOf(text, op, nested) \in Seq(Seq(Word)) /\ PartsOf(text, op, nested) # << >>
<1>1. PICK g : SplitRun(g, text, op, nested)
  BY SplitSteps
<1>2. Len(text) \in 0 .. Len(text)
  OBVIOUS
<1>3. g[Len(text)] \in Seen
  BY <1>1, <1>2, SplitSeen
<1>4. PartsOf(text, op, nested) = g[Len(text)].parts
  BY <1>1 DEF SplitRun
<1> QED
  BY <1>3, <1>4 DEF Seen

\* Guards of a level are put together from guards of the one below with one operator.
Level(Lower, Upper, op, v, nested) ==
    /\ Lower \subseteq Derived /\ Upper \subseteq Derived /\ op \in Word
    /\ \A y \in Lower : Calm(y.text, op, nested)
    /\ \A x \in Upper : x \in Lower \/ \E y \in Lower : \E z \in Upper : Linked(x, y, z, op, v)

\* What is read of the parts of a text.
Values(b, ps) == [k \in DOMAIN ps |-> b[ps[k]]]

Right(b, y, f) == b[y.text] = y.says[f]
RightUpTo(b, Lower, x, f) == \A y \in Lower : y = x \/ Shorter(y, x) => Right(b, y, f)
RightBelow(b, Lower, x, f) == \A y \in Lower : Shorter(y, x) => Right(b, y, f)

\* Shorter is transitive.
LEMMA ShorterOn ==
  ASSUME NEW x \in Derived, NEW y \in Derived, NEW z \in Derived, Shorter(x, y), Shorter(y, z)
  PROVE  Shorter(x, z)
<1>1. Len(x.text) \in Nat /\ Len(y.text) \in Nat /\ Len(z.text) \in Nat
  BY TextIsWords
<1>2. \A k, m, n \in Nat : k < m /\ m < n => k < n
  OBVIOUS
<1> QED
  BY <1>1, <1>2, Zenon DEF Shorter

\* One part has one value.
LEMMA ValuesOfOne == \A b, u : Values(b, << u >>) = << b[u] >>
<1> SUFFICES ASSUME NEW b, NEW u PROVE Values(b, << u >>) = << b[u] >>
  OBVIOUS
<1>1. DOMAIN << u >> = 1 .. 1 /\ << u >>[1] = u /\ 1 .. 1 = {1}
  OBVIOUS
<1>2. << b[u] >> = [k \in 1 .. 1 |-> b[u]]
  OBVIOUS
<1> QED
  BY <1>1, <1>2 DEF Values

\* A part more has its value in front.
LEMMA ValuesInFront ==
  ASSUME NEW b, NEW u \in Seq(Word), NEW ps \in Seq(Seq(Word))
  PROVE  InFront(Values(b, << u >> \o ps), b[u], Values(b, ps)) /\ Len(Values(b, ps)) = Len(ps)
<1> DEFINE qs == << u >> \o ps
           n == Len(ps)
<1>1. n \in Nat /\ DOMAIN ps = 1 .. n /\ DOMAIN qs = 1 .. (n + 1) /\ qs[1] = u
      /\ \A i \in 1 .. n : qs[i + 1] = ps[i]
  OBVIOUS
<1> HIDE DEF qs, n
<1>2. Values(b, ps) = [k \in 1 .. n |-> b[ps[k]]]
  BY <1>1 DEF Values
<1>3. Len(Values(b, ps)) = n /\ DOMAIN Values(b, ps) = 1 .. n /\ \A i \in 1 .. n : Values(b, ps)[i] = b[ps[i]]
  BY <1>1, <1>2
<1>4. DOMAIN Values(b, qs) = 1 .. (n + 1) /\ Values(b, qs)[1] = b[u]
      /\ \A i \in 1 .. n : Values(b, qs)[i + 1] = b[ps[i]]
  <2>1. Values(b, qs) = [k \in 1 .. (n + 1) |-> b[qs[k]]]
    BY <1>1 DEF Values
  <2>2. 1 \in 1 .. (n + 1) /\ \A i \in 1 .. n : i + 1 \in 1 .. (n + 1)
    BY <1>1
  <2> QED BY <1>1, <2>1, <2>2
<1>5. InFront(Values(b, qs), b[u], Values(b, ps))
  BY <1>1, <1>3, <1>4 DEF InFront
<1> QED
  BY <1>3, <1>5 DEF qs, n

\* The parts of what an operator puts together.
LEMMA LinkedParts ==
  ASSUME NEW Lower, NEW Upper, NEW op, NEW v, NEW nested, Level(Lower, Upper, op, v, nested),
         NEW x, NEW y \in Lower, NEW z \in Upper, Linked(x, y, z, op, v)
  PROVE  PartsOf(x.text, op, nested) = << y.text >> \o PartsOf(z.text, op, nested)
<1>1. y.text \in Seq(Word) /\ z.text \in Seq(Word) /\ op \in Word /\ Calm(y.text, op, nested)
  BY TextIsWords, Zenon DEF Level
<1>2. x.text = Join(y.text, op, z.text)
  BY DEF Linked
<1>3. PartsOf(Join(y.text, op, z.text), op, nested) = << y.text >> \o PartsOf(z.text, op, nested)
  BY <1>1, SplitMore
<1> QED
  BY <1>2, <1>3

\* The value of what an operator puts together.
LEMMA LinkedReads ==
  ASSUME NEW Lower, NEW Upper, NEW op, NEW v, NEW nested, Level(Lower, Upper, op, v, nested),
         NEW x, NEW y \in Lower, NEW z \in Upper, Linked(x, y, z, op, v), NEW b, NEW f \in Flags,
         Right(b, y, f), FirstOther(Values(b, PartsOf(z.text, op, nested)), v) = z.says[f]
  PROVE  FirstOther(Values(b, PartsOf(x.text, op, nested)), v) = x.says[f]
<1>1. PartsOf(x.text, op, nested) = << y.text >> \o PartsOf(z.text, op, nested)
  BY LinkedParts
<1>2. y.text \in Seq(Word) /\ z.text \in Seq(Word)
  BY TextIsWords, Zenon DEF Level
<1>3. PartsOf(z.text, op, nested) \in Seq(Seq(Word))
  BY <1>2, PartsListed
<1>4. InFront(Values(b, PartsOf(x.text, op, nested)), b[y.text], Values(b, PartsOf(z.text, op, nested)))
  BY <1>1, <1>2, <1>3, ValuesInFront
<1>5. FirstOther(Values(b, PartsOf(x.text, op, nested)), v)
         = IF b[y.text] = v THEN FirstOther(Values(b, PartsOf(z.text, op, nested)), v) ELSE b[y.text]
  <2> DEFINE p == Values(b, PartsOf(x.text, op, nested))
             q == Values(b, PartsOf(z.text, op, nested))
             a == b[y.text]
  <2>1. InFront(p, a, q)
    BY <1>4
  <2> HIDE DEF p, q, a
  <2>2. FirstOther(p, v) = IF a = v THEN FirstOther(q, v) ELSE a
    BY <2>1, FirstOfMore
  <2> QED BY <2>2 DEF p, q, a
<1>6. x.says[f] = IF y.says[f] = v THEN z.says[f] ELSE y.says[f]
  <2>1. x.says = [e \in Flags |-> IF y.says[e] = v THEN z.says[e] ELSE y.says[e]]
    BY DEF Linked
  <2> QED BY <2>1
<1>7. b[y.text] = y.says[f]
  BY DEF Right
<1> QED
  BY <1>5, <1>6, <1>7

\* The first part that decides says what the whole does, where each is read as it says.
PartsRead(b, Lower, op, v, nested, x, f) ==
    RightUpTo(b, Lower, x, f) => FirstOther(Values(b, PartsOf(x.text, op, nested)), v) = x.says[f]

\* On a level, the parts say what the whole does.
LEMMA ReadParts ==
  ASSUME NEW Lower, NEW Upper, NEW op, NEW v, NEW nested, Level(Lower, Upper, op, v, nested),
         NEW b, NEW f \in Flags
  PROVE  \A x \in Upper : PartsRead(b, Lower, op, v, nested, x, f)
<1> DEFINE S == {x \in Derived : x \in Upper => PartsRead(b, Lower, op, v, nested, x, f)}
<1>0. Lower \subseteq Derived /\ Upper \subseteq Derived
  BY DEF Level
<1>1. ASSUME NEW x \in Upper, \A y \in Derived : Shorter(y, x) => y \in S, RightUpTo(b, Lower, x, f)
      PROVE  FirstOther(Values(b, PartsOf(x.text, op, nested)), v) = x.says[f]
  <2>1. CASE x \in Lower
    <3>1. Calm(x.text, op, nested) /\ x.text \in Seq(Word)
      BY <1>0, <2>1, TextIsWords, Zenon DEF Level
    <3>2. PartsOf(x.text, op, nested) = << x.text >>
      BY <3>1, SplitWhole
    <3>3. Values(b, PartsOf(x.text, op, nested)) = << b[x.text] >>
      BY <3>2, ValuesOfOne
    <3>4. b[x.text] = x.says[f]
      BY <1>1, <2>1, Zenon DEF RightUpTo, Right
    <3> QED BY <3>3, <3>4, FirstOfOne
  <2>2. CASE x \notin Lower
    <3>1. PICK y \in Lower, z \in Upper : Linked(x, y, z, op, v)
      BY <2>2, Zenon DEF Level
    <3>2. Shorter(y, x) /\ Shorter(z, x) /\ y \in Derived /\ z \in Derived /\ x \in Derived
      BY <1>0, <3>1, Zenon DEF Linked
    <3>3. Right(b, y, f)
      BY <1>1, <3>2, Zenon DEF RightUpTo
    <3>4. PartsRead(b, Lower, op, v, nested, z, f)
      BY <1>1, <3>2
    <3>5. RightUpTo(b, Lower, z, f)
      BY <1>0, <1>1, <3>2, ShorterOn, Zenon DEF RightUpTo
    <3>6. FirstOther(Values(b, PartsOf(z.text, op, nested)), v) = z.says[f]
      BY <3>4, <3>5, Zenon DEF PartsRead
    <3> QED BY <3>1, <3>3, <3>6, LinkedReads
  <2> QED BY <2>1, <2>2
<1>2. Derived \subseteq S
  <2>1. \A x \in Derived : (\A y \in Derived : Shorter(y, x) => y \in S) => x \in S
    BY <1>1, Zenon DEF PartsRead
  <2> HIDE DEF S
  <2> QED BY <2>1, ByLength, Zenon
<1> QED
  BY <1>0, <1>2

-----------------------------------------------------------------------------
(* Guards: one call of the runner                                          *)

\* The sums are a level above the terms.
LEMMA RunnersOrs == Level(Terms, Sums, "OR", "false", TRUE)
<1>1. Terms \subseteq Derived /\ Sums \subseteq Derived /\ "OR" \in Word
  BY DEF Derived, Word, Reserved
<1>2. "OR" \in {"OR"}
  OBVIOUS
<1>3. \A y \in Terms : Shut(y.text, {"OR"})
  BY <1>1, EveryShape, Zenon DEF Shape
<1>4. \A y \in Terms : Calm(y.text, "OR", TRUE)
  BY <1>2, <1>3, ShutIsCalm, Zenon
<1>5. \A x \in Sums : x \in Terms \/ \E y \in Terms : \E z \in Sums : Linked(x, y, z, "OR", "false")
  BY SumCases, Zenon
<1> QED
  BY <1>1, <1>4, <1>5, Zenon DEF Level

\* The terms are a level above the factors.
LEMMA RunnersAnds == Level(Factors, Terms, "AND", "true", TRUE)
<1>1. Factors \subseteq Derived /\ Terms \subseteq Derived /\ "AND" \in Word
  BY DEF Derived, Word, Reserved
<1>2. "AND" \in {"AND", "OR"}
  OBVIOUS
<1>3. \A y \in Factors : Shut(y.text, {"AND", "OR"})
  BY <1>1, EveryShape, Zenon DEF Shape
<1>4. \A y \in Factors : Calm(y.text, "AND", TRUE)
  BY <1>2, <1>3, ShutIsCalm, Zenon
<1>5. \A x \in Terms : x \in Factors \/ \E y \in Factors : \E z \in Terms : Linked(x, y, z, "AND", "true")
  BY TermCases, Zenon
<1> QED
  BY <1>1, <1>4, <1>5, Zenon DEF Level

\* One call of the runner, by what it finds.
LEMMA CallOkOrs ==
  ASSUME NEW b, NEW text, NEW f, NEW ors, Split(StripParens(text), "OR") = ors, Len(ors) > 1
  PROVE  CallOk(b, text, f) = FirstOther(Values(b, ors), "false")
<1>1. CallOk(b, text, f) = FirstOther(Values(b, Split(StripParens(text), "OR")), "false")
  <2>1. Len(Split(StripParens(text), "OR")) > 1
    OBVIOUS
  <2>2. ~(Len(Split(StripParens(text), "OR")) = 1)
    <3>1. \A n : n = 1 => ~(n > 1)
      OBVIOUS
    <3> QED BY <2>1, <3>1, Zenon
  <2> QED BY <2>1, <2>2 DEF CallOk, Values
<1> QED
  BY <1>1

\* A call that finds AND.
LEMMA CallOkAnds ==
  ASSUME NEW b, NEW text, NEW f, NEW ands, Len(Split(StripParens(text), "OR")) = 1,
         Split(StripParens(text), "AND") = ands, Len(ands) > 1
  PROVE  CallOk(b, text, f) = FirstOther(Values(b, ands), "true")
<1>0. \A n : n = 1 => ~(n > 1)
  OBVIOUS
<1>1. ~(Len(Split(StripParens(text), "OR")) > 1)
  BY <1>0, Zenon
<1> QED
  BY <1>1 DEF CallOk, Values

\* A call that finds NOT.
LEMMA CallOkNot ==
  ASSUME NEW b, NEW text, NEW f, NEW expr, expr = StripParens(text), Len(Split(expr, "OR")) = 1,
         Len(Split(expr, "AND")) = 1, expr # << >>, Head(expr) = "NOT"
  PROVE  CallOk(b, text, f) = Negated(b[Tail(expr)])
<1>0. \A n : n = 1 => ~(n > 1)
  OBVIOUS
<1>1. ~(Len(Split(expr, "OR")) > 1) /\ ~(Len(Split(expr, "AND")) > 1)
  BY <1>0, Zenon
<1> QED
  BY <1>1 DEF CallOk

\* A call that finds a name.
LEMMA CallOkFlag ==
  ASSUME NEW b, NEW text, NEW f, NEW expr, expr = StripParens(text), Len(Split(expr, "OR")) = 1,
         Len(Split(expr, "AND")) = 1, Head(expr) # "NOT"
  PROVE  CallOk(b, text, f) = GuardFlag(expr, f)
<1>0. \A n : n = 1 => ~(n > 1)
  OBVIOUS
<1>1. ~(Len(Split(expr, "OR")) > 1) /\ ~(Len(Split(expr, "AND")) > 1)
  BY <1>0, Zenon
<1> QED
  BY <1>1 DEF CallOk

\* A call loses the parentheses first.
LEMMA CallOkStripped ==
  ASSUME NEW b, NEW s, NEW t, NEW f, StripParens(s) = StripParens(t)
  PROVE  CallOk(b, s, f) = CallOk(b, t, f)
BY Zenon DEF CallOk

\* The runner reads a name.
LEMMA NamedReads ==
  ASSUME NEW x \in Factors, NEW n \in Names, x = Named(n), NEW b, NEW f \in Flags
  PROVE  CallOk(b, x.text, f) = x.says[f]
<1>1. x.text = << n >> /\ n \in Word /\ n \notin Reserved
  BY NamedText
<1>2. Head(x.text) = n /\ n # "(" /\ n # "NOT" /\ n # "true" /\ n # "false"
  BY <1>1 DEF Reserved
<1>3. x.text \in Seq(Word)
  BY <1>1
<1>4. ~Wrapped(x.text)
  BY <1>2 DEF Wrapped
<1>5. StripParens(x.text) = x.text
  BY <1>3, <1>4, StripNothing
<1>6. Shut(x.text, {"AND", "OR"})
  BY NamedShape
<1>7. Split(x.text, "OR") = << x.text >> /\ Split(x.text, "AND") = << x.text >>
  <2>1. "AND" \in {"AND", "OR"} /\ "OR" \in {"AND", "OR"}
    OBVIOUS
  <2>2. Calm(x.text, "OR", TRUE) /\ Calm(x.text, "AND", TRUE)
    BY <1>6, <2>1, ShutIsCalm, Zenon
  <2> QED BY <1>3, <2>2, SplitWhole DEF Split
<1>8. Len(Split(x.text, "OR")) = 1 /\ Len(Split(x.text, "AND")) = 1
  BY <1>7
<1>9. CallOk(b, x.text, f) = GuardFlag(x.text, f)
  <2>1. Head(x.text) # "NOT"
    BY <1>2
  <2> QED BY <1>5, <1>8, <2>1, CallOkFlag
<1>10. x.says[f] = f[n]
  BY DEF Named
<1>11. GuardFlag(<< n >>, f) = f[n]
  <2>1. f \in [Names -> Verdict]
    BY NamesAssumption
  <2>2. n \in DOMAIN f
    BY <2>1
  <2>3. << n >> # << >> /\ << n >> # << "true" >> /\ << n >> # << "false" >> /\ Len(<< n >>) = 1 /\ << n >>[1] = n
    BY <1>2
  <2> QED BY <2>2, <2>3 DEF GuardFlag
<1> QED
  BY <1>1, <1>9, <1>10, <1>11

\* The runner reads a negated guard, where it reads the guard.
LEMMA NotReads ==
  ASSUME NEW x \in Factors, NEW y \in Factors, x = Not(y), NEW b, NEW f \in Flags, Right(b, y, f)
  PROVE  CallOk(b, x.text, f) = x.says[f]
<1>0. x \in Derived /\ y \in Derived
  BY DEF Derived
<1>1. /\ Head(x.text) = "NOT" /\ Tail(x.text) = y.text /\ Len(x.text) = Len(y.text) + 1
      /\ x.says = [e \in Flags |-> Negated(y.says[e])]
  BY <1>0, NotText
<1>2. x.text \in Seq(Word) /\ Len(y.text) \in Nat
  BY <1>0, TextIsWords
<1>3. ~Wrapped(x.text)
  BY <1>1 DEF Wrapped
<1>4. StripParens(x.text) = x.text
  BY <1>2, <1>3, StripNothing
<1>5. Shut(x.text, {"AND", "OR"})
  BY <1>0, EveryShape, Zenon DEF Shape
<1>7. Split(x.text, "OR") = << x.text >> /\ Split(x.text, "AND") = << x.text >>
  <2>1. "AND" \in {"AND", "OR"} /\ "OR" \in {"AND", "OR"}
    OBVIOUS
  <2>2. Calm(x.text, "OR", TRUE) /\ Calm(x.text, "AND", TRUE)
    BY <1>5, <2>1, ShutIsCalm, Zenon
  <2> QED BY <1>2, <2>2, SplitWhole DEF Split
<1>8. Len(Split(x.text, "OR")) = 1 /\ Len(Split(x.text, "AND")) = 1
  BY <1>7
<1>9. x.text # << >>
  BY <1>1, <1>2
<1>10. CallOk(b, x.text, f) = Negated(b[Tail(x.text)])
  BY <1>1, <1>4, <1>8, <1>9, CallOkNot
<1>11. b[y.text] = y.says[f]
  BY DEF Right
<1>12. x.says[f] = Negated(y.says[f])
  <2>1. x.says = [e \in Flags |-> Negated(y.says[e])]
    BY <1>1
  <2> QED BY <2>1
<1> QED
  BY <1>1, <1>10, <1>11, <1>12

\* No guard is without words.
LEMMA SomeText == \A x \in Derived : x.text # << >>
<1> SUFFICES ASSUME NEW x \in Derived, x.text = << >> PROVE FALSE
  OBVIOUS
<1>1. Len(x.text) = 0 /\ \A y \in Derived : ~Shorter(y, x)
  <2>1. Len(x.text) = 0
    OBVIOUS
  <2> QED BY <2>1, TextIsWords DEF Shorter
<1>2. Factors \subseteq Derived /\ Terms \subseteq Derived /\ Sums \subseteq Derived
  BY DEF Derived
<1>3. x \in Sums => x \in Terms
  BY <1>1, <1>2, SumCases, Zenon DEF Linked
<1>4. x \in Terms => x \in Factors
  BY <1>1, <1>2, TermCases, Zenon DEF Linked
<1>5. x \in Factors
  BY <1>3, <1>4, Zenon DEF Derived
<1>6. \E n \in Names : x = Named(n)
  BY <1>1, <1>2, <1>5, FactorCases, Zenon
<1>7. \E n \in Names : x.text = << n >>
  BY <1>6, NamedText, Zenon
<1> QED
  BY <1>7

\* Nothing wraps what an operator puts together.
LEMMA LinkedOpen ==
  ASSUME NEW x \in Derived, NEW y \in Derived, NEW z \in Derived, NEW op \in {"AND", "OR"}, NEW v,
         NEW ops, Linked(x, y, z, op, v), op \notin ops, Shut(y.text, ops), Shut(z.text, ops)
  PROVE  StripParens(x.text) = x.text
<1>1. y.says \in [Flags -> Verdict] /\ z.says \in [Flags -> Verdict]
  BY EveryShape, Zenon DEF Shape
<1>2. PICK D : DepthBy(D, x.text, ops) /\ D[Len(y.text)] = 0
  BY <1>1, LinkedShape, ZenonT(30)
<1>3. x.text \in Seq(Word) /\ y.text \in Seq(Word) /\ y.text # << >>
  BY TextIsWords, SomeText
<1>4. Len(y.text) \in 1 .. (Len(x.text) - 1)
  <2>1. Len(y.text) < Len(x.text)
    BY DEF Linked, Shorter
  <2> QED BY <1>3, <2>1
<1>5. ~Wrapped(x.text)
  BY <1>2, <1>3, <1>4, ShutBefore
<1> QED
  BY <1>3, <1>5, StripNothing

\* More than one part, where an operator stands.
LEMMA ManyParts ==
  ASSUME NEW Lower, NEW Upper, NEW op, NEW v, NEW nested, Level(Lower, Upper, op, v, nested),
         NEW x, NEW y \in Lower, NEW z \in Upper, Linked(x, y, z, op, v)
  PROVE  Len(PartsOf(x.text, op, nested)) > 1
<1>1. PartsOf(x.text, op, nested) = << y.text >> \o PartsOf(z.text, op, nested)
  BY LinkedParts
<1>2. y.text \in Seq(Word) /\ z.text \in Seq(Word)
  BY TextIsWords, Zenon DEF Level
<1> DEFINE ps == PartsOf(z.text, op, nested)
<1>3. ps \in Seq(Seq(Word)) /\ ps # << >>
  BY <1>2, PartsListed
<1> HIDE DEF ps
<1>4. Len(<< y.text >> \o ps) > 1
  BY <1>2, <1>3
<1> QED
  BY <1>1, <1>4 DEF ps

\* What holds of the shorter guards of a level holds of those below it.
LEMMA LinkedRight ==
  ASSUME NEW Lower, NEW Upper, NEW op, NEW v, NEW nested, Level(Lower, Upper, op, v, nested),
         NEW x \in Derived, NEW y \in Lower, NEW z \in Upper, Linked(x, y, z, op, v), NEW b, NEW f \in Flags,
         RightBelow(b, Lower, x, f)
  PROVE  FirstOther(Values(b, PartsOf(x.text, op, nested)), v) = x.says[f]
<1>1. Lower \subseteq Derived /\ Upper \subseteq Derived /\ Shorter(y, x) /\ Shorter(z, x)
  BY Zenon DEF Level, Linked
<1>2. Right(b, y, f)
  BY <1>1, Zenon DEF RightBelow
<1>3. RightUpTo(b, Lower, z, f)
  BY <1>1, ShorterOn, Zenon DEF RightBelow, RightUpTo
<1>4. PartsRead(b, Lower, op, v, nested, z, f)
  BY ReadParts
<1>5. FirstOther(Values(b, PartsOf(z.text, op, nested)), v) = z.says[f]
  BY <1>3, <1>4, Zenon DEF PartsRead
<1> QED
  BY <1>2, <1>5, LinkedReads

\* The same for all guards of a level.
LEMMA LevelReads ==
  ASSUME NEW Lower, NEW Upper, NEW op, NEW v, NEW nested, Level(Lower, Upper, op, v, nested),
         NEW b, NEW f \in Flags
  PROVE  \A x \in Derived : \A y \in Lower : \A z \in Upper :
            Linked(x, y, z, op, v) /\ RightBelow(b, Lower, x, f)
            => FirstOther(Values(b, PartsOf(x.text, op, nested)), v) = x.says[f]
BY LinkedRight

\* The runner reads the parts of an AND.
LEMMA AndsRead ==
  ASSUME NEW b, NEW f \in Flags
  PROVE  \A x \in Derived : \A y \in Factors : \A z \in Terms :
            Linked(x, y, z, "AND", "true") /\ RightBelow(b, Factors, x, f)
            => FirstOther(Values(b, Split(x.text, "AND")), "true") = x.says[f]
<1>1. PICK nested : nested = TRUE
  OBVIOUS
<1>2. Level(Factors, Terms, "AND", "true", nested)
  BY <1>1, RunnersAnds
<1>3. \A x \in Derived : \A y \in Factors : \A z \in Terms :
         Linked(x, y, z, "AND", "true") /\ RightBelow(b, Factors, x, f)
         => FirstOther(Values(b, PartsOf(x.text, "AND", nested)), "true") = x.says[f]
  BY <1>2, LevelReads
<1>4. \A text : PartsOf(text, "AND", nested) = Split(text, "AND")
  BY <1>1 DEF Split
<1> QED
  BY <1>3, <1>4, Zenon

\* The runner reads the parts of an OR.
LEMMA OrsRead ==
  ASSUME NEW b, NEW f \in Flags
  PROVE  \A x \in Derived : \A y \in Terms : \A z \in Sums :
            Linked(x, y, z, "OR", "false") /\ RightBelow(b, Terms, x, f)
            => FirstOther(Values(b, Split(x.text, "OR")), "false") = x.says[f]
<1>1. PICK nested : nested = TRUE
  OBVIOUS
<1>2. Level(Terms, Sums, "OR", "false", nested)
  BY <1>1, RunnersOrs
<1>3. \A x \in Derived : \A y \in Terms : \A z \in Sums :
         Linked(x, y, z, "OR", "false") /\ RightBelow(b, Terms, x, f)
         => FirstOther(Values(b, PartsOf(x.text, "OR", nested)), "false") = x.says[f]
  BY <1>2, LevelReads
<1>4. \A text : PartsOf(text, "OR", nested) = Split(text, "OR")
  BY <1>1 DEF Split
<1> QED
  BY <1>3, <1>4, Zenon

-----------------------------------------------------------------------------
(* Guards: the runner reads every guard                                    *)

\* The runner reads an AND, where it reads what is shorter.
LEMMA BothReads ==
  ASSUME NEW x \in Terms, NEW y \in Factors, NEW z \in Terms, Linked(x, y, z, "AND", "true"),
         NEW b, NEW f \in Flags, RightBelow(b, Derived, x, f)
  PROVE  CallOk(b, x.text, f) = x.says[f]
<1>0. Factors \subseteq Derived /\ Terms \subseteq Derived /\ Sums \subseteq Derived
  BY DEF Derived
<1>1. "AND" \in {"AND", "OR"} /\ "AND" \notin {"OR"} /\ "OR" \in {"OR"} /\ {"OR"} \subseteq {"AND", "OR"}
  OBVIOUS
<1>2. Shut(x.text, {"OR"}) /\ Shut(y.text, {"OR"}) /\ Shut(z.text, {"OR"})
  <2>1. Shut(x.text, {"OR"}) /\ Shut(y.text, {"AND", "OR"}) /\ Shut(z.text, {"OR"})
    BY <1>0, EveryShape, Zenon DEF Shape
  <2> QED BY <1>1, <2>1, ShutLess, Zenon
<1>3. StripParens(x.text) = x.text
  <2>1. x \in Derived /\ y \in Derived /\ z \in Derived
    BY <1>0
  <2> QED BY <1>1, <1>2, <2>1, LinkedOpen
<1>4. Len(Split(x.text, "OR")) = 1
  <2>1. x.text \in Seq(Word)
    BY <1>0, TextIsWords
  <2>2. Calm(x.text, "OR", TRUE)
    BY <1>1, <1>2, ShutIsCalm, Zenon
  <2>3. Split(x.text, "OR") = << x.text >>
    BY <2>1, <2>2, SplitWhole DEF Split
  <2> QED BY <2>3
<1>5. Len(Split(x.text, "AND")) > 1
  BY RunnersAnds, ManyParts DEF Split
<1>6. FirstOther(Values(b, Split(x.text, "AND")), "true") = x.says[f]
  <2>1. RightBelow(b, Factors, x, f) /\ x \in Derived
    BY <1>0, Zenon DEF RightBelow
  <2> QED BY <2>1, AndsRead, Zenon
<1>7. CallOk(b, x.text, f) = FirstOther(Values(b, Split(x.text, "AND")), "true")
  BY <1>3, <1>4, <1>5, CallOkAnds
<1> QED
  BY <1>6, <1>7

\* The runner reads an OR, where it reads what is shorter.
LEMMA EitherReads ==
  ASSUME NEW x \in Sums, NEW y \in Terms, NEW z \in Sums, Linked(x, y, z, "OR", "false"),
         NEW b, NEW f \in Flags, RightBelow(b, Derived, x, f)
  PROVE  CallOk(b, x.text, f) = x.says[f]
<1>0. Factors \subseteq Derived /\ Terms \subseteq Derived /\ Sums \subseteq Derived
  BY DEF Derived
<1>1. "OR" \in {"AND", "OR"} /\ "OR" \notin {} /\ {} \subseteq {"OR"}
  OBVIOUS
<1>2. Shut(y.text, {}) /\ Shut(z.text, {})
  <2>1. Shut(y.text, {"OR"}) /\ Shut(z.text, {})
    BY <1>0, EveryShape, Zenon DEF Shape
  <2> QED BY <1>1, <2>1, ShutLess, Zenon
<1>3. StripParens(x.text) = x.text
  <2>1. x \in Derived /\ y \in Derived /\ z \in Derived
    BY <1>0
  <2> QED BY <1>1, <1>2, <2>1, LinkedOpen
<1>5. Len(Split(x.text, "OR")) > 1
  BY RunnersOrs, ManyParts DEF Split
<1>6. FirstOther(Values(b, Split(x.text, "OR")), "false") = x.says[f]
  <2>1. RightBelow(b, Terms, x, f) /\ x \in Derived
    BY <1>0, Zenon DEF RightBelow
  <2> QED BY <2>1, OrsRead, Zenon
<1>7. CallOk(b, x.text, f) = FirstOther(Values(b, Split(x.text, "OR")), "false")
  BY <1>3, <1>5, CallOkOrs
<1> QED
  BY <1>6, <1>7

\* Where every shorter guard is read as it says, and what a parenthesis holds is, too.
LEMMA CallReads ==
  ASSUME NEW x \in Derived, NEW b, NEW f \in Flags, RightBelow(b, Derived, x, f),
         \A y \in Sums : x = Grouped(y) /\ Shorter(y, x) => CallOk(b, y.text, f) = y.says[f]
  PROVE  CallOk(b, x.text, f) = x.says[f]
<1>0. Factors \subseteq Derived /\ Terms \subseteq Derived /\ Sums \subseteq Derived
  BY DEF Derived
<1>1. CASE x \in Factors
  <2>1. CASE \E n \in Names : x = Named(n)
    BY <1>1, <2>1, NamedReads, Zenon
  <2>2. CASE \E y \in Factors : x = Not(y) /\ Shorter(y, x)
    <3>1. PICK y \in Factors : x = Not(y) /\ Shorter(y, x)
      BY <2>2
    <3>2. Right(b, y, f)
      BY <1>0, <3>1, Zenon DEF RightBelow
    <3> QED BY <1>1, <3>1, <3>2, NotReads, Zenon
  <2>3. CASE \E y \in Sums : x = Grouped(y) /\ Shorter(y, x)
    <3>1. PICK y \in Sums : x = Grouped(y) /\ Shorter(y, x)
      BY <2>3
    <3>2. CallOk(b, y.text, f) = y.says[f]
      BY <3>1
    <3>3. x.text = Paren(y.text) /\ x.says = y.says
      BY <1>0, <3>1, GroupedText
    <3>4. y.text \in Seq(Word) /\ Shut(y.text, {})
      BY <1>0, TextIsWords, EveryShape, Zenon DEF Shape
    <3>5. StripParens(x.text) = StripParens(y.text)
      BY <3>3, <3>4, StripParenthesised
    <3>6. CallOk(b, x.text, f) = CallOk(b, y.text, f)
      BY <3>5, CallOkStripped, Zenon
    <3> QED BY <3>2, <3>3, <3>6
  <2> QED BY <1>1, <2>1, <2>2, <2>3, FactorCases, Zenon
<1>2. CASE x \notin Factors /\ x \in Terms
  BY <1>2, TermCases, BothReads, Zenon
<1>3. CASE x \notin Factors /\ x \notin Terms
  <2>1. x \in Sums
    BY <1>3 DEF Derived
  <2> QED BY <1>3, <2>1, SumCases, EitherReads, Zenon
<1> QED
  BY <1>1, <1>2, <1>3

\* The calls that are deep enough read a guard as it says.
ReadAtDepths(r, f, L, x) == \A k \in 1 .. L : Len(x.text) <= k => r[k][x.text] = x.says[f]

\* Calls that are as deep as a guard is long read it.
LEMMA DepthsRead ==
  ASSUME NEW L \in Nat, NEW f \in Flags, NEW r, OkRun(r, f, L)
  PROVE  \A x \in Derived : ReadAtDepths(r, f, L, x)
<1> DEFINE S == {x \in Derived : ReadAtDepths(r, f, L, x)}
<1>1. ASSUME NEW x \in Derived, \A y \in Derived : Shorter(y, x) => y \in S,
             NEW k \in 1 .. L, Len(x.text) <= k
      PROVE  r[k][x.text] = x.says[f]
  <2> DEFINE b == r[k - 1]
  <2>1. \A t \in Seq(Word) : r[k][t] = CallOk(b, t, f)
    BY <1>1 DEF OkRun
  <2>2. \A y \in Derived : y.text \in Seq(Word) /\ Len(y.text) \in Nat /\ Len(y.text) >= 1
    <3>1. \A t \in Seq(Word) : t # << >> => Len(t) \in Nat /\ Len(t) >= 1
      OBVIOUS
    <3> QED BY <3>1, TextIsWords, SomeText, Zenon
  <2>3. ASSUME NEW y \in Derived, Shorter(y, x) PROVE ReadAtDepths(r, f, L, y) /\ Len(y.text) < Len(x.text)
    BY <1>1, <2>3 DEF Shorter
  <2>4. RightBelow(b, Derived, x, f)
    <3> SUFFICES ASSUME NEW y \in Derived, Shorter(y, x) PROVE Right(b, y, f)
      BY Zenon DEF RightBelow
    <3>1. ReadAtDepths(r, f, L, y) /\ Len(y.text) < Len(x.text)
      BY <2>3
    <3>2. k - 1 \in 1 .. L /\ Len(y.text) <= k - 1
      <4>1. Len(y.text) \in Nat /\ Len(y.text) >= 1 /\ Len(x.text) \in Nat
        BY <2>2
      <4>2. \A m, n \in Nat : m < n /\ n <= k /\ m >= 1 => k - 1 \in 1 .. L /\ m <= k - 1
        OBVIOUS
      <4> QED BY <1>1, <3>1, <4>1, <4>2, Zenon
    <3> QED BY <3>1, <3>2, Zenon DEF ReadAtDepths, Right
  <2> HIDE DEF b
  <2>5. ASSUME NEW y \in Sums, x = Grouped(y), Shorter(y, x) PROVE CallOk(b, y.text, f) = y.says[f]
    <3>0. y \in Derived
      BY DEF Derived
    <3>1. ReadAtDepths(r, f, L, y) /\ Len(y.text) < Len(x.text)
      BY <2>3, <2>5, <3>0
    <3>2. Len(y.text) <= k
      <4>1. Len(y.text) \in Nat /\ Len(x.text) \in Nat
        BY <2>2, <3>0
      <4>2. \A m, n \in Nat : m < n /\ n <= k => m <= k
        OBVIOUS
      <4> QED BY <1>1, <3>1, <4>1, <4>2, Zenon
    <3>3. r[k][y.text] = y.says[f]
      BY <3>1, <3>2, Zenon DEF ReadAtDepths
    <3>4. y.text \in Seq(Word)
      BY <2>2, <3>0
    <3> QED BY <2>1, <3>3, <3>4
  <2>6. CallOk(b, x.text, f) = x.says[f]
    BY <2>4, <2>5, CallReads, Zenon
  <2>7. x.text \in Seq(Word)
    BY <2>2
  <2> QED BY <2>1, <2>6, <2>7
<1>2. \A x \in Derived : (\A y \in Derived : Shorter(y, x) => y \in S) => x \in S
  BY <1>1, Zenon DEF ReadAtDepths
<1>3. Derived \subseteq S
  <2> HIDE DEF S
  <2> QED BY <1>2, ByLength, Zenon
<1> QED
  BY <1>3

\* The runner reads what a guard says.
LEMMA RunnerReads == \A x \in Derived : \A f \in Flags : GuardOk(x.text, f) = x.says[f]
<1> SUFFICES ASSUME NEW x \in Derived, NEW f \in Flags PROVE GuardOk(x.text, f) = x.says[f]
  OBVIOUS
<1> DEFINE L == Len(x.text)
<1>1. x.text \in Seq(Word) /\ x.text # << >>
  BY TextIsWords, SomeText
<1>2. PICK r : OkRun(r, f, L) /\ GuardOk(x.text, f) = r[L][x.text]
  BY <1>1, OkSteps
<1>3. L \in Nat /\ L \in 1 .. L /\ L <= L
  BY <1>1
<1> HIDE DEF L
<1>4. ReadAtDepths(r, f, L, x)
  BY <1>2, <1>3, DepthsRead, Zenon
<1>5. r[L][x.text] = x.says[f]
  <2>1. Len(x.text) = L
    BY DEF L
  <2> QED BY <1>3, <1>4, <2>1 DEF ReadAtDepths
<1> QED
  BY <1>2, <1>5

-----------------------------------------------------------------------------
(* Guards: plain guards, and the calls of the scheduler                    *)

\* What the scheduler reads in calls of a depth, from what it reads in the calls below.
ActiveLevel(was, n, f) == [t \in Seq(Word) |-> IF n = 0 THEN GuardFlag(t, f) = "true" ELSE CallActive(was, t, f)]

ActiveRun(r, f, L) ==
    /\ \A t \in Seq(Word) : r[0][t] = (GuardFlag(t, f) = "true")
    /\ \A n \in 1 .. L : \A t \in Seq(Word) : r[n][t] = CallActive(r[n - 1], t, f)

\* The calls of the scheduler have their steps.
LEMMA ActiveSteps ==
  ASSUME NEW text \in Seq(Word), NEW f
  PROVE  \E r : ActiveRun(r, f, Len(text)) /\ GuardActive(text, f) = r[Len(text)][text]
<1> DEFINE L == Len(text)
           Chain(h, k) == h = [n \in 0 .. k |-> ActiveLevel(h[n - 1], n, f)]
           T == {k \in 0 .. L : \E h : Chain(h, k)}
           walk == CHOOSE w : w = [n \in 0 .. L |->
                                      [t \in Seq(Word) |-> IF n = 0 THEN GuardFlag(t, f) = "true"
                                                           ELSE CallActive(w[n - 1], t, f)]]
<1>1. L \in Nat
  OBVIOUS
<1>2. GuardActive(text, f) = walk[L][text]
  BY DEF GuardActive
<1> HIDE DEF L
<1>a. \A x, y : ActiveLevel(x, 0, f) = ActiveLevel(y, 0, f)
  <2> SUFFICES ASSUME NEW x, NEW y PROVE ActiveLevel(x, 0, f) = ActiveLevel(y, 0, f)
    OBVIOUS
  <2>1. \A t \in Seq(Word) : (IF 0 = 0 THEN GuardFlag(t, f) = "true" ELSE CallActive(x, t, f))
                             = (IF 0 = 0 THEN GuardFlag(t, f) = "true" ELSE CallActive(y, t, f))
    OBVIOUS
  <2> QED BY <2>1 DEF ActiveLevel
<1>3. 0 \in T
  <2> DEFINE h == [n \in 0 .. 0 |-> ActiveLevel(0, n, f)]
  <2>1. Chain(h, 0)
    <3>1. \A n \in 0 .. 0 : n = 0
      OBVIOUS
    <3>2. \A x : \A n \in 0 .. 0 : ActiveLevel(0, n, f) = ActiveLevel(x[n - 1], n, f)
      BY <1>a, <3>1, Zenon
    <3> QED BY <3>2
  <2> HIDE DEF h
  <2>2. 0 \in 0 .. L
    BY <1>1
  <2> HIDE DEF Chain
  <2> QED BY <2>1, <2>2
<1>4. ASSUME NEW k \in 1 .. L, k - 1 \in T PROVE k \in T
  <2>1. PICK h : Chain(h, k - 1)
    BY <1>4
  <2> DEFINE g == [n \in 0 .. k |-> ActiveLevel(h[n - 1], n, f)]
  <2>2. \A n \in 0 .. (k - 1) : g[n] = h[n]
    <3> SUFFICES ASSUME NEW n \in 0 .. (k - 1) PROVE g[n] = h[n]
      OBVIOUS
    <3>1. h = [j \in 0 .. (k - 1) |-> ActiveLevel(h[j - 1], j, f)]
      BY <2>1
    <3>2. h[n] = ActiveLevel(h[n - 1], n, f)
      BY <3>1
    <3>3. n \in 0 .. k
      BY <1>1
    <3> QED BY <3>2, <3>3
  <2>3. \A n \in 0 .. k : n # 0 => n - 1 \in 0 .. (k - 1)
    BY <1>1
  <2>4. Chain(g, k)
    <3>1. \A n \in 0 .. k : ActiveLevel(h[n - 1], n, f) = ActiveLevel(g[n - 1], n, f)
      <4> HIDE DEF g
      <4>1. \A n \in 0 .. k : n # 0 => h[n - 1] = g[n - 1]
        BY <2>2, <2>3
      <4> QED BY <1>a, <4>1, Zenon
    <3> QED BY <3>1
  <2>5. k \in 0 .. L
    BY <1>1
  <2> HIDE DEF g, Chain
  <2> QED BY <2>4, <2>5
<1>5. L \in T
  <2> HIDE DEF T
  <2> QED BY <1>1, <1>3, <1>4, PrefixInduction
<1>6. \E w : w = [n \in 0 .. L |-> [t \in Seq(Word) |-> IF n = 0 THEN GuardFlag(t, f) = "true"
                                                        ELSE CallActive(w[n - 1], t, f)]]
  BY <1>5 DEF ActiveLevel
<1>7. walk = [n \in 0 .. L |-> [t \in Seq(Word) |-> IF n = 0 THEN GuardFlag(t, f) = "true"
                                                    ELSE CallActive(walk[n - 1], t, f)]]
  BY <1>6
<1> HIDE DEF walk
<1>8. walk = [n \in 0 .. L |-> ActiveLevel(walk[n - 1], n, f)]
  BY <1>7 DEF ActiveLevel
<1>9. \A n \in 0 .. L : walk[n] = ActiveLevel(walk[n - 1], n, f)
  <2> DEFINE v(n) == ActiveLevel(walk[n - 1], n, f)
  <2>1. walk = [n \in 0 .. L |-> v(n)]
    BY <1>8
  <2> HIDE DEF v
  <2>2. \A n \in 0 .. L : walk[n] = v(n)
    BY <2>1
  <2> QED BY <2>2 DEF v
<1>10. \A was, t : t \in Seq(Word) =>
          /\ ActiveLevel(was, 0, f)[t] = (GuardFlag(t, f) = "true")
          /\ \A n \in 1 .. L : ActiveLevel(was, n, f)[t] = CallActive(was, t, f)
  BY <1>1 DEF ActiveLevel
<1>11. ActiveRun(walk, f, L)
  <2>1. 0 \in 0 .. L /\ \A n \in 1 .. L : n \in 0 .. L
    BY <1>1
  <2>2. \A t \in Seq(Word) : walk[0][t] = (GuardFlag(t, f) = "true")
    <3>1. walk[0] = ActiveLevel(walk[0 - 1], 0, f)
      BY <1>9, <2>1, Zenon
    <3>2. \A was : \A t \in Seq(Word) : ActiveLevel(was, 0, f)[t] = (GuardFlag(t, f) = "true")
      BY <1>10, Zenon
    <3> QED BY <3>1, <3>2
  <2>3. \A n \in 1 .. L : \A t \in Seq(Word) : walk[n][t] = CallActive(walk[n - 1], t, f)
    BY <1>9, <1>10, <2>1, Zenon
  <2> QED BY <2>2, <2>3 DEF ActiveRun
<1> QED
  BY <1>2, <1>11 DEF L

\* t is u, op and w one after the other, place by place.
JoinedAs(t, u, op, w) ==
    /\ Len(t) = Len(u) + 1 + Len(w)
    /\ \A n \in 1 .. Len(u) : t[n] = u[n]
    /\ t[Len(u) + 1] = op
    /\ \A n \in 1 .. Len(w) : t[Len(u) + 1 + n] = w[n]

\* Two texts with an operator between them, place by place.
LEMMA JoinPlaces ==
  ASSUME NEW op \in Word
  PROVE  \A u, w \in Seq(Word) : JoinedAs(Join(u, op, w), u, op, w)
<1> SUFFICES ASSUME NEW u \in Seq(Word), NEW w \in Seq(Word) PROVE JoinedAs(Join(u, op, w), u, op, w)
  OBVIOUS
<1> QED
  BY JoinFacts, ZenonT(30) DEF JoinedAs

\* Guards with nothing but names, AND and OR.
PlainOf(S) == {x \in S : PlainText(x)}

\* A plain guard, word by word.
LEMMA PlainWords ==
  ASSUME NEW x \in Derived
  PROVE  PlainText(x) <=> \A n \in 1 .. Len(x.text) : x.text[n] \notin {"(", ")", "NOT"}
<1>1. DOMAIN x.text = 1 .. Len(x.text)
  BY TextIsWords
<1>2. Range(x.text) = {x.text[n] : n \in 1 .. Len(x.text)}
  BY <1>1 DEF Range
<1> QED
  BY <1>2 DEF PlainText

\* What a plain guard is put together from is plain.
LEMMA PlainLinked ==
  ASSUME NEW x \in Derived, NEW y \in Derived, NEW z \in Derived, NEW op \in {"AND", "OR"}, NEW v,
         Linked(x, y, z, op, v), PlainText(x)
  PROVE  PlainText(y) /\ PlainText(z)
<1>1. y.text \in Seq(Word) /\ z.text \in Seq(Word) /\ op \in Word
  BY TextIsWords DEF Word, Reserved
<1>2. x.text = Join(y.text, op, z.text)
  BY DEF Linked
<1> DEFINE t == x.text
           a == Len(y.text)
           c == Len(z.text)
<1>3. /\ Len(t) = a + 1 + c /\ \A n \in 1 .. a : t[n] = y.text[n]
      /\ \A n \in 1 .. c : t[a + 1 + n] = z.text[n]
  <2>1. JoinedAs(x.text, y.text, op, z.text)
    BY <1>1, <1>2, JoinPlaces, Zenon
  <2> QED BY <2>1 DEF JoinedAs
<1>4. \A n \in 1 .. Len(t) : t[n] \notin {"(", ")", "NOT"}
  BY PlainWords
<1>5. a \in Nat /\ c \in Nat
  BY <1>1
<1> HIDE DEF t, a, c
<1>6. \A n \in 1 .. a : n \in 1 .. Len(t)
  BY <1>3, <1>5
<1>7. \A n \in 1 .. c : a + 1 + n \in 1 .. Len(t)
  BY <1>3, <1>5
<1>8. \A n \in 1 .. a : y.text[n] \notin {"(", ")", "NOT"}
  BY <1>3, <1>4, <1>6
<1>9. \A n \in 1 .. c : z.text[n] \notin {"(", ")", "NOT"}
  BY <1>3, <1>4, <1>7
<1> QED
  BY <1>8, <1>9, PlainWords DEF a, c

\* A plain factor is a name.
LEMMA PlainFactor ==
  ASSUME NEW x \in Factors, PlainText(x)
  PROVE  \E n \in Names : x = Named(n)
<1>0. Factors \subseteq Derived /\ Sums \subseteq Derived
  BY DEF Derived
<1>1. x.text \in Seq(Word) /\ x.text # << >>
  BY <1>0, TextIsWords, SomeText
<1>2. \A n \in 1 .. Len(x.text) : x.text[n] \notin {"(", ")", "NOT"}
  BY <1>0, PlainWords
<1>3. x.text[1] \notin {"(", ")", "NOT"}
  BY <1>1, <1>2
<1>4. ASSUME NEW y \in Factors, x = Not(y) PROVE FALSE
  <2>1. Head(x.text) = "NOT"
    BY <1>0, <1>4, NotText
  <2>2. Head(x.text) = x.text[1]
    BY <1>1
  <2> QED BY <1>3, <2>1, <2>2
<1>5. ASSUME NEW y \in Sums, x = Grouped(y) PROVE FALSE
  <2>1. x.text = Paren(y.text) /\ y.text \in Seq(Word)
    BY <1>0, <1>5, GroupedText, TextIsWords
  <2>2. Paren(y.text)[1] = "("
    BY <2>1, ParenFacts
  <2> QED BY <1>3, <2>1, <2>2
<1> QED
  BY <1>4, <1>5, FactorCases, Zenon

\* A plain factor holds no operator, and a plain term no OR.
Without(op, x) == \A n \in 1 .. Len(x.text) : x.text[n] # op

\* It holds neither operator.
LEMMA FactorWithout == \A x \in PlainOf(Factors) : Without("AND", x) /\ Without("OR", x)
<1> SUFFICES ASSUME NEW x \in Factors, PlainText(x) PROVE Without("AND", x) /\ Without("OR", x)
  BY DEF PlainOf
<1>1. PICK n \in Names : x = Named(n)
  BY PlainFactor
<1>2. x.text = << n >> /\ n \notin Reserved
  BY <1>1, NamedText
<1>3. n # "AND" /\ n # "OR"
  BY <1>2 DEF Reserved
<1>4. \A i \in 1 .. Len(x.text) : x.text[i] = n
  BY <1>2
<1> QED
  BY <1>3, <1>4 DEF Without

\* An AND brings no OR.
LEMMA LinkedWithout ==
  ASSUME NEW x, NEW y \in Derived, NEW z \in Derived, NEW v, Linked(x, y, z, "AND", v),
         Without("OR", y), Without("OR", z)
  PROVE  Without("OR", x)
<1>1. y.text \in Seq(Word) /\ z.text \in Seq(Word) /\ "AND" \in Word
  BY TextIsWords DEF Word, Reserved
<1>2. x.text = Join(y.text, "AND", z.text)
  BY DEF Linked
<1> DEFINE t == x.text
           a == Len(y.text)
           c == Len(z.text)
<1>3. /\ Len(t) = a + 1 + c /\ \A n \in 1 .. a : t[n] = y.text[n]
      /\ t[a + 1] = "AND" /\ \A n \in 1 .. c : t[a + 1 + n] = z.text[n]
  <2>1. JoinedAs(x.text, y.text, "AND", z.text)
    BY <1>1, <1>2, JoinPlaces, Zenon
  <2> QED BY <2>1 DEF JoinedAs
<1>5. a \in Nat /\ c \in Nat
  BY <1>1
<1>6. (\A n \in 1 .. a : y.text[n] # "OR") /\ \A n \in 1 .. c : z.text[n] # "OR"
  BY DEF Without
<1> HIDE DEF t, a, c
<1>7. ASSUME NEW n \in 1 .. Len(t) PROVE t[n] # "OR"
  <2>1. n \in 1 .. a \/ n = a + 1 \/ (n - (a + 1) \in 1 .. c /\ a + 1 + (n - (a + 1)) = n)
    BY <1>3, <1>5
  <2> QED BY <1>3, <1>6, <2>1
<1> QED
  BY <1>7 DEF t, Without

\* A plain term holds no OR.
LEMMA TermWithout == \A x \in PlainOf(Terms) : Without("OR", x)
<1> DEFINE S == {x \in Derived : x \in Terms /\ PlainText(x) => Without("OR", x)}
<1>0. Factors \subseteq Derived /\ Terms \subseteq Derived
  BY DEF Derived
<1>1. ASSUME NEW x \in Terms, PlainText(x), \A y \in Derived : Shorter(y, x) => y \in S
      PROVE  Without("OR", x)
  <2>1. CASE x \in Factors
    BY <1>1, <2>1, FactorWithout DEF PlainOf
  <2>2. CASE x \notin Factors
    <3>1. PICK y \in Factors, z \in Terms : Linked(x, y, z, "AND", "true")
      BY <2>2, TermCases, Zenon
    <3>2. x \in Derived /\ y \in Derived /\ z \in Derived /\ Shorter(z, x) /\ "AND" \in {"AND", "OR"}
      BY <1>0, <3>1 DEF Linked
    <3>3. PlainText(y) /\ PlainText(z)
      BY <1>1, <3>1, <3>2, PlainLinked, Zenon
    <3>4. Without("OR", y)
      BY <3>3, FactorWithout DEF PlainOf
    <3>5. Without("OR", z)
      BY <1>1, <3>2, <3>3
    <3> QED BY <3>1, <3>2, <3>4, <3>5, LinkedWithout, Zenon
  <2> QED BY <2>1, <2>2
<1>2. Derived \subseteq S
  <2>1. \A x \in Derived : (\A y \in Derived : Shorter(y, x) => y \in S) => x \in S
    BY <1>1, Zenon
  <2> HIDE DEF S
  <2> QED BY <2>1, ByLength, Zenon
<1> QED
  BY <1>0, <1>2 DEF PlainOf

\* The plain sums are a level above the plain terms, with parentheses unseen.
LEMMA SchedulersOrs == Level(PlainOf(Terms), PlainOf(Sums), "OR", "false", FALSE)
<1>0. Terms \subseteq Derived /\ Sums \subseteq Derived /\ "OR" \in Word /\ "OR" \in {"AND", "OR"}
  BY DEF Derived, Word, Reserved
<1>1. PlainOf(Terms) \subseteq Derived /\ PlainOf(Sums) \subseteq Derived
  BY <1>0 DEF PlainOf
<1>2. ASSUME NEW y \in PlainOf(Terms) PROVE Calm(y.text, "OR", FALSE)
  <2>1. y.text \in Seq(Word) /\ \A n \in 1 .. Len(y.text) : y.text[n] # "OR"
    BY <1>1, TextIsWords, TermWithout DEF Without
  <2> QED BY <2>1, AbsentIsCalm
<1>3. ASSUME NEW x \in PlainOf(Sums), x \notin PlainOf(Terms)
      PROVE  \E y \in PlainOf(Terms) : \E z \in PlainOf(Sums) : Linked(x, y, z, "OR", "false")
  <2>1. x \in Sums /\ PlainText(x) /\ x \notin Terms
    BY <1>3 DEF PlainOf
  <2>2. PICK y \in Terms, z \in Sums : Linked(x, y, z, "OR", "false")
    BY <2>1, SumCases, Zenon
  <2>3. x \in Derived /\ y \in Derived /\ z \in Derived
    BY <1>0, <2>1
  <2>4. PlainText(y) /\ PlainText(z)
    BY <1>0, <2>1, <2>2, <2>3, PlainLinked, Zenon
  <2> QED BY <2>2, <2>4 DEF PlainOf
<1> QED
  BY <1>0, <1>1, <1>2, <1>3, Zenon DEF Level

\* The plain terms are a level above the plain factors.
LEMMA SchedulersAnds == Level(PlainOf(Factors), PlainOf(Terms), "AND", "true", FALSE)
<1>0. Factors \subseteq Derived /\ Terms \subseteq Derived /\ "AND" \in Word /\ "AND" \in {"AND", "OR"}
  BY DEF Derived, Word, Reserved
<1>1. PlainOf(Factors) \subseteq Derived /\ PlainOf(Terms) \subseteq Derived
  BY <1>0 DEF PlainOf
<1>2. ASSUME NEW y \in PlainOf(Factors) PROVE Calm(y.text, "AND", FALSE)
  <2>1. y.text \in Seq(Word) /\ \A n \in 1 .. Len(y.text) : y.text[n] # "AND"
    BY <1>1, TextIsWords, FactorWithout DEF Without
  <2> QED BY <2>1, AbsentIsCalm
<1>3. ASSUME NEW x \in PlainOf(Terms), x \notin PlainOf(Factors)
      PROVE  \E y \in PlainOf(Factors) : \E z \in PlainOf(Terms) : Linked(x, y, z, "AND", "true")
  <2>1. x \in Terms /\ PlainText(x) /\ x \notin Factors
    BY <1>3 DEF PlainOf
  <2>2. PICK y \in Factors, z \in Terms : Linked(x, y, z, "AND", "true")
    BY <2>1, TermCases, Zenon
  <2>3. x \in Derived /\ y \in Derived /\ z \in Derived
    BY <1>0, <2>1
  <2>4. PlainText(y) /\ PlainText(z)
    BY <1>0, <2>1, <2>2, <2>3, PlainLinked, Zenon
  <2> QED BY <2>2, <2>4 DEF PlainOf
<1> QED
  BY <1>0, <1>1, <1>2, <1>3, Zenon DEF Level

-----------------------------------------------------------------------------
(* Guards: the parts of a plain guard decide what it says                  *)

\* One part decides for an OR, all of them for an AND.
Decides(b, ps, v) == IF v = "false" THEN \E k \in DOMAIN ps : b[ps[k]] ELSE \A k \in DOMAIN ps : b[ps[k]]

\* One part decides alone.
LEMMA DecidesOne == \A b, u, v : Decides(b, << u >>, v) <=> b[u]
<1> SUFFICES ASSUME NEW b, NEW u, NEW v PROVE Decides(b, << u >>, v) <=> b[u]
  OBVIOUS
<1> DEFINE s == << u >>
<1>1. DOMAIN s = {1} /\ s[1] = u
  OBVIOUS
<1> HIDE DEF s
<1>2. 1 \in DOMAIN s /\ \A k \in DOMAIN s : k = 1
  BY <1>1
<1>3. (\E k \in DOMAIN s : b[s[k]]) <=> b[u]
  BY <1>1, <1>2
<1>4. (\A k \in DOMAIN s : b[s[k]]) <=> b[u]
  BY <1>1, <1>2
<1> QED
  BY <1>3, <1>4 DEF Decides, s

\* One part more, in front.
LEMMA DecidesMore ==
  ASSUME NEW b, NEW u \in Seq(Word), NEW ps \in Seq(Seq(Word)), NEW v
  PROVE  Decides(b, << u >> \o ps, v)
            <=> IF v = "false" THEN b[u] \/ Decides(b, ps, v) ELSE b[u] /\ Decides(b, ps, v)
<1> DEFINE qs == << u >> \o ps
           n == Len(ps)
<1>1. n \in Nat /\ DOMAIN ps = 1 .. n /\ DOMAIN qs = 1 .. (n + 1) /\ qs[1] = u
      /\ \A i \in 1 .. n : qs[i + 1] = ps[i]
  OBVIOUS
<1> HIDE DEF qs, n
<1>2. 1 \in DOMAIN qs /\ \A i \in DOMAIN ps : i + 1 \in DOMAIN qs /\ qs[i + 1] = ps[i]
  BY <1>1
<1>3. \A k \in DOMAIN qs : k = 1 \/ \E i \in DOMAIN ps : qs[k] = ps[i]
  <2> SUFFICES ASSUME NEW k \in DOMAIN qs, k # 1 PROVE \E i \in DOMAIN ps : qs[k] = ps[i]
    OBVIOUS
  <2>1. k - 1 \in 1 .. n /\ (k - 1) + 1 = k
    BY <1>1
  <2> QED BY <1>1, <2>1
<1>a. qs[1] = u
  BY <1>1
<1>4. (\E k \in DOMAIN qs : b[qs[k]]) <=> b[u] \/ \E k \in DOMAIN ps : b[ps[k]]
  BY <1>2, <1>3, <1>a
<1>5. (\A k \in DOMAIN qs : b[qs[k]]) <=> b[u] /\ \A k \in DOMAIN ps : b[ps[k]]
  BY <1>2, <1>3, <1>a
<1> QED
  BY <1>4, <1>5 DEF Decides, qs

Truth(v) == v = "true" \/ v = "false"

\* What the scheduler reads is so, where it says something.
Told(b, y, f) == y.says[f] # "unknown" => (b[y.text] <=> y.says[f] = "true")
ToldUpTo(b, Lower, x, f) == \A y \in Lower : y = x \/ Shorter(y, x) => Told(b, y, f)
ToldBelow(b, Lower, x, f) == \A y \in Lower : Shorter(y, x) => Told(b, y, f)
PartsTold(b, op, v, nested, x, f) ==
    x.says[f] # "unknown" => (Decides(b, PartsOf(x.text, op, nested), v) <=> x.says[f] = "true")

\* What an operator puts together is told, where its two sides are.
LEMMA LinkedTold ==
  ASSUME NEW Lower, NEW Upper, NEW op, NEW v, Truth(v), NEW nested, Level(Lower, Upper, op, v, nested),
         NEW x, NEW y \in Lower, NEW z \in Upper, Linked(x, y, z, op, v), NEW b, NEW f \in Flags,
         Told(b, y, f), PartsTold(b, op, v, nested, z, f)
  PROVE  PartsTold(b, op, v, nested, x, f)
<1>1. PartsOf(x.text, op, nested) = << y.text >> \o PartsOf(z.text, op, nested)
  BY LinkedParts
<1>2. y.text \in Seq(Word) /\ z.text \in Seq(Word)
  BY TextIsWords, Zenon DEF Level
<1>3. PartsOf(z.text, op, nested) \in Seq(Seq(Word))
  BY <1>2, PartsListed
<1> DEFINE ps == PartsOf(z.text, op, nested)
           qs == PartsOf(x.text, op, nested)
<1>5. Decides(b, qs, v) <=> IF v = "false" THEN b[y.text] \/ Decides(b, ps, v) ELSE b[y.text] /\ Decides(b, ps, v)
  BY <1>1, <1>2, <1>3, DecidesMore, ZenonT(30)
<1>6. x.says[f] = IF y.says[f] = v THEN z.says[f] ELSE y.says[f]
  <2> DEFINE said == [e \in Flags |-> IF y.says[e] = v THEN z.says[e] ELSE y.says[e]]
  <2>1. said[f] = IF y.says[f] = v THEN z.says[f] ELSE y.says[f]
    OBVIOUS
  <2>2. x.says = said
    BY DEF Linked
  <2> HIDE DEF said
  <2> QED BY <2>1, <2>2
<1>7. y.says[f] \in Verdict
  <2>1. y \in Derived
    BY DEF Level
  <2>2. y.says \in [Flags -> Verdict]
    BY <2>1, EveryShape, Zenon DEF Shape
  <2> QED BY <2>2
<1>8. y.says[f] = "true" \/ y.says[f] = "false" \/ y.says[f] = "unknown"
  BY <1>7, Zenon DEF Verdict
<1> HIDE DEF ps, qs
<1>9. y.says[f] # "unknown" => (b[y.text] <=> y.says[f] = "true")
  BY Zenon DEF Told
<1>10. z.says[f] # "unknown" => (Decides(b, ps, v) <=> z.says[f] = "true")
  BY Zenon DEF PartsTold, ps
<1>11. x.says[f] # "unknown" => (Decides(b, qs, v) <=> x.says[f] = "true")
  <2> DEFINE X == x.says[f]
             Y == y.says[f]
             Z == z.says[f]
  <2>1. X = IF Y = v THEN Z ELSE Y
    BY <1>6
  <2>2. Y = "true" \/ Y = "false" \/ Y = "unknown"
    BY <1>8
  <2>3. Y # "unknown" => (b[y.text] <=> Y = "true")
    BY <1>9
  <2>4. Z # "unknown" => (Decides(b, ps, v) <=> Z = "true")
    BY <1>10
  <2> HIDE DEF X, Y, Z
  <2>5. CASE v = "false"
    <3>1. Decides(b, qs, v) <=> b[y.text] \/ Decides(b, ps, v)
      BY <1>5, <2>5
    <3> QED BY <2>1, <2>2, <2>3, <2>4, <2>5, <3>1 DEF X
  <2>6. CASE v = "true"
    <3>1. Decides(b, qs, v) <=> b[y.text] /\ Decides(b, ps, v)
      BY <1>5, <2>6
    <3> QED BY <2>1, <2>2, <2>3, <2>4, <2>6, <3>1 DEF X
  <2> QED BY <2>5, <2>6 DEF Truth
<1> QED
  BY <1>11, Zenon DEF PartsTold, qs

\* On a level, the parts decide what the whole says.
LEMMA TellParts ==
  ASSUME NEW Lower, NEW Upper, NEW op, NEW v, Truth(v), NEW nested,
         Level(Lower, Upper, op, v, nested), NEW b, NEW f \in Flags
  PROVE  \A x \in Upper : ToldUpTo(b, Lower, x, f) => PartsTold(b, op, v, nested, x, f)
<1> DEFINE S == {x \in Derived : x \in Upper /\ ToldUpTo(b, Lower, x, f) => PartsTold(b, op, v, nested, x, f)}
<1>0. Lower \subseteq Derived /\ Upper \subseteq Derived
  BY DEF Level
<1>1. ASSUME NEW x \in Upper, \A y \in Derived : Shorter(y, x) => y \in S, ToldUpTo(b, Lower, x, f)
      PROVE  PartsTold(b, op, v, nested, x, f)
  <2>1. CASE x \in Lower
    <3>1. Calm(x.text, op, nested) /\ x.text \in Seq(Word)
      BY <1>0, <2>1, TextIsWords, Zenon DEF Level
    <3>2. PartsOf(x.text, op, nested) = << x.text >>
      BY <3>1, SplitWhole
    <3>3. Decides(b, << x.text >>, v) <=> b[x.text]
      BY DecidesOne, Zenon
    <3>4. Told(b, x, f)
      BY <1>1, <2>1, Zenon DEF ToldUpTo
    <3>5. Decides(b, PartsOf(x.text, op, nested), v) <=> b[x.text]
      BY <3>2, <3>3
    <3> QED BY <3>4, <3>5, Zenon DEF Told, PartsTold
  <2>2. CASE x \notin Lower
    <3>1. PICK y \in Lower, z \in Upper : Linked(x, y, z, op, v)
      BY <2>2, Zenon DEF Level
    <3>2. Shorter(y, x) /\ Shorter(z, x) /\ y \in Derived /\ z \in Derived /\ x \in Derived
      BY <1>0, <3>1, Zenon DEF Linked
    <3>3. Told(b, y, f)
      BY <1>1, <3>2, Zenon DEF ToldUpTo
    <3>5. ToldUpTo(b, Lower, z, f)
      BY <1>0, <1>1, <3>2, ShorterOn, Zenon DEF ToldUpTo
    <3>6. PartsTold(b, op, v, nested, z, f)
      BY <1>1, <3>2, <3>5
    <3> QED BY <3>1, <3>3, <3>6, LinkedTold
  <2> QED BY <2>1, <2>2
<1>2. Derived \subseteq S
  <2>1. \A x \in Derived : (\A y \in Derived : Shorter(y, x) => y \in S) => x \in S
    BY <1>1, Zenon
  <2> HIDE DEF S
  <2> QED BY <2>1, ByLength, Zenon
<1> QED
  BY <1>0, <1>2

\* The same from what is shorter.
LEMMA LinkedPartsTold ==
  ASSUME NEW Lower, NEW Upper, NEW op, NEW v, Truth(v), NEW nested, Level(Lower, Upper, op, v, nested),
         NEW x \in Derived, NEW y \in Lower, NEW z \in Upper, Linked(x, y, z, op, v), NEW b, NEW f \in Flags,
         ToldBelow(b, Lower, x, f)
  PROVE  PartsTold(b, op, v, nested, x, f)
<1>1. Lower \subseteq Derived /\ Upper \subseteq Derived /\ Shorter(y, x) /\ Shorter(z, x)
  BY Zenon DEF Level, Linked
<1>2. Told(b, y, f)
  BY <1>1, Zenon DEF ToldBelow
<1>3. ToldUpTo(b, Lower, z, f)
  BY <1>1, ShorterOn, Zenon DEF ToldBelow, ToldUpTo
<1>4. PartsTold(b, op, v, nested, z, f)
  BY <1>3, TellParts
<1> QED
  BY <1>2, <1>4, LinkedTold

\* The same for all guards of a level.
LEMMA LevelTells ==
  ASSUME NEW Lower, NEW Upper, NEW op, NEW v, Truth(v), NEW nested,
         Level(Lower, Upper, op, v, nested), NEW b, NEW f \in Flags
  PROVE  \A x \in Derived : \A y \in Lower : \A z \in Upper :
            Linked(x, y, z, op, v) /\ ToldBelow(b, Lower, x, f) => PartsTold(b, op, v, nested, x, f)
BY LinkedPartsTold

-----------------------------------------------------------------------------
(* Guards: the scheduler reads plain guards                                *)

\* The same for the reader that does not see parentheses.
LEMMA PlainTold ==
  ASSUME NEW Lower, NEW Upper, NEW op, NEW v, Truth(v), NEW b, NEW f \in Flags,
         Level(Lower, Upper, op, v, FALSE)
  PROVE  \A x \in Derived : \A y \in Lower : \A z \in Upper :
            Linked(x, y, z, op, v) /\ ToldBelow(b, Lower, x, f) => PartsTold(b, op, v, FALSE, x, f)
<1>1. PICK nested : nested = FALSE
  OBVIOUS
<1>2. Level(Lower, Upper, op, v, nested)
  BY <1>1
<1>3. \A x \in Derived : \A y \in Lower : \A z \in Upper :
         Linked(x, y, z, op, v) /\ ToldBelow(b, Lower, x, f) => PartsTold(b, op, v, nested, x, f)
  BY <1>2, LevelTells
<1> QED
  BY <1>1, <1>3

\* It finds more than one part, where an operator stands.
LEMMA ManyPlain ==
  ASSUME NEW Lower, NEW Upper, NEW op, NEW v, Level(Lower, Upper, op, v, FALSE)
  PROVE  \A x : \A y \in Lower : \A z \in Upper :
            Linked(x, y, z, op, v) => Len(SplitAnywhere(x.text, op)) > 1
<1>1. PICK nested : nested = FALSE
  OBVIOUS
<1>2. Level(Lower, Upper, op, v, nested)
  BY <1>1
<1>3. \A x : \A y \in Lower : \A z \in Upper :
         Linked(x, y, z, op, v) => Len(PartsOf(x.text, op, nested)) > 1
  BY <1>2, ManyParts
<1>4. \A text : PartsOf(text, op, nested) = SplitAnywhere(text, op)
  BY <1>1 DEF SplitAnywhere
<1> QED
  BY <1>3, <1>4, Zenon

\* One call of the scheduler, by what it finds.
LEMMA CallActiveOrs ==
  ASSUME NEW b, NEW text, NEW f, Len(SplitAnywhere(text, "OR")) > 1
  PROVE  CallActive(b, text, f) <=> Decides(b, SplitAnywhere(text, "OR"), "false")
<1>1. ~(Len(SplitAnywhere(text, "OR")) = 1)
  <2>1. \A n : n = 1 => ~(n > 1)
    OBVIOUS
  <2> QED BY <2>1, Zenon
<1> QED
  BY <1>1 DEF CallActive, Decides

\* A call that finds AND.
LEMMA CallActiveAnds ==
  ASSUME NEW b, NEW text, NEW f, Len(SplitAnywhere(text, "OR")) = 1, Len(SplitAnywhere(text, "AND")) > 1
  PROVE  CallActive(b, text, f) <=> Decides(b, SplitAnywhere(text, "AND"), "true")
<1>1. ~(Len(SplitAnywhere(text, "OR")) > 1)
  <2>1. \A n : n = 1 => ~(n > 1)
    OBVIOUS
  <2> QED BY <2>1, Zenon
<1> QED
  BY <1>1 DEF CallActive, Decides

\* A call that finds a name.
LEMMA CallActiveFlag ==
  ASSUME NEW b, NEW text, NEW f, Len(SplitAnywhere(text, "OR")) = 1, Len(SplitAnywhere(text, "AND")) = 1
  PROVE  CallActive(b, text, f) <=> GuardFlag(text, f) = "true"
<1>1. ~(Len(SplitAnywhere(text, "OR")) > 1) /\ ~(Len(SplitAnywhere(text, "AND")) > 1)
  <2>1. \A n : n = 1 => ~(n > 1)
    OBVIOUS
  <2> QED BY <2>1, Zenon
<1> QED
  BY <1>1 DEF CallActive

\* It finds one part, where no operator stands.
LEMMA OneWithout ==
  ASSUME NEW x \in Derived, NEW op, Without(op, x)
  PROVE  Len(SplitAnywhere(x.text, op)) = 1
<1>1. x.text \in Seq(Word) /\ \A n \in 1 .. Len(x.text) : x.text[n] # op
  BY TextIsWords DEF Without
<1>2. Calm(x.text, op, FALSE)
  BY <1>1, AbsentIsCalm
<1>3. SplitAnywhere(x.text, op) = << x.text >>
  BY <1>1, <1>2, SplitWhole DEF SplitAnywhere
<1> QED
  BY <1>3

CallTold(b, x, f) == x.says[f] # "unknown" => (CallActive(b, x.text, f) <=> x.says[f] = "true")

\* A name is what the metrics make of it.
LEMMA NamedFlag ==
  ASSUME NEW x, NEW n \in Names, x = Named(n), NEW f \in Flags
  PROVE  GuardFlag(x.text, f) = x.says[f]
<1>1. x.text = << n >> /\ n \in Word /\ n \notin Reserved
  BY NamedText
<1>2. n # "true" /\ n # "false"
  BY <1>1 DEF Reserved
<1>3. x.says[f] = f[n]
  BY DEF Named
<1>4. GuardFlag(<< n >>, f) = f[n]
  <2>1. f \in [Names -> Verdict]
    BY NamesAssumption
  <2>2. n \in DOMAIN f
    BY <2>1
  <2>3. << n >> # << >> /\ << n >> # << "true" >> /\ << n >> # << "false" >> /\ Len(<< n >>) = 1 /\ << n >>[1] = n
    BY <1>2
  <2> QED BY <2>2, <2>3 DEF GuardFlag
<1> QED
  BY <1>1, <1>3, <1>4

\* A call of the scheduler tells a plain guard, where it tells what is shorter.
LEMMA CallTells ==
  ASSUME NEW x \in PlainOf(Derived), NEW b, NEW f \in Flags, ToldBelow(b, PlainOf(Derived), x, f)
  PROVE  CallTold(b, x, f)
<1>0. Factors \subseteq Derived /\ Terms \subseteq Derived /\ Sums \subseteq Derived /\ x \in Derived /\ PlainText(x)
  BY DEF Derived, PlainOf
<1>a. Truth("true") /\ Truth("false")
  BY DEF Truth
<1>1. CASE x \in Factors
  <2>1. PICK n \in Names : x = Named(n)
    BY <1>0, <1>1, PlainFactor
  <2>2. Without("AND", x) /\ Without("OR", x)
    BY <1>0, <1>1, FactorWithout DEF PlainOf
  <2>3. Len(SplitAnywhere(x.text, "OR")) = 1 /\ Len(SplitAnywhere(x.text, "AND")) = 1
    BY <1>0, <2>2, OneWithout
  <2>4. CallActive(b, x.text, f) <=> GuardFlag(x.text, f) = "true"
    BY <2>3, CallActiveFlag
  <2>5. GuardFlag(x.text, f) = x.says[f]
    BY <2>1, NamedFlag
  <2> QED BY <2>4, <2>5 DEF CallTold
<1>2. CASE x \notin Factors /\ x \in Terms
  <2>1. x \in PlainOf(Terms) /\ x \notin PlainOf(Factors)
    BY <1>0, <1>2 DEF PlainOf
  <2>2. PICK y \in PlainOf(Factors), z \in PlainOf(Terms) : Linked(x, y, z, "AND", "true")
    BY <2>1, SchedulersAnds, Zenon DEF Level
  <2>3. ToldBelow(b, PlainOf(Factors), x, f)
    <3>1. PlainOf(Factors) \subseteq PlainOf(Derived)
      BY <1>0 DEF PlainOf
    <3> QED BY <3>1, Zenon DEF ToldBelow
  <2>4. PartsTold(b, "AND", "true", FALSE, x, f)
    <3>1. \A p \in Derived : \A q \in PlainOf(Factors) : \A s \in PlainOf(Terms) :
             Linked(p, q, s, "AND", "true") /\ ToldBelow(b, PlainOf(Factors), p, f)
             => PartsTold(b, "AND", "true", FALSE, p, f)
      BY <1>a, SchedulersAnds, PlainTold
    <3> QED BY <1>0, <2>2, <2>3, <3>1, Zenon
  <2>5. Len(SplitAnywhere(x.text, "AND")) > 1
    BY <2>2, SchedulersAnds, ManyPlain
  <2>6. Len(SplitAnywhere(x.text, "OR")) = 1
    <3>1. Without("OR", x)
      BY <2>1, TermWithout
    <3> QED BY <1>0, <3>1, OneWithout
  <2>7. CallActive(b, x.text, f) <=> Decides(b, SplitAnywhere(x.text, "AND"), "true")
    BY <2>5, <2>6, CallActiveAnds
  <2> QED BY <2>4, <2>7, Zenon DEF PartsTold, CallTold, SplitAnywhere
<1>3. CASE x \notin Factors /\ x \notin Terms
  <2>1. x \in PlainOf(Sums) /\ x \notin PlainOf(Terms)
    BY <1>0, <1>3 DEF PlainOf, Derived
  <2>2. PICK y \in PlainOf(Terms), z \in PlainOf(Sums) : Linked(x, y, z, "OR", "false")
    BY <2>1, SchedulersOrs, Zenon DEF Level
  <2>3. ToldBelow(b, PlainOf(Terms), x, f)
    <3>1. PlainOf(Terms) \subseteq PlainOf(Derived)
      BY <1>0 DEF PlainOf
    <3> QED BY <3>1, Zenon DEF ToldBelow
  <2>4. PartsTold(b, "OR", "false", FALSE, x, f)
    <3>1. \A p \in Derived : \A q \in PlainOf(Terms) : \A s \in PlainOf(Sums) :
             Linked(p, q, s, "OR", "false") /\ ToldBelow(b, PlainOf(Terms), p, f)
             => PartsTold(b, "OR", "false", FALSE, p, f)
      BY <1>a, SchedulersOrs, PlainTold
    <3> QED BY <1>0, <2>2, <2>3, <3>1, Zenon
  <2>5. Len(SplitAnywhere(x.text, "OR")) > 1
    BY <2>2, SchedulersOrs, ManyPlain
  <2>7. CallActive(b, x.text, f) <=> Decides(b, SplitAnywhere(x.text, "OR"), "false")
    BY <2>5, CallActiveOrs
  <2> QED BY <2>4, <2>7, Zenon DEF PartsTold, CallTold, SplitAnywhere
<1> QED
  BY <1>1, <1>2, <1>3

ToldAtDepths(r, f, L, x) == \A k \in 1 .. L : Len(x.text) <= k => Told(r[k], x, f)

\* Calls that are as deep as a plain guard is long tell it.
LEMMA DepthsTell ==
  ASSUME NEW L \in Nat, NEW f \in Flags, NEW r, ActiveRun(r, f, L)
  PROVE  \A x \in PlainOf(Derived) : ToldAtDepths(r, f, L, x)
<1> DEFINE S == {x \in Derived : PlainText(x) => ToldAtDepths(r, f, L, x)}
<1>1. ASSUME NEW x \in Derived, PlainText(x), \A y \in Derived : Shorter(y, x) => y \in S,
             NEW k \in 1 .. L, Len(x.text) <= k
      PROVE  Told(r[k], x, f)
  <2> DEFINE b == r[k - 1]
  <2>1. \A t \in Seq(Word) : r[k][t] = CallActive(b, t, f)
    BY <1>1 DEF ActiveRun
  <2>2. \A y \in Derived : y.text \in Seq(Word) /\ Len(y.text) \in Nat /\ Len(y.text) >= 1
    <3>1. \A t \in Seq(Word) : t # << >> => Len(t) \in Nat /\ Len(t) >= 1
      OBVIOUS
    <3> QED BY <3>1, TextIsWords, SomeText, Zenon
  <2>4. ToldBelow(b, PlainOf(Derived), x, f)
    <3> SUFFICES ASSUME NEW y \in PlainOf(Derived), Shorter(y, x) PROVE Told(b, y, f)
      BY Zenon DEF ToldBelow
    <3>0. y \in Derived /\ PlainText(y)
      BY DEF PlainOf
    <3>1. ToldAtDepths(r, f, L, y) /\ Len(y.text) < Len(x.text)
      BY <1>1, <3>0 DEF Shorter
    <3>2. k - 1 \in 1 .. L /\ Len(y.text) <= k - 1
      <4>1. Len(y.text) \in Nat /\ Len(y.text) >= 1 /\ Len(x.text) \in Nat
        BY <2>2, <3>0
      <4>2. \A m, n \in Nat : m < n /\ n <= k /\ m >= 1 => k - 1 \in 1 .. L /\ m <= k - 1
        OBVIOUS
      <4> QED BY <1>1, <3>1, <4>1, <4>2, Zenon
    <3> QED BY <3>1, <3>2, Zenon DEF ToldAtDepths
  <2> HIDE DEF b
  <2>6. CallTold(b, x, f)
    <3>1. x \in PlainOf(Derived)
      BY <1>1 DEF PlainOf
    <3> QED BY <2>4, <3>1, CallTells
  <2>7. r[k][x.text] = CallActive(b, x.text, f)
    BY <2>1, <2>2
  <2> QED BY <2>6, <2>7 DEF CallTold, Told
<1>2. \A x \in Derived : (\A y \in Derived : Shorter(y, x) => y \in S) => x \in S
  BY <1>1, Zenon DEF ToldAtDepths
<1>3. Derived \subseteq S
  <2> HIDE DEF S
  <2> QED BY <1>2, ByLength, Zenon
<1> QED
  BY <1>3 DEF PlainOf

\* The scheduler reads what a plain guard says, where it says something.
LEMMA SchedulerReads ==
  ASSUME NEW x \in Derived, PlainText(x), NEW f \in Flags, x.says[f] # "unknown"
  PROVE  GuardActive(x.text, f) <=> x.says[f] = "true"
<1> DEFINE L == Len(x.text)
<1>1. x.text \in Seq(Word) /\ x.text # << >>
  BY TextIsWords, SomeText
<1>2. PICK r : ActiveRun(r, f, L) /\ GuardActive(x.text, f) = r[L][x.text]
  BY <1>1, ActiveSteps
<1>3. L \in Nat /\ L \in 1 .. L /\ L <= L
  BY <1>1
<1> HIDE DEF L
<1>4. ToldAtDepths(r, f, L, x)
  <2>1. x \in PlainOf(Derived)
    BY DEF PlainOf
  <2> QED BY <1>2, <1>3, <2>1, DepthsTell, Zenon
<1>5. Told(r[L], x, f)
  <2>1. Len(x.text) = L
    BY DEF L
  <2> QED BY <1>3, <1>4, <2>1 DEF ToldAtDepths
<1>6. r[L][x.text] <=> x.says[f] = "true"
  BY <1>5, Zenon DEF Told
<1> QED
  BY <1>2, <1>6

-----------------------------------------------------------------------------
(* Read alike, serialised apart, and in the order the trust layer expects  *)

\* The guards of the batch are guards the grammar derives.
GuardsKept == guards \subseteq [scope : SUBSET Action, expr : Sums] /\ flags \in Flags

\* The guards stay, and the metrics of every call are metrics.
LEMMA GuardsInductive ==
  /\ BatchInit => GuardsKept
  /\ GuardsKept /\ [BatchNext]_batchVars => GuardsKept'
<1>1. BatchInit => GuardsKept
  <2>1. \A gs \in GuardSets : gs \subseteq [scope : SUBSET Action, expr : Sums]
    BY PatchAssumption DEF PatchAssumption
  <2> QED BY <2>1, Zenon DEF BatchInit, GuardsKept
<1>2. GuardsKept /\ [BatchNext]_batchVars => GuardsKept'
  <2> SUFFICES ASSUME GuardsKept, [BatchNext]_batchVars PROVE GuardsKept'
    OBVIOUS
  <2>1. guards' = guards /\ (flags' = flags \/ flags' \in Flags)
    BY Zenon DEF BatchNext, AppendFallback, ObserveGuards, batchVars
  <2> QED BY <2>1 DEF GuardsKept
<1> QED
  BY <1>1, <1>2

\* Such guards are read as they are meant, by the runner and, where the scheduler is made
\* for them, by the scheduler.
LEMMA KeptAreRead == GuardsKept => GuardsReadAlike
<1> SUFFICES ASSUME GuardsKept, NEW g \in guards
             PROVE  /\ GuardOk(g.expr.text, flags) = g.expr.says[flags]
                    /\ PlainText(g.expr) /\ g.expr.says[flags] # "unknown" =>
                           (GuardActive(g.expr.text, flags) <=> g.expr.says[flags] = "true")
  BY Zenon DEF GuardsReadAlike
<1>1. g.expr \in Derived /\ flags \in Flags
  BY DEF GuardsKept, Derived
<1>2. GuardOk(g.expr.text, flags) = g.expr.says[flags]
  BY <1>1, RunnerReads, Zenon
<1>3. PlainText(g.expr) /\ g.expr.says[flags] # "unknown" =>
          (GuardActive(g.expr.text, flags) <=> g.expr.says[flags] = "true")
  BY <1>1, SchedulerReads, Zenon
<1> QED
  BY <1>2, <1>3

\* The runner (_guard_ok) reads every guard the grammar derives as it is meant, under all
\* metrics; the scheduler (_guard_active) reads the same of those written with AND and OR.
THEOREM ReadAlike == BatchSpec => []GuardsReadAlike
<1> QED
  BY KeptAreRead, GuardsInductive, PTL DEF BatchSpec

\* Whatever rows come, no two actions that a failed guard speaks of run in one wave.
THEOREM KeptApart == BatchSpec => []SerialisedApart
<1>1. FallbackKept /\ GuardsKept => SerialisedApart
  BY ReadIsApart, KeptAreRead DEF GuardsReadAlike, GuardsRead
<1> QED
  BY <1>1, FallbackInductive, GuardsInductive, PTL DEF BatchSpec

\* While no guard fails and no row cuts groups or serialises a protocol, the runner
\* finishes first what the validator of the trust layer puts first.
THEOREM FollowsPlainly == BatchSpec => []FollowsRuntimeWhenPlain
<1>1. FallbackKept /\ GuardsKept => FollowsRuntimeWhenPlain
  BY ReadFollows, KeptAreRead DEF GuardsReadAlike, GuardsRead
<1> QED
  BY <1>1, FallbackInductive, GuardsInductive, PTL DEF BatchSpec

-----------------------------------------------------------------------------
(* Grouping: sequences in order                                            *)

\* The pairs order S strictly and totally.
StrictOrder(before, S) ==
    /\ \A x \in S : << x, x >> \notin before
    /\ \A x, y \in S : x # y => << x, y >> \in before \/ << y, x >> \in before
    /\ \A x, y, z \in S : << x, y >> \in before /\ << y, z >> \in before => << x, z >> \in before

\* r lists the members of S, each once.
ListsMembers(r, S) ==
    /\ Cardinality(S) \in Nat
    /\ r \in [1 .. Cardinality(S) -> S]
    /\ \A m, n \in 1 .. Cardinality(S) : r[m] = r[n] => m = n
    /\ \A x \in S : \E n \in 1 .. Cardinality(S) : r[n] = x

\* The members of a finite set have places in its order.
LEMMA RankedAll ==
  ASSUME NEW S, IsFiniteSet(S), NEW before, StrictOrder(before, S)
  PROVE  ListsMembers(Ranked(S, before), S)
<1> DEFINE N == Cardinality(S)
           Under(x) == {y \in S : << y, x >> \in before}
           c == [x \in S |-> Cardinality(Under(x)) + 1]
<1>1. N \in Nat
  BY FS_CardinalityType
<1>2. ASSUME NEW x \in S
      PROVE  /\ IsFiniteSet(Under(x)) /\ Cardinality(Under(x)) \in Nat
             /\ Cardinality(Under(x)) < N
  <2>1. Under(x) \in SUBSET (S \ {x})
    BY DEF StrictOrder
  <2>2. IsFiniteSet(S \ {x}) /\ Cardinality(S \ {x}) = N - 1
    BY FS_RemoveElement
  <2> HIDE DEF Under
  <2>3. IsFiniteSet(Under(x)) /\ Cardinality(Under(x)) <= Cardinality(S \ {x})
    BY <2>1, <2>2, FS_Subset
  <2>4. Cardinality(Under(x)) \in Nat
    BY <2>3, FS_CardinalityType
  <2> HIDE DEF N
  <2> QED BY <1>1, <2>2, <2>3, <2>4
<1>3. ASSUME NEW x \in S, NEW y \in S, << x, y >> \in before PROVE Cardinality(Under(x)) < Cardinality(Under(y))
  <2>1. Under(x) \in SUBSET Under(y) /\ x \in Under(y) /\ x \notin Under(x)
    BY <1>3 DEF StrictOrder
  <2> HIDE DEF Under
  <2>2. /\ IsFiniteSet(Under(y)) /\ Cardinality(Under(y)) \in Nat /\ Cardinality(Under(x)) \in Nat
    BY <1>2
  <2>3. Cardinality(Under(x)) <= Cardinality(Under(y)) /\ Cardinality(Under(x)) # Cardinality(Under(y))
    BY <2>1, <2>2, FS_Subset
  <2> QED BY <2>2, <2>3
<1>4. c \in [S -> 1 .. N]
  <2>1. \A x \in S : Cardinality(Under(x)) + 1 \in 1 .. N
    <3> HIDE DEF Under, N
    <3> QED BY <1>1, <1>2
  <2> HIDE DEF Under, N
  <2> QED BY <2>1
<1>5. \A x, y \in S : c[x] = c[y] => x = y
  <2> SUFFICES ASSUME NEW x \in S, NEW y \in S, x # y PROVE c[x] # c[y]
    OBVIOUS
  <2> HIDE DEF Under, N
  <2>0. /\ Cardinality(Under(x)) \in Nat /\ Cardinality(Under(y)) \in Nat
    BY <1>2
  <2>1. /\ Cardinality(Under(x)) \in Nat /\ Cardinality(Under(y)) \in Nat
        /\ Cardinality(Under(x)) # Cardinality(Under(y))
    <3>1. << x, y >> \in before \/ << y, x >> \in before
      BY DEF StrictOrder
    <3>2. \/ Cardinality(Under(x)) < Cardinality(Under(y))
          \/ Cardinality(Under(y)) < Cardinality(Under(x))
      BY <1>3, <3>1, Zenon
    <3> QED BY <2>0, <3>2
  <2> QED BY <2>1
<1>6. \A n \in 1 .. N : \E x \in S : c[x] = n
  <2> HIDE DEF c
  <2>1. c \in Injection(S, 1 .. N)
    BY <1>4, <1>5 DEF Injection, IsInjective
  <2>2. IsFiniteSet(1 .. N) /\ Cardinality(1 .. N) = N
    BY <1>1, FS_Interval
  <2>3. c \in Surjection(S, 1 .. N)
    BY <2>1, <2>2, FS_Injection
  <2> QED BY <2>3 DEF Surjection
<1> DEFINE r == Ranked(S, before)
<1>7. r = [n \in 1 .. N |-> CHOOSE x \in S : Cardinality(Under(x)) = n - 1]
  BY DEF Ranked
<1>8. ASSUME NEW n \in 1 .. N PROVE r[n] \in S /\ c[r[n]] = n
  <2>1. \E x \in S : Cardinality(Under(x)) = n - 1
    <3>1. PICK x \in S : c[x] = n
      BY <1>6
    <3> HIDE DEF Under, N
    <3> QED BY <1>2, <3>1
  <2>2. r[n] = CHOOSE x \in S : Cardinality(Under(x)) = n - 1
    BY <1>7
  <2> HIDE DEF r, Under, N
  <2>3. r[n] \in S /\ Cardinality(Under(r[n])) = n - 1
    BY <2>1, <2>2, Zenon
  <2> QED BY <1>1, <2>3
<1>9. \A x \in S : \E n \in 1 .. N : r[n] = x
  <2> SUFFICES ASSUME NEW x \in S PROVE r[c[x]] = x /\ c[x] \in 1 .. N
    OBVIOUS
  <2> HIDE DEF r, c, N
  <2> QED BY <1>4, <1>5, <1>8
<1>10. r \in [1 .. N -> S]
  <2>1. r = [n \in 1 .. N |-> r[n]]
    BY <1>7
  <2> HIDE DEF r, N
  <2> QED BY <1>8, <2>1
<1>11. \A m, n \in 1 .. N : r[m] = r[n] => m = n
  <2> HIDE DEF r, c, N
  <2> QED BY <1>8
<1> QED
  BY <1>1, <1>9, <1>10, <1>11 DEF ListsMembers

-----------------------------------------------------------------------------
(* Grouping: groups that hold the actions of a set                         *)

\* Groups none of which is empty, with the actions of S between them; and where once
\* is so, every action in one group, and there once.
GroupList(gs, S, once) ==
    /\ gs \in Seq(Seq(Action) \ {<< >>})
    /\ \A x : x \in S <=> \E i \in 1 .. Len(gs) : x \in ToSet(gs[i])
    /\ once => Lists(gs, S)

\* Sets of actions of which no two meet.
NoneMeet(sets, n) == \A j, k \in 1 .. n : j # k => sets[j] \cap sets[k] = {}

\* The list without groups.
LEMMA GroupListEmpty == \A once : GroupList(<< >>, {}, once)
<1>1. << >> \in Seq(Seq(Action) \ {<< >>}) /\ Len(<< >>) = 0 /\ DOMAIN << >> = {}
  OBVIOUS
<1>2. Lists(<< >>, {})
  BY <1>1 DEF Lists
<1>3. \A x : x \in {} <=> \E i \in 1 .. Len(<< >>) : x \in ToSet(<< >>[i])
  BY <1>1
<1> QED
  BY <1>1, <1>2, <1>3 DEF GroupList

\* Two lists that share no action are a list.
LEMMA GroupListConcat ==
  ASSUME NEW S1, NEW s1, NEW S2, NEW s2, NEW once, GroupList(s1, S1, once), GroupList(s2, S2, once),
         once => S1 \cap S2 = {}
  PROVE  GroupList(s1 \o s2, S1 \cup S2, once)
<1> DEFINE n1 == Len(s1)
           n2 == Len(s2)
           t == s1 \o s2
           A == Seq(Action) \ {<< >>}
<1>1. s1 \in Seq(A) /\ s2 \in Seq(A) /\ n1 \in Nat /\ n2 \in Nat
  BY DEF GroupList
<1>3. /\ t \in Seq(A) /\ DOMAIN t = 1 .. (n1 + n2)
      /\ \A i \in 1 .. (n1 + n2) :
            \/ i \in 1 .. n1 /\ t[i] = s1[i]
            \/ i - n1 \in 1 .. n2 /\ t[i] = s2[i - n1]
      /\ \A i \in 1 .. n1 : i \in 1 .. (n1 + n2) /\ t[i] = s1[i]
      /\ \A i \in 1 .. n2 : i + n1 \in 1 .. (n1 + n2) /\ t[i + n1] = s2[i]
  <2> HIDE DEF A
  <2> QED BY <1>1, ConcatRange
<1>4. Len(t) = n1 + n2
  <2> HIDE DEF A
  <2> QED BY <1>1, ConcatProperties, Zenon
<1>5. /\ \A x : x \in S1 <=> \E i \in 1 .. n1 : x \in ToSet(s1[i])
      /\ \A x : x \in S2 <=> \E i \in 1 .. n2 : x \in ToSet(s2[i])
  BY Zenon DEF GroupList
<1> HIDE DEF n1, n2, t, A
<1>6. \A x : x \in S1 \cup S2 <=> \E i \in 1 .. Len(t) : x \in ToSet(t[i])
  <2>1. \A x : (\E i \in 1 .. (n1 + n2) : x \in ToSet(t[i])) => x \in S1 \/ x \in S2
    BY <1>3, <1>5, Zenon
  <2>2. ASSUME NEW x \in S1 PROVE \E i \in 1 .. (n1 + n2) : x \in ToSet(t[i])
    <3>1. PICK i \in 1 .. n1 : x \in ToSet(s1[i])
      BY <1>5
    <3>2. i \in 1 .. (n1 + n2) /\ t[i] = s1[i]
      BY <1>3
    <3>3. x \in ToSet(t[i])
      BY <3>1, <3>2, Zenon
    <3> QED BY <3>2, <3>3
  <2>3. ASSUME NEW x \in S2 PROVE \E i \in 1 .. (n1 + n2) : x \in ToSet(t[i])
    <3>1. PICK i \in 1 .. n2 : x \in ToSet(s2[i])
      BY <1>5
    <3>2. i + n1 \in 1 .. (n1 + n2) /\ t[i + n1] = s2[i]
      BY <1>3
    <3>3. x \in ToSet(t[i + n1])
      BY <3>1, <3>2, Zenon
    <3> QED BY <3>2, <3>3
  <2> QED BY <1>4, <2>1, <2>2, <2>3
<1>7. once => Lists(t, S1 \cup S2)
  BY ListsConcat, Zenon DEF GroupList, t
<1> QED
  BY <1>3, <1>6, <1>7, Zenon DEF GroupList, A, t

\* The groups of a family of lists, end to end.
LEMMA FlatGroups ==
  ASSUME NEW fam \in Seq(Seq(Seq(Action))), NEW sets, NEW once,
         \A k \in 1 .. Len(fam) : GroupList(fam[k], sets[k], once),
         once => NoneMeet(sets, Len(fam))
  PROVE  GroupList(FlattenSeq(fam), UNION {sets[k] : k \in 1 .. Len(fam)}, once)
<1> DEFINE n == Len(fam)
           Held(k) == UNION {sets[j] : j \in 1 .. k}
<1>1. n \in Nat
  OBVIOUS
<1>2. PICK h : FlatRun(h, fam, Seq(Action))
  BY FlatSteps, Zenon
<1> DEFINE T == {k \in 0 .. n : GroupList(h[k], Held(k), once)}
<1>3. 0 \in T
  <2>1. h[0] = << >> /\ Held(0) = {} /\ 0 \in 0 .. n
    BY <1>1, <1>2 DEF FlatRun
  <2> HIDE DEF Held, n
  <2> QED BY <2>1, GroupListEmpty
<1>4. ASSUME NEW k \in 1 .. n, k - 1 \in T PROVE k \in T
  <2>0. k \in 0 .. n
    BY <1>1
  <2>1. h[k] = h[k - 1] \o fam[k] /\ k \in 0 .. n
    BY <2>0, <1>2, Zenon DEF FlatRun, n
  <2>3. Held(k) = Held(k - 1) \cup sets[k]
    <3>1. \A j \in 1 .. k : j \in 1 .. (k - 1) \/ j = k
      OBVIOUS
    <3>2. k \in 1 .. k /\ \A j \in 1 .. (k - 1) : j \in 1 .. k
      OBVIOUS
    <3> QED BY <3>1, <3>2
  <2>4. GroupList(h[k - 1], Held(k - 1), once) /\ GroupList(fam[k], sets[k], once)
    <3> HIDE DEF Held
    <3> QED BY <1>4
  <2>5. once => Held(k - 1) \cap sets[k] = {}
    <3>1. \A j \in 1 .. (k - 1) : j \in 1 .. n /\ j # k
      BY <1>1
    <3> QED BY <3>1 DEF NoneMeet
  <2>6. GroupList(h[k - 1] \o fam[k], Held(k - 1) \cup sets[k], once)
    <3> HIDE DEF Held, n
    <3> QED BY <2>4, <2>5, GroupListConcat, Zenon
  <2> HIDE DEF Held
  <2> QED BY <2>1, <2>3, <2>6
<1>5. n \in T
  <2> HIDE DEF T
  <2> QED BY <1>1, <1>3, <1>4, PrefixInduction
<1>6. FlattenSeq(fam) = h[n]
  BY <1>2 DEF FlatRun
<1> QED
  BY <1>5, <1>6

-----------------------------------------------------------------------------
(* Grouping: buckets                                                       *)

Bucket == [members : Seq(Action), size : Nat \ {0}]

\* The members of each bucket.
MembersOf(bs) == [k \in 1 .. Len(bs) |-> bs[k].members]

\* The members of a list of groups are actions.
LEMMA MembersType ==
  ASSUME NEW bs \in Seq(Bucket)
  PROVE  /\ MembersOf(bs) \in Seq(Seq(Action)) /\ Len(MembersOf(bs)) = Len(bs)
         /\ \A k \in 1 .. Len(bs) : MembersOf(bs)[k] = bs[k].members /\ bs[k] \in Bucket
<1>1. \A k \in 1 .. Len(bs) : bs[k].members \in Seq(Action) /\ bs[k] \in Bucket
  <2>1. \A k \in 1 .. Len(bs) : bs[k] \in Bucket
    OBVIOUS
  <2>2. \A b \in Bucket : b.members \in Seq(Action)
    BY DEF Bucket
  <2> HIDE DEF Bucket
  <2> QED BY <2>1, <2>2
<1> QED
  BY <1>1 DEF MembersOf

\* The members of two lists.
LEMMA MembersConcat ==
  ASSUME NEW x \in Seq(Bucket), NEW y \in Seq(Bucket)
  PROVE  MembersOf(x \o y) = MembersOf(x) \o MembersOf(y)
<1>1. /\ x \o y \in Seq(Bucket) /\ Len(x \o y) = Len(x) + Len(y)
  BY ConcatProperties, Zenon
<1>2. /\ MembersOf(x) \in Seq(Seq(Action)) /\ MembersOf(y) \in Seq(Seq(Action)) /\ MembersOf(x \o y) \in Seq(Seq(Action))
      /\ Len(MembersOf(x)) = Len(x) /\ Len(MembersOf(y)) = Len(y) /\ Len(MembersOf(x \o y)) = Len(x \o y)
  BY <1>1, MembersType, Zenon
<1>3. MembersOf(x) \o MembersOf(y) \in Seq(Seq(Action)) /\ Len(MembersOf(x) \o MembersOf(y)) = Len(x) + Len(y)
  <2> DEFINE u == MembersOf(x)
             v == MembersOf(y)
  <2>1. u \in Seq(Seq(Action)) /\ v \in Seq(Seq(Action)) /\ Len(u) = Len(x) /\ Len(v) = Len(y)
    BY <1>2
  <2> HIDE DEF u, v
  <2>2. u \o v \in Seq(Seq(Action)) /\ Len(u \o v) = Len(u) + Len(v)
    BY <2>1, ConcatProperties, Zenon
  <2>3. u \o v \in Seq(Seq(Action)) /\ Len(u \o v) = Len(x) + Len(y)
    BY <2>1, <2>2, Zenon
  <2> QED BY <2>3 DEF u, v
<1>4. ASSUME NEW i \in 1 .. (Len(x) + Len(y)) PROVE MembersOf(x \o y)[i] = (MembersOf(x) \o MembersOf(y))[i]
  BY <1>2, <1>1 DEF MembersOf
<1> DEFINE p == MembersOf(x \o y)
           q == MembersOf(x) \o MembersOf(y)
           N == Len(x) + Len(y)
<1>5. p \in Seq(Seq(Action)) /\ q \in Seq(Seq(Action)) /\ Len(p) = N /\ Len(q) = N /\ \A i \in 1 .. N : p[i] = q[i]
  BY <1>1, <1>2, <1>3, <1>4, Zenon
<1> HIDE DEF p, q, N
<1>6. p = q
  BY <1>5
<1> QED
  BY <1>6 DEF p, q

\* What the buckets of a family of lists have for members.
LEMMA FlatMembers ==
  ASSUME NEW fam \in Seq(Seq(Bucket))
  PROVE  /\ [k \in 1 .. Len(fam) |-> MembersOf(fam[k])] \in Seq(Seq(Seq(Action)))
         /\ MembersOf(FlattenSeq(fam)) = FlattenSeq([k \in 1 .. Len(fam) |-> MembersOf(fam[k])])
<1> DEFINE n == Len(fam)
           ms == [k \in 1 .. n |-> MembersOf(fam[k])]
<1>1. n \in Nat /\ \A k \in 1 .. n : fam[k] \in Seq(Bucket)
  OBVIOUS
<1>2. \A k \in 1 .. n : MembersOf(fam[k]) \in Seq(Seq(Action))
  BY <1>1, MembersType, Zenon
<1>3. ms \in Seq(Seq(Seq(Action))) /\ Len(ms) = n
  BY <1>1, <1>2
<1> HIDE DEF ms
<1>4. PICK h : FlatRun(h, fam, Bucket)
  BY FlatSteps, Zenon
<1>5. PICK g : FlatRun(g, ms, Seq(Action))
  BY <1>3, FlatSteps, Zenon
<1> DEFINE T == {k \in 0 .. n : MembersOf(h[k]) = g[k]}
<1>6. 0 \in T
  <2>1. h[0] = << >> /\ g[0] = << >> /\ 0 \in 0 .. n
    BY <1>1, <1>4, <1>5 DEF FlatRun
  <2>2. MembersOf(<< >>) = << >>
    BY DEF MembersOf
  <2> HIDE DEF n
  <2> QED BY <2>1, <2>2
<1>7. ASSUME NEW k \in 1 .. n, k - 1 \in T PROVE k \in T
  <2>1. k \in 0 .. n /\ k - 1 \in 0 .. n /\ k \in 1 .. Len(fam) /\ k \in 1 .. Len(ms)
    BY <1>1, <1>3
  <2>2. h[k] = h[k - 1] \o fam[k] /\ g[k] = g[k - 1] \o ms[k] /\ h[k - 1] \in Seq(Bucket)
    BY <1>4, <1>5, <2>1, Zenon DEF FlatRun, n
  <2>3. MembersOf(h[k - 1]) = g[k - 1] /\ ms[k] = MembersOf(fam[k]) /\ fam[k] \in Seq(Bucket)
    BY <1>1, <1>7 DEF ms
  <2>4. MembersOf(h[k - 1] \o fam[k]) = MembersOf(h[k - 1]) \o MembersOf(fam[k])
    BY <2>2, <2>3, MembersConcat, Zenon
  <2>5. MembersOf(h[k]) = g[k]
    BY <2>2, <2>3, <2>4, Zenon
  <2> QED BY <2>1, <2>5
<1>8. n \in T
  <2> HIDE DEF T
  <2> QED BY <1>1, <1>6, <1>7, PrefixInduction
<1>9. FlattenSeq(fam) = h[n] /\ FlattenSeq(ms) = g[n]
  BY <1>3, <1>4, <1>5 DEF FlatRun
<1> QED
  BY <1>3, <1>8, <1>9 DEF ms

-----------------------------------------------------------------------------
(* Grouping: pieces of a sequence                                          *)

LEMMA PieceFacts ==
  ASSUME NEW s \in Seq(Action), NEW a \in 1 .. Len(s), NEW b \in a .. Len(s)
  PROVE  /\ SubSeq(s, a, b) \in Seq(Action) \ {<< >>}
         /\ \A x : x \in ToSet(SubSeq(s, a, b)) <=> \E p \in a .. b : x = s[p]
         /\ IsInjective(s) => IsInjective(SubSeq(s, a, b))
<1> DEFINE q == SubSeq(s, a, b)
           m == b - a + 1
<1>1. /\ Len(s) \in Nat /\ DOMAIN s = 1 .. Len(s) /\ a \in Nat /\ b \in Nat /\ m \in Nat \ {0}
      /\ \A p \in a .. b : p \in 1 .. Len(s)
  OBVIOUS
<1>2. \A p \in a .. b : s[p] \in Action
  BY <1>1
<1>3. q \in Seq(Action) /\ Len(q) = m /\ \A i \in 1 .. m : q[i] = s[a + i - 1]
  <2>1. a \in Int /\ b \in Int /\ a <= b + 1
    BY <1>1
  <2>2. q \in Seq(Action)
    BY <1>2, <2>1, SubSeqProperties
  <2>3. Len(q) = m /\ \A i \in 1 .. m : q[i] = s[a + i - 1]
    BY <1>1
  <2> QED BY <2>2, <2>3
<1>4. DOMAIN q = 1 .. m
  <2> HIDE DEF q, m
  <2> QED BY <1>3
<1>5. q # << >>
  <2> HIDE DEF q
  <2> QED BY <1>1, <1>3
<1> HIDE DEF q
<1>6. \A x : x \in ToSet(q) <=> \E i \in 1 .. m : x = q[i]
  BY <1>4 DEF ToSet
<1>7. \A i \in 1 .. m : a + i - 1 \in a .. b
  BY <1>1
<1>8. \A p \in a .. b : p - a + 1 \in 1 .. m /\ a + (p - a + 1) - 1 = p
  BY <1>1
<1>9. ASSUME NEW x PROVE x \in ToSet(q) <=> \E p \in a .. b : x = s[p]
  <2>1. ASSUME NEW i \in 1 .. m, x = q[i] PROVE \E p \in a .. b : x = s[p]
    BY <1>3, <1>7, <2>1
  <2>2. ASSUME NEW p \in a .. b, x = s[p] PROVE \E i \in 1 .. m : x = q[i]
    <3>1. q[p - a + 1] = s[a + (p - a + 1) - 1]
      BY <1>3, <1>8
    <3> QED BY <1>8, <2>2, <3>1
  <2> QED BY <1>6, <2>1, <2>2
<1>10. ASSUME IsInjective(s) PROVE IsInjective(q)
  <2> SUFFICES ASSUME NEW i \in 1 .. m, NEW j \in 1 .. m, q[i] = q[j] PROVE i = j
    BY <1>4 DEF IsInjective
  <2>1. s[a + i - 1] = s[a + j - 1] /\ a + i - 1 \in DOMAIN s /\ a + j - 1 \in DOMAIN s
    BY <1>1, <1>3, <1>7
  <2>2. a + i - 1 = a + j - 1
    BY <1>10, <2>1 DEF IsInjective
  <2> QED BY <1>1, <2>2
<1> QED
  BY <1>3, <1>5, <1>9, <1>10 DEF q

\* Pieces of a sequence that do not meet.
LEMMA Pieces ==
  ASSUME NEW s \in Seq(Action), NEW N \in Nat, NEW lo \in [1 .. N -> 1 .. Len(s)],
         NEW hi \in [1 .. N -> 1 .. Len(s)], \A k \in 1 .. N : lo[k] <= hi[k],
         \A j, k \in 1 .. N : j # k => hi[j] < lo[k] \/ hi[k] < lo[j],
         NEW S, \A x : x \in S <=> \E k \in 1 .. N : \E p \in lo[k] .. hi[k] : x = s[p],
         NEW once, once => IsInjective(s)
  PROVE  GroupList([k \in 1 .. N |-> SubSeq(s, lo[k], hi[k])], S, once)
<1> DEFINE gs == [k \in 1 .. N |-> SubSeq(s, lo[k], hi[k])]
           A == Seq(Action) \ {<< >>}
<1>1. ASSUME NEW k \in 1 .. N
      PROVE  /\ gs[k] \in A
             /\ IsInjective(s) => IsInjective(gs[k])
             /\ \A x : x \in ToSet(gs[k]) <=> \E p \in lo[k] .. hi[k] : x = s[p]
  <2>1. lo[k] \in 1 .. Len(s) /\ hi[k] \in lo[k] .. Len(s)
    OBVIOUS
  <2>2. gs[k] = SubSeq(s, lo[k], hi[k])
    OBVIOUS
  <2> DEFINE a == lo[k]
             b == hi[k]
  <2>3. a \in 1 .. Len(s) /\ b \in a .. Len(s)
    BY <2>1
  <2> HIDE DEF a, b, gs
  <2>4. /\ SubSeq(s, a, b) \in Seq(Action) \ {<< >>}
        /\ \A x : x \in ToSet(SubSeq(s, a, b)) <=> \E p \in a .. b : x = s[p]
        /\ IsInjective(s) => IsInjective(SubSeq(s, a, b))
    BY <2>3, PieceFacts, Zenon
  <2> QED BY <2>2, <2>4, Zenon DEF a, b, A
<1>2. gs \in Seq(A) /\ Len(gs) = N /\ DOMAIN gs = 1 .. N
  <2>1. ASSUME NEW k \in 1 .. N PROVE SubSeq(s, lo[k], hi[k]) \in A
    <3>1. gs[k] = SubSeq(s, lo[k], hi[k])
      OBVIOUS
    <3> HIDE DEF gs, A
    <3>2. gs[k] \in A
      BY <1>1
    <3> QED BY <3>1, <3>2, Zenon
  <2> HIDE DEF A
  <2> QED BY <2>1
<1> HIDE DEF gs, A
<1>3. \A x : x \in S <=> \E i \in 1 .. Len(gs) : x \in ToSet(gs[i])
  BY <1>1, <1>2
<1>4. ASSUME once PROVE Lists(gs, S)
  <2>1. \A i \in DOMAIN gs : IsInjective(gs[i])
    BY <1>1, <1>2, <1>4
  <2>2. ASSUME NEW i \in 1 .. N, NEW j \in 1 .. N, i # j, NEW x \in ToSet(gs[i]), x \in ToSet(gs[j]) PROVE FALSE
    <3>1. PICK p \in lo[i] .. hi[i] : x = s[p]
      BY <1>1, ZenonT(30)
    <3>2. PICK q \in lo[j] .. hi[j] : x = s[q]
      BY <1>1, <2>2, ZenonT(30)
    <3>3. /\ lo[i] \in 1 .. Len(s) /\ hi[i] \in 1 .. Len(s) /\ lo[j] \in 1 .. Len(s) /\ hi[j] \in 1 .. Len(s)
          /\ (hi[i] < lo[j] \/ hi[j] < lo[i])
      BY <2>2
    <3>4. p \in DOMAIN s /\ q \in DOMAIN s /\ p # q
      BY <3>3
    <3>5. s[p] = s[q]
      BY <3>1, <3>2
    <3> QED BY <1>4, <3>4, <3>5 DEF IsInjective
  <2>3. \A i, j \in DOMAIN gs : i # j => ToSet(gs[i]) \intersect ToSet(gs[j]) = {}
    BY <1>2, <2>2
  <2>4. S = UNION {ToSet(gs[i]) : i \in DOMAIN gs}
    BY <1>2, <1>3
  <2> QED BY <1>2, <2>1, <2>3, <2>4, Zenon DEF Lists, A
<1>5. GroupList(gs, S, once)
  BY <1>2, <1>3, <1>4, Zenon DEF GroupList, A
<1> QED
  BY <1>5 DEF gs

\* Division, as the products it stands between.
LEMMA Divided == \A x \in Nat, s \in Nat \ {0} : x \div s \in Nat /\ (x \div s) * s <= x /\ x < (x \div s) * s + s
OBVIOUS

\* A greater factor makes a greater product.
LEMMA TimesLess == \A x, y \in Nat, s \in Nat \ {0} : x <= y => x * s <= y * s
OBVIOUS

\* One more factor adds once more.
LEMMA TimesPlus == \A x \in Int, s \in Nat \ {0} : (x - 1) * s = x * s - s /\ x * s \in Int
OBVIOUS

\* The lesser of two numbers.
LEMMA LeastOfTwo == \A a, b \in Int : Min({a, b}) = IF a <= b THEN a ELSE b
<1> SUFFICES ASSUME NEW a \in Int, NEW b \in Int PROVE Min({a, b}) = IF a <= b THEN a ELSE b
  OBVIOUS
<1>1. \E x \in {a, b} : \A y \in {a, b} : x <= y
  OBVIOUS
<1>2. Min({a, b}) \in {a, b} /\ \A y \in {a, b} : Min({a, b}) <= y
  BY <1>1, Zenon DEF Min
<1> QED
  BY <1>2

\* The chunks of a bucket hold its members.
LEMMA ChunksKeep ==
  ASSUME NEW b, b \in Bucket, NEW once, once => IsInjective(b.members)
  PROVE  GroupList(Chunks(b), ToSet(b.members), once)
<1> DEFINE s == b.members
           n == Len(s)
           d == b.size
           N == (n + d - 1) \div d
           At(k) == (k - 1) * d + 1
           Till(k) == Min({k * d, n})
<1>1. s \in Seq(Action) /\ n \in Nat /\ d \in Nat \ {0}
  BY DEF Bucket
<1>a. Chunks(b) = [k \in 1 .. N |-> SubSeq(s, At(k), Till(k))]
  BY DEF Chunks
<1> HIDE DEF s, n, d
<1>2. N \in Nat /\ N * d <= n + d - 1 /\ n + d - 1 < N * d + d
  <2>1. n + d - 1 \in Nat
    BY <1>1
  <2> QED BY <1>1, <2>1, Divided
<1> HIDE DEF N
<1>3. ASSUME NEW k \in 1 .. N
      PROVE  /\ At(k) \in 1 .. n /\ Till(k) \in 1 .. n /\ At(k) <= Till(k) /\ Till(k) <= k * d
             /\ k * d \in Int /\ \A p \in 1 .. n : p <= k * d => p <= Till(k)
  <2>1. k \in Nat /\ k \in Int /\ k <= N /\ k - 1 \in Nat /\ N \in Int
    BY <1>2
  <2>2. (k - 1) * d = k * d - d /\ k * d \in Int /\ N * d \in Int
    BY <1>1, <2>1, TimesPlus
  <2>3. k * d <= N * d
    BY <1>1, <1>2, <2>1, TimesLess
  <2>4. 0 <= (k - 1) * d
    BY <1>1, <2>1
  <2>5. Till(k) = IF k * d <= n THEN k * d ELSE n
    BY <1>1, <2>2, LeastOfTwo
  <2> DEFINE kd == k * d
             Nd == N * d
  <2>6. /\ At(k) = kd - d + 1 /\ Till(k) = (IF kd <= n THEN kd ELSE n) /\ kd \in Int /\ Nd \in Int
        /\ kd <= Nd /\ 0 <= kd - d /\ Nd <= n + d - 1
    BY <1>2, <2>2, <2>3, <2>4, <2>5
  <2> HIDE DEF At, Till, kd, Nd
  <2>7. /\ At(k) \in 1 .. n /\ Till(k) \in 1 .. n /\ At(k) <= Till(k) /\ Till(k) <= kd
        /\ kd \in Int /\ \A p \in 1 .. n : p <= kd => p <= Till(k)
    BY <1>1, <2>6
  <2> QED BY <2>7 DEF kd
<1>4. ASSUME NEW j \in 1 .. N, NEW k \in 1 .. N, j < k PROVE Till(j) < At(k)
  <2>1. j \in Nat /\ k - 1 \in Nat /\ j <= k - 1
    BY <1>2, <1>4
  <2>2. j * d <= (k - 1) * d
    BY <1>1, <2>1, TimesLess
  <2>3. Till(j) <= j * d /\ Till(j) \in 1 .. n /\ At(k) \in 1 .. n /\ j * d \in Int
    BY <1>3
  <2>4. (k - 1) * d \in Int /\ At(k) = (k - 1) * d + 1
    BY <1>1, <2>1, TimesPlus
  <2> DEFINE x == j * d
             y == (k - 1) * d
  <2>5. x <= y /\ Till(j) <= x /\ Till(j) \in 1 .. n /\ x \in Int /\ y \in Int /\ At(k) = y + 1
    BY <2>2, <2>3, <2>4
  <2> HIDE DEF x, y, Till, At
  <2> QED BY <1>1, <2>5
<1>5. ASSUME NEW p \in 1 .. n PROVE \E k \in 1 .. N : p \in At(k) .. Till(k)
  <2> DEFINE q == (p - 1) \div d
             k == q + 1
  <2>1. q \in Nat /\ q * d <= p - 1 /\ p - 1 < q * d + d
    <3>1. p - 1 \in Nat
      BY <1>1
    <3> QED BY <1>1, <3>1, Divided
  <2> HIDE DEF q
  <2>2. (k - 1) * d = k * d - d /\ k * d \in Int /\ k - 1 = q
    BY <1>1, <2>1, TimesPlus
  <2>3. k \in 1 .. N
    <3> SUFFICES ASSUME N <= q PROVE FALSE
      BY <1>2, <2>1
    <3>1. N * d <= q * d
      BY <1>1, <1>2, <2>1, TimesLess
    <3>2. N * d \in Int /\ q * d \in Int
      BY <1>1, <1>2, <2>1, TimesPlus
    <3> DEFINE x == N * d
               y == q * d
    <3>3. x <= y /\ x \in Int /\ y \in Int /\ y <= p - 1 /\ n + d - 1 < x + d
      BY <1>2, <2>1, <3>1, <3>2
    <3> HIDE DEF x, y
    <3> QED BY <1>1, <3>3
  <2>4. p <= k * d /\ At(k) <= p
    <3> DEFINE y == q * d
               z == k * d
    <3>1. y = z - d /\ z \in Int /\ y <= p - 1 /\ p - 1 < y + d /\ At(k) = y + 1
      BY <2>1, <2>2
    <3> HIDE DEF y, z, At
    <3> QED BY <1>1, <3>1 DEF z
  <2>5. p <= Till(k) /\ At(k) \in 1 .. n /\ Till(k) \in 1 .. n
    BY <1>3, <2>3, <2>4
  <2> HIDE DEF k, At, Till
  <2> QED BY <2>3, <2>4, <2>5
<1> DEFINE lo == [k \in 1 .. N |-> At(k)]
           hi == [k \in 1 .. N |-> Till(k)]
<1> HIDE DEF At, Till
<1>6. /\ lo \in [1 .. N -> 1 .. Len(s)] /\ hi \in [1 .. N -> 1 .. Len(s)]
      /\ \A k \in 1 .. N : lo[k] <= hi[k] /\ lo[k] = At(k) /\ hi[k] = Till(k)
  BY <1>3 DEF n
<1>7. \A j, k \in 1 .. N : j # k => hi[j] < lo[k] \/ hi[k] < lo[j]
  <2>1. \A j, k \in 1 .. N : j # k => j < k \/ k < j
    BY <1>2
  <2> HIDE DEF lo, hi
  <2> QED BY <1>4, <1>6, <2>1
<1>8. \A x : x \in ToSet(s) <=> \E k \in 1 .. N : \E p \in lo[k] .. hi[k] : x = s[p]
  <2>1. \A x : x \in ToSet(s) <=> \E p \in 1 .. n : x = s[p]
    BY <1>1 DEF ToSet, n
  <2>2. \A k \in 1 .. N : \A p \in lo[k] .. hi[k] : p \in 1 .. n
    BY <1>1, <1>3, <1>6
  <2>3. \A p \in 1 .. n : \E k \in 1 .. N : p \in lo[k] .. hi[k]
    BY <1>5, <1>6
  <2> HIDE DEF lo, hi
  <2> QED BY <2>1, <2>2, <2>3, Zenon
<1>9. [k \in 1 .. N |-> SubSeq(s, At(k), Till(k))] = [k \in 1 .. N |-> SubSeq(s, lo[k], hi[k])]
  BY <1>6
<1> HIDE DEF lo, hi
<1>10. GroupList([k \in 1 .. N |-> SubSeq(s, lo[k], hi[k])], ToSet(s), once)
  <2>1. once => IsInjective(s)
    BY DEF s
  <2>2. \A k \in 1 .. N : lo[k] <= hi[k]
    BY <1>6
  <2> QED BY <1>1, <1>2, <1>6, <1>7, <1>8, <2>1, <2>2, Pieces, ZenonT(30)
<1> QED
  BY <1>a, <1>9, <1>10 DEF s

-----------------------------------------------------------------------------
(* Grouping: the buckets of the rules                                      *)

\* Buckets whose members are, between them, in T, and each once.
BucketsIn(bs, T, once) == bs \in Seq(Bucket) /\ GroupList(MembersOf(bs), T, once)

\* What a rule may batch of a layer.
MayBatch(rule, layer) == {a \in ToSet(layer) : Batchable(rule, a)}

\* Cutting a list into buckets keeps its actions, each once.
LEMMA BucketsKeep ==
  ASSUME NEW rule, NEW layer \in Seq(Action), IsInjective(layer), NEW size \in Nat \ {0}
  PROVE  \E T : T \subseteq MayBatch(rule, layer) /\ BucketsIn(Buckets(rule, layer, size), T, TRUE)
<1> DEFINE V(a) == {x \in Action : Batchable(rule, x) /\ GroupValue[rule.key][x] = GroupValue[rule.key][a]}
           M(a) == Members(rule, layer, a)
           L == {a \in Action : Batchable(rule, a) /\ Len(M(a)) > 1 /\ M(a)[1] = a}
           leaders == Only(layer, L)
           bs == Buckets(rule, layer, size)
           n == Len(leaders)
           T == {x \in Action : \E k \in 1 .. n : x \in ToSet(M(leaders[k]))}
<1>1. \A a : M(a) = Only(layer, V(a))
  BY DEF Members
<1>2. bs = [k \in DOMAIN leaders |-> [members |-> M(leaders[k]), size |-> size]]
  BY DEF Buckets
<1>3. leaders \in Seq(Action) /\ IsInjective(leaders) /\ ToSet(leaders) = ToSet(layer) \cap L
  <2> HIDE DEF L
  <2> QED BY OnlyKeeps
<1>4. ASSUME NEW a PROVE M(a) \in Seq(Action) /\ IsInjective(M(a)) /\ ToSet(M(a)) = ToSet(layer) \cap V(a)
  <2>1. M(a) = Only(layer, V(a))
    BY <1>1
  <2> DEFINE W == V(a)
             m == M(a)
  <2>2. m = Only(layer, W)
    BY <2>1
  <2> HIDE DEF W, m
  <2>3. Only(layer, W) \in Seq(Action) /\ IsInjective(Only(layer, W)) /\ ToSet(Only(layer, W)) = ToSet(layer) \cap W
    BY OnlyKeeps
  <2> QED BY <2>2, <2>3 DEF W, m
<1> HIDE DEF leaders, M
<1>5. n \in Nat /\ DOMAIN leaders = 1 .. n
  BY <1>3
<1>6. ASSUME NEW k \in 1 .. n
      PROVE  /\ leaders[k] \in ToSet(layer) /\ leaders[k] \in L
             /\ M(leaders[k]) # << >> /\ M(leaders[k])[1] = leaders[k]
  <2>1. leaders[k] \in ToSet(leaders)
    BY <1>5 DEF ToSet
  <2>2. leaders[k] \in ToSet(layer) /\ leaders[k] \in L
    <3> HIDE DEF L
    <3> QED BY <1>3, <2>1
  <2>3. Len(M(leaders[k])) > 1 /\ M(leaders[k])[1] = leaders[k]
    BY <2>2
  <2>4. M(leaders[k]) # << >>
    <3> DEFINE m == M(leaders[k])
    <3>1. Len(m) > 1 /\ m \in Seq(Action)
      BY <1>4, <2>3
    <3> HIDE DEF m
    <3>2. m # << >>
      BY <3>1
    <3> QED BY <3>2 DEF m
  <2> QED BY <2>2, <2>3, <2>4
<1> DEFINE B == Seq(Action) \ {<< >>}
           gs == [k \in 1 .. n |-> M(leaders[k])]
<1>7. bs \in Seq(Bucket) /\ Len(bs) = n /\ \A k \in 1 .. n : bs[k].members = M(leaders[k])
  <2>1. \A k \in 1 .. n : [members |-> M(leaders[k]), size |-> size] \in Bucket
    BY <1>4 DEF Bucket
  <2> DEFINE R(k) == [members |-> M(leaders[k]), size |-> size]
  <2>2. bs = [k \in 1 .. n |-> R(k)] /\ \A k \in 1 .. n : R(k) \in Bucket /\ R(k).members = M(leaders[k])
    BY <1>2, <1>5, <2>1
  <2> HIDE DEF R, bs, n
  <2> QED BY <1>5, <2>2
<1>8. MembersOf(bs) = gs
  <2> HIDE DEF bs, n
  <2> QED BY <1>7 DEF MembersOf
<1>9. gs \in Seq(B) /\ Len(gs) = n /\ DOMAIN gs = 1 .. n /\ \A k \in 1 .. n : gs[k] = M(leaders[k])
  <2>1. \A k \in 1 .. n : M(leaders[k]) \in B
    BY <1>4, <1>6
  <2> HIDE DEF B, n
  <2> QED BY <1>5, <2>1
<1> HIDE DEF gs, B, bs, n
<1>10. \A x : x \in T <=> \E k \in 1 .. n : x \in ToSet(gs[k])
  <2>1. ASSUME NEW x, NEW k \in 1 .. n, x \in ToSet(M(leaders[k])) PROVE x \in Action
    BY <1>4, <2>1
  <2>2. \A x : x \in T <=> \E k \in 1 .. n : x \in ToSet(M(leaders[k]))
    BY <2>1
  <2> HIDE DEF T
  <2> QED BY <1>9, <2>2, Zenon
<1> HIDE DEF T
<1>11. \A i \in DOMAIN gs : IsInjective(gs[i])
  BY <1>4, <1>9
<1>12. ASSUME NEW i \in 1 .. n, NEW j \in 1 .. n, NEW x, x \in ToSet(gs[i]), x \in ToSet(gs[j]) PROVE i = j
  <2>1. x \in V(leaders[i]) /\ x \in V(leaders[j])
    <3> HIDE DEF V
    <3> QED BY <1>4, <1>9, <1>12
  <2>2. V(leaders[i]) = V(leaders[j])
    BY <2>1
  <2>3. M(leaders[i]) = M(leaders[j])
    <3> HIDE DEF V
    <3> QED BY <1>1, <2>2, Zenon
  <2>4. leaders[i] = leaders[j]
    BY <1>6, <2>3, Zenon
  <2> QED BY <1>3, <1>5, <2>4 DEF IsInjective
<1>13. \A i, j \in DOMAIN gs : i # j => ToSet(gs[i]) \intersect ToSet(gs[j]) = {}
  BY <1>9, <1>12
<1>14. T = UNION {ToSet(gs[i]) : i \in DOMAIN gs}
  BY <1>9, <1>10
<1>15. Lists(gs, T)
  BY <1>9, <1>11, <1>13, <1>14, Zenon DEF Lists, B
<1>16. GroupList(gs, T, TRUE)
  BY <1>9, <1>10, <1>15, Zenon DEF GroupList, B
<1>17. T \subseteq MayBatch(rule, layer)
  <2> SUFFICES ASSUME NEW x \in T PROVE x \in ToSet(layer) /\ Batchable(rule, x)
    BY DEF MayBatch
  <2>1. PICK k \in 1 .. n : x \in ToSet(gs[k])
    BY <1>10
  <2>2. x \in ToSet(layer) \cap V(leaders[k])
    <3> HIDE DEF V
    <3> QED BY <1>4, <1>9, <2>1
  <2> QED BY <2>2
<1> QED
  BY <1>7, <1>8, <1>16, <1>17 DEF BucketsIn, bs

\* The buckets of a list of rules.
LEMMA RuleBuckets ==
  ASSUME NEW layer \in Seq(Action), IsInjective(layer), NEW rules, NEW n \in Nat, DOMAIN rules = 1 .. n,
         NEW sizes \in [1 .. n -> Nat \ {0}],
         NEW fam, fam = [k \in 1 .. n |-> Buckets(rules[k], layer, sizes[k])]
  PROVE  \E T : T \subseteq ToSet(layer) /\ BucketsIn(FlattenSeq(fam), T, Disjoint(rules))
<1> DEFINE Good(k, T) == T \subseteq MayBatch(rules[k], layer) /\ BucketsIn(fam[k], T, TRUE)
           sets == [k \in 1 .. n |-> CHOOSE T : Good(k, T)]
           ms == [k \in 1 .. Len(fam) |-> MembersOf(fam[k])]
           all == UNION {sets[k] : k \in 1 .. Len(ms)}
<1>1. ASSUME NEW k \in 1 .. n PROVE Good(k, sets[k])
  <2>1. sizes[k] \in Nat \ {0} /\ fam[k] = Buckets(rules[k], layer, sizes[k])
    OBVIOUS
  <2>2. \E T : Good(k, T)
    <3>1. \E T : T \subseteq MayBatch(rules[k], layer) /\ BucketsIn(Buckets(rules[k], layer, sizes[k]), T, TRUE)
      BY <2>1, BucketsKeep, Zenon
    <3> QED BY <2>1, <3>1, Zenon
  <2>3. sets[k] = CHOOSE T : Good(k, T)
    OBVIOUS
  <2> HIDE DEF Good, sets
  <2> QED BY <2>2, <2>3, Zenon
<1> HIDE DEF sets
<1>2. fam \in Seq(Seq(Bucket)) /\ Len(fam) = n
  <2>1. \A k \in 1 .. n : fam[k] \in Seq(Bucket)
    BY <1>1 DEF BucketsIn
  <2>2. fam = [k \in 1 .. n |-> fam[k]]
    OBVIOUS
  <2> HIDE DEF Good
  <2> QED BY <2>1, <2>2
<1>3. FlattenSeq(fam) \in Seq(Bucket)
  BY <1>2, FlatType, Zenon
<1>4. ms \in Seq(Seq(Seq(Action))) /\ MembersOf(FlattenSeq(fam)) = FlattenSeq(ms)
  BY <1>2, FlatMembers, Zenon
<1>5. Len(ms) = n /\ \A k \in 1 .. n : ms[k] = MembersOf(fam[k])
  BY <1>2
<1> HIDE DEF ms
<1>6. \A k \in 1 .. Len(ms) : GroupList(ms[k], sets[k], Disjoint(rules))
  <2> SUFFICES ASSUME NEW k \in 1 .. n PROVE GroupList(ms[k], sets[k], Disjoint(rules))
    BY <1>5
  <2>1. GroupList(ms[k], sets[k], TRUE)
    BY <1>1, <1>5 DEF BucketsIn
  <2> QED BY <2>1 DEF GroupList
<1>7. Disjoint(rules) => NoneMeet(sets, Len(ms))
  <2> SUFFICES ASSUME Disjoint(rules), NEW j \in 1 .. n, NEW k \in 1 .. n, j # k PROVE sets[j] \cap sets[k] = {}
    BY <1>5, Zenon DEF NoneMeet
  <2>1. sets[j] \subseteq MayBatch(rules[j], layer) /\ sets[k] \subseteq MayBatch(rules[k], layer)
    BY <1>1
  <2>2. \A a \in Action : ~(Batchable(rules[j], a) /\ Batchable(rules[k], a))
    BY Zenon DEF Disjoint
  <2>3. ToSet(layer) \subseteq Action
    BY DEF ToSet
  <2> QED BY <2>1, <2>2, <2>3 DEF MayBatch
<1>8. GroupList(FlattenSeq(ms), all, Disjoint(rules))
  BY <1>4, <1>6, <1>7, FlatGroups
<1>9. all \subseteq ToSet(layer)
  BY <1>1, <1>5 DEF MayBatch
<1> HIDE DEF all
<1> QED
  BY <1>3, <1>4, <1>8, <1>9, Zenon DEF BucketsIn

\* A least number there is.
LEMMA LeastIsNat ==
  ASSUME NEW T, T \subseteq Nat, T # {}
  PROVE  Min(T) \in T /\ \A y \in T : Min(T) <= y
<1>1. \E x \in T : \A y \in T : x <= y
  BY LeastNat
<1> QED
  BY <1>1, Zenon DEF Min

\* The size of a session is a positive number.
LEMMA SessionSizeType ==
  ASSUME batchRules \in Seq(Rule), NEW rule, NEW layer
  PROVE  SessionSize(rule, layer) \in Nat \ {0}
<1> DEFINE met == {r \in ToSet(batchRules) : r.scope \cap rule.scope \cap ToSet(layer) # {}}
           T == {r.size : r \in met}
<1>1. \A r \in ToSet(batchRules) : r.size \in Nat \ {0}
  <2>1. ToSet(batchRules) \subseteq Rule
    <3> HIDE DEF Rule
    <3> QED BY DEF ToSet
  <2> QED BY <2>1 DEF Rule
<1>2. T \subseteq Nat /\ 0 \notin T
  BY <1>1
<1>3. SessionSize(rule, layer) = IF met = {} THEN 4 ELSE Min(T)
  BY DEF SessionSize
<1>4. met # {} => T # {}
  OBVIOUS
<1> HIDE DEF met, T
<1>5. T # {} => Min(T) \in T
  BY <1>2, LeastIsNat
<1>6. met # {} => Min(T) \in Nat /\ Min(T) # 0
  BY <1>2, <1>4, <1>5
<1>7. CASE met = {}
  <2>1. SessionSize(rule, layer) = 4
    BY <1>3, <1>7
  <2> QED BY <2>1
<1>8. CASE met # {}
  <2>1. SessionSize(rule, layer) = Min(T)
    BY <1>3, <1>8
  <2> QED BY <1>6, <1>8, <2>1
<1> QED
  BY <1>7, <1>8

\* No action is batched by two rules of a kind.
NoSharing == Disjoint(batchRules) /\ Disjoint(sessionRules)

\* Batching the actions of a layer keeps them, each once.
LEMMA BatchingKeeps ==
  ASSUME batchRules \in Seq(Rule), sessionRules \in Seq(Rule),
         NEW layer \in Seq(Action), IsInjective(layer)
  PROVE  \E T : T \subseteq ToSet(layer) /\ BucketsIn(BatchingBuckets(layer), T, NoSharing)
<1> DEFINE n == Len(batchRules)
           m == Len(sessionRules)
           own == [k \in 1 .. n |-> Buckets(batchRules[k], layer, batchRules[k].size)]
           session == [k \in 1 .. m |-> Buckets(sessionRules[k], layer, SessionSize(sessionRules[k], layer))]
           xs == [k \in 1 .. n |-> batchRules[k].size]
           ys == [k \in 1 .. m |-> SessionSize(sessionRules[k], layer)]
<1>1. /\ n \in Nat /\ DOMAIN batchRules = 1 .. n /\ m \in Nat /\ DOMAIN sessionRules = 1 .. m
  OBVIOUS
<1>2. BatchingBuckets(layer) = IF FlattenSeq(own) # << >> THEN FlattenSeq(own) ELSE FlattenSeq(session)
  BY <1>1 DEF BatchingBuckets
<1>3. xs \in [1 .. n -> Nat \ {0}]
  <2>1. \A k \in 1 .. n : batchRules[k] \in Rule
    <3> HIDE DEF Rule
    <3> QED OBVIOUS
  <2>2. \A r \in Rule : r.size \in Nat \ {0}
    BY DEF Rule
  <2> HIDE DEF Rule
  <2> QED BY <2>1, <2>2
<1>4. ys \in [1 .. m -> Nat \ {0}]
  BY SessionSizeType
<1>5. /\ own = [k \in 1 .. n |-> Buckets(batchRules[k], layer, xs[k])]
      /\ session = [k \in 1 .. m |-> Buckets(sessionRules[k], layer, ys[k])]
  OBVIOUS
<1> HIDE DEF n, m, own, session, xs, ys
<1>6. \E T : T \subseteq ToSet(layer) /\ BucketsIn(FlattenSeq(own), T, Disjoint(batchRules))
  BY <1>1, <1>3, <1>5, RuleBuckets, Zenon
<1>7. \E T : T \subseteq ToSet(layer) /\ BucketsIn(FlattenSeq(session), T, Disjoint(sessionRules))
  BY <1>1, <1>4, <1>5, RuleBuckets, Zenon
<1>8. ASSUME NEW bs, NEW T,
             BucketsIn(bs, T, Disjoint(batchRules)) \/ BucketsIn(bs, T, Disjoint(sessionRules))
      PROVE  BucketsIn(bs, T, NoSharing)
  BY <1>8 DEF BucketsIn, GroupList, NoSharing
<1> QED
  BY <1>2, <1>6, <1>7, <1>8, Zenon

-----------------------------------------------------------------------------
(* Grouping: what no bucket holds                                          *)

LEMMA LeftoverKeeps ==
  ASSUME NEW layer \in Seq(Action), IsInjective(layer), NEW assigned
  PROVE  GroupList(Leftover(layer, assigned), ToSet(layer) \ assigned, TRUE)
<1> DEFINE n == Len(layer)
           Joins(i) == i \in DOMAIN layer /\ layer[i] \in LocalRead \ assigned
           Starts == {i \in DOMAIN layer : layer[i] \notin assigned /\ ~(Joins(i) /\ Joins(i - 1))}
           Run(i) == {j \in i .. Len(layer) : \A k \in i .. j : Joins(k)}
           LastOf(i) == IF Joins(i) THEN Max(Run(i)) ELSE i
           before == {p \in Starts \X Starts : p[1] < p[2]}
           ranks == Ranked(Starts, before)
           N == Cardinality(Starts)
<1>1. n \in Nat /\ DOMAIN layer = 1 .. n
  OBVIOUS
<1>2. Leftover(layer, assigned) = [k \in DOMAIN ranks |-> SubSeq(layer, ranks[k], LastOf(ranks[k]))]
  BY DEF Leftover
<1>3. Starts \subseteq 1 .. n /\ IsFiniteSet(Starts)
  <2>1. Starts \in SUBSET (1 .. n)
    BY <1>1
  <2>2. IsFiniteSet(1 .. n)
    BY <1>1, FS_Interval
  <2> HIDE DEF Starts
  <2> QED BY <2>1, <2>2, FS_Subset
<1>4. ListsMembers(ranks, Starts)
  <2>1. StrictOrder(before, Starts)
    <3>1. \A x, y \in Starts : << x, y >> \in before <=> x < y
      <4> HIDE DEF Starts
      <4> QED OBVIOUS
    <3>2. \A x \in Starts : x \in Nat
      BY <1>3
    <3> HIDE DEF Starts, before
    <3> QED BY <3>1, <3>2 DEF StrictOrder
  <2> HIDE DEF Starts, before
  <2> QED BY <1>3, <2>1, RankedAll
<1>5. \A i \in 1 .. n : Joins(i) <=> layer[i] \in LocalRead \ assigned
  BY <1>1
<1>6. \A i : Joins(i) => i \in 1 .. n /\ layer[i] \notin assigned
  BY <1>1
<1>7. \A i \in 1 .. n : i \in Starts <=> layer[i] \notin assigned /\ ~(Joins(i) /\ Joins(i - 1))
  BY <1>1
<1> HIDE DEF Joins, Starts
<1>8. ASSUME NEW i \in 1 .. n, Joins(i)
      PROVE  /\ LastOf(i) \in i .. n /\ \A k \in i .. LastOf(i) : Joins(k)
             /\ \A j \in i .. n : (\A k \in i .. j : Joins(k)) => j <= LastOf(i)
  <2>1. Run(i) \subseteq 1 .. n /\ i \in Run(i)
    BY <1>1, <1>8
  <2>2. LastOf(i) = Max(Run(i))
    BY <1>8
  <2>3. \A j : j \in Run(i) <=> j \in i .. n /\ \A k \in i .. j : Joins(k)
    OBVIOUS
  <2> DEFINE R == Run(i)
             l == LastOf(i)
  <2> HIDE DEF R, l
  <2>4. Max(R) \in R /\ \A y \in R : y <= Max(R)
    <3>1. R \subseteq 1 .. n /\ R # {}
      BY <2>1 DEF R
    <3> QED BY <1>1, <3>1, MaxOfPart
  <2>5. l \in Run(i) /\ \A y \in Run(i) : y <= l
    BY <2>2, <2>4 DEF R, l
  <2> QED BY <2>3, <2>5 DEF l
<1>9. ASSUME NEW i \in Starts
      PROVE  /\ i \in 1 .. n /\ LastOf(i) \in i .. n
             /\ \A k \in i .. LastOf(i) : layer[k] \notin assigned
             /\ \A k \in i .. LastOf(i) : k # i => Joins(k) /\ Joins(k - 1)
  <2>1. i \in 1 .. n /\ layer[i] \notin assigned
    BY <1>3, <1>7
  <2>2. CASE Joins(i)
    <3>1. LastOf(i) \in i .. n /\ \A k \in i .. LastOf(i) : Joins(k)
      BY <1>8, <2>1, <2>2
    <3> DEFINE l == LastOf(i)
    <3>2. l \in i .. n /\ \A k \in i .. l : Joins(k)
      BY <3>1
    <3> HIDE DEF l
    <3>3. \A k \in i .. l : k # i => (k - 1) \in i .. l
      BY <2>1, <3>2
    <3>4. l \in i .. n /\ (\A k \in i .. l : layer[k] \notin assigned) /\ (\A k \in i .. l : k # i => Joins(k) /\ Joins(k - 1))
      BY <1>6, <3>2, <3>3
    <3> QED BY <2>1, <3>4 DEF l
  <2>3. CASE ~ Joins(i)
    <3>1. LastOf(i) = i
      BY <2>3
    <3> HIDE DEF LastOf
    <3> QED BY <1>1, <2>1, <3>1
  <2> QED BY <2>2, <2>3
<1> DEFINE lo == [k \in 1 .. N |-> ranks[k]]
           hi == [k \in 1 .. N |-> LastOf(ranks[k])]
<1>10. /\ N \in Nat /\ ranks \in [1 .. N -> Starts] /\ DOMAIN ranks = 1 .. N
       /\ \A j, k \in 1 .. N : ranks[j] = ranks[k] => j = k
       /\ \A i \in Starts : \E k \in 1 .. N : ranks[k] = i
  <2> HIDE DEF ranks
  <2> QED BY <1>4 DEF ListsMembers
<1> HIDE DEF ranks, N, LastOf
<1>11. /\ lo \in [1 .. N -> 1 .. n] /\ hi \in [1 .. N -> 1 .. n]
       /\ \A k \in 1 .. N : lo[k] <= hi[k] /\ lo[k] = ranks[k] /\ hi[k] = LastOf(ranks[k]) /\ ranks[k] \in Starts
  BY <1>1, <1>9, <1>10
<1> HIDE DEF lo, hi
<1>12. ASSUME NEW i \in Starts, NEW j \in Starts, i < j PROVE LastOf(i) < j
  <2> SUFFICES ASSUME j <= LastOf(i) PROVE FALSE
    BY <1>1, <1>9, <1>12
  <2>1. j \in i .. LastOf(i) /\ j # i /\ j \in 1 .. n
    BY <1>1, <1>9, <1>12
  <2>2. Joins(j) /\ Joins(j - 1)
    BY <1>9, <2>1
  <2> QED BY <1>7, <2>1, <2>2
<1>13. \A j, k \in 1 .. N : j # k => hi[j] < lo[k] \/ hi[k] < lo[j]
  <2> SUFFICES ASSUME NEW j \in 1 .. N, NEW k \in 1 .. N, j # k PROVE hi[j] < lo[k] \/ hi[k] < lo[j]
    OBVIOUS
  <2>1. ranks[j] \in Starts /\ ranks[k] \in Starts /\ ranks[j] # ranks[k]
    BY <1>10, <1>11
  <2>2. ranks[j] < ranks[k] \/ ranks[k] < ranks[j]
    <3> DEFINE a == ranks[j]
               b == ranks[k]
    <3>1. a \in 1 .. n /\ b \in 1 .. n /\ a # b
      BY <1>3, <2>1
    <3> HIDE DEF a, b
    <3>2. a < b \/ b < a
      BY <1>1, <3>1
    <3> QED BY <3>2 DEF a, b
  <2> QED BY <1>11, <1>12, <2>1, <2>2
<1>14. ASSUME NEW p \in 1 .. n, layer[p] \notin assigned
       PROVE  \E i \in Starts : p \in i .. LastOf(i)
  <2>1. CASE ~ Joins(p)
    <3>1. p \in Starts /\ LastOf(p) = p
      BY <1>7, <1>14, <2>1 DEF LastOf
    <3> QED BY <1>1, <3>1
  <2>2. CASE Joins(p)
    <3> DEFINE U == {i \in 1 .. p : \A k \in i .. p : Joins(k)}
    <3>1. U \subseteq Nat /\ p \in U
      BY <1>1, <2>2
    <3>2. PICK i \in U : \A y \in U : i <= y
      <4> HIDE DEF U
      <4> QED BY <3>1, LeastNat
    <3>3. i \in 1 .. p /\ i \in 1 .. n /\ p \in i .. n /\ \A k \in i .. p : Joins(k)
      BY <1>1, <3>2
    <3>4. Joins(i)
      BY <1>1, <3>3
    <3>5. ~ Joins(i - 1)
      <4> SUFFICES ASSUME Joins(i - 1) PROVE FALSE
        OBVIOUS
      <4>1. i - 1 \in 1 .. n
        BY <1>6
      <4>2. i - 1 \in 1 .. p /\ \A k \in (i - 1) .. p : k = i - 1 \/ k \in i .. p
        BY <1>1, <3>3, <4>1
      <4>3. i - 1 \in U
        BY <3>3, <4>2
      <4> QED BY <1>1, <3>2, <3>3, <4>3
    <3>6. i \in Starts
      BY <1>6, <1>7, <3>3, <3>4, <3>5
    <3>7. p <= LastOf(i) /\ LastOf(i) \in i .. n
      BY <1>8, <3>3, <3>4
    <3> QED BY <1>1, <3>3, <3>6, <3>7
  <2> QED BY <2>1, <2>2
<1> DEFINE S == ToSet(layer) \ assigned
<1>15. \A x : x \in S <=> \E k \in 1 .. N : \E p \in lo[k] .. hi[k] : x = layer[p]
  <2>1. \A x : x \in ToSet(layer) <=> \E p \in 1 .. n : x = layer[p]
    BY <1>1 DEF ToSet
  <2>2. \A k \in 1 .. N : \A p \in lo[k] .. hi[k] : p \in 1 .. n /\ layer[p] \notin assigned
    <3> SUFFICES ASSUME NEW k \in 1 .. N, NEW p \in lo[k] .. hi[k] PROVE p \in 1 .. n /\ layer[p] \notin assigned
      OBVIOUS
    <3>1. ranks[k] \in Starts /\ p \in ranks[k] .. LastOf(ranks[k])
      BY <1>11
    <3> QED BY <1>1, <1>9, <3>1
  <2>3. \A p \in 1 .. n : layer[p] \notin assigned => \E k \in 1 .. N : p \in lo[k] .. hi[k]
    <3> SUFFICES ASSUME NEW p \in 1 .. n, layer[p] \notin assigned PROVE \E k \in 1 .. N : p \in lo[k] .. hi[k]
      OBVIOUS
    <3>1. PICK i \in Starts : p \in i .. LastOf(i)
      BY <1>14
    <3>2. PICK k \in 1 .. N : ranks[k] = i
      BY <1>10
    <3> QED BY <1>11, <3>1, <3>2
  <2>4. \A x : x \in S <=> x \in ToSet(layer) /\ x \notin assigned
    OBVIOUS
  <2> HIDE DEF S
  <2> QED BY <2>1, <2>2, <2>3, <2>4, Zenon
<1> HIDE DEF S
<1>16. [k \in DOMAIN ranks |-> SubSeq(layer, ranks[k], LastOf(ranks[k]))] = [k \in 1 .. N |-> SubSeq(layer, lo[k], hi[k])]
  BY <1>10, <1>11
<1>17. GroupList([k \in 1 .. N |-> SubSeq(layer, lo[k], hi[k])], S, TRUE)
  <2>1. \A k \in 1 .. N : lo[k] <= hi[k]
    BY <1>11
  <2>2. lo \in [1 .. N -> 1 .. Len(layer)] /\ hi \in [1 .. N -> 1 .. Len(layer)]
    BY <1>11 DEF n
  <2> QED BY <1>10, <1>13, <1>15, <2>1, <2>2, Pieces
<1> QED
  BY <1>2, <1>16, <1>17 DEF S

-----------------------------------------------------------------------------
(* Grouping: a layer                                                       *)

LEMMA GroupOne ==
  ASSUME NEW layer \in Seq(Action), layer # << >>, NEW once, once => IsInjective(layer)
  PROVE  GroupList(<< layer >>, ToSet(layer), once)
<1> DEFINE gs == << layer >>
<1>1. gs \in Seq(Seq(Action) \ {<< >>}) /\ Len(gs) = 1 /\ DOMAIN gs = {1} /\ gs[1] = layer
  OBVIOUS
<1> HIDE DEF gs
<1>2. \A i \in 1 .. Len(gs) : i = 1
  BY <1>1
<1>3. 1 \in 1 .. Len(gs)
  BY <1>1
<1>4. once => Lists(gs, ToSet(layer))
  BY <1>1 DEF Lists
<1>5. \A x : x \in ToSet(layer) <=> \E i \in 1 .. Len(gs) : x \in ToSet(gs[i])
  BY <1>1, <1>2, <1>3, Zenon
<1> QED
  BY <1>1, <1>4, <1>5, Zenon DEF GroupList, gs

\* The chunks of a list of buckets.
LEMMA AllChunks ==
  ASSUME NEW bs, NEW T, NEW once, BucketsIn(bs, T, once)
  PROVE  GroupList(FlattenSeq([k \in DOMAIN bs |-> Chunks(bs[k])]), T, once)
<1> DEFINE n == Len(bs)
           fam == [k \in 1 .. n |-> Chunks(bs[k])]
           sets == [k \in 1 .. n |-> ToSet(bs[k].members)]
           ms == MembersOf(bs)
<1>1. bs \in Seq(Bucket) /\ n \in Nat /\ DOMAIN bs = 1 .. n /\ GroupList(ms, T, once)
  <2>1. bs \in Seq(Bucket) /\ GroupList(ms, T, once)
    BY DEF BucketsIn
  <2> HIDE DEF Bucket, ms
  <2> QED BY <2>1
<1>2. /\ Len(ms) = n /\ \A k \in 1 .. n : ms[k] = bs[k].members /\ bs[k] \in Bucket
  BY <1>1, MembersType, Zenon
<1> HIDE DEF ms, n
<1>3. DOMAIN ms = 1 .. n
  <2>1. ms \in Seq(Seq(Action) \ {<< >>})
    BY <1>1 DEF GroupList
  <2> QED BY <1>2, <2>1
<1>4. ASSUME once
      PROVE  /\ \A k \in 1 .. n : IsInjective(bs[k].members)
             /\ \A j, k \in 1 .. n : j # k => ToSet(bs[j].members) \cap ToSet(bs[k].members) = {}
  <2>1. Lists(ms, T)
    BY <1>1, <1>4 DEF GroupList
  <2> QED BY <1>2, <1>3, <2>1, ZenonT(30) DEF Lists
<1>5. ASSUME NEW k \in 1 .. n PROVE GroupList(Chunks(bs[k]), ToSet(bs[k].members), once)
  <2>1. bs[k] \in Bucket /\ (once => IsInjective(bs[k].members))
    BY <1>2, <1>4
  <2> QED BY <2>1, ChunksKeep, Zenon
<1>6. fam \in Seq(Seq(Seq(Action))) /\ Len(fam) = n
  <2>1. \A k \in 1 .. n : Chunks(bs[k]) \in Seq(Seq(Action))
    BY <1>5 DEF GroupList
  <2> QED BY <1>1, <2>1
<1>7. \A k \in 1 .. n : fam[k] = Chunks(bs[k]) /\ sets[k] = ToSet(bs[k].members)
  OBVIOUS
<1> HIDE DEF fam, sets
<1>8. \A k \in 1 .. Len(fam) : GroupList(fam[k], sets[k], once)
  BY <1>5, <1>6, <1>7, Zenon
<1>9. once => NoneMeet(sets, Len(fam))
  BY <1>4, <1>6, <1>7, Zenon DEF NoneMeet
<1>10. GroupList(FlattenSeq(fam), UNION {sets[k] : k \in 1 .. Len(fam)}, once)
  BY <1>6, <1>8, <1>9, FlatGroups
<1>11. UNION {sets[k] : k \in 1 .. Len(fam)} = T
  <2>1. \A x : x \in T <=> \E k \in 1 .. n : x \in ToSet(ms[k])
    BY <1>1, <1>2, Zenon DEF GroupList
  <2>0. \A k \in 1 .. n : sets[k] = ToSet(ms[k])
    BY <1>2, <1>7
  <2>2. \A x : x \in T <=> \E k \in 1 .. n : x \in sets[k]
    <3>1. ASSUME NEW x \in T PROVE \E k \in 1 .. n : x \in sets[k]
      <4>1. PICK k \in 1 .. n : x \in ToSet(ms[k])
        BY <2>1
      <4> QED BY <2>0, <4>1
    <3>2. ASSUME NEW x, NEW k \in 1 .. n, x \in sets[k] PROVE x \in T
      <4>1. x \in ToSet(ms[k])
        BY <2>0, <3>2
      <4> QED BY <2>1, <4>1
    <3> QED BY <3>1, <3>2
  <2> QED BY <1>6, <2>2
<1>12. [k \in DOMAIN bs |-> Chunks(bs[k])] = fam
  BY <1>1 DEF fam
<1> QED
  BY <1>10, <1>11, <1>12, Zenon

\* Grouping a layer loses none of its actions, and where no two rules claim an action
\* places each once.
LEMMA LayerKeeps ==
  ASSUME batchRules \in Seq(Rule), sessionRules \in Seq(Rule),
         NEW layer \in Seq(Action), IsInjective(layer)
  PROVE  GroupList(GroupSelected(layer), ToSet(layer), NoSharing)
<1>1. CASE layer = << >>
  <2>1. GroupSelected(layer) = << >> /\ ToSet(layer) = {}
    BY <1>1 DEF GroupSelected, ToSet
  <2> QED BY <2>1, GroupListEmpty
<1>2. CASE layer # << >> /\ batchRules = << >> /\ sessionRules = << >>
  <2>1. GroupSelected(layer) = << layer >>
    BY <1>2 DEF GroupSelected
  <2> QED BY <1>2, <2>1, GroupOne
<1>3. CASE layer # << >> /\ ~ (batchRules = << >> /\ sessionRules = << >>)
  <2> DEFINE bs == BatchingBuckets(layer)
             chunks == FlattenSeq([k \in DOMAIN bs |-> Chunks(bs[k])])
             held == ToSet(FlattenSeq(chunks))
             rest == Leftover(layer, held)
  <2>1. GroupSelected(layer) = chunks \o rest
    BY <1>3 DEF GroupSelected
  <2>2. PICK T : T \subseteq ToSet(layer) /\ BucketsIn(bs, T, NoSharing)
    BY BatchingKeeps, Zenon
  <2> HIDE DEF bs
  <2>3. GroupList(chunks, T, NoSharing)
    BY <2>2, AllChunks, Zenon
  <2> HIDE DEF chunks
  <2>4. held = T
    <3>1. chunks \in Seq(Seq(Action)) /\ \A x : x \in T <=> \E i \in 1 .. Len(chunks) : x \in ToSet(chunks[i])
      BY <2>3 DEF GroupList
    <3>2. held = UNION {ToSet(chunks[i]) : i \in 1 .. Len(chunks)}
      BY <3>1, FlatSet
    <3> HIDE DEF held
    <3> QED BY <3>1, <3>2
  <2> HIDE DEF held
  <2>5. GroupList(rest, ToSet(layer) \ T, NoSharing)
    <3>1. GroupList(rest, ToSet(layer) \ held, TRUE)
      BY LeftoverKeeps
    <3> HIDE DEF rest
    <3> QED BY <2>4, <3>1 DEF GroupList
  <2> HIDE DEF rest
  <2>6. GroupList(chunks \o rest, T \cup (ToSet(layer) \ T), NoSharing)
    <3>1. NoSharing => T \cap (ToSet(layer) \ T) = {}
      OBVIOUS
    <3> QED BY <2>3, <2>5, <3>1, GroupListConcat, Zenon
  <2>7. T \cup (ToSet(layer) \ T) = ToSet(layer)
    BY <2>2
  <2> QED BY <2>1, <2>6, <2>7, Zenon
<1> QED
  BY <1>1, <1>2, <1>3

\* Groups in another order.
LEMMA SortedKeeps ==
  ASSUME NEW gs, NEW S, NEW once, GroupList(gs, S, once), NEW rank \in [Action -> Nat]
  PROVE  GroupList(Sorted(gs, rank), S, once)
<1> DEFINE n == Len(gs)
           least(i) == Min({rank[a] : a \in ToSet(gs[i])})
           D == DOMAIN gs
           ahead == {p \in D \X D : \/ least(p[1]) < least(p[2])
                                    \/ least(p[1]) = least(p[2]) /\ p[1] < p[2]}
           ranks == Ranked(D, ahead)
           t == [k \in D |-> gs[ranks[k]]]
           A == Seq(Action) \ {<< >>}
<1>1. n \in Nat /\ gs \in Seq(A) /\ D = 1 .. n
  BY DEF GroupList
<1>2. Sorted(gs, rank) = t
  BY DEF Sorted
<1> HIDE DEF D
<1>3. ASSUME NEW i \in 1 .. n PROVE least(i) \in Nat
  <2>1. gs[i] \in A
    <3> HIDE DEF A
    <3> QED BY <1>1
  <2>2. gs[i][1] \in ToSet(gs[i]) /\ ToSet(gs[i]) \subseteq Action
    BY <2>1 DEF ToSet
  <2> DEFINE T == {rank[a] : a \in ToSet(gs[i])}
  <2>3. T \subseteq Nat /\ T # {}
    BY <2>2
  <2>4. least(i) = Min(T)
    OBVIOUS
  <2> HIDE DEF T, least
  <2>5. Min(T) \in T
    BY <2>3, LeastIsNat
  <2> QED BY <2>3, <2>4, <2>5
<1>4. Cardinality(1 .. n) = n /\ IsFiniteSet(1 .. n)
  <2> HIDE DEF n
  <2>1. n \in Nat /\ n \in Int /\ 1 \in Int
    BY <1>1
  <2> QED BY <2>1, FS_Interval
<1>5. StrictOrder(ahead, 1 .. n)
  <2>1. \A x, y \in 1 .. n : << x, y >> \in ahead <=> least(x) < least(y) \/ (least(x) = least(y) /\ x < y)
    <3> HIDE DEF least
    <3>1. ASSUME NEW x \in D, NEW y \in D PROVE << x, y >> \in ahead <=> least(x) < least(y) \/ (least(x) = least(y) /\ x < y)
      <4>1. << x, y >> \in D \X D /\ << x, y >>[1] = x /\ << x, y >>[2] = y
        OBVIOUS
      <4> DEFINE p == << x, y >>
      <4>2. p \in D \X D /\ p[1] = x /\ p[2] = y
        BY <4>1
      <4> HIDE DEF p
      <4>3. p \in ahead <=> least(p[1]) < least(p[2]) \/ (least(p[1]) = least(p[2]) /\ p[1] < p[2])
        BY <4>2, Zenon
      <4>4. p \in ahead <=> least(x) < least(y) \/ (least(x) = least(y) /\ x < y)
        BY <4>2, <4>3, Zenon
      <4> QED BY <4>4 DEF p
    <3> QED BY <1>1, <3>1, Zenon
  <2>2. \A x \in 1 .. n : x \in Nat /\ least(x) \in Nat
    BY <1>3
  <2> HIDE DEF ahead, least
  <2> QED BY <2>1, <2>2 DEF StrictOrder
<1> HIDE DEF ahead, least
<1>6. ListsMembers(ranks, 1 .. n)
  BY <1>1, <1>4, <1>5, RankedAll
<1> HIDE DEF ranks
<1>7. /\ ranks \in [1 .. n -> 1 .. n] /\ \A j, k \in 1 .. n : ranks[j] = ranks[k] => j = k
      /\ \A i \in 1 .. n : \E k \in 1 .. n : ranks[k] = i
  BY <1>4, <1>6 DEF ListsMembers
<1>8. t \in Seq(A) /\ Len(t) = n /\ DOMAIN t = 1 .. n /\ \A k \in 1 .. n : t[k] = gs[ranks[k]] /\ ranks[k] \in 1 .. n
  <2>1. \A k \in 1 .. n : gs[ranks[k]] \in A
    <3> HIDE DEF A
    <3> QED BY <1>1, <1>7
  <2>2. t = [k \in 1 .. n |-> gs[ranks[k]]]
    BY <1>1
  <2> HIDE DEF A, n, t
  <2>3. n \in Nat /\ \A k \in 1 .. n : ranks[k] \in 1 .. n
    BY <1>1, <1>7
  <2> QED BY <2>1, <2>2, <2>3
<1> HIDE DEF t, A
<1>9. \A x : x \in S <=> \E k \in 1 .. Len(t) : x \in ToSet(t[k])
  <2>1. \A x : x \in S <=> \E i \in 1 .. n : x \in ToSet(gs[i])
    BY Zenon DEF GroupList, n
  <2> HIDE DEF n
  <2>2. ASSUME NEW x, NEW i \in 1 .. n, x \in ToSet(gs[i]) PROVE \E k \in 1 .. n : x \in ToSet(t[k])
    <3>1. PICK k \in 1 .. n : ranks[k] = i
      BY <1>7
    <3> QED BY <1>8, <2>2, <3>1, Zenon
  <2>3. ASSUME NEW x, NEW k \in 1 .. n, x \in ToSet(t[k]) PROVE \E i \in 1 .. n : x \in ToSet(gs[i])
    BY <1>8, <2>3, Zenon
  <2> QED BY <1>8, <2>1, <2>2, <2>3, Zenon
<1>10. ASSUME once PROVE Lists(t, S)
  <2>1. /\ \A i \in 1 .. n : IsInjective(gs[i])
        /\ \A i, j \in 1 .. n : i # j => ToSet(gs[i]) \cap ToSet(gs[j]) = {}
    BY <1>1, <1>10, Zenon DEF GroupList, Lists, D
  <2> HIDE DEF n
  <2>2. \A k \in DOMAIN t : IsInjective(t[k])
    BY <1>8, <2>1, Zenon
  <2>3. \A j, k \in DOMAIN t : j # k => ToSet(t[j]) \intersect ToSet(t[k]) = {}
    <3> SUFFICES ASSUME NEW j \in 1 .. n, NEW k \in 1 .. n, j # k PROVE ToSet(t[j]) \cap ToSet(t[k]) = {}
      BY <1>8, Zenon
    <3>1. ranks[j] \in 1 .. n /\ ranks[k] \in 1 .. n /\ ranks[j] # ranks[k]
      BY <1>7, <1>8
    <3>2. t[j] = gs[ranks[j]] /\ t[k] = gs[ranks[k]]
      BY <1>8
    <3>3. ToSet(gs[ranks[j]]) \cap ToSet(gs[ranks[k]]) = {}
      BY <2>1, <3>1
    <3> QED BY <3>2, <3>3, Zenon
  <2>4. S = UNION {ToSet(t[i]) : i \in DOMAIN t}
    BY <1>8, <1>9
  <2> QED BY <1>8, <2>2, <2>3, <2>4, Zenon DEF Lists, A
<1>11. GroupList(t, S, once)
  BY <1>8, <1>9, <1>10, Zenon DEF GroupList, A
<1> QED
  BY <1>2, <1>11, Zenon

-----------------------------------------------------------------------------
(* Grouping: layer after layer                                             *)

Configured ==
    /\ selected \in Seq(Action) /\ IsInjective(selected)
    /\ batchRules \in Seq(Rule) /\ sessionRules \in Seq(Rule)
    /\ remaining \subseteq ToSet(selected)

\* The soft predecessors of a that are in no layer yet.
Pending(a) == {x \in remaining : SoftBefore(x, a)}

Indegrees == /\ indegree = [a \in Action |-> indegree[a]]
             /\ \A a \in Action : indegree[a] = Cardinality(Pending(a))

\* An action that no cycle leads to has its soft predecessors in earlier layers.
LayersOrdered ==
    \A x, y \in Action : SoftBefore(x, y) /\ ~Tangled(y) => (y \notin remaining => x \notin remaining)

GroupsOrdered ==
    \A x, y \in Action : SoftBefore(x, y) /\ ~Tangled(y) =>
        \A i, j \in DOMAIN groups : x \in ToSet(groups[i]) /\ y \in ToSet(groups[j]) => i < j

\* The actions that are in a layer are in the groups; and layer by layer, indegree counts
\* what is pending, and no action overtakes one it is to follow.
GroupingInv ==
    /\ Configured
    /\ GroupList(groups, ToSet(selected) \ remaining, NoSharing)
    /\ ~conservative => Indegrees /\ LayersOrdered /\ GroupsOrdered

\* Finitely many actions are selected.
LEMMA SelectedFinite == Configured => IsFiniteSet(ToSet(selected))
<1> SUFFICES ASSUME Configured PROVE IsFiniteSet(ToSet(selected))
  OBVIOUS
<1> DEFINE n == Len(selected)
<1>1. n \in Nat /\ selected \in Surjection(1 .. n, ToSet(selected))
  BY DEF Configured, ToSet, Surjection
<1> HIDE DEF n
<1>2. IsFiniteSet(1 .. n)
  BY <1>1, FS_Interval
<1> QED
  BY <1>1, <1>2, FS_Surjection

\* The invariant holds of the state before the first layer.
LEMMA GroupingInit == GroupsInit => GroupingInv
<1> SUFFICES ASSUME GroupsInit PROVE GroupingInv
  OBVIOUS
<1> USE GroupsAssumption DEF GroupsInit
<1>1. Configured
  BY DEF Configured
<1>2. groups = << >> /\ ToSet(selected) \ remaining = {}
  OBVIOUS
<1>3. GroupList(groups, ToSet(selected) \ remaining, NoSharing)
  BY <1>2, GroupListEmpty, Zenon
<1>4. Indegrees
  <2>1. \A a \in Action : {x \in Action : SoftBefore(x, a)} = Pending(a)
    <3>1. ToSet(selected) \subseteq Action
      BY DEF ToSet
    <3> QED BY <3>1 DEF Pending, SoftBefore
  <2>2. indegree = [a \in Action |-> Cardinality({x \in Action : SoftBefore(x, a)})]
    OBVIOUS
  <2> QED BY <2>1, <2>2 DEF Indegrees
<1>5. LayersOrdered
  BY DEF LayersOrdered, SoftBefore
<1>6. GroupsOrdered
  BY DEF GroupsOrdered
<1> QED
  BY <1>1, <1>3, <1>4, <1>5, <1>6 DEF GroupingInv

\* A layer takes actions nothing pending precedes, or actions a cycle leads to.
LEMMA LayerFacts ==
  ASSUME Configured, Indegrees, remaining # {}
  PROVE  /\ Layer(remaining) \in Seq(Action) /\ IsInjective(Layer(remaining))
         /\ ToSet(Layer(remaining)) \subseteq remaining
         /\ \A y \in ToSet(Layer(remaining)) : Pending(y) = {} \/ Tangled(y)
<1> DEFINE F == {a \in remaining : indegree[a] = 0}
           free == Only(selected, F)
           rest == Only(selected, remaining)
<1>1. /\ selected \in Seq(Action) /\ IsInjective(selected) /\ remaining \subseteq ToSet(selected)
      /\ remaining \subseteq Action
  BY DEF Configured, ToSet
<1>2. /\ free \in Seq(Action) /\ IsInjective(free) /\ ToSet(free) = F
  <2>1. ToSet(selected) \cap F = F
    BY <1>1
  <2> HIDE DEF F
  <2> QED BY <1>1, <2>1, OnlyKeeps
<1>3. /\ rest \in Seq(Action) /\ ToSet(rest) = remaining
  <2>1. ToSet(selected) \cap remaining = remaining
    BY <1>1
  <2> QED BY <1>1, <2>1, OnlyKeeps
<1>4. \A a \in remaining : IsFiniteSet(Pending(a)) /\ indegree[a] = Cardinality(Pending(a))
  <2> SUFFICES ASSUME NEW a \in remaining PROVE IsFiniteSet(Pending(a)) /\ indegree[a] = Cardinality(Pending(a))
    OBVIOUS
  <2>1. Pending(a) \in SUBSET ToSet(selected)
    BY <1>1 DEF Pending
  <2> QED BY <1>1, <2>1, SelectedFinite, FS_Subset DEF Indegrees
<1>5. Layer(remaining) = IF free # << >> THEN free ELSE << rest[1] >>
  BY DEF Layer
<1> HIDE DEF free, rest
<1>6. CASE free # << >>
  <2>1. \A y \in F : Pending(y) = {}
    BY <1>4, FS_EmptySet
  <2> QED BY <1>2, <1>5, <1>6, <2>1
<1>7. CASE free = << >>
  <2>1. F = {}
    BY <1>2, <1>7 DEF ToSet
  <2>2. \A y \in remaining : Pending(y) # {}
    BY <1>4, <2>1, FS_EmptySet
  <2>3. \A y \in remaining : Tangled(y)
    <3>1. \A y \in remaining : \E x \in remaining : SoftBefore(x, y)
      BY <2>2 DEF Pending
    <3> QED BY <1>1, <3>1 DEF Tangled
  <2>4. rest # << >>
    BY <1>3 DEF ToSet
  <2>5. rest[1] \in remaining
    BY <1>3, <2>4 DEF ToSet
  <2>6. /\ << rest[1] >> \in Seq(Action) /\ IsInjective(<< rest[1] >>) /\ ToSet(<< rest[1] >>) = {rest[1]}
    BY <1>1, <2>5 DEF IsInjective, ToSet
  <2> QED BY <1>5, <1>7, <2>3, <2>5, <2>6
<1> QED
  BY <1>6, <1>7

\* The configuration does not change, nor what is said of it alone.
LEMMA ConfigKept ==
  ASSUME UNCHANGED config
  PROVE  /\ \A x, a : SoftBefore(x, a)' <=> SoftBefore(x, a)
         /\ \A a : Tangled(a)' <=> Tangled(a)
         /\ NoSharing' <=> NoSharing
<1>1. soft' = soft /\ selected' = selected /\ batchRules' = batchRules /\ sessionRules' = sessionRules
  BY DEF config
<1>2. \A x, a : SoftBefore(x, a)' <=> SoftBefore(x, a)
  BY <1>1 DEF SoftBefore
<1>3. \A a : Tangled(a)' <=> Tangled(a)
  BY <1>1 DEF Tangled, SoftBefore
<1>4. NoSharing' <=> NoSharing
  BY <1>1 DEF NoSharing, Disjoint
<1> QED
  BY <1>2, <1>3, <1>4

\* It is kept by the conservative layout.
LEMMA ConservativeStep == GroupingInv /\ GroupConservatively => GroupingInv'
<1> SUFFICES ASSUME GroupingInv, GroupConservatively PROVE GroupingInv'
  OBVIOUS
<1>1. UNCHANGED config /\ remaining' = {} /\ conservative
  BY DEF GroupConservatively
<1>2. selected' = selected /\ batchRules' = batchRules /\ sessionRules' = sessionRules /\ conservative'
  BY <1>1 DEF config
<1>3. PICK rank \in Ranks : groups' = Sorted(GroupSelected(selected), rank)
  BY DEF GroupConservatively
<1>4. rank \in [Action -> Nat]
  BY GroupsAssumption
<1>5. /\ selected \in Seq(Action) /\ IsInjective(selected) /\ batchRules \in Seq(Rule) /\ sessionRules \in Seq(Rule)
  BY DEF GroupingInv, Configured
<1>6. GroupList(GroupSelected(selected), ToSet(selected), NoSharing)
  BY <1>5, LayerKeeps
<1>7. GroupList(groups', ToSet(selected), NoSharing)
  BY <1>3, <1>4, <1>6, SortedKeeps, Zenon
<1>8. NoSharing' <=> NoSharing
  BY <1>1, ConfigKept
<1>9. GroupList(groups', ToSet(selected)', NoSharing')
  <2>1. ToSet(selected)' = ToSet(selected)
    BY <1>2
  <2> HIDE DEF NoSharing
  <2> QED BY <1>7, <1>8, <2>1 DEF GroupList
<1>10. GroupList(groups, ToSet(selected) \ remaining, NoSharing)'
  <2>1. (ToSet(selected) \ remaining)' = ToSet(selected)'
    BY <1>1
  <2> QED BY <1>9, <2>1 DEF GroupList
<1>11. Configured'
  BY <1>1, <1>2, <1>5 DEF Configured
<1> QED
  BY <1>2, <1>10, <1>11 DEF GroupingInv

\* It is kept by a layer.
LEMMA LayerStep == GroupingInv /\ GroupLayer => GroupingInv'
<1> SUFFICES ASSUME GroupingInv, GroupLayer PROVE GroupingInv'
  OBVIOUS
<1> DEFINE layer == Layer(remaining)
           taken == ToSet(layer)
           gs == GroupSelected(layer)
           n == Len(groups)
           A == Seq(Action) \ {<< >>}
<1>1. /\ UNCHANGED config /\ remaining # {} /\ ~conservative
      /\ groups' = groups \o gs /\ remaining' = remaining \ taken
      /\ indegree' = [a \in Action |-> Max({0, indegree[a] - Cardinality({x \in taken : SoftBefore(x, a)})})]
  BY Zenon DEF GroupLayer
<1>2. /\ Configured /\ Indegrees /\ LayersOrdered /\ GroupsOrdered
      /\ GroupList(groups, ToSet(selected) \ remaining, NoSharing)
  BY <1>1 DEF GroupingInv
<1>3. /\ layer \in Seq(Action) /\ IsInjective(layer) /\ taken \subseteq remaining
      /\ \A y \in taken : Pending(y) = {} \/ Tangled(y)
  BY <1>1, <1>2, LayerFacts, Zenon
<1> HIDE DEF layer, taken, gs
<1>4. /\ selected' = selected /\ batchRules' = batchRules /\ sessionRules' = sessionRules /\ conservative' = conservative
  BY <1>1 DEF config
<1>5. /\ \A x, a : SoftBefore(x, a)' <=> SoftBefore(x, a)
      /\ \A a : Tangled(a)' <=> Tangled(a)
      /\ NoSharing' <=> NoSharing
  BY <1>1, ConfigKept
<1>6. GroupList(gs, taken, NoSharing)
  <2>1. batchRules \in Seq(Rule) /\ sessionRules \in Seq(Rule)
    BY <1>2 DEF Configured
  <2> QED BY <1>3, <2>1, LayerKeeps, Zenon DEF gs, taken
<1>7. /\ remaining \subseteq ToSet(selected)
      /\ (ToSet(selected) \ remaining) \cap taken = {}
      /\ (ToSet(selected) \ remaining) \cup taken = ToSet(selected) \ remaining'
  BY <1>1, <1>2, <1>3 DEF Configured
<1>8. Configured'
  BY <1>1, <1>2, <1>4 DEF Configured
<1>9. GroupList(groups, ToSet(selected) \ remaining, NoSharing)'
  <2>1. GroupList(groups \o gs, (ToSet(selected) \ remaining) \cup taken, NoSharing)
    BY <1>2, <1>6, <1>7, GroupListConcat, Zenon
  <2>2. (ToSet(selected) \ remaining)' = (ToSet(selected) \ remaining) \cup taken
    BY <1>4, <1>7
  <2>3. GroupList(groups', (ToSet(selected) \ remaining)', NoSharing)
    BY <1>1, <2>1, <2>2, Zenon
  <2> QED BY <1>5, <2>3 DEF GroupList
<1>10. Indegrees'
  <2>1. ASSUME NEW a \in Action PROVE indegree'[a] = Cardinality(Pending(a)')
    <3> DEFINE P == {x \in remaining : SoftBefore(x, a)}
               Q == {x \in taken : SoftBefore(x, a)}
               R == {x \in remaining \ taken : SoftBefore(x, a)}
    <3>1. P \in SUBSET ToSet(selected) /\ Q \in SUBSET P /\ P \ Q = R /\ P \cap Q = Q
      BY <1>3, <1>7
    <3>2. Pending(a) = P /\ Pending(a)' = R
      BY <1>1, <1>5 DEF Pending
    <3>3. indegree[a] = Cardinality(P) /\ indegree'[a] = Max({0, indegree[a] - Cardinality(Q)})
      BY <1>1, <1>2, <3>2 DEF Indegrees
    <3> HIDE DEF P, Q, R
    <3>4. IsFiniteSet(P)
      BY <1>2, <3>1, SelectedFinite, FS_Subset
    <3>5. IsFiniteSet(Q) /\ IsFiniteSet(R) /\ Cardinality(R) = Cardinality(P) - Cardinality(Q)
      <4>1. IsFiniteSet(P \ Q) /\ Cardinality(P \ Q) = Cardinality(P) - Cardinality(P \cap Q)
        BY <3>4, FS_Difference
      <4>2. IsFiniteSet(Q)
        BY <3>1, <3>4, FS_Subset
      <4> QED BY <3>1, <4>1, <4>2
    <3>6. Cardinality(R) \in Nat
      BY <3>5, FS_CardinalityType
    <3>7. Max({0, Cardinality(R)}) = Cardinality(R)
      BY <3>6, GreatestOfTwo
    <3> QED BY <3>2, <3>3, <3>5, <3>7
  <2>2. indegree' = [a \in Action |-> indegree'[a]]
    BY <1>1
  <2> QED BY <2>1, <2>2 DEF Indegrees
<1>11. \A x, y \in Action : SoftBefore(x, y) /\ ~Tangled(y) /\ y \in taken => x \notin remaining
  <2>1. \A x, y : SoftBefore(x, y) /\ x \in remaining => x \in Pending(y)
    BY DEF Pending
  <2> QED BY <1>3, <2>1
<1>12. LayersOrdered'
  <2> SUFFICES ASSUME NEW x \in Action, NEW y \in Action, SoftBefore(x, y), ~Tangled(y), y \notin remaining'
               PROVE  x \notin remaining'
    BY <1>5 DEF LayersOrdered
  <2>1. CASE y \notin remaining
    BY <1>1, <1>2, <2>1 DEF LayersOrdered
  <2>2. CASE y \in taken
    BY <1>1, <1>11, <2>2
  <2> QED BY <1>1, <2>1, <2>2
<1>13. GroupsOrdered'
  <2> SUFFICES ASSUME NEW x \in Action, NEW y \in Action, SoftBefore(x, y), ~Tangled(y),
                      NEW i \in DOMAIN groups', NEW j \in DOMAIN groups',
                      x \in ToSet(groups'[i]), y \in ToSet(groups'[j])
               PROVE  i < j
    <3>1. \A x, y \in Action : SoftBefore(x, y) /\ ~Tangled(y) =>
             \A i, j \in DOMAIN groups' : x \in ToSet(groups'[i]) /\ y \in ToSet(groups'[j]) => i < j
      OBVIOUS
    <3> QED BY <1>5, <3>1 DEF GroupsOrdered
  <2> DEFINE m == Len(gs)
  <2>1. groups \in Seq(A) /\ gs \in Seq(A) /\ n \in Nat /\ m \in Nat /\ DOMAIN groups = 1 .. n
    BY <1>2, <1>6 DEF GroupList
  <2>2. /\ DOMAIN groups' = 1 .. (n + m)
        /\ \A k \in 1 .. (n + m) : \/ k \in 1 .. n /\ groups'[k] = groups[k]
                                   \/ k - n \in 1 .. m /\ groups'[k] = gs[k - n]
    <3> HIDE DEF A
    <3> QED BY <1>1, <2>1, ConcatRange
  <2>3. /\ \A z : z \in ToSet(selected) \ remaining <=> \E k \in 1 .. n : z \in ToSet(groups[k])
        /\ \A z : z \in taken <=> \E k \in 1 .. m : z \in ToSet(gs[k])
    BY <1>2, <1>6, Zenon DEF GroupList
  <2> HIDE DEF n, m, A
  <2>4. /\ i \in 1 .. (n + m) /\ j \in 1 .. (n + m)
        /\ i \notin 1 .. n => x \in taken
        /\ j \notin 1 .. n => y \in taken
    <3>1. i \in 1 .. (n + m) /\ j \in 1 .. (n + m)
      BY <2>2, Zenon
    <3>2. ASSUME NEW k \in 1 .. (n + m), NEW z, z \in ToSet(groups'[k]), k \notin 1 .. n
          PROVE  z \in taken
      <4>1. k - n \in 1 .. m /\ groups'[k] = gs[k - n]
        BY <2>2, <3>2, Zenon
      <4>2. z \in ToSet(gs[k - n])
        BY <3>2, <4>1, Zenon
      <4> QED BY <2>3, <4>1, <4>2, Zenon
    <3> QED BY <3>1, <3>2, Zenon
  <2>5. CASE i \in 1 .. n /\ j \in 1 .. n
    <3>1. \A k \in 1 .. n : k \in 1 .. (n + m) /\ ~(k - n \in 1 .. m)
      BY <2>1
    <3>2. groups'[i] = groups[i] /\ groups'[j] = groups[j]
      BY <2>2, <2>5, <3>1
    <3>3. x \in ToSet(groups[i]) /\ y \in ToSet(groups[j])
      BY <3>2, Zenon
    <3> QED BY <1>2, <2>1, <2>5, <3>3 DEF GroupsOrdered
  <2>6. CASE i \in 1 .. n /\ j \notin 1 .. n
    BY <2>1, <2>4, <2>6
  <2>7. CASE i \notin 1 .. n /\ j \in 1 .. n
    <3>1. x \in remaining
      BY <1>3, <2>4, <2>7
    <3>2. \A k \in 1 .. n : k \in 1 .. (n + m) /\ ~(k - n \in 1 .. m)
      BY <2>1
    <3>3. groups'[j] = groups[j]
      BY <2>2, <2>7, <3>2
    <3>4. y \in ToSet(groups[j])
      BY <3>3, Zenon
    <3>5. y \notin remaining
      BY <2>3, <2>7, <3>4
    <3> QED BY <1>2, <3>1, <3>5 DEF LayersOrdered
  <2>8. CASE i \notin 1 .. n /\ j \notin 1 .. n
    BY <1>3, <1>11, <2>4, <2>8
  <2> QED BY <2>5, <2>6, <2>7, <2>8
<1> QED
  BY <1>8, <1>9, <1>10, <1>12, <1>13 DEF GroupingInv

\* It is kept by every step.
LEMMA GroupingStep == GroupingInv /\ [GroupsNext]_groupVars => GroupingInv'
<1>1. ASSUME GroupingInv, UNCHANGED groupVars PROVE GroupingInv'
  <2>1. UNCHANGED << conservative, selected, batchRules, sessionRules, soft, indegree, remaining, groups >>
    BY <1>1 DEF groupVars, config
  <2>2. GroupList(groups, ToSet(selected) \ remaining, NoSharing)'
    <3>1. UNCHANGED << groups, ToSet(selected) \ remaining >> /\ (NoSharing' <=> NoSharing)
      BY <2>1 DEF NoSharing, Disjoint
    <3>2. GroupList(groups, ToSet(selected) \ remaining, NoSharing)
      BY <1>1 DEF GroupingInv
    <3> QED BY <3>1, <3>2 DEF GroupList
  <2>3. Configured'
    BY <1>1, <2>1 DEF GroupingInv, Configured
  <2>4. /\ \A x, a : SoftBefore(x, a)' <=> SoftBefore(x, a)
        /\ \A a : Tangled(a)' <=> Tangled(a)
    BY <2>1, ConfigKept DEF config
  <2>5. ASSUME ~conservative PROVE Indegrees' /\ LayersOrdered' /\ GroupsOrdered'
    <3>1. Indegrees /\ LayersOrdered /\ GroupsOrdered
      BY <1>1, <2>5 DEF GroupingInv
    <3>2. Indegrees'
      <4>1. \A a : Pending(a)' = Pending(a)
        BY <2>1, <2>4 DEF Pending
      <4> QED BY <2>1, <3>1, <4>1 DEF Indegrees
    <3>3. LayersOrdered'
      BY <2>1, <2>4, <3>1 DEF LayersOrdered
    <3>4. GroupsOrdered'
      BY <2>1, <2>4, <3>1 DEF GroupsOrdered
    <3> QED BY <3>2, <3>3, <3>4
  <2> QED BY <2>1, <2>2, <2>3, <2>5 DEF GroupingInv
<1> QED
  BY <1>1, ConservativeStep, LayerStep DEF GroupsNext, Grouping, Stopped

\* The groups hold what has a layer, and where no two rules claim an action each once.
THEOREM GroupsPlaceOnce == GroupsSpec => []PlacedOnce
<1>1. GroupingInv => PlacedOnce
  <2> SUFFICES ASSUME GroupingInv PROVE PlacedOnce
    OBVIOUS
  <2> DEFINE S == ToSet(selected) \ remaining
             n == Len(groups)
  <2>1. GroupList(groups, S, NoSharing)
    BY DEF GroupingInv
  <2> HIDE DEF S
  <2>2. /\ groups \in Seq(Seq(Action) \ {<< >>})
        /\ \A x : x \in S <=> \E i \in 1 .. n : x \in ToSet(groups[i])
        /\ NoSharing => Lists(groups, S)
    BY <2>1 DEF GroupList
  <2>3. groups \in Seq(Seq(Action)) /\ << >> \notin ToSet(groups)
    <3>1. \A i \in 1 .. n : groups[i] \in Seq(Action) /\ groups[i] # << >>
      BY <2>2
    <3> QED BY <2>2, <3>1 DEF ToSet
  <2>4. ToSet(FlattenSeq(groups)) = UNION {ToSet(groups[i]) : i \in 1 .. n}
    BY <2>3, FlatSet
  <2>5. ToSet(FlattenSeq(groups)) = S
    BY <2>2, <2>4
  <2> QED BY <2>2, <2>3, <2>5 DEF PlacedOnce, Once, NoSharing, S
<1> QED
  BY <1>1, GroupingInit, GroupingStep, PTL DEF GroupsSpec

\* A soft-order pair is kept unless a cycle leads to the action that is to wait.
THEOREM SoftOrderInGroups == GroupsSpec => []SoftOrderKept
<1>1. GroupingInv => SoftOrderKept
  BY DEF GroupingInv, GroupsOrdered, SoftOrderKept
<1> QED
  BY <1>1, GroupingInit, GroupingStep, PTL DEF GroupsSpec
=============================================================================
