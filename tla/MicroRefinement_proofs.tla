------------------------ MODULE MicroRefinement_proofs ------------------------
(***************************************************************************)
(* What is proved of the micro refinement, for every plan and policy:      *)
(*                                                                         *)
(* 1. Sums over finite sets: SumFunctionOnSet has its steps, by induction  *)
(*    over the finite sets (SumAdd, SumInterval).                          *)
(* 2. Lines: how long the phases of an action or batch last, the rounding  *)
(*    included (BlePhasesSpread, DurationsSpread); how the next line of a  *)
(*    corridor goes on after the one before (BleGoesOn, ApiGoesOn); and    *)
(*    what the validators' checks say about the lines (ApiTidy).           *)
(* 3. Corridors: a valid one is in its order and never behind the plan     *)
(*    (Paced, Neat), and its neighbours overlap only as admitted           *)
(*    (BleNeighbours, ApiNeighbours).                                      *)
(* 4. The resolution: TodoInv and ChoiceInv say that candidates share no   *)
(*    batch and that the order of the pool is kept (WinnersSaveMost).      *)
(* 5. The walk: WalkedTo says that every batch of the timeline is alone or *)
(*    laid as its corridor has it, and that the walk is as much earlier as *)
(*    the corridors behind it save (RefinedInTime); two batches are then   *)
(*    neighbours of one corridor or the later one begins when the earlier  *)
(*    one has ended (NoTwoAtATime, OverlapsHarmNothing).                   *)
(* 6. The verdict: the last validation fails only where something was      *)
(*    rejected, a backoff is refined or neighbours were not admitted       *)
(*    (AlwaysForAReason).                                                  *)
(* 7. Validity: where each line is the one made after the line before      *)
(*    (LinesMade), a batch's preparation fits into the time the one before *)
(*    leaves it (LeavesTime, LaterLaid), so the lines are as the           *)
(*    validators want them (Steady, BleMadeValid, ApiMadeValid) and no     *)
(*    corridor is built in vain (NothingInVain).                           *)
(***************************************************************************)
EXTENDS MicroRefinement, TLAPS, FiniteSetTheorems, WellFoundedInduction

-----------------------------------------------------------------------------
(* Induction: a family of finite sets has a least member, a set of numbers  *)
(* a least element.                                                        *)

FiniteFamily(F, S) == F # {} /\ \A X \in F : X \subseteq S /\ IsFiniteSet(X)
IsMinimal(X, F) == X \in F /\ \A Y \in F : Y \subseteq X => Y = X

LEMMA MinimalFinite ==
    ASSUME NEW S, NEW F, FiniteFamily(F, S)
    PROVE  \E X : IsMinimal(X, F)
<1>1. F \subseteq FiniteSubsetsOf(S)
    BY DEF FiniteSubsetsOf, FiniteFamily
<1>2. \E X \in F : \A Y \in F : ~(<< Y, X >> \in StrictSubsetOrdering(S))
    BY <1>1, FS_StrictSubsetOrderingWellFounded, WFMin, Zenon DEF FiniteFamily
<1>3. PICK X \in F : \A Y \in F : ~(<< Y, X >> \in StrictSubsetOrdering(S))
    BY <1>2
<1>4. ASSUME NEW Y \in F, Y \subseteq X PROVE Y = X
    BY <1>3, <1>4 DEF StrictSubsetOrdering, FiniteFamily
<1> QED
    BY <1>4 DEF IsMinimal

\* A claim that fails for a subset of a finite set fails for one whose strict subsets it holds for.
LEMMA LeastFailure ==
    ASSUME NEW S, IsFiniteSet(S), NEW Bad, Bad \subseteq SUBSET S, Bad # {}
    PROVE  \E X \in Bad : IsFiniteSet(X) /\ \A Y \in SUBSET X : Y # X => Y \notin Bad
<1>1. FiniteFamily(Bad, S)
    BY FS_Subset DEF FiniteFamily
<1>2. PICK X : IsMinimal(X, Bad)
    BY <1>1, MinimalFinite
<1>3. IsFiniteSet(X)
    BY <1>2, FS_Subset DEF IsMinimal
<1> QED
    BY <1>2, <1>3 DEF IsMinimal

LEMMA PrefixInduction ==
    ASSUME NEW n \in Nat, NEW T, 0 \in T, \A k \in 1 .. n : k - 1 \in T => k \in T
    PROVE  n \in T
<1> SUFFICES ASSUME n \notin T PROVE FALSE
    OBVIOUS
<1> DEFINE Bad == {X \in SUBSET (1 .. n) : \E k \in 0 .. n : X = 1 .. k /\ k \notin T}
<1>1. Bad \subseteq SUBSET (1 .. n) /\ 1 .. n \in Bad
    OBVIOUS
<1>2. IsFiniteSet(1 .. n)
    BY FS_Interval
<1>3. PICK X \in Bad : \A Y \in SUBSET X : Y # X => Y \notin Bad
  <2>1. Bad # {}
      BY <1>1
  <2> DEFINE S == 1 .. n
  <2>2. IsFiniteSet(S) /\ Bad \subseteq SUBSET S
      BY <1>1, <1>2
  <2> HIDE DEF Bad, S
  <2> QED BY <2>1, <2>2, LeastFailure
<1>4. PICK k \in 0 .. n : X = 1 .. k /\ k \notin T
    OBVIOUS
<1>5. k \in 1 .. n /\ k - 1 \in 0 .. n /\ k - 1 \notin T
    BY <1>4
<1>6. 1 .. k - 1 \in SUBSET X /\ 1 .. k - 1 # X /\ 1 .. k - 1 \in SUBSET (1 .. n)
    BY <1>4, <1>5
<1>7. 1 .. k - 1 \in Bad
    BY <1>5, <1>6
<1> QED
    BY <1>3, <1>6, <1>7

-----------------------------------------------------------------------------
(* Sums                                                                    *)

Pick(s) == CHOOSE x \in s : TRUE

IsSum(g, f, S) ==
    g = [s \in SUBSET S |-> IF s = {} THEN 0 ELSE f[Pick(s)] + g[s \ {Pick(s)}]]

LEMMA SumIsSum ==
    ASSUME NEW f, NEW S
    PROVE  SumFunctionOnSet(f, S) = (CHOOSE g : IsSum(g, f, S))[S]
BY DEF SumFunctionOnSet, FoldFunctionOnSet, MapThenFoldSet, IsSum, Pick

LEMMA PickIn == \A s : s # {} => Pick(s) \in s
BY DEF Pick

LEMMA SumsAgree ==
    ASSUME NEW S, IsFiniteSet(S), NEW T \in SUBSET S, NEW f, NEW g, NEW h,
           IsSum(g, f, S), IsSum(h, f, T)
    PROVE  g[T] = h[T]
<1> DEFINE Bad == {X \in SUBSET T : g[X] # h[X]}
<1> SUFFICES ASSUME Bad # {} PROVE FALSE
    BY DEF Bad
<1>1. IsFiniteSet(T)
    BY FS_Subset
<1>2. PICK X \in Bad : \A Y \in SUBSET X : Y # X => Y \notin Bad
  <2>1. Bad \subseteq SUBSET T
      OBVIOUS
  <2> HIDE DEF Bad
  <2> QED BY <1>1, <2>1, LeastFailure
<1>3. X \in SUBSET T /\ X \in SUBSET S /\ g[X] # h[X]
    OBVIOUS
<1>4. /\ g[X] = IF X = {} THEN 0 ELSE f[Pick(X)] + g[X \ {Pick(X)}]
      /\ h[X] = IF X = {} THEN 0 ELSE f[Pick(X)] + h[X \ {Pick(X)}]
    BY <1>3 DEF IsSum
<1>5. X # {}
    BY <1>3, <1>4
<1>6. X \ {Pick(X)} \in SUBSET X /\ X \ {Pick(X)} # X /\ X \ {Pick(X)} \in SUBSET T
    BY <1>3, <1>5, PickIn
<1>7. g[X \ {Pick(X)}] = h[X \ {Pick(X)}]
    BY <1>2, <1>6
<1> QED
    BY <1>3, <1>4, <1>7

\* A sum is that of one element and of the rest.
SumStepsAt(f, X) ==
    SumFunctionOnSet(f, X) =
        IF X = {} THEN 0 ELSE f[Pick(X)] + SumFunctionOnSet(f, X \ {Pick(X)})

LEMMA SumSteps ==
    ASSUME NEW S, IsFiniteSet(S), NEW f
    PROVE  SumStepsAt(f, S)
<1> DEFINE Bad == {X \in SUBSET S : ~SumStepsAt(f, X)}
<1> SUFFICES ASSUME Bad # {} PROVE FALSE
    BY DEF Bad
<1>1. PICK X \in Bad : IsFiniteSet(X) /\ \A Y \in SUBSET X : Y # X => Y \notin Bad
  <2>1. Bad \subseteq SUBSET S
      OBVIOUS
  <2> HIDE DEF Bad
  <2> QED BY <2>1, LeastFailure
<1>2. \A Y \in SUBSET X : Y # X => SumStepsAt(f, Y)
    BY <1>1
<1> DEFINE sum(Y) == SumFunctionOnSet(f, Y)
           top == IF X = {} THEN 0 ELSE f[Pick(X)] + sum(X \ {Pick(X)})
           h == [s \in SUBSET X |-> IF s = X THEN top ELSE sum(s)]
<1>3. \A s \in SUBSET X : s # {} => s \ {Pick(s)} \in SUBSET X /\ s \ {Pick(s)} # X
    BY PickIn
<1>4. \A s \in SUBSET X : h[s] = IF s = {} THEN 0 ELSE f[Pick(s)] + h[s \ {Pick(s)}]
  <2> TAKE s \in SUBSET X
  <2>1. CASE s = X
    <3>1. h[s] = top
        BY <2>1
    <3>2. X # {} => h[s \ {Pick(s)}] = sum(X \ {Pick(X)})
        BY <1>3, <2>1
    <3> QED BY <2>1, <3>1, <3>2
  <2>2. CASE s # X
    <3>1. SumStepsAt(f, s)
        BY <1>2, <2>2
    <3>2. s # {} => h[s \ {Pick(s)}] = sum(s \ {Pick(s)})
        BY <1>3
    <3>3. h[s] = sum(s)
        BY <2>2
    <3> QED BY <3>1, <3>2, <3>3 DEF SumStepsAt
  <2> QED BY <2>1, <2>2
<1>5. IsSum(h, f, X)
  <2> DEFINE h2 == [s \in SUBSET X |-> IF s = {} THEN 0 ELSE f[Pick(s)] + h[s \ {Pick(s)}]]
  <2>1. h = h2
    <3>1. DOMAIN h = SUBSET X /\ DOMAIN h2 = SUBSET X
        OBVIOUS
    <3>2. \A s \in SUBSET X : h[s] = h2[s]
      <4> TAKE s \in SUBSET X
      <4>1. h[s] = IF s = {} THEN 0 ELSE f[Pick(s)] + h[s \ {Pick(s)}]
          BY <1>4
      <4> HIDE DEF h
      <4> QED BY <4>1
    <3>3. h = [s \in SUBSET X |-> h[s]] /\ h2 = [s \in SUBSET X |-> h2[s]]
        OBVIOUS
    <3> HIDE DEF h, h2
    <3> QED BY <3>2, <3>3
  <2> HIDE DEF h
  <2> QED BY <2>1 DEF IsSum
<1> DEFINE g == CHOOSE k : IsSum(k, f, X)
<1>6. IsSum(g, f, X)
  <2> HIDE DEF h
  <2> QED BY <1>5
<1> HIDE DEF g
<1>7. sum(X) = g[X]
    BY SumIsSum DEF g
<1>8. g[X] = h[X]
  <2> HIDE DEF h
  <2> QED BY <1>1, <1>5, <1>6, SumsAgree
<1>9. h[X] = top
    OBVIOUS
<1> QED
    BY <1>1, <1>7, <1>8, <1>9 DEF SumStepsAt

LEMMA SumOfNone == \A f : SumFunctionOnSet(f, {}) = 0
<1> TAKE f
<1>1. IsFiniteSet({})
    BY FS_EmptySet
<1> QED
    BY <1>1, SumSteps DEF SumStepsAt

\* The set of the subsets of S whose sum is an integer, and to which each element of S may be added.
AddsUp(f, X, S) ==
    /\ SumFunctionOnSet(f, X) \in Int
    /\ \A x \in S \ X : SumFunctionOnSet(f, X \cup {x}) = SumFunctionOnSet(f, X) + f[x]

LEMMA SumAdd ==
    ASSUME NEW S, IsFiniteSet(S), NEW f, \A x \in S : f[x] \in Int, NEW T \in SUBSET S
    PROVE  AddsUp(f, T, S)
<1> DEFINE sum(Y) == SumFunctionOnSet(f, Y)
           Bad == {X \in SUBSET S : ~AddsUp(f, X, S)}
<1> SUFFICES ASSUME Bad # {} PROVE FALSE
    BY DEF Bad
<1>1. PICK X \in Bad : IsFiniteSet(X) /\ \A Y \in SUBSET X : Y # X => Y \notin Bad
  <2>1. Bad \subseteq SUBSET S
      OBVIOUS
  <2> HIDE DEF Bad
  <2> QED BY <2>1, LeastFailure
<1>2. \A Y \in SUBSET X : Y # X => AddsUp(f, Y, S)
    BY <1>1
<1>3. X \in SUBSET S /\ ~AddsUp(f, X, S)
    BY <1>1
<1> HIDE DEF Bad
<1>4. sum(X) \in Int
  <2>1. CASE X = {}
      BY <2>1, SumOfNone
  <2>2. CASE X # {}
    <3>1. Pick(X) \in X /\ X \ {Pick(X)} \in SUBSET X /\ X \ {Pick(X)} # X
        BY <2>2, PickIn
    <3>2. sum(X \ {Pick(X)}) \in Int
        BY <1>2, <3>1 DEF AddsUp
    <3>3. sum(X) = f[Pick(X)] + sum(X \ {Pick(X)})
        BY <1>1, <2>2, SumSteps DEF SumStepsAt
    <3>4. f[Pick(X)] \in Int
        BY <1>3, <3>1
    <3> QED BY <3>2, <3>3, <3>4
  <2> QED BY <2>1, <2>2
<1>5. ASSUME NEW x \in S \ X
      PROVE  sum(X \cup {x}) = sum(X) + f[x]
  <2> DEFINE Z == X \cup {x}
             c == Pick(Z)
  <2>1. IsFiniteSet(Z)
      BY <1>1, FS_AddElement
  <2>2. sum(Z) = f[c] + sum(Z \ {c}) /\ c \in Z
      BY <2>1, SumSteps, PickIn DEF SumStepsAt
  <2>3. f[x] \in Int
      OBVIOUS
  <2> HIDE DEF c
  <2>4. CASE c = x
    <3>1. Z \ {c} = X
        BY <2>4
    <3>2. sum(Z) = f[x] + sum(X)
        BY <2>2, <2>4, <3>1
    <3> HIDE DEF Z, sum
    <3>3. sum(Z) = sum(X) + f[x]
        BY <1>4, <2>3, <3>2
    <3> QED BY <3>3 DEF Z
  <2>5. CASE c # x
    <3>1. c \in X /\ f[c] \in Int
        BY <1>3, <2>2, <2>5
    <3> DEFINE Y == X \ {c}
    <3>2. Y \in SUBSET X /\ Y # X /\ x \in S \ Y /\ c \in S \ Y
        BY <1>3, <3>1
    <3>3. Z \ {c} = Y \cup {x} /\ X = Y \cup {c}
        BY <2>5, <3>1
    <3> HIDE DEF Y, Z
    <3>4. AddsUp(f, Y, S)
        BY <1>2, <3>2
    <3>5. sum(Y) \in Int /\ sum(Y \cup {x}) = sum(Y) + f[x] /\ sum(Y \cup {c}) = sum(Y) + f[c]
        BY <3>2, <3>4 DEF AddsUp
    <3>6. sum(Z) = f[c] + sum(Y \cup {x}) /\ sum(X) = sum(Y \cup {c})
        BY <2>2, <3>3
    <3> HIDE DEF sum
    <3>7. sum(Z) = sum(X) + f[x]
        BY <2>3, <3>1, <3>5, <3>6
    <3> QED
        BY <3>7 DEF Z
  <2> QED BY <2>4, <2>5
<1> QED
    BY <1>3, <1>4, <1>5 DEF AddsUp

Summable(f, S) == IsFiniteSet(S) /\ \A x \in S : f[x] \in Int

LEMMA SumInt ==
    ASSUME NEW f, NEW S, Summable(f, S)
    PROVE  SumFunctionOnSet(f, S) \in Int
BY SumAdd DEF Summable, AddsUp

LEMMA SumInsert ==
    ASSUME NEW f, NEW S, Summable(f, S), NEW x, x \notin S, f[x] \in Int
    PROVE  /\ Summable(f, S \cup {x})
           /\ SumFunctionOnSet(f, S \cup {x}) = SumFunctionOnSet(f, S) + f[x]
<1>1. Summable(f, S \cup {x})
    BY FS_AddElement DEF Summable
<1> DEFINE T == S \cup {x}
<1>2. IsFiniteSet(T) /\ (\A y \in T : f[y] \in Int) /\ S \in SUBSET T /\ x \in T \ S
    BY <1>1 DEF Summable
<1>3. AddsUp(f, S, T)
  <2> HIDE DEF T
  <2> QED BY <1>2, SumAdd
<1> QED
    BY <1>1, <1>2, <1>3 DEF AddsUp

LEMMA SumUnion ==
    ASSUME NEW f, NEW S, NEW T, Summable(f, S), Summable(f, T), S \cap T = {}
    PROVE  /\ Summable(f, S \cup T)
           /\ SumFunctionOnSet(f, S \cup T) = SumFunctionOnSet(f, S) + SumFunctionOnSet(f, T)
<1> DEFINE sum(X) == SumFunctionOnSet(f, X)
           Bad == {X \in SUBSET T : sum(S \cup X) # sum(S) + sum(X)}
<1>1. Summable(f, S \cup T)
    BY FS_Union DEF Summable
<1>2. ASSUME Bad # {} PROVE FALSE
  <2>1. PICK X \in Bad : IsFiniteSet(X) /\ \A Y \in SUBSET X : Y # X => Y \notin Bad
    <3>1. Bad \subseteq SUBSET T /\ IsFiniteSet(T)
        BY DEF Summable
    <3> HIDE DEF Bad
    <3> QED BY <1>2, <3>1, LeastFailure
  <2>2. X \in SUBSET T /\ sum(S \cup X) # sum(S) + sum(X)
      BY <2>1
  <2>3. sum(S) \in Int
      BY SumInt
  <2>4. X # {}
    <3> SUFFICES ASSUME X = {} PROVE FALSE
        OBVIOUS
    <3>1. S \cup X = S /\ sum(X) = 0
        BY SumOfNone
    <3>2. sum(S \cup X) = sum(S)
        BY <3>1
    <3> HIDE DEF sum, Bad
    <3> QED BY <2>2, <2>3, <3>1, <3>2
  <2>5. PICK x \in X : TRUE
      BY <2>4
  <2> DEFINE Y == X \ {x}
  <2>6. Y \in SUBSET X /\ Y # X /\ Y \in SUBSET T /\ X = Y \cup {x} /\ x \notin Y /\ x \in T /\ x \notin S \cup Y
      BY <2>2, <2>5
  <2>7. Y \notin Bad
      BY <2>1, <2>6
  <2>8. sum(S \cup Y) = sum(S) + sum(Y)
      BY <2>6, <2>7
  <2> HIDE DEF Y
  <2>9. Summable(f, Y) /\ Summable(f, S \cup Y) /\ f[x] \in Int
      BY <2>6, FS_Subset, FS_Union DEF Summable
  <2>10. sum(X) = sum(Y) + f[x] /\ sum(Y) \in Int
      BY <2>6, <2>9, SumInsert, SumInt
  <2>11. sum((S \cup Y) \cup {x}) = sum(S \cup Y) + f[x]
      BY <2>6, <2>9, SumInsert
  <2>12. (S \cup Y) \cup {x} = S \cup X
      BY <2>6
  <2>13. sum(S \cup X) = sum(S \cup Y) + f[x]
      BY <2>11, <2>12
  <2> HIDE DEF sum
  <2> QED BY <2>2, <2>3, <2>8, <2>9, <2>10, <2>13
<1>3. T \in SUBSET T
    OBVIOUS
<1> QED
    BY <1>1, <1>2, <1>3

LEMMA SumNat ==
    ASSUME NEW f, NEW S, IsFiniteSet(S), \A x \in S : f[x] \in Nat
    PROVE  SumFunctionOnSet(f, S) \in Nat
<1> DEFINE sum(X) == SumFunctionOnSet(f, X)
           Bad == {X \in SUBSET S : sum(X) \notin Nat}
<1> SUFFICES ASSUME Bad # {} PROVE FALSE
    OBVIOUS
<1>1. PICK X \in Bad : IsFiniteSet(X) /\ \A Y \in SUBSET X : Y # X => Y \notin Bad
  <2>1. Bad \subseteq SUBSET S
      OBVIOUS
  <2> HIDE DEF Bad
  <2> QED BY <2>1, LeastFailure
<1>2. X \in SUBSET S /\ sum(X) \notin Nat
    BY <1>1
<1>3. X # {}
    BY <1>2, SumOfNone
<1>4. PICK x \in X : TRUE
    BY <1>3
<1> DEFINE Y == X \ {x}
<1>5. Y \in SUBSET X /\ Y # X /\ Y \in SUBSET S /\ X = Y \cup {x} /\ x \notin Y /\ f[x] \in Nat
    BY <1>2, <1>4
<1>6. sum(Y) \in Nat
    BY <1>1, <1>5
<1> HIDE DEF Y
<1>7. Summable(f, Y) /\ f[x] \in Int
    BY <1>5, FS_Subset DEF Summable
<1>8. sum(Y \cup {x}) = sum(Y) + f[x]
    BY <1>5, <1>7, SumInsert
<1>9. sum(X) = sum(Y) + f[x]
    BY <1>5, <1>8
<1> HIDE DEF sum, Bad
<1> QED BY <1>2, <1>5, <1>6, <1>9

\* A sum depends on no value outside its set.
LEMMA SumEqual ==
    ASSUME NEW f, NEW g, NEW S, Summable(f, S), \A x \in S : f[x] = g[x]
    PROVE  SumFunctionOnSet(f, S) = SumFunctionOnSet(g, S)
<1> DEFINE Bad == {X \in SUBSET S : SumFunctionOnSet(f, X) # SumFunctionOnSet(g, X)}
<1> SUFFICES ASSUME Bad # {} PROVE FALSE
    OBVIOUS
<1>1. PICK X \in Bad : IsFiniteSet(X) /\ \A Y \in SUBSET X : Y # X => Y \notin Bad
  <2>1. Bad \subseteq SUBSET S /\ IsFiniteSet(S)
      BY DEF Summable
  <2> HIDE DEF Bad
  <2> QED BY <2>1, LeastFailure
<1>2. X \in SUBSET S /\ SumFunctionOnSet(f, X) # SumFunctionOnSet(g, X)
    BY <1>1
<1>3. X # {}
    BY <1>2, SumOfNone
<1> DEFINE x == Pick(X)
           Y == X \ {x}
<1>4. x \in X /\ x \in S
    BY <1>2, <1>3, PickIn
<1> HIDE DEF x
<1>5. Y \in SUBSET X /\ Y # X /\ Y \in SUBSET S /\ f[x] = g[x]
    BY <1>2, <1>4
<1>6. SumFunctionOnSet(f, Y) = SumFunctionOnSet(g, Y)
    BY <1>1, <1>5
<1>7. /\ SumFunctionOnSet(f, X) = f[x] + SumFunctionOnSet(f, Y)
      /\ SumFunctionOnSet(g, X) = g[x] + SumFunctionOnSet(g, Y)
    BY <1>1, <1>3, SumSteps DEF SumStepsAt, x
<1> HIDE DEF Bad, Y
<1> QED BY <1>2, <1>5, <1>6, <1>7

\* What is left out of a sum of numbers only makes it smaller.
LEMMA SumOfPart ==
    ASSUME NEW f, NEW S, IsFiniteSet(S), \A x \in S : f[x] \in Nat, NEW T \in SUBSET S
    PROVE  /\ SumFunctionOnSet(f, T) \in Nat /\ SumFunctionOnSet(f, S) \in Nat
           /\ SumFunctionOnSet(f, T) <= SumFunctionOnSet(f, S)
<1>1. IsFiniteSet(T) /\ IsFiniteSet(S \ T) /\ T \cap (S \ T) = {} /\ T \cup (S \ T) = S
    BY FS_Subset
<1> DEFINE R == S \ T
<1>2. Summable(f, T) /\ Summable(f, R)
    BY <1>1 DEF Summable
<1>3. T \cap R = {} /\ T \cup R = S /\ IsFiniteSet(R) /\ \A x \in R : f[x] \in Nat
    BY <1>1
<1>4. \A x \in T : f[x] \in Nat
    OBVIOUS
<1> HIDE DEF R
<1>5. SumFunctionOnSet(f, T \cup R) = SumFunctionOnSet(f, T) + SumFunctionOnSet(f, R)
    BY <1>2, <1>3, SumUnion
<1>6. SumFunctionOnSet(f, T) \in Nat /\ SumFunctionOnSet(f, R) \in Nat
    BY <1>1, <1>3, <1>4, SumNat
<1>7. SumFunctionOnSet(f, S) = SumFunctionOnSet(f, T) + SumFunctionOnSet(f, R)
    BY <1>3, <1>5
<1> QED BY <1>6, <1>7

\* A finite set of integers that is not empty has a greatest element.
LEMMA MaxOfFinite ==
    ASSUME NEW S, IsFiniteSet(S), S \subseteq Int, S # {}
    PROVE  Max(S) \in S /\ \A y \in S : Max(S) >= y
<1> DEFINE Bad == {X \in SUBSET S : X # {} /\ ~\E x \in X : \A y \in X : x >= y}
<1>1. ASSUME Bad # {} PROVE FALSE
  <2>1. PICK X \in Bad : IsFiniteSet(X) /\ \A Y \in SUBSET X : Y # X => Y \notin Bad
    <3>1. Bad \subseteq SUBSET S
        OBVIOUS
    <3> HIDE DEF Bad
    <3> QED BY <1>1, <3>1, LeastFailure
  <2>2. X \subseteq Int /\ X # {} /\ ~\E x \in X : \A y \in X : x >= y
      BY <2>1
  <2>3. PICK c \in X : TRUE
      BY <2>2
  <2>4. X \ {c} \in SUBSET X /\ X \ {c} # X /\ X \ {c} \in SUBSET S /\ c \in Int
      BY <2>2, <2>3, <2>1
  <2>5. X \ {c} \notin Bad
      BY <2>1, <2>4
  <2>6. X \ {c} # {}
      BY <2>2, <2>4
  <2>7. PICK x \in X \ {c} : \A y \in X \ {c} : x >= y
      BY <2>4, <2>5, <2>6
  <2>8. x \in X /\ x \in Int
      BY <2>2, <2>7
  <2> HIDE DEF Bad
  <2>9. CASE x >= c
      BY <2>2, <2>7, <2>8, <2>9
  <2>10. CASE c > x
    <3>1. \A y \in X : c >= y
        BY <2>2, <2>4, <2>7, <2>8, <2>10
    <3> QED BY <2>2, <2>3, <3>1
  <2> QED BY <2>4, <2>8, <2>9, <2>10
<1>2. \E x \in S : \A y \in S : x >= y
    BY <1>1
<1> QED
    BY <1>2 DEF Max

LEMMA SumInterval ==
    ASSUME NEW f, NEW a \in Int, NEW b \in Int, a <= b + 1, \A i \in a .. b + 1 : f[i] \in Int
    PROVE  /\ Summable(f, a .. b) /\ Summable(f, a .. b + 1)
           /\ SumFunctionOnSet(f, a .. b + 1) = SumFunctionOnSet(f, a .. b) + f[b + 1]
<1>1. Summable(f, a .. b)
  <2>1. IsFiniteSet(a .. b)
      BY FS_Interval
  <2>2. \A i \in a .. b : f[i] \in Int
      OBVIOUS
  <2> QED BY <2>1, <2>2 DEF Summable
<1> DEFINE S == a .. b
<1>2. a .. b + 1 = S \cup {b + 1} /\ b + 1 \notin S /\ f[b + 1] \in Int
    OBVIOUS
<1> HIDE DEF S
<1>3. Summable(f, S)
    BY <1>1 DEF S
<1>4. Summable(f, S \cup {b + 1}) /\ SumFunctionOnSet(f, S \cup {b + 1}) = SumFunctionOnSet(f, S) + f[b + 1]
    BY <1>2, <1>3, SumInsert
<1> QED
    BY <1>1, <1>2, <1>4 DEF S

-----------------------------------------------------------------------------
(* How long the phases of a BLE action last                                *)

\* Every phase lasts, and together they last what the action does.
BleSpread(d, total) ==
    /\ d.adv \in Nat \ {0} /\ d.connect \in Nat \ {0} /\ d.xfer \in Nat \ {0} /\ d.settle \in Nat \ {0}
    /\ d.adv + d.connect + d.xfer + d.settle = total

WithinTimeouts(d, advTimeout, connectTimeout) == d.adv <= advTimeout /\ d.connect <= connectTimeout

\* The shares leave enough for the transfer, so that nothing is taken from the others.
LEMMA EnoughForTransfer ==
    ASSUME NEW total \in Nat, NEW share, NEW advTimeout \in Nat \ {0}, NEW connectTimeout \in Nat \ {0},
           NEW adv \in Nat, NEW connect \in Nat, NEW settle \in Nat,
           adv = Larger(AdvMin, Rounded(total * share.adv, 100)),
           connect = Larger(share.least, Rounded(total * share.connect, 100)),
           settle = Larger(SettleMin, Rounded(total * share.settle, 100)),
           adv >= 1, connect >= 1, settle >= 1,
           total >= adv + connect + settle + XferMin
    PROVE  /\ BleSpread(BleDurations(total, share, advTimeout, connectTimeout), total)
           /\ WithinTimeouts(BleDurations(total, share, advTimeout, connectTimeout), advTimeout, connectTimeout)
<1> DEFINE d == Shared(total, share, advTimeout, connectTimeout)
           a == Smaller(advTimeout, adv)
           c == Smaller(connectTimeout, connect)
           x == total - a - c - settle
<1>1. d = [adv |-> a, connect |-> c, xfer |-> x, settle |-> settle]
    BY DEF Shared
<1>2. /\ a \in Nat \ {0} /\ c \in Nat \ {0} /\ a <= adv /\ c <= connect
      /\ a <= advTimeout /\ c <= connectTimeout
    BY DEF Smaller
<1>3. x \in Nat /\ x >= 120 /\ a + c + x + settle = total
    BY <1>2 DEF XferMin
<1> HIDE DEF a, c, x, d
<1>4. \A phase \in {"adv", "connect", "settle"} : \A least \in Nat : Donate(d, phase, least) = d
  <2> TAKE phase \in {"adv", "connect", "settle"}
  <2> TAKE least \in Nat
  <2>1. Larger(0, XferMin - d.xfer) = 0
      BY <1>1, <1>3 DEF Larger, XferMin
  <2>2. d[phase] \in Int
      BY <1>1, <1>2
  <2>3. Smaller(0, Larger(0, d[phase] - least)) = 0
      BY <2>2 DEF Smaller, Larger
  <2> DEFINE cut == Smaller(Larger(0, XferMin - d.xfer), Larger(0, d[phase] - least))
  <2>4. cut = 0
      BY <2>1, <2>3
  <2>5. Donate(d, phase, least) = [d EXCEPT ![phase] = @ - cut, !.xfer = @ + cut]
      BY DEF Donate
  <2> HIDE DEF cut
  <2>6. Donate(d, phase, least) = [d EXCEPT ![phase] = @ - 0, !.xfer = @ + 0]
      BY <2>4, <2>5
  <2>7. d[phase] - 0 = d[phase] /\ d.xfer + 0 = d.xfer
      BY <1>1, <1>3, <2>2
  <2>8. d[phase] = d[phase] - 0 /\ [d EXCEPT ![phase] = @ - 0] = d
    <3>1. CASE phase = "adv"
        BY <1>1, <1>2, <3>1
    <3>2. CASE phase = "connect"
        BY <1>1, <1>2, <3>2
    <3>3. CASE phase = "settle"
        BY <1>1, <1>2, <3>3
    <3> QED BY <3>1, <3>2, <3>3
  <2>9. [d EXCEPT !.xfer = @ + 0] = d
      BY <1>1, <1>3
  <2>10. [d EXCEPT ![phase] = @ - 0, !.xfer = @ + 0] = [[d EXCEPT ![phase] = @ - 0] EXCEPT !.xfer = @ + 0]
      OBVIOUS
  <2> QED BY <2>6, <2>8, <2>9, <2>10
<1>5. Donate(d, "connect", ConnectMin) = d /\ Donate(d, "adv", AdvMin) = d /\ Donate(d, "settle", SettleMin) = d
    BY <1>4 DEF ConnectMin, AdvMin, SettleMin
<1>6. BleDurations(total, share, advTimeout, connectTimeout) = Fit(total, d)
    BY <1>5 DEF BleDurations, d
<1>7. Larger(XferMin, d.xfer) = x
    BY <1>1, <1>3 DEF Larger, XferMin
<1>8. Larger(1, total - d.adv - d.connect - x) = settle
    BY <1>1, <1>2, <1>3 DEF Larger
<1>9. Fit(total, d) = [d EXCEPT !.xfer = x, !.settle = settle]
    BY <1>7, <1>8 DEF Fit
<1>10. Fit(total, d) = [adv |-> a, connect |-> c, xfer |-> x, settle |-> settle]
    BY <1>1, <1>9
<1> QED
    BY <1>2, <1>3, <1>6, <1>10 DEF BleSpread, WithinTimeouts

LEMMA BlePhasesSpread ==
    ASSUME NEW p \in BlePolicy, NEW a
    PROVE  /\ BleSpread(PhaseDurations(p, a), BleLatency(a.kind)) /\ BleLatency(a.kind) \in Nat
           /\ WithinTimeouts(PhaseDurations(p, a), p.advTimeout, p.connectTimeout)
<1> DEFINE total == BleLatency(a.kind)
           share == Shares(a.kind)
<1>1. p.advTimeout \in Nat \ {0} /\ p.connectTimeout \in Nat \ {0}
    BY DEF BlePolicy
<1>2. PhaseDurations(p, a) = BleDurations(total, share, p.advTimeout, p.connectTimeout)
    BY DEF PhaseDurations
<1>3. CASE a.kind = "connect"
  <2>1. total = 1200 /\ share = [adv |-> 10, connect |-> 26, settle |-> 10, least |-> 75]
      BY <1>3 DEF BleLatency, Shares
  <2>2. /\ Larger(AdvMin, Rounded(1200 * 10, 100)) = 120
        /\ Larger(75, Rounded(1200 * 26, 100)) = 312
        /\ Larger(SettleMin, Rounded(1200 * 10, 100)) = 120
      BY DEF Larger, Rounded, AdvMin, SettleMin
  <2> HIDE DEF total, share
  <2>3. /\ BleSpread(BleDurations(total, share, p.advTimeout, p.connectTimeout), total)
        /\ WithinTimeouts(BleDurations(total, share, p.advTimeout, p.connectTimeout), p.advTimeout, p.connectTimeout)
    <3>1. /\ 120 = Larger(AdvMin, Rounded(total * share.adv, 100))
          /\ 312 = Larger(share.least, Rounded(total * share.connect, 100))
          /\ 120 = Larger(SettleMin, Rounded(total * share.settle, 100))
        BY <2>1, <2>2
    <3> DEFINE x == 120  y == 312  z == 120
    <3>2. total \in Nat /\ total >= x + y + z + XferMin
        BY <2>1 DEF XferMin
    <3>3. x \in Nat /\ y \in Nat /\ z \in Nat /\ x >= 1 /\ y >= 1 /\ z >= 1
        OBVIOUS
    <3>4. /\ x = Larger(AdvMin, Rounded(total * share.adv, 100))
          /\ y = Larger(share.least, Rounded(total * share.connect, 100))
          /\ z = Larger(SettleMin, Rounded(total * share.settle, 100))
        BY <3>1
    <3> HIDE DEF x, y, z
    <3> QED BY <1>1, <3>2, <3>3, <3>4, EnoughForTransfer
  <2> QED BY <1>2, <2>1, <2>3 DEF total
<1>4. CASE a.kind = "subscribe"
  <2>1. total = 450 /\ share = [adv |-> 8, connect |-> 24, settle |-> 12, least |-> 70]
      BY <1>4 DEF BleLatency, Shares
  <2>2. /\ Larger(AdvMin, Rounded(450 * 8, 100)) = 36
        /\ Larger(70, Rounded(450 * 24, 100)) = 108
        /\ Larger(SettleMin, Rounded(450 * 12, 100)) = 54
      BY DEF Larger, Rounded, AdvMin, SettleMin
  <2> HIDE DEF total, share
  <2>3. /\ BleSpread(BleDurations(total, share, p.advTimeout, p.connectTimeout), total)
        /\ WithinTimeouts(BleDurations(total, share, p.advTimeout, p.connectTimeout), p.advTimeout, p.connectTimeout)
    <3>1. /\ 36 = Larger(AdvMin, Rounded(total * share.adv, 100))
          /\ 108 = Larger(share.least, Rounded(total * share.connect, 100))
          /\ 54 = Larger(SettleMin, Rounded(total * share.settle, 100))
        BY <2>1, <2>2
    <3> DEFINE x == 36  y == 108  z == 54
    <3>2. total \in Nat /\ total >= x + y + z + XferMin
        BY <2>1 DEF XferMin
    <3>3. x \in Nat /\ y \in Nat /\ z \in Nat /\ x >= 1 /\ y >= 1 /\ z >= 1
        OBVIOUS
    <3>4. /\ x = Larger(AdvMin, Rounded(total * share.adv, 100))
          /\ y = Larger(share.least, Rounded(total * share.connect, 100))
          /\ z = Larger(SettleMin, Rounded(total * share.settle, 100))
        BY <3>1
    <3> HIDE DEF x, y, z
    <3> QED BY <1>1, <3>2, <3>3, <3>4, EnoughForTransfer
  <2> QED BY <1>2, <2>1, <2>3 DEF total
<1>5. CASE a.kind \notin {"connect", "subscribe"}
  <2>1. total \in {950, 850, 750, 650, 800}
        /\ share = [adv |-> 12, connect |-> 18, settle |-> 10, least |-> ConnectMin]
      BY <1>5 DEF BleLatency, Shares
  <2> DEFINE x == Larger(AdvMin, Rounded(total * 12, 100))
             y == Larger(ConnectMin, Rounded(total * 18, 100))
             z == Larger(SettleMin, Rounded(total * 10, 100))
  <2> HIDE DEF total, share
  <2>2. /\ x \in Nat /\ y \in Nat /\ z \in Nat /\ x >= 1 /\ y >= 1 /\ z >= 1
        /\ total \in Nat /\ total >= x + y + z + XferMin
      BY <2>1 DEF Larger, Rounded, AdvMin, ConnectMin, SettleMin, XferMin
  <2>3. /\ x = Larger(AdvMin, Rounded(total * share.adv, 100))
        /\ y = Larger(share.least, Rounded(total * share.connect, 100))
        /\ z = Larger(SettleMin, Rounded(total * share.settle, 100))
      BY <2>1
  <2> HIDE DEF x, y, z
  <2>4. /\ BleSpread(BleDurations(total, share, p.advTimeout, p.connectTimeout), total)
        /\ WithinTimeouts(BleDurations(total, share, p.advTimeout, p.connectTimeout), p.advTimeout, p.connectTimeout)
      BY <1>1, <2>2, <2>3, EnoughForTransfer
  <2> QED BY <1>2, <2>2, <2>4 DEF total
<1> QED
    BY <1>3, <1>4, <1>5

-----------------------------------------------------------------------------
(* How long batches last                                                   *)

LEMMA FiniteRange ==
    ASSUME NEW n \in Nat, NEW T, NEW f \in [1 .. n -> T]
    PROVE  IsFiniteSet(Range(f))
<1>1. f \in Surjection(1 .. n, Range(f))
    BY DEF Surjection, Range
<1>2. IsFiniteSet(1 .. n)
    BY FS_Interval
<1> QED
    BY <1>1, <1>2, FS_Surjection

\* The greatest of the values that a sequence of numbers takes.
LEMMA MaxOfRange ==
    ASSUME NEW n \in Nat \ {0}, NEW f \in [1 .. n -> Nat]
    PROVE  /\ Max(Range(f)) \in Range(f) /\ Max(Range(f)) \in Nat
           /\ \A i \in 1 .. n : Max(Range(f)) >= f[i]
<1>0. IsFiniteSet(Range(f))
    BY FiniteRange
<1>1. IsFiniteSet(Range(f)) /\ Range(f) \subseteq Nat /\ f[1] \in Range(f)
    BY <1>0 DEF Range
<1>2. Range(f) \subseteq Int /\ Range(f) # {}
    BY <1>1
<1> DEFINE S == Range(f)
<1>3. Max(S) \in S /\ \A y \in S : Max(S) >= y
  <2>1. IsFiniteSet(S) /\ S \subseteq Int /\ S # {}
      BY <1>1, <1>2
  <2> HIDE DEF S
  <2> QED BY <2>1, MaxOfFinite
<1>4. \A i \in 1 .. n : f[i] \in S
    BY DEF Range
<1> QED BY <1>1, <1>3, <1>4

Group == Seq(ActionRecord) \ {<< >>}

LEMMA GroupFacts ==
    ASSUME NEW g \in Group
    PROVE  /\ Len(g) \in Nat \ {0} /\ DOMAIN g = 1 .. Len(g)
           /\ \A i \in 1 .. Len(g) : g[i] \in ActionRecord
           /\ g[1] \in Range(g)
<1>1. g \in Seq(ActionRecord) /\ g # << >>
    BY DEF Group
<1>2. Len(g) \in Nat /\ DOMAIN g = 1 .. Len(g) /\ \A i \in 1 .. Len(g) : g[i] \in ActionRecord
    BY <1>1
<1>3. Len(g) # 0
    BY <1>1
<1> QED
    BY <1>2, <1>3 DEF Range

LEMMA ActionLatencies ==
    ASSUME NEW file, NEW a
    PROVE  /\ ActionLatency(file, a) \in Nat /\ ActionLatency(file, a) >= 50
           /\ Protocol(a) = "BLE" => ActionLatency(file, a) = BleLatency(a.kind)
           /\ Protocol(a) = "CLOUD" => ActionLatency(file, a) >= 350
           /\ Protocol(a) = "LOCAL" => ActionLatency(file, a) >= 80
           /\ ActionLatency(file, a) <= ActionLatency("COMBINED", a)
           /\ Protocol(a) = "BLE" => ActionLatency(file, a) = ActionLatency("COMBINED", a)
<1>1. BleLatency(a.kind) \in Nat /\ BleLatency(a.kind) >= 50
    BY DEF BleLatency
<1>2. /\ ActionLatency(file, a) \in Nat /\ ActionLatency(file, a) >= 50
      /\ Protocol(a) = "BLE" => ActionLatency(file, a) = BleLatency(a.kind)
      /\ Protocol(a) = "CLOUD" => ActionLatency(file, a) >= 350
      /\ Protocol(a) = "LOCAL" => ActionLatency(file, a) >= 80
    BY <1>1 DEF ActionLatency
<1>3. ActionLatency(file, a) <= ActionLatency("COMBINED", a)
  <2>1. IsMqtt("COMBINED", a) => IsMqtt(file, a)
      BY DEF IsMqtt
  <2> QED BY <1>1, <2>1 DEF ActionLatency
<1>4. Protocol(a) = "BLE" => ActionLatency(file, a) = ActionLatency("COMBINED", a)
    BY DEF ActionLatency
<1> QED
    BY <1>2, <1>3, <1>4

LEMMA LatencyOfGroup ==
    ASSUME NEW file, NEW g \in Group
    PROVE  /\ LatencyMax(file, g) \in Nat /\ LatencySum(file, g) \in Nat
           /\ \A a \in Range(g) : LatencyMax(file, g) >= ActionLatency(file, a)
           /\ Len(g) = 1 => LatencySum(file, g) = ActionLatency(file, g[1])
<1> DEFINE n == Len(g)
           f == [i \in DOMAIN g |-> ActionLatency(file, g[i])]
<1>1. n \in Nat \ {0} /\ f \in [1 .. n -> Nat] /\ DOMAIN g = 1 .. n /\ DOMAIN f = 1 .. n
    BY GroupFacts, ActionLatencies
<1>2. {ActionLatency(file, a) : a \in Range(g)} = Range(f)
    BY DEF Range
<1>3. LatencyMax(file, g) = Max(Range(f))
    BY <1>2 DEF LatencyMax
<1>4. LatencySum(file, g) = SumFunctionOnSet(f, 1 .. n)
    BY <1>1 DEF LatencySum, SumFunction
<1>5. \A a \in Range(g) : \E i \in 1 .. n : f[i] = ActionLatency(file, a)
    BY <1>1 DEF Range
<1>6. n = 1 => f[1] = ActionLatency(file, g[1])
    BY <1>1
<1> HIDE DEF f, n
<1>7. /\ Max(Range(f)) \in Nat
      /\ \A i \in 1 .. n : Max(Range(f)) >= f[i]
    BY <1>1, MaxOfRange
<1>8. IsFiniteSet(1 .. n) /\ (\A i \in 1 .. n : f[i] \in Nat)
  <2>1. IsFiniteSet(1 .. n)
      BY <1>1, FS_Interval
  <2> QED BY <1>1, <2>1
<1>9. SumFunctionOnSet(f, 1 .. n) \in Nat
  <2> DEFINE S == 1 .. n
  <2>1. IsFiniteSet(S) /\ \A i \in S : f[i] \in Nat
      BY <1>8
  <2> HIDE DEF S
  <2>2. SumFunctionOnSet(f, S) \in Nat
      BY <2>1, SumNat
  <2> QED BY <2>2 DEF S
<1>10. n = 1 => SumFunctionOnSet(f, 1 .. n) = f[1]
  <2> SUFFICES ASSUME n = 1 PROVE SumFunctionOnSet(f, {1}) = f[1]
      OBVIOUS
  <2>1. Summable(f, {}) /\ f[1] \in Int
      BY <1>1, FS_EmptySet DEF Summable
  <2>2. SumFunctionOnSet(f, {} \cup {1}) = SumFunctionOnSet(f, {}) + f[1]
      BY <2>1, SumInsert
  <2>3. {} \cup {1} = {1}
      OBVIOUS
  <2> QED BY <2>1, <2>2, <2>3, SumOfNone
<1> QED
    BY <1>3, <1>4, <1>5, <1>6, <1>7, <1>9, <1>10 DEF n

LEMMA LatencyByProtocol ==
    ASSUME NEW file, NEW g \in Group
    PROVE  /\ GroupLatency(file, g) \in Nat
           /\ (\A a \in Range(g) : Protocol(a) = "BLE") => GroupLatency(file, g) = LatencySum(file, g)
           /\ (\A a \in Range(g) : Protocol(a) = "CLOUD") => GroupLatency(file, g) >= 350
           /\ (\A a \in Range(g) : Protocol(a) = "LOCAL") => GroupLatency(file, g) >= 80
<1> DEFINE protocols == {Protocol(a) : a \in Range(g)}
           further == Len(g) - 1
<1>1. g # << >> /\ further \in Nat /\ g[1] \in Range(g)
    BY GroupFacts DEF Group
<1>2. /\ LatencyMax(file, g) \in Nat /\ LatencySum(file, g) \in Nat
      /\ LatencyMax(file, g) >= ActionLatency(file, g[1])
    BY <1>1, LatencyOfGroup
<1>3. ActionLatency(file, g[1]) \in Nat
    BY ActionLatencies
<1>4. GroupLatency(file, g) = CASE protocols = {"BLE"}   -> LatencySum(file, g)
                          [] protocols = {"LOCAL"} -> LatencyMax(file, g) + 20 * further
                          [] protocols = {"HA"}    -> LatencyMax(file, g) + 10 * further
                          [] protocols = {"CLOUD"} -> LatencyMax(file, g) + 120 * further
                          [] OTHER                 -> LatencyMax(file, g)
    BY <1>1 DEF GroupLatency
<1>5. \A p : (\A a \in Range(g) : Protocol(a) = p) => protocols = {p} /\ Protocol(g[1]) = p
    BY <1>1
<1> HIDE DEF protocols, further
<1>6. GroupLatency(file, g) \in Nat
    BY <1>1, <1>2, <1>4
<1>7. protocols = {"BLE"} => GroupLatency(file, g) = LatencySum(file, g)
    BY <1>4
<1>8. protocols = {"CLOUD"} => GroupLatency(file, g) >= LatencyMax(file, g)
    BY <1>1, <1>2, <1>4
<1>9. protocols = {"LOCAL"} => GroupLatency(file, g) >= LatencyMax(file, g)
  <2>1. protocols = {"LOCAL"} => GroupLatency(file, g) = LatencyMax(file, g) + 20 * further
      BY <1>4, Zenon
  <2> QED BY <1>1, <1>2, <2>1
<1>10. Protocol(g[1]) = "CLOUD" => LatencyMax(file, g) >= 350
    BY <1>2, <1>3, ActionLatencies
<1>11. Protocol(g[1]) = "LOCAL" => LatencyMax(file, g) >= 80
    BY <1>2, <1>3, ActionLatencies
<1>12. ASSUME \A a \in Range(g) : Protocol(a) = "CLOUD" PROVE GroupLatency(file, g) >= 350
    BY <1>2, <1>5, <1>6, <1>8, <1>10, <1>12
<1>13. ASSUME \A a \in Range(g) : Protocol(a) = "LOCAL" PROVE GroupLatency(file, g) >= 80
    BY <1>2, <1>5, <1>6, <1>9, <1>11, <1>13
<1> QED
    BY <1>5, <1>6, <1>7, <1>12, <1>13

\* A batch of requests takes at least as long as its first group; a batch of one action
\* of BLE as long as the action.
LEMMA LatencyOfBatch ==
    ASSUME NEW file, NEW b \in BatchRecord
    PROVE  /\ BatchLatency(file, b) \in Nat
           /\ AllCall(b, "CLOUD") => BatchLatency(file, b) >= 350
           /\ AllCall(b, "LOCAL") => BatchLatency(file, b) >= 80
           /\ IsSingle(b) /\ AllCall(b, "BLE") => BatchLatency(file, b) = BleLatency(Only(b).kind)
<1> DEFINE n == Len(b.groups)
           f == [i \in DOMAIN b.groups |-> GroupLatency(file, b.groups[i])]
<1>1. b.groups \in Seq(Group)
    BY DEF BatchRecord, Group
<1>2. n \in Nat /\ DOMAIN b.groups = 1 .. n /\ (\A i \in 1 .. n : b.groups[i] \in Group)
      /\ (n = 0 <=> b.groups = << >>)
    BY <1>1
<1>3. f \in [1 .. n -> Nat]
    BY <1>2, LatencyByProtocol
<1>4. {GroupLatency(file, g) : g \in Range(b.groups)} = Range(f)
    BY DEF Range
<1>5. BatchLatency(file, b) = IF n = 0 THEN 0 ELSE Max(Range(f))
    BY <1>2, <1>4 DEF BatchLatency
<1>6. \A i \in 1 .. n : f[i] = GroupLatency(file, b.groups[i])
    BY <1>2
<1>7. \A p : \A i \in 1 .. n : AllCall(b, p) => \A a \in Range(b.groups[i]) : Protocol(a) = p
    BY <1>2 DEF AllCall, Actions, Range
<1>8. \A p : AllCall(b, p) => n # 0
    BY <1>2 DEF AllCall
<1> HIDE DEF f, n
<1>9. BatchLatency(file, b) \in Nat
    BY <1>2, <1>3, <1>5, MaxOfRange
<1>10. n # 0 => BatchLatency(file, b) >= f[1] /\ f[1] \in Nat /\ 1 \in 1 .. n
    BY <1>2, <1>3, <1>5, MaxOfRange
<1>11. ASSUME AllCall(b, "CLOUD") PROVE BatchLatency(file, b) >= 350
  <2>1. b.groups[1] \in Group /\ \A a \in Range(b.groups[1]) : Protocol(a) = "CLOUD"
      BY <1>2, <1>7, <1>8, <1>10, <1>11
  <2>2. f[1] >= 350
      BY <1>6, <1>8, <1>10, <1>11, <2>1, LatencyByProtocol
  <2> QED BY <1>8, <1>9, <1>10, <1>11, <2>2
<1>12. ASSUME AllCall(b, "LOCAL") PROVE BatchLatency(file, b) >= 80
  <2>1. b.groups[1] \in Group /\ \A a \in Range(b.groups[1]) : Protocol(a) = "LOCAL"
      BY <1>2, <1>7, <1>8, <1>10, <1>12
  <2>2. f[1] >= 80
      BY <1>6, <1>8, <1>10, <1>12, <2>1, LatencyByProtocol
  <2> QED BY <1>8, <1>9, <1>10, <1>12, <2>2
<1>13. ASSUME IsSingle(b), AllCall(b, "BLE") PROVE BatchLatency(file, b) = BleLatency(Only(b).kind)
  <2>1. n = 1 /\ Len(b.groups[1]) = 1
      BY <1>13 DEF IsSingle, n
  <2>2. b.groups[1] \in Group /\ \A a \in Range(b.groups[1]) : Protocol(a) = "BLE"
      BY <1>2, <1>7, <1>13, <2>1
  <2>3. f[1] = LatencySum(file, b.groups[1]) /\ LatencySum(file, b.groups[1]) = ActionLatency(file, b.groups[1][1])
      BY <1>6, <2>1, <2>2, LatencyByProtocol, LatencyOfGroup
  <2>4. b.groups[1][1] \in Range(b.groups[1])
      BY <2>2, GroupFacts
  <2>5. f[1] = BleLatency(Only(b).kind)
      BY <2>2, <2>3, <2>4, ActionLatencies DEF Only
  <2>6. \A x \in Range(f) : x = f[1]
      BY <1>3, <2>1 DEF Range
  <2>7. Max(Range(f)) \in Range(f)
    <3>1. n \in Nat \ {0}
        BY <2>1
    <3> QED BY <1>3, <3>1, MaxOfRange, Zenon
  <2> QED BY <1>5, <2>1, <2>5, <2>6, <2>7
<1> QED
    BY <1>9, <1>11, <1>12, <1>13

\* The refiners never measure a batch as longer than the walk does.
LEMMA MaxNotLess ==
    ASSUME NEW n \in Nat \ {0}, NEW f \in [1 .. n -> Nat], NEW h \in [1 .. n -> Nat],
           \A i \in 1 .. n : f[i] <= h[i]
    PROVE  Max(Range(f)) <= Max(Range(h))
<1>1. Max(Range(f)) \in Range(f) /\ Max(Range(h)) \in Nat /\ \A i \in 1 .. n : Max(Range(h)) >= h[i]
    BY MaxOfRange
<1>2. PICK i \in 1 .. n : Max(Range(f)) = f[i]
    BY <1>1 DEF Range
<1>3. f[i] \in Nat /\ h[i] \in Nat /\ f[i] <= h[i] /\ Max(Range(h)) >= h[i]
    BY <1>1
<1> QED
    BY <1>1, <1>2, <1>3

LEMMA GroupMeasured ==
    ASSUME NEW file, NEW g \in Group
    PROVE  GroupLatency(file, g) <= GroupLatency("COMBINED", g)
<1> DEFINE protocols == {Protocol(a) : a \in Range(g)}
           further == Len(g) - 1
           n == Len(g)
           f == [i \in DOMAIN g |-> ActionLatency(file, g[i])]
           h == [i \in DOMAIN g |-> ActionLatency("COMBINED", g[i])]
<1>1. n \in Nat \ {0} /\ DOMAIN g = 1 .. n /\ further \in Nat /\ g # << >>
    BY GroupFacts DEF Group
<1>2. f \in [1 .. n -> Nat] /\ h \in [1 .. n -> Nat] /\ \A i \in 1 .. n : f[i] <= h[i]
    BY <1>1, ActionLatencies
<1>3. LatencyMax(file, g) = Max(Range(f)) /\ LatencyMax("COMBINED", g) = Max(Range(h))
  <2>1. /\ {ActionLatency(file, a) : a \in Range(g)} = Range(f)
        /\ {ActionLatency("COMBINED", a) : a \in Range(g)} = Range(h)
      BY DEF Range
  <2> QED BY <2>1 DEF LatencyMax
<1>4. protocols = {"BLE"} => LatencySum(file, g) = LatencySum("COMBINED", g)
  <2>1. ASSUME protocols = {"BLE"} PROVE f = h
    <3>1. \A i \in DOMAIN g : Protocol(g[i]) = "BLE"
        BY <2>1 DEF Range
    <3>2. \A i \in DOMAIN g : ActionLatency(file, g[i]) = ActionLatency("COMBINED", g[i])
        BY <3>1, ActionLatencies
    <3> QED BY <3>2
  <2> QED BY <2>1 DEF LatencySum
<1> HIDE DEF f, h, n
<1>5. LatencyMax(file, g) <= LatencyMax("COMBINED", g)
  <2>1. Max(Range(f)) <= Max(Range(h))
      BY <1>1, <1>2, MaxNotLess
  <2> QED BY <1>3, <2>1
<1>6. /\ LatencyMax(file, g) \in Nat /\ LatencySum(file, g) \in Nat
      /\ LatencyMax("COMBINED", g) \in Nat /\ LatencySum("COMBINED", g) \in Nat
    BY LatencyOfGroup
<1>7. \A any : GroupLatency(any, g) = CASE protocols = {"BLE"}   -> LatencySum(any, g)
                                       [] protocols = {"LOCAL"} -> LatencyMax(any, g) + 20 * further
                                       [] protocols = {"HA"}    -> LatencyMax(any, g) + 10 * further
                                       [] protocols = {"CLOUD"} -> LatencyMax(any, g) + 120 * further
                                       [] OTHER                 -> LatencyMax(any, g)
    BY <1>1 DEF GroupLatency
<1> HIDE DEF protocols, further
<1>8. CASE protocols = {"BLE"}
    BY <1>4, <1>6, <1>7, <1>8
<1>9. CASE protocols # {"BLE"}
    BY <1>1, <1>5, <1>6, <1>7, <1>9, SMTT(30)
<1> QED
    BY <1>8, <1>9

LEMMA BatchMeasured ==
    ASSUME NEW file, NEW b \in BatchRecord
    PROVE  BatchLatency(file, b) <= BatchLatency("COMBINED", b)
<1> DEFINE n == Len(b.groups)
           f == [i \in DOMAIN b.groups |-> GroupLatency(file, b.groups[i])]
           h == [i \in DOMAIN b.groups |-> GroupLatency("COMBINED", b.groups[i])]
<1>1. b.groups \in Seq(Group)
    BY DEF BatchRecord, Group
<1>2. n \in Nat /\ DOMAIN b.groups = 1 .. n /\ (\A i \in 1 .. n : b.groups[i] \in Group)
      /\ (n = 0 <=> b.groups = << >>)
    BY <1>1
<1>3. f \in [1 .. n -> Nat] /\ h \in [1 .. n -> Nat] /\ \A i \in 1 .. n : f[i] <= h[i]
    BY <1>2, LatencyByProtocol, GroupMeasured
<1>4. /\ {GroupLatency(file, g) : g \in Range(b.groups)} = Range(f)
      /\ {GroupLatency("COMBINED", g) : g \in Range(b.groups)} = Range(h)
    BY DEF Range
<1>5. /\ BatchLatency(file, b) = IF n = 0 THEN 0 ELSE Max(Range(f))
      /\ BatchLatency("COMBINED", b) = IF n = 0 THEN 0 ELSE Max(Range(h))
    BY <1>2, <1>4 DEF BatchLatency
<1> HIDE DEF f, h, n
<1>6. n # 0 => Max(Range(f)) <= Max(Range(h))
    BY <1>2, <1>3, MaxNotLess
<1> QED
    BY <1>5, <1>6

CloudRest == {"auth", "budget", "prepare", "session", "send", "recv", "backoff", "parse", "aggregate", "commit"}
HttpRest == {"resolve", "session", "send", "recv", "parse", "cache"}

LEMMA SumOfCloud ==
    ASSUME NEW f, \A x \in CloudRest : f[x] \in Int
    PROVE  /\ Summable(f, CloudRest)
           /\ SumFunctionOnSet(f, CloudRest) =
                 f.auth + f.budget + f.prepare + f.session + f.send + f.recv + f.backoff + f.parse + f.aggregate + f.commit
<1>0. Summable(f, {}) /\ SumFunctionOnSet(f, {}) = 0
    BY FS_EmptySet, SumOfNone DEF Summable
<1>1. Summable(f, {"auth"}) /\ SumFunctionOnSet(f, {"auth"}) = f.auth
  <2> DEFINE S == {}
  <2>1. S \cup {"auth"} = {"auth"} /\ "auth" \notin S /\ f["auth"] \in Int
      BY DEF CloudRest
  <2>2. Summable(f, S)
      BY <1>0
  <2> HIDE DEF S
  <2>3. Summable(f, S \cup {"auth"}) /\ SumFunctionOnSet(f, S \cup {"auth"}) = SumFunctionOnSet(f, S) + f["auth"]
      BY <2>1, <2>2, SumInsert
  <2> QED BY <1>0, <2>1, <2>3 DEF S
<1>2. Summable(f, {"auth", "budget"}) /\ SumFunctionOnSet(f, {"auth", "budget"}) = f.auth + f.budget
  <2> DEFINE S == {"auth"}
  <2>1. S \cup {"budget"} = {"auth", "budget"} /\ "budget" \notin S /\ f["budget"] \in Int
      BY DEF CloudRest
  <2>2. Summable(f, S)
      BY <1>1
  <2> HIDE DEF S
  <2>3. Summable(f, S \cup {"budget"}) /\ SumFunctionOnSet(f, S \cup {"budget"}) = SumFunctionOnSet(f, S) + f["budget"]
      BY <2>1, <2>2, SumInsert
  <2> QED BY <1>1, <2>1, <2>3 DEF S
<1>3. Summable(f, {"auth", "budget", "prepare"}) /\ SumFunctionOnSet(f, {"auth", "budget", "prepare"}) = f.auth + f.budget + f.prepare
  <2> DEFINE S == {"auth", "budget"}
  <2>1. S \cup {"prepare"} = {"auth", "budget", "prepare"} /\ "prepare" \notin S /\ f["prepare"] \in Int
      BY DEF CloudRest
  <2>2. Summable(f, S)
      BY <1>2
  <2> HIDE DEF S
  <2>3. Summable(f, S \cup {"prepare"}) /\ SumFunctionOnSet(f, S \cup {"prepare"}) = SumFunctionOnSet(f, S) + f["prepare"]
      BY <2>1, <2>2, SumInsert
  <2> QED BY <1>2, <2>1, <2>3 DEF S
<1>4. Summable(f, {"auth", "budget", "prepare", "session"}) /\ SumFunctionOnSet(f, {"auth", "budget", "prepare", "session"}) = f.auth + f.budget + f.prepare + f.session
  <2> DEFINE S == {"auth", "budget", "prepare"}
  <2>1. S \cup {"session"} = {"auth", "budget", "prepare", "session"} /\ "session" \notin S /\ f["session"] \in Int
      BY DEF CloudRest
  <2>2. Summable(f, S)
      BY <1>3
  <2> HIDE DEF S
  <2>3. Summable(f, S \cup {"session"}) /\ SumFunctionOnSet(f, S \cup {"session"}) = SumFunctionOnSet(f, S) + f["session"]
      BY <2>1, <2>2, SumInsert
  <2> QED BY <1>3, <2>1, <2>3 DEF S
<1>5. Summable(f, {"auth", "budget", "prepare", "session", "send"}) /\ SumFunctionOnSet(f, {"auth", "budget", "prepare", "session", "send"}) = f.auth + f.budget + f.prepare + f.session + f.send
  <2> DEFINE S == {"auth", "budget", "prepare", "session"}
  <2>1. S \cup {"send"} = {"auth", "budget", "prepare", "session", "send"} /\ "send" \notin S /\ f["send"] \in Int
      BY DEF CloudRest
  <2>2. Summable(f, S)
      BY <1>4
  <2> HIDE DEF S
  <2>3. Summable(f, S \cup {"send"}) /\ SumFunctionOnSet(f, S \cup {"send"}) = SumFunctionOnSet(f, S) + f["send"]
      BY <2>1, <2>2, SumInsert
  <2> QED BY <1>4, <2>1, <2>3 DEF S
<1>6. Summable(f, {"auth", "budget", "prepare", "session", "send", "recv"}) /\ SumFunctionOnSet(f, {"auth", "budget", "prepare", "session", "send", "recv"}) = f.auth + f.budget + f.prepare + f.session + f.send + f.recv
  <2> DEFINE S == {"auth", "budget", "prepare", "session", "send"}
  <2>1. S \cup {"recv"} = {"auth", "budget", "prepare", "session", "send", "recv"} /\ "recv" \notin S /\ f["recv"] \in Int
      BY DEF CloudRest
  <2>2. Summable(f, S)
      BY <1>5
  <2> HIDE DEF S
  <2>3. Summable(f, S \cup {"recv"}) /\ SumFunctionOnSet(f, S \cup {"recv"}) = SumFunctionOnSet(f, S) + f["recv"]
      BY <2>1, <2>2, SumInsert
  <2> QED BY <1>5, <2>1, <2>3 DEF S
<1>7. Summable(f, {"auth", "budget", "prepare", "session", "send", "recv", "backoff"}) /\ SumFunctionOnSet(f, {"auth", "budget", "prepare", "session", "send", "recv", "backoff"}) = f.auth + f.budget + f.prepare + f.session + f.send + f.recv + f.backoff
  <2> DEFINE S == {"auth", "budget", "prepare", "session", "send", "recv"}
  <2>1. S \cup {"backoff"} = {"auth", "budget", "prepare", "session", "send", "recv", "backoff"} /\ "backoff" \notin S /\ f["backoff"] \in Int
      BY DEF CloudRest
  <2>2. Summable(f, S)
      BY <1>6
  <2> HIDE DEF S
  <2>3. Summable(f, S \cup {"backoff"}) /\ SumFunctionOnSet(f, S \cup {"backoff"}) = SumFunctionOnSet(f, S) + f["backoff"]
      BY <2>1, <2>2, SumInsert
  <2> QED BY <1>6, <2>1, <2>3 DEF S
<1>8. Summable(f, {"auth", "budget", "prepare", "session", "send", "recv", "backoff", "parse"}) /\ SumFunctionOnSet(f, {"auth", "budget", "prepare", "session", "send", "recv", "backoff", "parse"}) = f.auth + f.budget + f.prepare + f.session + f.send + f.recv + f.backoff + f.parse
  <2> DEFINE S == {"auth", "budget", "prepare", "session", "send", "recv", "backoff"}
  <2>1. S \cup {"parse"} = {"auth", "budget", "prepare", "session", "send", "recv", "backoff", "parse"} /\ "parse" \notin S /\ f["parse"] \in Int
      BY DEF CloudRest
  <2>2. Summable(f, S)
      BY <1>7
  <2> HIDE DEF S
  <2>3. Summable(f, S \cup {"parse"}) /\ SumFunctionOnSet(f, S \cup {"parse"}) = SumFunctionOnSet(f, S) + f["parse"]
      BY <2>1, <2>2, SumInsert
  <2> QED BY <1>7, <2>1, <2>3 DEF S
<1>9. Summable(f, {"auth", "budget", "prepare", "session", "send", "recv", "backoff", "parse", "aggregate"}) /\ SumFunctionOnSet(f, {"auth", "budget", "prepare", "session", "send", "recv", "backoff", "parse", "aggregate"}) = f.auth + f.budget + f.prepare + f.session + f.send + f.recv + f.backoff + f.parse + f.aggregate
  <2> DEFINE S == {"auth", "budget", "prepare", "session", "send", "recv", "backoff", "parse"}
  <2>1. S \cup {"aggregate"} = {"auth", "budget", "prepare", "session", "send", "recv", "backoff", "parse", "aggregate"} /\ "aggregate" \notin S /\ f["aggregate"] \in Int
      BY DEF CloudRest
  <2>2. Summable(f, S)
      BY <1>8
  <2> HIDE DEF S
  <2>3. Summable(f, S \cup {"aggregate"}) /\ SumFunctionOnSet(f, S \cup {"aggregate"}) = SumFunctionOnSet(f, S) + f["aggregate"]
      BY <2>1, <2>2, SumInsert
  <2> QED BY <1>8, <2>1, <2>3 DEF S
<1>10. Summable(f, {"auth", "budget", "prepare", "session", "send", "recv", "backoff", "parse", "aggregate", "commit"}) /\ SumFunctionOnSet(f, {"auth", "budget", "prepare", "session", "send", "recv", "backoff", "parse", "aggregate", "commit"}) = f.auth + f.budget + f.prepare + f.session + f.send + f.recv + f.backoff + f.parse + f.aggregate + f.commit
  <2> DEFINE S == {"auth", "budget", "prepare", "session", "send", "recv", "backoff", "parse", "aggregate"}
  <2>1. S \cup {"commit"} = {"auth", "budget", "prepare", "session", "send", "recv", "backoff", "parse", "aggregate", "commit"} /\ "commit" \notin S /\ f["commit"] \in Int
      BY DEF CloudRest
  <2>2. Summable(f, S)
      BY <1>9
  <2> HIDE DEF S
  <2>3. Summable(f, S \cup {"commit"}) /\ SumFunctionOnSet(f, S \cup {"commit"}) = SumFunctionOnSet(f, S) + f["commit"]
      BY <2>1, <2>2, SumInsert
  <2> QED BY <1>9, <2>1, <2>3 DEF S
<1> QED
    BY <1>10 DEF CloudRest

LEMMA SumOfHttp ==
    ASSUME NEW f, \A x \in HttpRest : f[x] \in Int
    PROVE  /\ Summable(f, HttpRest)
           /\ SumFunctionOnSet(f, HttpRest) =
                 f.resolve + f.session + f.send + f.recv + f.parse + f.cache
<1>0. Summable(f, {}) /\ SumFunctionOnSet(f, {}) = 0
    BY FS_EmptySet, SumOfNone DEF Summable
<1>1. Summable(f, {"resolve"}) /\ SumFunctionOnSet(f, {"resolve"}) = f.resolve
  <2> DEFINE S == {}
  <2>1. S \cup {"resolve"} = {"resolve"} /\ "resolve" \notin S /\ f["resolve"] \in Int
      BY DEF HttpRest
  <2>2. Summable(f, S)
      BY <1>0
  <2> HIDE DEF S
  <2>3. Summable(f, S \cup {"resolve"}) /\ SumFunctionOnSet(f, S \cup {"resolve"}) = SumFunctionOnSet(f, S) + f["resolve"]
      BY <2>1, <2>2, SumInsert
  <2> QED BY <1>0, <2>1, <2>3 DEF S
<1>2. Summable(f, {"resolve", "session"}) /\ SumFunctionOnSet(f, {"resolve", "session"}) = f.resolve + f.session
  <2> DEFINE S == {"resolve"}
  <2>1. S \cup {"session"} = {"resolve", "session"} /\ "session" \notin S /\ f["session"] \in Int
      BY DEF HttpRest
  <2>2. Summable(f, S)
      BY <1>1
  <2> HIDE DEF S
  <2>3. Summable(f, S \cup {"session"}) /\ SumFunctionOnSet(f, S \cup {"session"}) = SumFunctionOnSet(f, S) + f["session"]
      BY <2>1, <2>2, SumInsert
  <2> QED BY <1>1, <2>1, <2>3 DEF S
<1>3. Summable(f, {"resolve", "session", "send"}) /\ SumFunctionOnSet(f, {"resolve", "session", "send"}) = f.resolve + f.session + f.send
  <2> DEFINE S == {"resolve", "session"}
  <2>1. S \cup {"send"} = {"resolve", "session", "send"} /\ "send" \notin S /\ f["send"] \in Int
      BY DEF HttpRest
  <2>2. Summable(f, S)
      BY <1>2
  <2> HIDE DEF S
  <2>3. Summable(f, S \cup {"send"}) /\ SumFunctionOnSet(f, S \cup {"send"}) = SumFunctionOnSet(f, S) + f["send"]
      BY <2>1, <2>2, SumInsert
  <2> QED BY <1>2, <2>1, <2>3 DEF S
<1>4. Summable(f, {"resolve", "session", "send", "recv"}) /\ SumFunctionOnSet(f, {"resolve", "session", "send", "recv"}) = f.resolve + f.session + f.send + f.recv
  <2> DEFINE S == {"resolve", "session", "send"}
  <2>1. S \cup {"recv"} = {"resolve", "session", "send", "recv"} /\ "recv" \notin S /\ f["recv"] \in Int
      BY DEF HttpRest
  <2>2. Summable(f, S)
      BY <1>3
  <2> HIDE DEF S
  <2>3. Summable(f, S \cup {"recv"}) /\ SumFunctionOnSet(f, S \cup {"recv"}) = SumFunctionOnSet(f, S) + f["recv"]
      BY <2>1, <2>2, SumInsert
  <2> QED BY <1>3, <2>1, <2>3 DEF S
<1>5. Summable(f, {"resolve", "session", "send", "recv", "parse"}) /\ SumFunctionOnSet(f, {"resolve", "session", "send", "recv", "parse"}) = f.resolve + f.session + f.send + f.recv + f.parse
  <2> DEFINE S == {"resolve", "session", "send", "recv"}
  <2>1. S \cup {"parse"} = {"resolve", "session", "send", "recv", "parse"} /\ "parse" \notin S /\ f["parse"] \in Int
      BY DEF HttpRest
  <2>2. Summable(f, S)
      BY <1>4
  <2> HIDE DEF S
  <2>3. Summable(f, S \cup {"parse"}) /\ SumFunctionOnSet(f, S \cup {"parse"}) = SumFunctionOnSet(f, S) + f["parse"]
      BY <2>1, <2>2, SumInsert
  <2> QED BY <1>4, <2>1, <2>3 DEF S
<1>6. Summable(f, {"resolve", "session", "send", "recv", "parse", "cache"}) /\ SumFunctionOnSet(f, {"resolve", "session", "send", "recv", "parse", "cache"}) = f.resolve + f.session + f.send + f.recv + f.parse + f.cache
  <2> DEFINE S == {"resolve", "session", "send", "recv", "parse"}
  <2>1. S \cup {"cache"} = {"resolve", "session", "send", "recv", "parse", "cache"} /\ "cache" \notin S /\ f["cache"] \in Int
      BY DEF HttpRest
  <2>2. Summable(f, S)
      BY <1>5
  <2> HIDE DEF S
  <2>3. Summable(f, S \cup {"cache"}) /\ SumFunctionOnSet(f, S \cup {"cache"}) = SumFunctionOnSet(f, S) + f["cache"]
      BY <2>1, <2>2, SumInsert
  <2> QED BY <1>5, <2>1, <2>3 DEF S
<1> QED
    BY <1>6 DEF HttpRest

LEMMA RoundedBounds ==
    ASSUME NEW n \in Nat, NEW d \in Nat \ {0}
    PROVE  /\ Rounded(n, d) \in Nat
           /\ 2 * (Rounded(n, d) * d) <= 2 * n + d
           /\ 2 * n <= 2 * (Rounded(n, d) * d) + d
<1> DEFINE q == n \div d
           r == n % d
<1>1. q \in Nat /\ r \in Nat /\ n = q * d + r /\ r < d
    OBVIOUS
<1>2. Rounded(n, d) = IF 2 * r > d \/ (2 * r = d /\ q % 2 = 1) THEN q + 1 ELSE q
    BY DEF Rounded
<1> HIDE DEF q, r
<1>3. q * d \in Nat /\ (q + 1) * d = q * d + d
    BY <1>1
<1>4. CASE Rounded(n, d) = q + 1 /\ 2 * r >= d
    BY <1>1, <1>3, <1>4
<1>5. CASE Rounded(n, d) = q /\ 2 * r <= d
    BY <1>1, <1>3, <1>5
<1>6. (Rounded(n, d) = q + 1 /\ 2 * r >= d) \/ (Rounded(n, d) = q /\ 2 * r <= d)
    BY <1>1, <1>2
<1> QED
    BY <1>4, <1>5, <1>6

\* What a phase is given by _allocate_phase_durations before the last one takes the rest.
Share(total, spec, leastSum, weightSum) ==
    IF total <= leastSum THEN Rounded(spec.least * total, leastSum)
    ELSE spec.least + Rounded((total - leastSum) * spec.weight, weightSum)

SharesOf(share, total, specs, R, leastSum, weightSum) ==
    share = [phase \in R |-> Share(total, specs[phase], leastSum, weightSum)]

SumsOf(specs, leastSum, weightSum) ==
    /\ leastSum = SumFunction([phase \in DOMAIN specs |-> specs[phase].least])
    /\ weightSum = SumFunction([phase \in DOMAIN specs |-> specs[phase].weight])

SharesFit(share, R, total) ==
    (\A phase \in R : share[phase] \in Nat) /\ SumFunctionOnSet(share, R) <= total

IsRest(specs, R) == DOMAIN specs = R \cup {"write"} /\ "write" \notin R /\ IsFiniteSet(R)

\* Every phase is given a number, and they add up to the whole.
ApiSpread(d, total, phases) ==
    /\ DOMAIN d = phases /\ \A phase \in phases : d[phase] \in Nat
    /\ IsFiniteSet(phases) /\ SumFunctionOnSet(d, phases) = total

LEMMA LastTakesTheRest ==
    ASSUME NEW total \in Nat, NEW specs, NEW R, NEW leastSum, NEW weightSum, NEW share,
           IsRest(specs, R), SumsOf(specs, leastSum, weightSum),
           SharesOf(share, total, specs, R, leastSum, weightSum),
           SharesFit(share, R, total)
    PROVE  /\ ApiSpread(Allocate(total, specs), total, R \cup {"write"})
           /\ \A phase \in R : Allocate(total, specs)[phase] = share[phase]
<1> DEFINE d == Allocate(total, specs)
           rest == total - SumFunctionOnSet(share, R)
<1>0. /\ DOMAIN specs = R \cup {"write"} /\ "write" \notin R /\ IsFiniteSet(R)
      /\ (\A phase \in R : share[phase] \in Nat) /\ SumFunctionOnSet(share, R) <= total
    BY DEF IsRest, SharesFit
<1>1. DOMAIN specs \ {"write"} = R /\ DOMAIN share = R
    BY <1>0 DEF SharesOf
<1>2. share = [phase \in DOMAIN specs \ {"write"} |->
                    IF total <= leastSum THEN Rounded(specs[phase].least * total, leastSum)
                    ELSE specs[phase].least
                           + Rounded((total - leastSum) * specs[phase].weight, weightSum)]
    BY <1>1 DEF Share, SharesOf
<1>3. SumFunction(share) = SumFunctionOnSet(share, R)
    BY <1>1 DEF SumFunction
<1>4. d = [phase \in DOMAIN specs |-> IF phase = "write" THEN total - SumFunction(share) ELSE share[phase]]
    BY <1>2, Zenon DEF Allocate, SumsOf
<1>5. d = [phase \in R \cup {"write"} |-> IF phase = "write" THEN rest ELSE share[phase]]
    BY <1>0, <1>3, <1>4
<1>6. DOMAIN d = R \cup {"write"} /\ d["write"] = rest /\ \A phase \in R : d[phase] = share[phase]
    BY <1>0, <1>5
<1>7. SumFunctionOnSet(share, R) \in Nat
    BY <1>0, SumNat
<1>8. rest \in Nat
    BY <1>0, <1>7
<1> HIDE DEF d
<1>9. Summable(d, R) /\ Summable(share, R)
  <2>1. \A phase \in R : d[phase] = share[phase] /\ share[phase] \in Int
      BY <1>0, <1>6
  <2> QED BY <1>0, <2>1 DEF Summable
<1>10. SumFunctionOnSet(d, R) = SumFunctionOnSet(share, R)
    BY <1>6, <1>9, SumEqual
<1>11. SumFunctionOnSet(d, R \cup {"write"}) = SumFunctionOnSet(d, R) + d["write"]
  <2>1. d["write"] \in Int
      BY <1>0, <1>6, <1>8
  <2> QED BY <1>0, <1>9, <2>1, SumInsert
<1>12. SumFunctionOnSet(d, R \cup {"write"}) = total
    BY <1>6, <1>7, <1>10, <1>11
<1>13. IsFiniteSet(R \cup {"write"})
    BY <1>0, FS_AddElement
<1>14. \A phase \in R \cup {"write"} : d[phase] \in Nat
    BY <1>0, <1>6, <1>8
<1> QED
    BY <1>6, <1>12, <1>13, <1>14 DEF ApiSpread, d

LEMMA TimesMonotone ==
    ASSUME NEW a \in Int, NEW b \in Int, NEW c \in Nat, a <= b
    PROVE  a * c <= b * c
OBVIOUS

LEMMA Distribute ==
    ASSUME NEW a \in Nat, NEW b \in Nat, NEW c \in Nat
    PROVE  (a + b) * c = a * c + b * c /\ a + b \in Nat /\ a * c \in Nat /\ b * c \in Nat
OBVIOUS

ScaledBy(s, total, W, L) ==
    /\ 2 * (s.auth * L) <= 2 * (10 * total) + L /\ 2 * (s.budget * L) <= 2 * (8 * total) + L
    /\ 2 * (s.prepare * L) <= 2 * (14 * total) + L /\ 2 * (s.session * L) <= 2 * (8 * total) + L
    /\ 2 * (s.send * L) <= 2 * (24 * total) + L /\ 2 * (s.recv * L) <= 2 * (24 * total) + L
    /\ 2 * (s.backoff * L) <= 2 * (W * total) + L /\ 2 * (s.parse * L) <= 2 * (12 * total) + L
    /\ 2 * (s.aggregate * L) <= 2 * (10 * total) + L /\ 2 * (s.commit * L) <= 2 * (8 * total) + L

\* The shares of a batch of cloud requests, times the sum of the least times.
LEMMA TenTimes ==
    ASSUME NEW L \in Nat \ {0}, NEW total \in Nat, NEW W, W * total \in Nat,
           NEW s, \A phase \in CloudRest : s[phase] \in Nat,
           ScaledBy(s, total, W, L)
    PROVE  2 * ((s.auth + s.budget + s.prepare + s.session + s.send + s.recv + s.backoff + s.parse
                     + s.aggregate + s.commit) * L)
               <= 2 * (118 * total) + 2 * (W * total) + 10 * L
<1> DEFINE a == s.auth  b == s.budget  c == s.prepare  d == s.session  e == s.send
           f == s.recv  g == s.backoff  h == s.parse  i == s.aggregate  j == s.commit
<1>0. /\ a \in Nat /\ b \in Nat /\ c \in Nat /\ d \in Nat /\ e \in Nat
      /\ f \in Nat /\ g \in Nat /\ h \in Nat /\ i \in Nat /\ j \in Nat
    BY DEF CloudRest
<1> DEFINE P(x) == x * L
           w == W * total
<1>1. L \in Nat
    OBVIOUS
<1> HIDE DEF a, b, c, d, e, f, g, h, i, j
<1>2. P(a + b) = P(a) + P(b) /\ a + b \in Nat
    BY <1>0, <1>1, Distribute
<1>3. P(a + b + c) = P(a + b) + P(c) /\ a + b + c \in Nat
    BY <1>0, <1>1, <1>2, Distribute
<1>4. P(a + b + c + d) = P(a + b + c) + P(d) /\ a + b + c + d \in Nat
    BY <1>0, <1>1, <1>3, Distribute
<1>5. P(a + b + c + d + e) = P(a + b + c + d) + P(e) /\ a + b + c + d + e \in Nat
    BY <1>0, <1>1, <1>4, Distribute
<1>6. P(a + b + c + d + e + f) = P(a + b + c + d + e) + P(f) /\ a + b + c + d + e + f \in Nat
    BY <1>0, <1>1, <1>5, Distribute
<1>7. P(a + b + c + d + e + f + g) = P(a + b + c + d + e + f) + P(g) /\ a + b + c + d + e + f + g \in Nat
    BY <1>0, <1>1, <1>6, Distribute
<1>8. P(a + b + c + d + e + f + g + h) = P(a + b + c + d + e + f + g) + P(h)
      /\ a + b + c + d + e + f + g + h \in Nat
    BY <1>0, <1>1, <1>7, Distribute
<1>9. P(a + b + c + d + e + f + g + h + i) = P(a + b + c + d + e + f + g + h) + P(i)
      /\ a + b + c + d + e + f + g + h + i \in Nat
    BY <1>0, <1>1, <1>8, Distribute
<1>10. P(a + b + c + d + e + f + g + h + i + j) = P(a + b + c + d + e + f + g + h + i) + P(j)
    BY <1>0, <1>1, <1>9, Distribute
<1>11. /\ P(a) \in Nat /\ P(b) \in Nat /\ P(c) \in Nat /\ P(d) \in Nat /\ P(e) \in Nat
       /\ P(f) \in Nat /\ P(g) \in Nat /\ P(h) \in Nat /\ P(i) \in Nat /\ P(j) \in Nat
    BY <1>0, <1>1, Distribute
<1>12. /\ 2 * P(a) <= 20 * total + L /\ 2 * P(b) <= 16 * total + L
       /\ 2 * P(c) <= 28 * total + L /\ 2 * P(d) <= 16 * total + L
       /\ 2 * P(e) <= 48 * total + L /\ 2 * P(f) <= 48 * total + L
       /\ 2 * P(g) <= 2 * w + L /\ 2 * P(h) <= 24 * total + L
       /\ 2 * P(i) <= 20 * total + L /\ 2 * P(j) <= 16 * total + L
    BY <1>0, <1>1, <1>11 DEF ScaledBy, a, b, c, d, e, f, g, h, i, j
<1>13. w \in Nat
    OBVIOUS
<1> HIDE DEF P, w
<1>14. P(a + b + c + d + e + f + g + h + i + j)
           = P(a) + P(b) + P(c) + P(d) + P(e) + P(f) + P(g) + P(h) + P(i) + P(j)
    BY <1>2, <1>3, <1>4, <1>5, <1>6, <1>7, <1>8, <1>9, <1>10, <1>11
<1>15. 2 * P(a + b + c + d + e + f + g + h + i + j) <= 236 * total + 2 * w + 10 * L
    BY <1>11, <1>12, <1>13, <1>14
<1>16. 2 * P(a + b + c + d + e + f + g + h + i + j) <= 2 * (118 * total) + 2 * w + 10 * L
    BY <1>15
<1> QED
    BY <1>16, Zenon DEF P, w, a, b, c, d, e, f, g, h, i, j

-----------------------------------------------------------------------------
LEMMA SumsOfCloudSpecs ==
    ASSUME NEW W \in Nat
    PROVE  /\ SumFunction([phase \in DOMAIN CloudSpecs(W) |-> CloudSpecs(W)[phase].least]) = 126 + W
           /\ SumFunction([phase \in DOMAIN CloudSpecs(W) |-> CloudSpecs(W)[phase].weight]) = 76
<1> DEFINE specs == CloudSpecs(W)
           least == [phase \in DOMAIN specs |-> specs[phase].least]
           weight == [phase \in DOMAIN specs |-> specs[phase].weight]
<1>1. DOMAIN specs = CloudRest \cup {"write"}
    BY DEF CloudSpecs, CloudRest
<1>2. /\ least.auth = 10 /\ least.budget = 8 /\ least.prepare = 14 /\ least.session = 8
      /\ least.send = 24 /\ least.recv = 24 /\ least.backoff = W /\ least.parse = 12
      /\ least.aggregate = 10 /\ least.commit = 8 /\ least.write = 8
    BY DEF CloudSpecs
<1>3. /\ weight.auth = 5 /\ weight.budget = 4 /\ weight.prepare = 8 /\ weight.session = 4
      /\ weight.send = 18 /\ weight.recv = 16 /\ weight.backoff = 0 /\ weight.parse = 8
      /\ weight.aggregate = 6 /\ weight.commit = 4 /\ weight.write = 3
    BY DEF CloudSpecs
<1>4. DOMAIN least = CloudRest \cup {"write"} /\ DOMAIN weight = CloudRest \cup {"write"}
    BY <1>1
<1> HIDE DEF least, weight
<1>5. \A x \in CloudRest : least[x] \in Int /\ weight[x] \in Int
    BY <1>2, <1>3 DEF CloudRest
<1>6. Summable(least, CloudRest) /\ SumFunctionOnSet(least, CloudRest) = 118 + W
    BY <1>2, <1>5, SumOfCloud
<1>7. Summable(weight, CloudRest) /\ SumFunctionOnSet(weight, CloudRest) = 73
    BY <1>3, <1>5, SumOfCloud
<1>8. "write" \notin CloudRest /\ least["write"] \in Int /\ weight["write"] \in Int
    BY <1>2, <1>3 DEF CloudRest
<1>9. SumFunctionOnSet(least, CloudRest \cup {"write"}) = 126 + W
  <2>1. SumFunctionOnSet(least, CloudRest \cup {"write"}) = SumFunctionOnSet(least, CloudRest) + least["write"]
      BY <1>6, <1>8, SumInsert
  <2> QED BY <1>2, <1>6, <2>1
<1>10. SumFunctionOnSet(weight, CloudRest \cup {"write"}) = 76
  <2>1. SumFunctionOnSet(weight, CloudRest \cup {"write"}) = SumFunctionOnSet(weight, CloudRest) + weight["write"]
      BY <1>7, <1>8, SumInsert
  <2> QED BY <1>3, <1>7, <2>1
<1>11. SumFunction(least) = 126 + W /\ SumFunction(weight) = 76
    BY <1>4, <1>9, <1>10 DEF SumFunction
<1> QED
    BY <1>11 DEF least, weight

\* The least times are scaled down.
LEMMA ScaledCloud ==
    ASSUME NEW total \in Nat, total >= 350, NEW W \in 0 .. 434, total <= 126 + W,
           NEW share, SharesOf(share, total, CloudSpecs(W), CloudRest, 126 + W, 76)
    PROVE  /\ \A phase \in CloudRest : share[phase] \in Nat
           /\ SumFunctionOnSet(share, CloudRest) <= total
           /\ share.parse >= 1 /\ (W # 0 => share.backoff >= 1)
<1> DEFINE L == 126 + W
<1>1. L \in Nat \ {0} /\ L <= 560 /\ total <= L
    OBVIOUS
<1>2. /\ share.auth = Rounded(10 * total, L) /\ share.budget = Rounded(8 * total, L)
      /\ share.prepare = Rounded(14 * total, L) /\ share.session = Rounded(8 * total, L)
      /\ share.send = Rounded(24 * total, L) /\ share.recv = Rounded(24 * total, L)
      /\ share.backoff = Rounded(W * total, L) /\ share.parse = Rounded(12 * total, L)
      /\ share.aggregate = Rounded(10 * total, L) /\ share.commit = Rounded(8 * total, L)
    BY DEF Share, SharesOf, CloudSpecs, CloudRest
<1>3. W * total \in Nat /\ (W # 0 => W * total >= total)
    OBVIOUS
<1> HIDE DEF L
<1>4. \A n \in Nat : /\ Rounded(n, L) \in Nat
                     /\ 2 * (Rounded(n, L) * L) <= 2 * n + L
                     /\ 2 * n <= 2 * (Rounded(n, L) * L) + L
    BY <1>1, RoundedBounds
<1>5. /\ share.auth \in Nat /\ 2 * (share.auth * L) <= 2 * (10 * total) + L
      /\ share.budget \in Nat /\ 2 * (share.budget * L) <= 2 * (8 * total) + L
      /\ share.prepare \in Nat /\ 2 * (share.prepare * L) <= 2 * (14 * total) + L
      /\ share.session \in Nat /\ 2 * (share.session * L) <= 2 * (8 * total) + L
      /\ share.send \in Nat /\ 2 * (share.send * L) <= 2 * (24 * total) + L
      /\ share.recv \in Nat /\ 2 * (share.recv * L) <= 2 * (24 * total) + L
    BY <1>2, <1>4
<1>6. /\ share.backoff \in Nat /\ 2 * (share.backoff * L) <= 2 * (W * total) + L
      /\ share.parse \in Nat /\ 2 * (share.parse * L) <= 2 * (12 * total) + L
      /\ share.aggregate \in Nat /\ 2 * (share.aggregate * L) <= 2 * (10 * total) + L
      /\ share.commit \in Nat /\ 2 * (share.commit * L) <= 2 * (8 * total) + L
    BY <1>2, <1>3, <1>4
<1>7. 2 * (12 * total) <= 2 * (share.parse * L) + L /\ 2 * (W * total) <= 2 * (share.backoff * L) + L
    BY <1>2, <1>3, <1>4
<1>8. \A phase \in CloudRest : share[phase] \in Nat
    BY <1>5, <1>6 DEF CloudRest
<1>9. share.parse >= 1
  <2> SUFFICES ASSUME share.parse = 0 PROVE FALSE
      BY <1>6
  <2> QED BY <1>1, <1>7
<1>10. W # 0 => share.backoff >= 1
  <2> SUFFICES ASSUME W # 0, share.backoff = 0 PROVE FALSE
      BY <1>6
  <2> QED BY <1>1, <1>3, <1>7
<1>11. SumFunctionOnSet(share, CloudRest) =
         share.auth + share.budget + share.prepare + share.session + share.send + share.recv
             + share.backoff + share.parse + share.aggregate + share.commit
    BY <1>8, SumOfCloud
<1> DEFINE sum == share.auth + share.budget + share.prepare + share.session + share.send + share.recv
                    + share.backoff + share.parse + share.aggregate + share.commit
<1>13. 2 * (sum * L) <= 2 * (118 * total) + 2 * (W * total) + 10 * L
  <2>1. W * total \in Nat /\ L \in Nat \ {0}
      BY <1>1, <1>3
  <2>2. ScaledBy(share, total, W, L)
      BY <1>5, <1>6 DEF ScaledBy
  <2> QED BY <1>8, <2>1, <2>2, TenTimes, Zenon
<1>14. L * total = 126 * total + W * total
    BY DEF L
<1>15. sum <= total
  <2> SUFFICES ASSUME sum >= total + 1 PROVE FALSE
      BY <1>5, <1>6
  <2>1. sum \in Int
      BY <1>5, <1>6
  <2> HIDE DEF sum
  <2>2. (total + 1) * L <= sum * L
      BY <1>1, <2>1, TimesMonotone
  <2>3. (total + 1) * L = L * total + L
      BY <1>1
  <2>4. sum * L \in Int
      BY <1>1, <2>1
  <2> QED BY <1>1, <1>3, <1>13, <1>14, <2>2, <2>3, <2>4
<1> QED
    BY <1>8, <1>9, <1>10, <1>11, <1>15

\* The rest is divided by weight.
LEMMA WeightedCloud ==
    ASSUME NEW total \in Nat, NEW W \in 0 .. 434, total > 126 + W,
           NEW share, SharesOf(share, total, CloudSpecs(W), CloudRest, 126 + W, 76)
    PROVE  /\ \A phase \in CloudRest : share[phase] \in Nat
           /\ SumFunctionOnSet(share, CloudRest) <= total
           /\ share.parse >= 1 /\ (W # 0 => share.backoff >= 1)
<1> DEFINE rem == total - (126 + W)
           q(w) == Rounded(rem * w, 76)
<1>1. rem \in Nat /\ rem >= 1 /\ total = 126 + W + rem /\ ~(total <= 126 + W)
    OBVIOUS
<1>2. /\ share.auth = 10 + q(5) /\ share.budget = 8 + q(4)
      /\ share.prepare = 14 + q(8) /\ share.session = 8 + q(4)
      /\ share.send = 24 + q(18) /\ share.recv = 24 + q(16)
      /\ share.backoff = W + q(0) /\ share.parse = 12 + q(8)
      /\ share.aggregate = 10 + q(6) /\ share.commit = 8 + q(4)
    BY <1>1 DEF Share, SharesOf, CloudSpecs, CloudRest
<1> HIDE DEF rem
<1>3. \A w \in Nat : q(w) \in Nat /\ 2 * (q(w) * 76) <= 2 * (rem * w) + 76
  <2> TAKE w \in Nat
  <2>1. rem * w \in Nat /\ 76 \in Nat \ {0}
      BY <1>1
  <2> DEFINE n == rem * w
             c == 76
  <2>2. n \in Nat /\ c \in Nat \ {0}
      BY <2>1
  <2> HIDE DEF n, c
  <2>3. Rounded(n, c) \in Nat /\ 2 * (Rounded(n, c) * c) <= 2 * n + c
      BY <2>2, RoundedBounds
  <2> QED BY <2>3 DEF n, c
<1>4. /\ q(5) \in Nat /\ 152 * q(5) <= 10 * rem + 76 /\ q(4) \in Nat /\ 152 * q(4) <= 8 * rem + 76
      /\ q(8) \in Nat /\ 152 * q(8) <= 16 * rem + 76 /\ q(18) \in Nat /\ 152 * q(18) <= 36 * rem + 76
      /\ q(16) \in Nat /\ 152 * q(16) <= 32 * rem + 76 /\ q(0) \in Nat /\ 152 * q(0) <= 76
      /\ q(6) \in Nat /\ 152 * q(6) <= 12 * rem + 76
  <2> HIDE DEF q
  <2> QED BY <1>1, <1>3
<1> HIDE DEF q
<1>5. \A phase \in CloudRest : share[phase] \in Nat
  <2>0. /\ q(5) \in Nat /\ q(4) \in Nat /\ q(8) \in Nat /\ q(18) \in Nat /\ q(16) \in Nat
        /\ q(0) \in Nat /\ q(6) \in Nat /\ W \in Nat
      BY <1>4
  <2>1. share.auth \in Nat /\ share.budget \in Nat /\ share.prepare \in Nat /\ share.session \in Nat
      BY <1>2, <2>0
  <2>2. share.send \in Nat /\ share.recv \in Nat /\ share.backoff \in Nat
      BY <1>2, <2>0
  <2>3. share.parse \in Nat /\ share.aggregate \in Nat /\ share.commit \in Nat
      BY <1>2, <2>0
  <2> QED BY <2>1, <2>2, <2>3 DEF CloudRest
<1>6. SumFunctionOnSet(share, CloudRest) =
         share.auth + share.budget + share.prepare + share.session + share.send + share.recv
             + share.backoff + share.parse + share.aggregate + share.commit
    BY <1>5, SumOfCloud
<1>7. SumFunctionOnSet(share, CloudRest) = 118 + W + q(5) + q(4) + q(8) + q(4) + q(18) + q(16) + q(0)
           + q(8) + q(6) + q(4)
    BY <1>2, <1>4, <1>6
<1> QED
    BY <1>1, <1>2, <1>4, <1>5, <1>7

LEMMA CloudSpread ==
    ASSUME NEW total \in Nat, total >= 350, NEW W \in 0 .. 434
    PROVE  /\ ApiSpread(Allocate(total, CloudSpecs(W)), total, CloudRest \cup {"write"})
           /\ Allocate(total, CloudSpecs(W)).parse >= 1
           /\ W # 0 => Allocate(total, CloudSpecs(W)).backoff >= 1
           /\ \A phase \in CloudRest :
                  Allocate(total, CloudSpecs(W))[phase] = Share(total, CloudSpecs(W)[phase], 126 + W, 76)
<1> DEFINE specs == CloudSpecs(W)
           share == [phase \in CloudRest |-> Share(total, specs[phase], 126 + W, 76)]
<1>1. DOMAIN specs = CloudRest \cup {"write"} /\ "write" \notin CloudRest
    BY DEF CloudSpecs, CloudRest
<1>2. IsFiniteSet(CloudRest)
  <2>1. \A x \in CloudRest : [y \in CloudRest |-> 0][x] \in Int
      OBVIOUS
  <2> QED BY <2>1, SumOfCloud DEF Summable
<1>3. /\ \A phase \in CloudRest : share[phase] \in Nat
      /\ SumFunctionOnSet(share, CloudRest) <= total
      /\ share.parse >= 1 /\ (W # 0 => share.backoff >= 1)
  <2> HIDE DEF share
  <2>1. SharesOf(share, total, CloudSpecs(W), CloudRest, 126 + W, 76)
      BY DEF share, SharesOf
  <2>2. CASE total <= 126 + W
      BY <2>1, <2>2, ScaledCloud
  <2>3. CASE total > 126 + W
      BY <2>1, <2>3, WeightedCloud
  <2> QED BY <2>2, <2>3
<1>4. /\ 126 + W = SumFunction([phase \in DOMAIN specs |-> specs[phase].least])
      /\ 76 = SumFunction([phase \in DOMAIN specs |-> specs[phase].weight])
    BY SumsOfCloudSpecs
<1> DEFINE L == 126 + W
           V == 76
<1>5. SharesOf(share, total, specs, CloudRest, L, V)
    BY DEF SharesOf
<1>6. SumsOf(specs, L, V)
    BY <1>4 DEF SumsOf
<1> HIDE DEF specs, share, L, V
<1>7. /\ ApiSpread(Allocate(total, specs), total, CloudRest \cup {"write"})
      /\ \A phase \in CloudRest : Allocate(total, specs)[phase] = share[phase]
  <2>1. SharesFit(share, CloudRest, total) /\ IsRest(specs, CloudRest)
      BY <1>1, <1>2, <1>3 DEF SharesFit, IsRest
  <2> QED BY <1>5, <1>6, <2>1, LastTakesTheRest
<1>8. "parse" \in CloudRest /\ "backoff" \in CloudRest
    BY DEF CloudRest
<1>9. \A phase \in CloudRest : Allocate(total, specs)[phase] = Share(total, specs[phase], 126 + W, 76)
    BY <1>7, Zenon DEF share
<1> QED
    BY <1>3, <1>7, <1>8, <1>9 DEF specs

LEMMA SumsOfHttpSpecs == SumsOf(HttpSpecs, 88, 56)
<1> DEFINE least == [phase \in DOMAIN HttpSpecs |-> HttpSpecs[phase].least]
           weight == [phase \in DOMAIN HttpSpecs |-> HttpSpecs[phase].weight]
<1>1. DOMAIN HttpSpecs = HttpRest \cup {"write"}
    BY DEF HttpSpecs, HttpRest
<1>2. /\ least.resolve = 12 /\ least.session = 10 /\ least.send = 18 /\ least.recv = 18
      /\ least.parse = 12 /\ least.cache = 10 /\ least.write = 8
    BY DEF HttpSpecs
<1>3. /\ weight.resolve = 8 /\ weight.session = 6 /\ weight.send = 14 /\ weight.recv = 12
      /\ weight.parse = 8 /\ weight.cache = 5 /\ weight.write = 3
    BY DEF HttpSpecs
<1>4. DOMAIN least = HttpRest \cup {"write"} /\ DOMAIN weight = HttpRest \cup {"write"}
    BY <1>1
<1> HIDE DEF least, weight
<1>5. \A x \in HttpRest : least[x] \in Int /\ weight[x] \in Int
    BY <1>2, <1>3 DEF HttpRest
<1>6. Summable(least, HttpRest) /\ SumFunctionOnSet(least, HttpRest) = 80
    BY <1>2, <1>5, SumOfHttp
<1>7. Summable(weight, HttpRest) /\ SumFunctionOnSet(weight, HttpRest) = 53
    BY <1>3, <1>5, SumOfHttp
<1>8. "write" \notin HttpRest /\ least["write"] \in Int /\ weight["write"] \in Int
    BY <1>2, <1>3 DEF HttpRest
<1>9. SumFunctionOnSet(least, HttpRest \cup {"write"}) = 88
  <2>1. SumFunctionOnSet(least, HttpRest \cup {"write"}) = SumFunctionOnSet(least, HttpRest) + least["write"]
      BY <1>6, <1>8, SumInsert
  <2> QED BY <1>2, <1>6, <2>1
<1>10. SumFunctionOnSet(weight, HttpRest \cup {"write"}) = 56
  <2>1. SumFunctionOnSet(weight, HttpRest \cup {"write"}) = SumFunctionOnSet(weight, HttpRest) + weight["write"]
      BY <1>7, <1>8, SumInsert
  <2> QED BY <1>3, <1>7, <2>1
<1>11. SumFunction(least) = 88 /\ SumFunction(weight) = 56
    BY <1>4, <1>9, <1>10 DEF SumFunction
<1> QED
    BY <1>11 DEF least, weight, SumsOf

LEMMA HttpShares ==
    ASSUME NEW total \in Nat, total >= 80,
           NEW share, SharesOf(share, total, HttpSpecs, HttpRest, 88, 56)
    PROVE  SharesFit(share, HttpRest, total) /\ share.parse >= 1
<1> DEFINE s(least, weight) == IF total <= 88 THEN Rounded(least * total, 88)
                               ELSE least + Rounded((total - 88) * weight, 56)
<1>1. /\ share.resolve = s(12, 8) /\ share.session = s(10, 6) /\ share.send = s(18, 14)
      /\ share.recv = s(18, 12) /\ share.parse = s(12, 8) /\ share.cache = s(10, 5)
    BY DEF Share, SharesOf, HttpSpecs, HttpRest
<1>2. ASSUME NEW least \in Nat, NEW weight \in Nat
      PROVE  /\ s(least, weight) \in Nat
             /\ total <= 88 => /\ 176 * s(least, weight) <= 2 * (least * total) + 88
                               /\ 2 * (least * total) <= 176 * s(least, weight) + 88
             /\ total > 88 => /\ 112 * s(least, weight) <= 112 * least + 2 * ((total - 88) * weight) + 56
                              /\ s(least, weight) >= least
  <2>1. CASE total <= 88
    <3> DEFINE n == least * total
               c == 88
    <3>1. n \in Nat /\ c \in Nat \ {0} /\ s(least, weight) = Rounded(n, c)
        BY <2>1
    <3> HIDE DEF n, c, s
    <3>2. /\ Rounded(n, c) \in Nat /\ 2 * (Rounded(n, c) * c) <= 2 * n + c
          /\ 2 * n <= 2 * (Rounded(n, c) * c) + c
        BY <3>1, RoundedBounds
    <3>3. c = 88
        BY DEF c
    <3>4. /\ s(least, weight) \in Nat /\ 176 * s(least, weight) <= 2 * n + 88
          /\ 2 * n <= 176 * s(least, weight) + 88
        BY <3>1, <3>2, <3>3
    <3> QED BY <2>1, <3>4 DEF n
  <2>2. CASE total > 88
    <3> DEFINE n == (total - 88) * weight
               c == 56
    <3>1. n \in Nat /\ c \in Nat \ {0} /\ s(least, weight) = least + Rounded(n, c)
        BY <2>2
    <3> HIDE DEF n, c, s
    <3>2. Rounded(n, c) \in Nat /\ 2 * (Rounded(n, c) * c) <= 2 * n + c
        BY <3>1, RoundedBounds
    <3>3. c = 56
        BY DEF c
    <3>4. /\ s(least, weight) \in Nat /\ 112 * s(least, weight) <= 112 * least + 2 * n + 56
          /\ s(least, weight) >= least
        BY <3>1, <3>2, <3>3
    <3> QED BY <2>2, <3>4 DEF n
  <2> QED BY <2>1, <2>2
<1> HIDE DEF s
<1>3. /\ s(12, 8) \in Nat /\ s(10, 6) \in Nat /\ s(18, 14) \in Nat /\ s(18, 12) \in Nat /\ s(10, 5) \in Nat
    BY <1>2
<1>4. \A phase \in HttpRest : share[phase] \in Nat
    BY <1>1, <1>3 DEF HttpRest
<1>5. SumFunctionOnSet(share, HttpRest) =
         share.resolve + share.session + share.send + share.recv + share.parse + share.cache
    BY <1>4, SumOfHttp
<1>6. SumFunctionOnSet(share, HttpRest) = s(12, 8) + s(10, 6) + s(18, 14) + s(18, 12) + s(12, 8) + s(10, 5)
    BY <1>1, <1>5
<1>7. CASE total <= 88
  <2>1. /\ 176 * s(12, 8) <= 2 * (12 * total) + 88 /\ 2 * (12 * total) <= 176 * s(12, 8) + 88
        /\ 176 * s(10, 6) <= 2 * (10 * total) + 88 /\ 176 * s(18, 14) <= 2 * (18 * total) + 88
        /\ 176 * s(18, 12) <= 2 * (18 * total) + 88 /\ 176 * s(10, 5) <= 2 * (10 * total) + 88
    <3>1. 176 * s(12, 8) <= 2 * (12 * total) + 88 /\ 2 * (12 * total) <= 176 * s(12, 8) + 88
        BY <1>2, <1>7
    <3>2. 176 * s(10, 6) <= 2 * (10 * total) + 88
        BY <1>2, <1>7
    <3>3. 176 * s(18, 14) <= 2 * (18 * total) + 88
        BY <1>2, <1>7
    <3>4. 176 * s(18, 12) <= 2 * (18 * total) + 88
        BY <1>2, <1>7
    <3>5. 176 * s(10, 5) <= 2 * (10 * total) + 88
        BY <1>2, <1>7
    <3> QED BY <3>1, <3>2, <3>3, <3>4, <3>5
  <2>2. SumFunctionOnSet(share, HttpRest) <= total /\ s(12, 8) >= 1
      BY <1>3, <1>6, <1>7, <2>1
  <2> QED BY <1>1, <1>4, <2>2 DEF SharesFit
<1>8. CASE total > 88
  <2>1. /\ 112 * s(12, 8) <= 112 * 12 + 2 * ((total - 88) * 8) + 56 /\ s(12, 8) >= 12
        /\ 112 * s(10, 6) <= 112 * 10 + 2 * ((total - 88) * 6) + 56
        /\ 112 * s(18, 14) <= 112 * 18 + 2 * ((total - 88) * 14) + 56
        /\ 112 * s(18, 12) <= 112 * 18 + 2 * ((total - 88) * 12) + 56
        /\ 112 * s(10, 5) <= 112 * 10 + 2 * ((total - 88) * 5) + 56
    <3>1. 112 * s(12, 8) <= 112 * 12 + 2 * ((total - 88) * 8) + 56 /\ s(12, 8) >= 12
        BY <1>2, <1>8
    <3>2. 112 * s(10, 6) <= 112 * 10 + 2 * ((total - 88) * 6) + 56
        BY <1>2, <1>8
    <3>3. 112 * s(18, 14) <= 112 * 18 + 2 * ((total - 88) * 14) + 56
        BY <1>2, <1>8
    <3>4. 112 * s(18, 12) <= 112 * 18 + 2 * ((total - 88) * 12) + 56
        BY <1>2, <1>8
    <3>5. 112 * s(10, 5) <= 112 * 10 + 2 * ((total - 88) * 5) + 56
        BY <1>2, <1>8
    <3> QED BY <3>1, <3>2, <3>3, <3>4, <3>5
  <2>2. SumFunctionOnSet(share, HttpRest) <= total /\ s(12, 8) >= 1
      BY <1>3, <1>6, <1>8, <2>1
  <2> QED BY <1>1, <1>4, <2>2 DEF SharesFit
<1> QED
    BY <1>7, <1>8

LEMMA HttpSpread ==
    ASSUME NEW total \in Nat, total >= 80
    PROVE  /\ ApiSpread(Allocate(total, HttpSpecs), total, HttpRest \cup {"write"})
           /\ Allocate(total, HttpSpecs).parse >= 1
           /\ \A phase \in HttpRest :
                  Allocate(total, HttpSpecs)[phase] = Share(total, HttpSpecs[phase], 88, 56)
<1> DEFINE L == 88
           V == 56
           share == [phase \in HttpRest |-> Share(total, HttpSpecs[phase], L, V)]
<1>1. DOMAIN HttpSpecs = HttpRest \cup {"write"} /\ "write" \notin HttpRest
    BY DEF HttpSpecs, HttpRest
<1>2. IsFiniteSet(HttpRest)
  <2>1. \A x \in HttpRest : [y \in HttpRest |-> 0][x] \in Int
      OBVIOUS
  <2> QED BY <2>1, SumOfHttp DEF Summable
<1>3. IsRest(HttpSpecs, HttpRest)
    BY <1>1, <1>2 DEF IsRest
<1>4. SumsOf(HttpSpecs, L, V)
    BY SumsOfHttpSpecs
<1>5. SharesOf(share, total, HttpSpecs, HttpRest, L, V)
    BY DEF SharesOf
<1>6. SharesFit(share, HttpRest, total) /\ share.parse >= 1
  <2> HIDE DEF share
  <2> QED BY <1>5, HttpShares
<1> HIDE DEF share, L, V
<1>7. /\ ApiSpread(Allocate(total, HttpSpecs), total, HttpRest \cup {"write"})
      /\ \A phase \in HttpRest : Allocate(total, HttpSpecs)[phase] = share[phase]
    BY <1>3, <1>4, <1>5, <1>6, LastTakesTheRest
<1>8. "parse" \in HttpRest
    BY DEF HttpRest
<1>9. \A phase \in HttpRest : Allocate(total, HttpSpecs)[phase] = Share(total, HttpSpecs[phase], 88, 56)
  <2>1. \A phase \in HttpRest : share[phase] = Share(total, HttpSpecs[phase], L, V)
      BY DEF share
  <2> QED BY <1>7, <2>1 DEF L, V
<1> QED
    BY <1>6, <1>7, <1>8, <1>9

-----------------------------------------------------------------------------
\* The phases of a batch of requests, as a set.
AllPhases(s) == (IF s.lane = "cloud" THEN CloudRest ELSE HttpRest) \cup {"write"}

\* A batch that a corridor of requests may hold.
IsRequest(s) ==
    /\ s.lane \in {"cloud", "http"} /\ s.latency \in Nat /\ s.backoff \in BOOLEAN
    /\ s.latency >= (IF s.lane = "cloud" THEN 350 ELSE 80)

LEMMA DurationsSpread ==
    ASSUME NEW p \in ApiPolicy, NEW s, IsRequest(s)
    PROVE  /\ ApiSpread(Durations(p, s), s.latency, AllPhases(s))
           /\ Durations(p, s).parse >= 1
           /\ s.lane = "cloud" /\ s.backoff => Durations(p, s).backoff >= 1
<1>1. CASE s.lane = "cloud"
  <2> DEFINE W == IF s.backoff THEN p.backoffWait ELSE 0
             total == s.latency
  <2>1. W \in 0 .. 434 /\ (s.backoff => W # 0) /\ total \in Nat /\ total >= 350
      BY <1>1 DEF IsRequest, ApiPolicy
  <2>2. Durations(p, s) = Allocate(total, CloudSpecs(W))
      BY <1>1 DEF Durations, Specs
  <2> HIDE DEF W, total
  <2>3. /\ ApiSpread(Allocate(total, CloudSpecs(W)), total, CloudRest \cup {"write"})
        /\ Allocate(total, CloudSpecs(W)).parse >= 1
        /\ W # 0 => Allocate(total, CloudSpecs(W)).backoff >= 1
      BY <2>1, CloudSpread
  <2>4. AllPhases(s) = CloudRest \cup {"write"}
      BY <1>1 DEF AllPhases
  <2> QED BY <2>1, <2>2, <2>3, <2>4 DEF total
<1>2. CASE s.lane = "http"
  <2> DEFINE total == s.latency
  <2>1. total \in Nat /\ total >= 80
      BY <1>2 DEF IsRequest
  <2>2. Durations(p, s) = Allocate(total, HttpSpecs)
      BY <1>2 DEF Durations, Specs
  <2> HIDE DEF total
  <2>3. /\ ApiSpread(Allocate(total, HttpSpecs), total, HttpRest \cup {"write"})
        /\ Allocate(total, HttpSpecs).parse >= 1
      BY <2>1, HttpSpread
  <2>4. AllPhases(s) = HttpRest \cup {"write"} /\ s.lane # "cloud"
      BY <1>2 DEF AllPhases
  <2> QED BY <2>1, <2>2, <2>3, <2>4 DEF total
<1> QED
    BY <1>1, <1>2 DEF IsRequest

-----------------------------------------------------------------------------
(* The lines of a corridor of requests                                     *)

LEMMA CloudOrder ==
    /\ Range(CloudPhases) = CloudRest \cup {"write"}
    /\ EarlierThan(CloudPhases, "auth") = {}
    /\ "prepare" \notin EarlierThan(CloudPhases, "prepare")
    /\ EarlierThan(CloudPhases, "write") = CloudRest
<1> DEFINE s == CloudPhases
<1>1. DOMAIN s = 1 .. 11
    BY DEF CloudPhases
<1>2. /\ s[1] = "auth" /\ s[2] = "budget" /\ s[3] = "prepare" /\ s[4] = "session" /\ s[5] = "send"
      /\ s[6] = "recv" /\ s[7] = "backoff" /\ s[8] = "parse" /\ s[9] = "aggregate" /\ s[10] = "commit"
      /\ s[11] = "write"
    BY DEF CloudPhases
<1> HIDE DEF s
<1>3. \A i \in 1 .. 11 : /\ s[i] = "auth" => i = 1
                         /\ s[i] = "prepare" => i = 3
                         /\ s[i] = "write" => i = 11
                         /\ i < 11 => s[i] \in CloudRest
    BY <1>2 DEF CloudRest
<1>4. \A x \in CloudRest : \E i \in 1 .. 10 : s[i] = x
    BY <1>2 DEF CloudRest
<1>5. Range(s) = CloudRest \cup {"write"}
  <2>1. \A x \in Range(s) : x \in CloudRest \cup {"write"}
      BY <1>1, <1>2, <1>3 DEF Range
  <2>2. \A x \in CloudRest \cup {"write"} : x \in Range(s)
      BY <1>1, <1>2, <1>4 DEF Range
  <2> QED BY <2>1, <2>2
<1>6. EarlierThan(s, "auth") = {}
    BY <1>1, <1>3 DEF EarlierThan
<1>7. "prepare" \notin EarlierThan(s, "prepare")
    BY <1>1, <1>3 DEF EarlierThan
<1>8. EarlierThan(s, "write") = CloudRest
  <2>1. \A x \in EarlierThan(s, "write") : x \in CloudRest
      BY <1>1, <1>3 DEF EarlierThan
  <2>2. \A x \in CloudRest : x \in EarlierThan(s, "write")
    <3> TAKE x \in CloudRest
    <3>1. PICK i \in 1 .. 10 : s[i] = x
        BY <1>4
    <3>2. i \in DOMAIN s /\ 11 \in DOMAIN s /\ i < 11 /\ s[11] = "write"
        BY <1>1, <1>2
    <3> QED BY <3>1, <3>2 DEF EarlierThan
  <2> QED BY <2>1, <2>2
<1> QED
    BY <1>5, <1>6, <1>7, <1>8 DEF s

LEMMA HttpOrder ==
    /\ Range(HttpPhases) = HttpRest \cup {"write"}
    /\ EarlierThan(HttpPhases, "resolve") = {}
    /\ EarlierThan(HttpPhases, "write") = HttpRest
<1> DEFINE s == HttpPhases
<1>1. DOMAIN s = 1 .. 7
    BY DEF HttpPhases
<1>2. /\ s[1] = "resolve" /\ s[2] = "session" /\ s[3] = "send" /\ s[4] = "recv" /\ s[5] = "parse"
      /\ s[6] = "cache" /\ s[7] = "write"
    BY DEF HttpPhases
<1> HIDE DEF s
<1>3. \A i \in 1 .. 7 : /\ s[i] = "resolve" => i = 1
                        /\ s[i] = "write" => i = 7
                        /\ i < 7 => s[i] \in HttpRest
    BY <1>2 DEF HttpRest
<1>4. \A x \in HttpRest : \E i \in 1 .. 6 : s[i] = x
    BY <1>2 DEF HttpRest
<1>5. Range(s) = HttpRest \cup {"write"}
  <2>1. \A x \in Range(s) : x \in HttpRest \cup {"write"}
      BY <1>1, <1>2, <1>3 DEF Range
  <2>2. \A x \in HttpRest \cup {"write"} : x \in Range(s)
      BY <1>1, <1>2, <1>4 DEF Range
  <2> QED BY <2>1, <2>2
<1>6. EarlierThan(s, "resolve") = {}
    BY <1>1, <1>3 DEF EarlierThan
<1>7. EarlierThan(s, "write") = HttpRest
  <2>1. \A x \in EarlierThan(s, "write") : x \in HttpRest
      BY <1>1, <1>3 DEF EarlierThan
  <2>2. \A x \in HttpRest : x \in EarlierThan(s, "write")
    <3> TAKE x \in HttpRest
    <3>1. PICK i \in 1 .. 6 : s[i] = x
        BY <1>4
    <3>2. i \in DOMAIN s /\ 7 \in DOMAIN s /\ i < 7 /\ s[7] = "write"
        BY <1>1, <1>2
    <3> QED BY <3>1, <3>2 DEF EarlierThan
  <2> QED BY <2>1, <2>2
<1> QED
    BY <1>5, <1>6, <1>7 DEF s

Spanned == [from : Int, to : Int]

\* The phases of a set laid one after the other from t on.
LEMMA ConsecutiveFacts ==
    ASSUME NEW phases, NEW d, NEW total, NEW all, ApiSpread(d, total, all),
           NEW set \in SUBSET all, NEW t \in Int
    PROVE  /\ DOMAIN Consecutive(phases, set, d, t) = set
           /\ \A phase \in set :
                 LET s == Consecutive(phases, set, d, t)[phase]
                 IN  /\ s \in Spanned /\ s.from >= t /\ s.to = s.from + d[phase]
                     /\ set \cap EarlierThan(phases, phase) = {} => s.from = t
                     /\ set = (set \cap EarlierThan(phases, phase)) \cup {phase}
                            /\ phase \notin EarlierThan(phases, phase)
                          => s.to = t + SumFunctionOnSet(d, set)
<1> DEFINE c == Consecutive(phases, set, d, t)
<1>1. DOMAIN c = set
    BY DEF Consecutive
<1>2. ASSUME NEW phase \in set
      PROVE  /\ c[phase] \in Spanned /\ c[phase].from >= t /\ c[phase].to = c[phase].from + d[phase]
             /\ set \cap EarlierThan(phases, phase) = {} => c[phase].from = t
             /\ set = (set \cap EarlierThan(phases, phase)) \cup {phase}
                            /\ phase \notin EarlierThan(phases, phase)
                  => c[phase].to = t + SumFunctionOnSet(d, set)
  <2> DEFINE before == set \cap EarlierThan(phases, phase)
             sum == SumFunctionOnSet(d, before)
  <2>1. c[phase] = Span(t + sum, d[phase])
      BY DEF Consecutive
  <2>2. IsFiniteSet(all) /\ (\A x \in all : d[x] \in Nat) /\ before \in SUBSET all /\ d[phase] \in Nat
      BY DEF ApiSpread
  <2> HIDE DEF before
  <2>3. sum \in Nat
      BY <2>2, SumOfPart
  <2>4. before = {} => sum = 0
      BY SumOfNone
  <2>5. set = before \cup {phase} /\ phase \notin EarlierThan(phases, phase)
           => SumFunctionOnSet(d, set) = sum + d[phase]
    <3> SUFFICES ASSUME set = before \cup {phase}, phase \notin EarlierThan(phases, phase)
                 PROVE  SumFunctionOnSet(d, before \cup {phase}) = sum + d[phase]
        OBVIOUS
    <3>1. IsFiniteSet(before)
        BY <2>2, FS_Subset
    <3>2. Summable(d, before) /\ phase \notin before /\ d[phase] \in Int
        BY <2>2, <3>1 DEF Summable, before
    <3> QED BY <3>2, SumInsert
  <2> HIDE DEF sum
  <2>6. c[phase] = [from |-> t + sum, to |-> t + sum + d[phase]]
      BY <2>1 DEF Span
  <2>7. c[phase] \in Spanned /\ c[phase].from = t + sum /\ c[phase].to = t + sum + d[phase]
      BY <2>2, <2>3, <2>6 DEF Spanned
  <2> HIDE DEF c
  <2> QED BY <2>2, <2>3, <2>4, <2>5, <2>7 DEF before
<1> QED
    BY <1>1, <1>2

LEMMA ConsecutiveFirst ==
    ASSUME NEW phases, NEW d, NEW total, NEW all, ApiSpread(d, total, all),
           NEW set \in SUBSET all, NEW t \in Int,
           NEW phase \in set, set \cap EarlierThan(phases, phase) = {}
    PROVE  Consecutive(phases, set, d, t)[phase].from = t
<1>1. Consecutive(phases, set, d, t)[phase] = Span(t + SumFunctionOnSet(d, {}), d[phase])
    BY DEF Consecutive
<1>2. t + SumFunctionOnSet(d, {}) = t
    BY SumOfNone
<1> QED BY <1>1, <1>2 DEF Span

\* Every phase of the line is a span of time, the parsing and a backoff are not empty.
ApiShape(s, line) ==
    /\ DOMAIN line = AllPhases(s)
    /\ \A phase \in AllPhases(s) : line[phase] \in Spanned /\ line[phase].from <= line[phase].to
    /\ line.parse.from < line.parse.to
    /\ s.lane = "cloud" /\ s.backoff => line.backoff.from < line.backoff.to

ApiBegins(s, line) ==
    /\ \A phase \in AllPhases(s) : line[phase].from >= 0
    /\ line.write.to <= s.latency

\* How the line of r goes on after the line of l: what is prepared begins before the
\* answer is there, the rest when l has been written.
ApiGoesOn(p, l, r, before, line) ==
    /\ line.write.to <= before.write.to + r.latency
    /\ r.lane = "cloud" => line.session.from >= before.write.to
    /\ PrepareAdmitted(p, l, r) /\ r.lane = "cloud" /\ ~p.authBudget =>
           /\ line.auth.from >= before.write.to
           /\ line.prepare.from <= Larger(before.send.from, before.recv.to)
    /\ PrepareAdmitted(p, l, r) /\ (r.lane = "cloud" => p.authBudget) =>
           First(r, line).from <= Larger(before.send.from, before.recv.to)

Rest(s) == IF s.lane = "cloud" THEN CloudRest ELSE HttpRest

LEMMA OrderOfPhases ==
    ASSUME NEW s, IsRequest(s)
    PROVE  /\ Range(ApiPhases(s)) = AllPhases(s)
           /\ AllPhases(s) = Rest(s) \cup {"write"} /\ "write" \notin Rest(s)
           /\ EarlierThan(ApiPhases(s), "write") = Rest(s)
           /\ s.lane = "cloud" => /\ EarlierThan(ApiPhases(s), "auth") = {}
                                  /\ "prepare" \notin EarlierThan(ApiPhases(s), "prepare")
           /\ s.lane = "http" => EarlierThan(ApiPhases(s), "resolve") = {}
           /\ "parse" \in Rest(s)
           /\ s.lane = "cloud" => {"auth", "budget", "prepare", "session", "backoff"} \subseteq Rest(s)
           /\ s.lane = "http" => {"resolve", "session"} \subseteq Rest(s)
<1>1. CASE s.lane = "cloud"
  <2>1. Rest(s) = CloudRest /\ AllPhases(s) = CloudRest \cup {"write"} /\ ApiPhases(s) = CloudPhases
      BY <1>1 DEF Rest, AllPhases, ApiPhases
  <2>2. /\ "write" \notin CloudRest /\ "parse" \in CloudRest
        /\ {"auth", "budget", "prepare", "session", "backoff"} \subseteq CloudRest
      BY DEF CloudRest
  <2> QED BY <1>1, <2>1, <2>2, CloudOrder
<1>2. CASE s.lane = "http"
  <2>1. Rest(s) = HttpRest /\ AllPhases(s) = HttpRest \cup {"write"} /\ ApiPhases(s) = HttpPhases
      BY <1>2 DEF Rest, AllPhases, ApiPhases
  <2>2. "write" \notin HttpRest /\ "parse" \in HttpRest /\ {"resolve", "session"} \subseteq HttpRest
      BY DEF HttpRest
  <2> QED BY <1>2, <2>1, <2>2, HttpOrder
<1> QED
    BY <1>1, <1>2 DEF IsRequest

LEMMA ApiLineBegins ==
    ASSUME NEW p \in ApiPolicy, NEW s, IsRequest(s), NEW line,
           line = Consecutive(ApiPhases(s), Range(ApiPhases(s)), Durations(p, s), 0)
    PROVE  ApiShape(s, line) /\ ApiBegins(s, line)
<1> DEFINE d == Durations(p, s)
           all == AllPhases(s)
           phases == ApiPhases(s)
<1>1. ApiSpread(d, s.latency, all) /\ d.parse >= 1 /\ (s.lane = "cloud" /\ s.backoff => d.backoff >= 1)
    BY DurationsSpread
<1>2. line = Consecutive(phases, all, d, 0)
    BY OrderOfPhases
<1>3. /\ all = (all \cap EarlierThan(phases, "write")) \cup {"write"} /\ "write" \in all /\ "parse" \in all
      /\ "write" \notin EarlierThan(phases, "write")
      /\ s.lane = "cloud" => "backoff" \in all
    BY OrderOfPhases
<1>4. s.latency \in Nat
    BY DEF IsRequest
<1>5. (\A x \in all : d[x] \in Nat) /\ SumFunctionOnSet(d, all) = s.latency
    BY <1>1 DEF ApiSpread
<1> DEFINE t == 0
           whole == all
<1>0. line = Consecutive(phases, whole, d, t) /\ t \in Int /\ whole \in SUBSET all /\ whole = all
    BY <1>2
<1> HIDE DEF d, all, phases, t, whole
<1> DEFINE c == Consecutive(phases, whole, d, t)
<1>60. DOMAIN c = whole
    BY DEF Consecutive
<1>6. DOMAIN line = all
    BY <1>0, <1>60
<1>69. \A x \in whole : c[x] \in Spanned /\ c[x].from >= t /\ c[x].to = c[x].from + d[x]
    BY <1>1, <1>0, ConsecutiveFacts
<1>70. \A x \in all : line[x] \in Spanned /\ line[x].from >= t /\ line[x].to = line[x].from + d[x]
    BY <1>0, <1>69
<1>7. \A x \in all : line[x] \in Spanned /\ line[x].from >= 0 /\ line[x].to = line[x].from + d[x]
    BY <1>70 DEF t
<1>8. line["write"].to = 0 + SumFunctionOnSet(d, all)
  <2>1. "write" \in whole /\ whole = (whole \cap EarlierThan(phases, "write")) \cup {"write"}
      BY <1>0, <1>3
  <2>2. c["write"].to = t + SumFunctionOnSet(d, whole)
      BY <1>1, <1>0, <1>3, <2>1, ConsecutiveFacts
  <2> QED BY <1>0, <2>2 DEF t
<1>9. \A x \in all : line[x].from <= line[x].to
    BY <1>5, <1>7 DEF Spanned
<1>10. line.parse.from < line.parse.to
    BY <1>1, <1>3, <1>5, <1>7 DEF Spanned
<1>11. s.lane = "cloud" /\ s.backoff => line.backoff.from < line.backoff.to
    BY <1>1, <1>3, <1>5, <1>7 DEF Spanned
<1>12. line.write.to <= s.latency
    BY <1>4, <1>5, <1>8
<1> QED
    BY <1>6, <1>7, <1>9, <1>10, <1>11, <1>12 DEF ApiShape, ApiBegins, all

LEMMA PreparedPhases ==
    ASSUME NEW p, NEW l, NEW r, IsRequest(r)
    PROVE  /\ Preparing(p, l, r) \subseteq Rest(r)
           /\ r.lane = "cloud" => "session" \notin Preparing(p, l, r)
           /\ PrepareAdmitted(p, l, r) /\ r.lane = "cloud" /\ ~p.authBudget => Preparing(p, l, r) = {"prepare"}
           /\ PrepareAdmitted(p, l, r) /\ r.lane = "cloud" /\ p.authBudget =>
                  Preparing(p, l, r) = {"prepare", "auth", "budget"}
           /\ PrepareAdmitted(p, l, r) /\ r.lane = "http" => Preparing(p, l, r) = {"resolve", "session"}
<1>1. CASE r.lane = "cloud"
  <2>1. Preparing(p, l, r) \in {{}, {"prepare"}, {"prepare", "auth", "budget"}}
      BY <1>1 DEF Preparing
  <2>2. {"prepare", "auth", "budget"} \subseteq Rest(r)
      BY <1>1, OrderOfPhases
  <2>3. "session" \notin Preparing(p, l, r) /\ Preparing(p, l, r) \subseteq Rest(r)
      BY <2>1, <2>2
  <2>4. PrepareAdmitted(p, l, r) => Preparing(p, l, r) = {"prepare"} \cup (IF p.authBudget THEN {"auth", "budget"} ELSE {})
      BY <1>1 DEF Preparing
  <2> QED BY <1>1, <2>3, <2>4
<1>2. CASE r.lane = "http"
  <2>1. {"resolve", "session"} \subseteq Rest(r)
      BY <1>2, OrderOfPhases
  <2>2. Preparing(p, l, r) = IF PrepareAdmitted(p, l, r) THEN {"resolve", "session"} ELSE {}
      BY <1>2 DEF Preparing
  <2> QED BY <1>2, <2>1, <2>2
<1> QED
    BY <1>1, <1>2 DEF IsRequest

\* The line of r after that of l, as NextApiLine makes it.
LaterApiLine(p, l, r, before) ==
    LET d == Durations(p, r)
        phases == ApiPhases(r)
        early == Preparing(p, l, r)
        prepareTime == SumFunctionOnSet(d, early)
        prepared == Consecutive(phases, early, d,
                                Larger(before.send.from, before.recv.to - prepareTime))
        others == Consecutive(phases, Range(phases) \ early, d, before.write.to)
    IN  [phase \in Range(phases) |-> IF phase \in early THEN prepared[phase] ELSE others[phase]]

LEMMA ApiLineGoesOn ==
    ASSUME NEW p \in ApiPolicy, NEW l, NEW r, IsRequest(r),
           NEW before, before.send \in Spanned, before.recv \in Spanned, before.write \in Spanned,
           NEW line,
           line = LaterApiLine(p, l, r, before)
    PROVE  ApiShape(r, line) /\ ApiGoesOn(p, l, r, before, line)
<1> DEFINE d == Durations(p, r)
           all == AllPhases(r)
           phases == ApiPhases(r)
           early == Preparing(p, l, r)
           late == all \ early
           prepareTime == SumFunctionOnSet(d, early)
           t == Larger(before.send.from, before.recv.to - prepareTime)
           u == before.write.to
           prepared == Consecutive(phases, early, d, t)
           others == Consecutive(phases, late, d, u)
<1>1. ApiSpread(d, r.latency, all) /\ d.parse >= 1 /\ (r.lane = "cloud" /\ r.backoff => d.backoff >= 1)
    BY DurationsSpread
<1>2. Range(phases) = all
    BY OrderOfPhases
<1>3. line = [phase \in all |-> IF phase \in early THEN prepared[phase] ELSE others[phase]]
    BY <1>2 DEF LaterApiLine
<1>4. /\ early \subseteq Rest(r) /\ all = Rest(r) \cup {"write"} /\ "write" \notin Rest(r)
      /\ EarlierThan(phases, "write") = Rest(r)
    BY OrderOfPhases, PreparedPhases
<1>5. early \in SUBSET all /\ late \in SUBSET all /\ "write" \in late
    BY <1>4
<1>6. late = (late \cap EarlierThan(phases, "write")) \cup {"write"} /\ "write" \notin EarlierThan(phases, "write")
    BY <1>4, <1>5
<1>7. (\A x \in all : d[x] \in Nat) /\ SumFunctionOnSet(d, all) = r.latency /\ IsFiniteSet(all)
    BY <1>1 DEF ApiSpread
<1>8. /\ r.latency \in Nat /\ u \in Int /\ before.send.from \in Int /\ before.recv.to \in Int
    BY DEF IsRequest, Spanned
<1>9. /\ "parse" \in all /\ (r.lane = "cloud" => {"auth", "budget", "prepare", "session", "backoff"} \subseteq all)
      /\ (r.lane = "http" => {"resolve", "session"} \subseteq all)
    BY OrderOfPhases
<1> HIDE DEF d, all, phases, early, prepared, others
<1>10. prepareTime \in Nat
    BY <1>5, <1>7, SumOfPart
<1>11. t \in Int /\ t <= Larger(before.send.from, before.recv.to)
  <2> HIDE DEF prepareTime
  <2> QED BY <1>8, <1>10 DEF Larger
<1>12. SumFunctionOnSet(d, late) \in Nat /\ SumFunctionOnSet(d, late) <= r.latency
  <2> HIDE DEF late
  <2> QED BY <1>5, <1>7, SumOfPart
<1> HIDE DEF late, t, u
<1>13. \A x \in early : prepared[x] \in Spanned /\ prepared[x].to = prepared[x].from + d[x]
    BY <1>1, <1>5, <1>11, ConsecutiveFacts DEF prepared
<1>130. ASSUME NEW x \in early, early \cap EarlierThan(phases, x) = {} PROVE prepared[x].from = t
  <2>1. Consecutive(phases, early, d, t)[x].from = t
      BY <1>1, <1>5, <1>11, <1>130, ConsecutiveFirst
  <2> QED BY <2>1 DEF prepared
<1>14. \A x \in late : others[x] \in Spanned /\ others[x].to = others[x].from + d[x] /\ others[x].from >= u
    BY <1>1, <1>5, <1>8, ConsecutiveFacts DEF others
<1>15. others["write"].to = u + SumFunctionOnSet(d, late)
    BY <1>1, <1>5, <1>6, <1>8, ConsecutiveFacts DEF others
<1>16. /\ DOMAIN line = all
       /\ \A x \in early : line[x] = prepared[x]
       /\ \A x \in late : line[x] = others[x]
    BY <1>3, <1>5 DEF late
<1>17. all = early \cup late
    BY <1>5 DEF late
<1>18. \A x \in all : line[x] \in Spanned /\ line[x].to = line[x].from + d[x]
    BY <1>13, <1>14, <1>16, <1>17
<1>19. \A x \in all : line[x].from <= line[x].to
    BY <1>7, <1>18 DEF Spanned
<1>20. line.parse.from < line.parse.to
    BY <1>1, <1>7, <1>9, <1>18 DEF Spanned
<1>21. r.lane = "cloud" /\ r.backoff => line.backoff.from < line.backoff.to
    BY <1>1, <1>7, <1>9, <1>18 DEF Spanned
<1>22. ApiShape(r, line)
    BY <1>16, <1>18, <1>19, <1>20, <1>21 DEF ApiShape, all
<1>23. line.write.to <= u + r.latency
    BY <1>5, <1>8, <1>12, <1>15, <1>16
<1>24. \A x \in all \ early : line[x].from >= u
    BY <1>14, <1>16, <1>17
<1>25. r.lane = "cloud" => line.session.from >= u
    BY <1>9, <1>24, PreparedPhases DEF early
<1>26. \A x \in early : early \cap EarlierThan(phases, x) = {} => line[x].from <= Larger(before.send.from, before.recv.to)
    BY <1>11, <1>130, <1>16
<1>27. ASSUME PrepareAdmitted(p, l, r), r.lane = "cloud", ~p.authBudget
       PROVE  line.auth.from >= u /\ line.prepare.from <= Larger(before.send.from, before.recv.to)
  <2>1. early = {"prepare"}
      BY <1>27, PreparedPhases DEF early
  <2>2. early \cap EarlierThan(phases, "prepare") = {} /\ "prepare" \in early
      BY <1>27, <2>1, OrderOfPhases DEF phases
  <2>3. "auth" \in all \ early
      BY <1>9, <1>27, <2>1
  <2> QED BY <1>24, <1>26, <2>2, <2>3
<1>28. ASSUME PrepareAdmitted(p, l, r), r.lane = "cloud" => p.authBudget
       PROVE  First(r, line).from <= Larger(before.send.from, before.recv.to)
  <2>1. CASE r.lane = "cloud"
    <3>1. "auth" \in early /\ EarlierThan(phases, "auth") = {}
        BY <1>28, <2>1, PreparedPhases, OrderOfPhases DEF early, phases
    <3> QED BY <1>26, <2>1, <3>1 DEF First
  <2>2. CASE r.lane = "http"
    <3>1. "resolve" \in early /\ EarlierThan(phases, "resolve") = {}
        BY <1>28, <2>2, PreparedPhases, OrderOfPhases DEF early, phases
    <3> QED BY <1>26, <2>2, <3>1 DEF First
  <2> QED BY <2>1, <2>2 DEF IsRequest
<1>29. ApiGoesOn(p, l, r, before, line)
    BY <1>23, <1>25, <1>27, <1>28 DEF ApiGoesOn, u
<1> QED
    BY <1>22, <1>29

-----------------------------------------------------------------------------
(* The lines of a corridor of BLE actions                                  *)

BleNames == {"adv", "connect", "xfer", "settle"}

BleShape(line) ==
    /\ DOMAIN line = BleNames /\ \A phase \in BleNames : line[phase] \in Spanned
    /\ line.adv.from < line.adv.to /\ line.adv.to <= line.connect.from
    /\ line.connect.from < line.connect.to /\ line.connect.to <= line.xfer.from
    /\ line.xfer.from < line.xfer.to /\ line.xfer.to = line.settle.from
    /\ line.settle.from < line.settle.to

BleBegins(a, line) == line.adv.from >= 0 /\ line.settle.to <= BleLatency(a.kind)

BleGoesOn(a, before, line) ==
    /\ line.adv.from \in {before.connect.from, before.xfer.from, before.settle.to}
    /\ line.connect.from >= before.xfer.from /\ line.xfer.from >= before.xfer.to
    /\ line.settle.to <= before.settle.to + BleLatency(a.kind)

BleTimes(line, adv, connect, xfer, end) ==
    /\ line.adv.from = adv /\ line.connect.from >= connect /\ line.xfer.from >= xfer
    /\ line.settle.to <= end

LEMMA BleLineFacts ==
    ASSUME NEW d, NEW total \in Nat, BleSpread(d, total), NEW adv \in Int, NEW connect \in Int, NEW xfer \in Int,
           NEW latest \in Int, adv <= latest, connect <= latest, xfer <= latest,
           NEW line, line = BleLine(d, adv, connect, xfer)
    PROVE  BleShape(line) /\ BleTimes(line, adv, connect, xfer, latest + total)
<1> DEFINE c == Larger(adv + d.adv, connect)
           x == Larger(c + d.connect, xfer)
<1>1. /\ d.adv \in Nat \ {0} /\ d.connect \in Nat \ {0} /\ d.xfer \in Nat \ {0} /\ d.settle \in Nat \ {0}
      /\ d.adv + d.connect + d.xfer + d.settle = total
    BY DEF BleSpread
<1>2. c \in Int /\ c >= adv + d.adv /\ c >= connect /\ c <= latest + d.adv
    BY <1>1 DEF Larger
<1>3. x \in Int /\ x >= c + d.connect /\ x >= xfer /\ x <= latest + d.adv + d.connect
  <2> HIDE DEF c
  <2> QED BY <1>1, <1>2 DEF Larger
<1>4. line = [adv     |-> [from |-> adv, to |-> adv + d.adv],
              connect |-> [from |-> c, to |-> c + d.connect],
              xfer    |-> [from |-> x, to |-> x + d.xfer],
              settle  |-> [from |-> x + d.xfer, to |-> x + d.xfer + d.settle]]
    BY DEF BleLine, Span
<1> HIDE DEF c, x
<1>5. /\ line.adv = [from |-> adv, to |-> adv + d.adv]
      /\ line.connect = [from |-> c, to |-> c + d.connect]
      /\ line.xfer = [from |-> x, to |-> x + d.xfer]
      /\ line.settle = [from |-> x + d.xfer, to |-> x + d.xfer + d.settle]
      /\ DOMAIN line = BleNames
    BY <1>4 DEF BleNames
<1>6. \A phase \in BleNames : line[phase] \in Spanned
    BY <1>1, <1>2, <1>3, <1>5 DEF BleNames, Spanned
<1>7. BleShape(line)
    BY <1>1, <1>2, <1>3, <1>5, <1>6 DEF BleShape
<1>8. /\ line.adv.from = adv /\ line.connect.from = c /\ line.xfer.from = x
      /\ line.settle.to = x + d.xfer + d.settle
    BY <1>5
<1>9. line.settle.to <= latest + total
    BY <1>1, <1>2, <1>3, <1>8
<1> QED
    BY <1>2, <1>3, <1>7, <1>8, <1>9 DEF BleTimes

LEMMA BleLineBegins ==
    ASSUME NEW p \in BlePolicy, NEW a
    PROVE  BleShape(BleLine(PhaseDurations(p, a), 0, 0, 0)) /\ BleBegins(a, BleLine(PhaseDurations(p, a), 0, 0, 0))
<1> DEFINE d == PhaseDurations(p, a)
           total == BleLatency(a.kind)
           t == 0
           line == BleLine(d, t, t, t)
<1>1. BleSpread(d, total) /\ total \in Nat /\ t \in Int /\ t <= t
    BY BlePhasesSpread
<1> HIDE DEF d, total, t, line
<1>2. BleShape(line) /\ BleTimes(line, t, t, t, t + total)
    BY <1>1, BleLineFacts, Zenon DEF line
<1>3. BleShape(line) /\ line.adv.from = 0 /\ line.settle.to <= total
    BY <1>1, <1>2 DEF BleTimes, t
<1> QED
    BY <1>3 DEF BleBegins, line, t, d, total

LEMMA BleLineGoesOn ==
    ASSUME NEW p \in BlePolicy, NEW l, NEW r, NEW before, BleShape(before), NEW line,
           line = BleLine(PhaseDurations(p, r), AdvFrom(p, l, r, before), ConnectFrom(p, l, r, before), before.xfer.to)
    PROVE  BleShape(line) /\ BleGoesOn(r, before, line)
<1> DEFINE d == PhaseDurations(p, r)
           total == BleLatency(r.kind)
           adv == AdvFrom(p, l, r, before)
           connect == ConnectFrom(p, l, r, before)
           xfer == before.xfer.to
           latest == before.settle.to
<1>1. BleSpread(d, total) /\ total \in Nat
    BY BlePhasesSpread
<1>2. /\ before.connect.from \in Int /\ before.connect.to \in Int /\ before.xfer.from \in Int
      /\ before.xfer.to \in Int /\ before.settle.from \in Int /\ before.settle.to \in Int
    BY DEF BleShape, BleNames, Spanned
<1>3. /\ before.connect.from <= latest /\ before.xfer.from <= latest /\ xfer <= latest /\ latest <= latest
    BY <1>2 DEF BleShape
<1>4. adv \in {before.connect.from, before.xfer.from, before.settle.to}
    BY DEF AdvFrom
<1>5. connect \in {before.xfer.from, before.settle.to}
    BY DEF ConnectFrom
<1> HIDE DEF d, total, adv, connect
<1>6. adv \in Int /\ connect \in Int /\ xfer \in Int /\ latest \in Int /\ adv <= latest /\ connect <= latest
      /\ connect >= before.xfer.from
    BY <1>2, <1>3, <1>4, <1>5
<1>7. line = BleLine(d, adv, connect, xfer)
    BY DEF d, adv, connect
<1> HIDE DEF xfer, latest
<1>80. BleShape(line) /\ BleTimes(line, adv, connect, xfer, latest + total)
    BY <1>1, <1>3, <1>6, <1>7, BleLineFacts, Zenon
<1>8. /\ BleShape(line) /\ line.adv.from = adv /\ line.connect.from >= connect /\ line.xfer.from >= xfer
      /\ line.settle.to <= latest + total
    BY <1>80 DEF BleTimes
<1>9. line.connect.from \in Int
    BY <1>8 DEF BleShape, BleNames, Spanned
<1> QED
    BY <1>2, <1>4, <1>6, <1>8, <1>9 DEF BleGoesOn, latest, total, xfer

\* A line ends where its last phase does.
LEMMA EndIsLast ==
    ASSUME NEW line, NEW last \in DOMAIN line,
           \A phase \in DOMAIN line : line[phase] \in Spanned /\ line[phase].to <= line[last].to
    PROVE  End(line) = line[last].to
<1> DEFINE E == {s.to : s \in Spans(line)}
<1>1. \A t \in E : t \in Int /\ t <= line[last].to
    BY DEF Spans, Range, Spanned
<1>2. line[last].to \in E /\ line[last].to \in Int
    BY DEF Spans, Range, Spanned
<1>3. \A s \in Spans(line) : s.to <= line[last].to
    BY DEF Spans, Range
<1>4. \A t \in E : (\A s \in Spans(line) : s.to <= t) => t = line[last].to
  <2> TAKE t \in E
  <2> SUFFICES ASSUME \A s \in Spans(line) : s.to <= t PROVE t = line[last].to
      OBVIOUS
  <2>1. line[last].to <= t
      BY DEF Spans, Range
  <2> QED BY <1>1, <1>2, <2>1, SMTT(30)
<1>5. End(line) \in E /\ \A s \in Spans(line) : s.to <= End(line)
    BY <1>2, <1>3 DEF End
<1> HIDE DEF E
<1> QED
    BY <1>4, <1>5

LEMMA BleEnd ==
    ASSUME NEW line, BleShape(line)
    PROVE  /\ End(line) = line.settle.to /\ line.settle.to \in Int
           /\ \A s \in Spans(line) : s \in Spanned /\ line.adv.from <= s.from /\ s.from <= s.to /\ s.to <= End(line)
<1>1. DOMAIN line = BleNames /\ \A phase \in BleNames : line[phase] \in Spanned
    BY DEF BleShape
<1>2. /\ line.adv.from \in Int /\ line.adv.to \in Int /\ line.connect.from \in Int /\ line.connect.to \in Int
      /\ line.xfer.from \in Int /\ line.xfer.to \in Int /\ line.settle.from \in Int /\ line.settle.to \in Int
    BY <1>1 DEF BleNames, Spanned
<1>3. \A phase \in BleNames : /\ line.adv.from <= line[phase].from /\ line[phase].from <= line[phase].to
                              /\ line[phase].to <= line.settle.to
  <2>1. line.adv.from <= line.adv.from /\ line.adv.from <= line.adv.to /\ line.adv.to <= line.settle.to
      BY <1>2 DEF BleShape
  <2>2. line.adv.from <= line.connect.from /\ line.connect.from <= line.connect.to /\ line.connect.to <= line.settle.to
      BY <1>2 DEF BleShape
  <2>3. line.adv.from <= line.xfer.from /\ line.xfer.from <= line.xfer.to /\ line.xfer.to <= line.settle.to
      BY <1>2 DEF BleShape
  <2>4. line.adv.from <= line.settle.from /\ line.settle.from <= line.settle.to /\ line.settle.to <= line.settle.to
      BY <1>2 DEF BleShape
  <2> QED BY <2>1, <2>2, <2>3, <2>4 DEF BleNames
<1>4. "settle" \in DOMAIN line
    BY <1>1 DEF BleNames
<1>5. End(line) = line.settle.to
    BY <1>1, <1>3, <1>4, EndIsLast
<1>6. \A s \in Spans(line) : \E phase \in BleNames : s = line[phase]
    BY <1>1 DEF Spans, Range
<1> QED
    BY <1>1, <1>2, <1>3, <1>5, <1>6

\* What the validator's check of the order says about the line of a batch of requests.
CloudOrdered(line) ==
    /\ line.auth.to <= line.budget.from /\ line.budget.to <= line.prepare.from
    /\ line.prepare.to <= line.session.from /\ line.session.to <= line.send.from
    /\ line.send.to <= line.recv.from /\ line.recv.to <= line.backoff.from
    /\ line.backoff.to <= line.parse.from /\ line.parse.to <= line.aggregate.from
    /\ line.aggregate.to <= line.commit.from /\ line.commit.to <= line.write.from

HttpOrdered(line) ==
    /\ line.resolve.to <= line.session.from /\ line.session.to <= line.send.from
    /\ line.send.to <= line.recv.from /\ line.recv.to <= line.parse.from
    /\ line.parse.to <= line.cache.from /\ line.cache.to <= line.write.from

LEMMA OrderedInCloud ==
    ASSUME NEW line, InOrder(line, CloudPhases)
    PROVE  CloudOrdered(line)
<1> DEFINE s == CloudPhases
<1>1. Len(s) = 11
    BY DEF CloudPhases
<1>2. /\ s[1] = "auth" /\ s[2] = "budget" /\ s[3] = "prepare" /\ s[4] = "session" /\ s[5] = "send"
      /\ s[6] = "recv" /\ s[7] = "backoff" /\ s[8] = "parse" /\ s[9] = "aggregate" /\ s[10] = "commit"
      /\ s[11] = "write"
    BY DEF CloudPhases
<1>3. \A i \in 1 .. Len(s) - 1 : line[s[i]].to <= line[s[i + 1]].from
    BY DEF InOrder
<1> HIDE DEF s
<1>4. \A i \in 1 .. 10 : line[s[i]].to <= line[s[i + 1]].from
    BY <1>1, <1>3
<1>5. /\ line[s[1]].to <= line[s[2]].from /\ line[s[2]].to <= line[s[3]].from
      /\ line[s[3]].to <= line[s[4]].from /\ line[s[4]].to <= line[s[5]].from
      /\ line[s[5]].to <= line[s[6]].from
    BY <1>4
<1>6. /\ line[s[6]].to <= line[s[7]].from
      /\ line[s[7]].to <= line[s[8]].from /\ line[s[8]].to <= line[s[9]].from
      /\ line[s[9]].to <= line[s[10]].from /\ line[s[10]].to <= line[s[11]].from
    BY <1>4
<1> QED
    BY <1>2, <1>5, <1>6 DEF CloudOrdered

LEMMA OrderedInHttp ==
    ASSUME NEW line, InOrder(line, HttpPhases)
    PROVE  HttpOrdered(line)
<1> DEFINE s == HttpPhases
<1>1. Len(s) = 7
    BY DEF HttpPhases
<1>2. /\ s[1] = "resolve" /\ s[2] = "session" /\ s[3] = "send" /\ s[4] = "recv" /\ s[5] = "parse"
      /\ s[6] = "cache" /\ s[7] = "write"
    BY DEF HttpPhases
<1>3. \A i \in 1 .. Len(s) - 1 : line[s[i]].to <= line[s[i + 1]].from
    BY DEF InOrder
<1> HIDE DEF s
<1>4. \A i \in 1 .. 6 : line[s[i]].to <= line[s[i + 1]].from
    BY <1>1, <1>3
<1>5. /\ line[s[1]].to <= line[s[2]].from /\ line[s[2]].to <= line[s[3]].from
      /\ line[s[3]].to <= line[s[4]].from /\ line[s[4]].to <= line[s[5]].from
      /\ line[s[5]].to <= line[s[6]].from /\ line[s[6]].to <= line[s[7]].from
    BY <1>4
<1> QED
    BY <1>2, <1>5 DEF HttpOrdered

\* The line of a batch of requests whose phases are in order: the first begins, the
\* writing ends it, and what follows the answer follows its request.
ApiTidy(s, line) ==
    /\ \A phase \in AllPhases(s) : /\ line[phase] \in Spanned
                                   /\ First(s, line).from <= line[phase].from
                                   /\ line[phase].from <= line[phase].to
                                   /\ line[phase].to <= line.write.to
    /\ \A phase \in AllPhases(s) \cap {"send", "recv", "backoff", "parse", "aggregate", "cache", "commit"} :
           line.send.from <= line[phase].from
    /\ line.send.from <= line.recv.to /\ line.recv.to < line.write.to
    /\ {"send", "recv", "parse", "write"} \subseteq AllPhases(s)
    /\ s.lane = "cloud" =>
           /\ "backoff" \in AllPhases(s)
           /\ line.auth.from <= line.prepare.from /\ line.auth.to <= line.budget.to
    /\ s.lane = "http" => line.resolve.to <= line.session.to
    /\ First(s, line) \in Spanned

LEMMA ApiLineTidy ==
    ASSUME NEW s, IsRequest(s), NEW line, ApiShape(s, line), InOrder(line, ApiPhases(s))
    PROVE  ApiTidy(s, line)
<1>1. /\ \A phase \in AllPhases(s) : line[phase].from \in Int /\ line[phase].to \in Int
                                        /\ line[phase].from <= line[phase].to /\ line[phase] \in Spanned
      /\ line.parse.from < line.parse.to
    BY DEF ApiShape, Spanned
<1>2. CASE s.lane = "cloud"
  <2>1. CloudOrdered(line)
      BY <1>2, OrderedInCloud DEF ApiPhases
  <2>2. AllPhases(s) = {"auth", "budget", "prepare", "session", "send", "recv", "backoff", "parse",
                        "aggregate", "commit", "write"}
      BY <1>2 DEF AllPhases, CloudRest
  <2>3. First(s, line) = line.auth
      BY <1>2 DEF First
  <2>4. /\ line.auth.from \in Int /\ line.auth.to \in Int /\ line.budget.from \in Int /\ line.budget.to \in Int
        /\ line.prepare.from \in Int /\ line.prepare.to \in Int /\ line.session.from \in Int /\ line.session.to \in Int
        /\ line.send.from \in Int /\ line.send.to \in Int /\ line.recv.from \in Int /\ line.recv.to \in Int
        /\ line.backoff.from \in Int /\ line.backoff.to \in Int /\ line.parse.from \in Int /\ line.parse.to \in Int
        /\ line.aggregate.from \in Int /\ line.aggregate.to \in Int /\ line.commit.from \in Int /\ line.commit.to \in Int
        /\ line.write.from \in Int /\ line.write.to \in Int
      BY <1>1, <2>2
  <2>5. /\ line.auth.from <= line.auth.to /\ line.budget.from <= line.budget.to
        /\ line.prepare.from <= line.prepare.to /\ line.session.from <= line.session.to
        /\ line.send.from <= line.send.to /\ line.recv.from <= line.recv.to
        /\ line.backoff.from <= line.backoff.to /\ line.aggregate.from <= line.aggregate.to
        /\ line.commit.from <= line.commit.to /\ line.write.from <= line.write.to
      BY <1>1, <2>2
  <2>6. /\ line.auth.from <= line.budget.from /\ line.auth.from <= line.prepare.from
        /\ line.auth.from <= line.session.from /\ line.auth.from <= line.send.from
        /\ line.auth.to <= line.budget.to
      BY <2>1, <2>4, <2>5 DEF CloudOrdered
  <2>7. /\ line.send.from <= line.recv.from /\ line.send.from <= line.backoff.from
        /\ line.send.from <= line.parse.from /\ line.send.from <= line.recv.to
        /\ line.recv.to <= line.parse.from
      BY <2>1, <2>4, <2>5 DEF CloudOrdered
  <2>8. /\ line.parse.from <= line.aggregate.from /\ line.parse.from <= line.commit.from
        /\ line.parse.from <= line.write.from /\ line.parse.to <= line.write.to
        /\ line.commit.to <= line.write.to /\ line.aggregate.to <= line.write.to
      BY <1>1, <2>1, <2>4, <2>5 DEF CloudOrdered
  <2>9. /\ line.auth.to <= line.send.from /\ line.budget.to <= line.send.from
        /\ line.prepare.to <= line.send.from /\ line.session.to <= line.send.from
        /\ line.send.to <= line.parse.from /\ line.backoff.to <= line.parse.from
      BY <2>1, <2>4, <2>5 DEF CloudOrdered
  <2>10. /\ line.send.from <= line.parse.from /\ line.parse.from <= line.write.to
         /\ line.parse.from < line.write.to
      BY <1>1, <2>4, <2>7, <2>8
  <2>11. \A phase \in AllPhases(s) : First(s, line).from <= line[phase].from
    <3> USE <2>4
    <3>1. /\ line.auth.from <= line.recv.from /\ line.auth.from <= line.backoff.from
          /\ line.auth.from <= line.parse.from
        BY <2>6, <2>7
    <3>2. /\ line.auth.from <= line.aggregate.from /\ line.auth.from <= line.commit.from
          /\ line.auth.from <= line.write.from /\ line.auth.from <= line.auth.from
        BY <3>1, <2>8
    <3> QED BY <2>2, <2>3, <2>6, <3>1, <3>2
  <2>12. \A phase \in AllPhases(s) : line[phase].to <= line.write.to
    <3>1. /\ line.auth.to <= line.write.to /\ line.budget.to <= line.write.to
          /\ line.prepare.to <= line.write.to /\ line.session.to <= line.write.to
        BY <2>4, <2>9, <2>10
    <3>2. /\ line.send.to <= line.write.to /\ line.recv.to <= line.write.to /\ line.backoff.to <= line.write.to
          /\ line.write.to <= line.write.to
        BY <2>4, <2>7, <2>9, <2>10
    <3> QED BY <2>2, <2>8, <3>1, <3>2
  <2>13. \A phase \in AllPhases(s) \cap {"send", "recv", "backoff", "parse", "aggregate", "cache", "commit"} :
             line.send.from <= line[phase].from
    <3>1. line.send.from <= line.send.from /\ line.send.from <= line.aggregate.from /\ line.send.from <= line.commit.from
        BY <2>4, <2>7, <2>8
    <3> QED BY <2>2, <2>7, <3>1
  <2>14. line.recv.to < line.write.to
      BY <2>4, <2>7, <2>10
  <2>15. First(s, line) \in Spanned
      BY <1>1, <2>2, <2>3
  <2> QED BY <1>1, <1>2, <2>2, <2>6, <2>7, <2>11, <2>12, <2>13, <2>14, <2>15 DEF ApiTidy
<1>3. CASE s.lane = "http"
  <2>1. HttpOrdered(line)
      BY <1>3, OrderedInHttp DEF ApiPhases
  <2>2. AllPhases(s) = {"resolve", "session", "send", "recv", "parse", "cache", "write"}
      BY <1>3 DEF AllPhases, HttpRest
  <2>3. First(s, line) = line.resolve
      BY <1>3 DEF First
  <2>4. /\ line.resolve.from \in Int /\ line.resolve.to \in Int /\ line.session.from \in Int /\ line.session.to \in Int
        /\ line.send.from \in Int /\ line.send.to \in Int /\ line.recv.from \in Int /\ line.recv.to \in Int
        /\ line.parse.from \in Int /\ line.parse.to \in Int /\ line.cache.from \in Int /\ line.cache.to \in Int
        /\ line.write.from \in Int /\ line.write.to \in Int
      BY <1>1, <2>2
  <2>5. /\ line.resolve.from <= line.resolve.to /\ line.session.from <= line.session.to
        /\ line.send.from <= line.send.to /\ line.recv.from <= line.recv.to
        /\ line.cache.from <= line.cache.to /\ line.write.from <= line.write.to
      BY <1>1, <2>2
  <2>6. /\ line.resolve.from <= line.session.from /\ line.resolve.from <= line.send.from
        /\ line.resolve.to <= line.session.to /\ line.session.to <= line.send.from
        /\ line.resolve.to <= line.send.from
      BY <2>1, <2>4, <2>5 DEF HttpOrdered
  <2>7. /\ line.send.from <= line.recv.from /\ line.send.from <= line.parse.from
        /\ line.send.from <= line.recv.to /\ line.recv.to <= line.parse.from
        /\ line.send.to <= line.parse.from
      BY <2>1, <2>4, <2>5 DEF HttpOrdered
  <2>8. /\ line.parse.from <= line.cache.from /\ line.parse.from <= line.write.from
        /\ line.parse.to <= line.write.to /\ line.cache.to <= line.write.to /\ line.parse.from < line.write.to
      BY <1>1, <2>1, <2>4, <2>5 DEF HttpOrdered
  <2>11. \A phase \in AllPhases(s) : First(s, line).from <= line[phase].from
    <3>1. /\ line.resolve.from <= line.recv.from /\ line.resolve.from <= line.parse.from
          /\ line.resolve.from <= line.cache.from /\ line.resolve.from <= line.write.from
          /\ line.resolve.from <= line.resolve.from
        BY <2>4, <2>6, <2>7, <2>8
    <3> QED BY <2>2, <2>3, <2>6, <3>1
  <2>12. \A phase \in AllPhases(s) : line[phase].to <= line.write.to
    <3>1. /\ line.resolve.to <= line.write.to /\ line.session.to <= line.write.to
          /\ line.send.to <= line.write.to /\ line.recv.to <= line.write.to /\ line.write.to <= line.write.to
        BY <2>4, <2>6, <2>7, <2>8
    <3> QED BY <2>2, <2>8, <3>1
  <2>13. \A phase \in AllPhases(s) \cap {"send", "recv", "backoff", "parse", "aggregate", "cache", "commit"} :
             line.send.from <= line[phase].from
    <3>1. line.send.from <= line.send.from /\ line.send.from <= line.cache.from
        BY <2>4, <2>7, <2>8
    <3> QED BY <2>2, <2>7, <3>1
  <2>14. line.recv.to < line.write.to
      BY <2>4, <2>7, <2>8
  <2>15. First(s, line) \in Spanned
      BY <1>1, <2>2, <2>3
  <2> QED BY <1>1, <1>3, <2>2, <2>6, <2>7, <2>11, <2>12, <2>13, <2>14, <2>15 DEF ApiTidy
<1> QED
    BY <1>2, <1>3 DEF IsRequest

LEMMA ApiEnd ==
    ASSUME NEW s, NEW line, ApiShape(s, line), ApiTidy(s, line)
    PROVE  /\ End(line) = line.write.to /\ line.write.to \in Int
           /\ \A x \in Spans(line) : /\ x \in Spanned /\ First(s, line).from <= x.from
                                     /\ x.from <= x.to /\ x.to <= End(line)
<1>1. DOMAIN line = AllPhases(s) /\ "write" \in DOMAIN line
    BY DEF ApiShape, AllPhases
<1>2. \A phase \in DOMAIN line : line[phase] \in Spanned /\ line[phase].to <= line["write"].to
    BY <1>1 DEF ApiTidy
<1>3. End(line) = line["write"].to
    BY <1>1, <1>2, EndIsLast
<1>4. line.write.to \in Int
    BY <1>1, <1>2 DEF Spanned
<1>5. \A x \in Spans(line) : \E phase \in AllPhases(s) : x = line[phase]
    BY <1>1 DEF Spans, Range
<1> QED
    BY <1>3, <1>4, <1>5 DEF ApiTidy

-----------------------------------------------------------------------------
(* Corridors                                                               *)

Corridor == [source : {"BLE", "API"}, first : DOMAIN plan, last : DOMAIN plan]

IsCorridor(c) ==
    /\ c.first \in DOMAIN plan /\ c.last \in DOMAIN plan /\ c.first <= c.last
    /\ IsRun(c)
    /\ Lane(plan[c.first]) \in {"ble", "cloud", "http"}
    /\ c.source = (IF Lane(plan[c.first]) = "ble" THEN "BLE" ELSE "API")

ACase == plan \in Plans /\ policy \in Policies

Count(c) == c.last - c.first + 1
Place(c, k) == c.first + k - 1
BatchAt(c, k) == plan[Place(c, k)]

LEMMA PlanFacts ==
    ASSUME ACase
    PROVE  /\ Len(plan) \in Nat /\ DOMAIN plan = 1 .. Len(plan)
           /\ \A i \in 1 .. Len(plan) : plan[i] \in BatchRecord
           /\ policy.ble \in BlePolicy /\ policy.api \in ApiPolicy
<1>1. plan \in Seq(BatchRecord)
    BY PlansAssumption DEF ACase
<1>2. policy \in [ble : BlePolicy, api : ApiPolicy]
    BY PoliciesAssumption DEF ACase
<1> QED
    BY <1>1, <1>2

LEMMA CorridorPlaces ==
    ASSUME ACase, NEW c, IsCorridor(c)
    PROVE  /\ c.first \in Nat \ {0} /\ c.last \in Nat \ {0} /\ c.first <= c.last /\ c.last <= Len(plan)
           /\ Count(c) \in Nat \ {0}
           /\ \A k \in 1 .. Count(c) : /\ Place(c, k) \in 1 .. Len(plan) /\ Place(c, k) \in Batches(c)
                                       /\ BatchAt(c, k) \in BatchRecord
                                       /\ Lane(BatchAt(c, k)) = Lane(plan[c.first])
           /\ \A i \in Batches(c) : i - c.first + 1 \in 1 .. Count(c) /\ Place(c, i - c.first + 1) = i
<1>1. Len(plan) \in Nat /\ DOMAIN plan = 1 .. Len(plan) /\ \A i \in 1 .. Len(plan) : plan[i] \in BatchRecord
    BY PlanFacts
<1>2. c.first \in 1 .. Len(plan) /\ c.last \in 1 .. Len(plan) /\ c.first <= c.last
    BY <1>1 DEF IsCorridor
<1>3. \A i \in Batches(c) : Lane(plan[i]) = Lane(plan[c.first])
    BY DEF IsCorridor, IsRun, Like
<1>4. \A k \in 1 .. Count(c) : Place(c, k) \in 1 .. Len(plan) /\ Place(c, k) \in Batches(c)
    BY <1>1, <1>2 DEF Count, Place, Batches
<1>5. \A i \in Batches(c) : i - c.first + 1 \in 1 .. Count(c) /\ Place(c, i - c.first + 1) = i
    BY <1>1, <1>2, SMTT(30) DEF Count, Place, Batches
<1>6. Count(c) \in Nat \ {0}
    BY <1>1, <1>2 DEF Count
<1> QED
    BY <1>1, <1>2, <1>3, <1>4, <1>5, <1>6 DEF BatchAt

LEMMA LanesCall ==
    ASSUME NEW b
    PROVE  /\ Lane(b) = "ble" => IsSingle(b) /\ AllCall(b, "BLE")
           /\ Lane(b) = "cloud" => AllCall(b, "CLOUD")
           /\ Lane(b) = "http" => AllCall(b, "LOCAL")
BY DEF Lane

LEMMA BleCorridor ==
    ASSUME ACase, NEW c, IsCorridor(c), c.source = "BLE", NEW k \in 1 .. Count(c)
    PROVE  /\ Lane(BatchAt(c, k)) = "ble"
           /\ BleActions(c)[k] = Only(BatchAt(c, k))
           /\ BatchLatency(c.source, BatchAt(c, k)) = BleLatency(Only(BatchAt(c, k)).kind)
<1>1. Lane(plan[c.first]) = "ble"
    BY DEF IsCorridor
<1>2. Lane(BatchAt(c, k)) = "ble" /\ BatchAt(c, k) \in BatchRecord
    BY <1>1, CorridorPlaces
<1>3. BleActions(c)[k] = Only(BatchAt(c, k))
    BY DEF BleActions, Count, BatchAt, Place
<1> QED
    BY <1>2, <1>3, LanesCall, LatencyOfBatch

LEMMA ApiCorridor ==
    ASSUME ACase, NEW c, IsCorridor(c), c.source = "API", NEW k \in 1 .. Count(c)
    PROVE  /\ Steps(c)[k] = Step(BatchAt(c, k), Place(c, k))
           /\ IsRequest(Steps(c)[k])
           /\ Steps(c)[k].lane = Lane(plan[c.first])
           /\ Steps(c)[k].latency = BatchLatency(c.source, BatchAt(c, k))
           /\ Steps(c)[k].backoff = BatchAt(c, k).backoff
<1>1. Lane(plan[c.first]) \in {"cloud", "http"}
    BY DEF IsCorridor
<1>2. Lane(BatchAt(c, k)) = Lane(plan[c.first]) /\ BatchAt(c, k) \in BatchRecord
    BY CorridorPlaces
<1>3. Steps(c)[k] = Step(BatchAt(c, k), Place(c, k))
    BY DEF Steps, Count, BatchAt, Place
<1> DEFINE s == Steps(c)[k]
           b == BatchAt(c, k)
<1>4. /\ s.lane = Lane(b) /\ s.latency = BatchLatency(c.source, b) /\ s.backoff = b.backoff
    BY <1>3 DEF Step
<1>5. b.backoff \in BOOLEAN
    BY <1>2 DEF BatchRecord
<1> HIDE DEF s, b
<1>6. BatchLatency(c.source, b) \in Nat /\ (AllCall(b, "CLOUD") => BatchLatency(c.source, b) >= 350)
      /\ (AllCall(b, "LOCAL") => BatchLatency(c.source, b) >= 80)
    BY <1>2, LatencyOfBatch DEF b
<1>7. IsRequest(s)
  <2>1. CASE Lane(b) = "cloud"
      BY <1>4, <1>5, <1>6, <2>1, LanesCall DEF IsRequest
  <2>2. CASE Lane(b) = "http"
      BY <1>4, <1>5, <1>6, <2>2, LanesCall DEF IsRequest
  <2> QED BY <1>1, <1>2, <2>1, <2>2 DEF b
<1> QED
    BY <1>2, <1>3, <1>4, <1>7 DEF s, b

-----------------------------------------------------------------------------
(* The lines under construction                                            *)

PhaseNames == BleNames \cup CloudRest \cup HttpRest \cup {"write"}

Line == UNION {[D -> Spanned] : D \in SUBSET PhaseNames}

BuiltBle(c, ls, k) ==
    /\ BleShape(ls[k])
    /\ IF k = 1 THEN BleBegins(Only(BatchAt(c, k)), ls[k])
       ELSE BleGoesOn(Only(BatchAt(c, k)), ls[k - 1], ls[k])

BuiltApi(c, ls, k) ==
    /\ ApiShape(Steps(c)[k], ls[k])
    /\ IF k = 1 THEN ApiBegins(Steps(c)[k], ls[k])
       ELSE ApiGoesOn(policy.api, Steps(c)[k - 1], Steps(c)[k], ls[k - 1], ls[k])

BuiltLine(c, ls, k) == IF c.source = "BLE" THEN BuiltBle(c, ls, k) ELSE BuiltApi(c, ls, k)

\* As many lines as there are, they are what the refiners build.
BuiltLines(c, ls) ==
    /\ ls \in Seq(Line) /\ Len(ls) <= Count(c)
    /\ \A k \in 1 .. Len(ls) : BuiltLine(c, ls, k)

LEMMA NextBleLineBuilt ==
    ASSUME ACase, NEW c, IsCorridor(c), c.source = "BLE", NEW ls, NEW k \in 1 .. Count(c), k = Len(ls) + 1,
           k # 1 => BleShape(ls[k - 1]),
           NEW line, line = NextLine(c, ls)
    PROVE  /\ BleShape(line)
           /\ IF k = 1 THEN BleBegins(Only(BatchAt(c, k)), line)
              ELSE BleGoesOn(Only(BatchAt(c, k)), ls[k - 1], line)
<1> DEFINE a == Only(BatchAt(c, k))
           l == BleActions(c)[k - 1]
           p == policy.ble
<1>1. p \in BlePolicy
    BY PlanFacts
<1>2. BleActions(c)[k] = a
    BY BleCorridor
<1>3. line = IF k = 1 THEN BleLine(PhaseDurations(p, a), 0, 0, 0)
             ELSE BleLine(PhaseDurations(p, a), AdvFrom(p, l, a, ls[k - 1]), ConnectFrom(p, l, a, ls[k - 1]),
                          ls[k - 1].xfer.to)
    BY <1>2 DEF NextLine, NextBleLine
<1> HIDE DEF a, l, p
<1>4. CASE k = 1
    BY <1>1, <1>3, <1>4, BleLineBegins DEF a
<1>5. CASE k # 1
  <2>1. BleShape(line) /\ BleGoesOn(a, ls[k - 1], line)
      BY <1>1, <1>3, <1>5, BleLineGoesOn
  <2> QED BY <1>5, <2>1 DEF a
<1> QED
    BY <1>4, <1>5

LEMMA NextApiLineBuilt ==
    ASSUME ACase, NEW c, IsCorridor(c), c.source = "API", NEW ls, NEW k \in 1 .. Count(c), k = Len(ls) + 1,
           k # 1 => ApiShape(Steps(c)[k - 1], ls[k - 1]),
           NEW line, line = NextLine(c, ls)
    PROVE  /\ ApiShape(Steps(c)[k], line)
           /\ IF k = 1 THEN ApiBegins(Steps(c)[k], line)
              ELSE ApiGoesOn(policy.api, Steps(c)[k - 1], Steps(c)[k], ls[k - 1], line)
<1> DEFINE s == Steps(c)[k]
           l == Steps(c)[k - 1]
           p == policy.api
<1>1. p \in ApiPolicy
    BY PlanFacts
<1>2. IsRequest(s)
    BY ApiCorridor
<1>3. line = IF k = 1 THEN Consecutive(ApiPhases(s), Range(ApiPhases(s)), Durations(p, s), 0)
             ELSE LaterApiLine(p, l, s, ls[k - 1])
  <2>1. line = NextApiLine(policy.api, Steps(c), ls)
      BY DEF NextLine
  <2> QED BY <2>1, Zenon DEF NextApiLine, LaterApiLine
<1> HIDE DEF s, p
<1>4. CASE k = 1
  <2>1. ApiShape(s, line) /\ ApiBegins(s, line)
      BY <1>1, <1>2, <1>3, <1>4, ApiLineBegins
  <2> QED BY <1>4, <2>1 DEF s
<1>5. CASE k # 1
  <2>1. k - 1 \in 1 .. Count(c)
      BY <1>5, CorridorPlaces
  <2>2. IsRequest(l) /\ ApiShape(l, ls[k - 1])
      BY <1>5, <2>1, ApiCorridor
  <2> HIDE DEF l
  <2>3. {"send", "recv", "write"} \subseteq AllPhases(l)
      BY <2>2 DEF IsRequest, AllPhases, CloudRest, HttpRest
  <2>4. ls[k - 1].send \in Spanned /\ ls[k - 1].recv \in Spanned /\ ls[k - 1].write \in Spanned
      BY <2>2, <2>3 DEF ApiShape
  <2> DEFINE before == ls[k - 1]
  <2>5. line = LaterApiLine(p, l, s, before)
      BY <1>3, <1>5
  <2> HIDE DEF before
  <2>6. ApiShape(s, line) /\ ApiGoesOn(p, l, s, before, line)
      BY <1>1, <1>2, <2>4, <2>5, ApiLineGoesOn DEF before
  <2> QED BY <1>5, <2>6 DEF before, s, l, p
<1> QED
    BY <1>4, <1>5

IsLine(line) == line = [phase \in DOMAIN line |-> line[phase]]

LEMMA LinesOfBleAreFunctions ==
    ASSUME NEW d, NEW a, NEW c, NEW x
    PROVE  IsLine(BleLine(d, a, c, x))
BY DEF IsLine, BleLine

LEMMA LinesOfRequestsAreFunctions ==
    ASSUME NEW p, NEW steps, NEW ls
    PROVE  IsLine(NextApiLine(p, steps, ls))
<1> DEFINE line == NextApiLine(p, steps, ls)
<1> SUFFICES IsLine(line)
    OBVIOUS
<1>1. CASE Len(ls) + 1 = 1
  <2>1. line = Consecutive(ApiPhases(steps[Len(ls) + 1]), Range(ApiPhases(steps[Len(ls) + 1])),
                           Durations(p, steps[Len(ls) + 1]), 0)
      BY <1>1 DEF NextApiLine
  <2> QED BY <2>1 DEF IsLine, Consecutive
<1>2. CASE Len(ls) + 1 # 1
  <2> DEFINE k == Len(ls) + 1
             early == Preparing(p, steps[k - 1], steps[k])
             prepared == Consecutive(ApiPhases(steps[k]), early, Durations(p, steps[k]),
                             Larger(ls[k - 1].send.from,
                                    ls[k - 1].recv.to - SumFunctionOnSet(Durations(p, steps[k]), early)))
             others == Consecutive(ApiPhases(steps[k]), Range(ApiPhases(steps[k])) \ early,
                                   Durations(p, steps[k]), ls[k - 1].write.to)
  <2>1. line = [phase \in Range(ApiPhases(steps[k])) |-> IF phase \in early THEN prepared[phase] ELSE others[phase]]
      BY <1>2 DEF NextApiLine
  <2> HIDE DEF line, k, early, prepared, others
  <2> QED BY <2>1 DEF IsLine
<1> QED
    BY <1>1, <1>2

LEMMA NextLineIsLine ==
    ASSUME ACase, NEW c, IsCorridor(c), NEW ls
    PROVE  IsLine(NextLine(c, ls))
<1>1. CASE c.source = "BLE"
  <2>1. \E d, a, b, x : NextLine(c, ls) = BleLine(d, a, b, x)
    <3>1. CASE Len(ls) + 1 = 1
        BY <1>1, <3>1 DEF NextLine, NextBleLine
    <3>2. CASE Len(ls) + 1 # 1
        BY <1>1, <3>2 DEF NextLine, NextBleLine
    <3> QED BY <3>1, <3>2
  <2> QED BY <2>1, LinesOfBleAreFunctions
<1>2. CASE c.source # "BLE"
  <2>1. NextLine(c, ls) = NextApiLine(policy.api, Steps(c), ls)
      BY <1>2 DEF NextLine
  <2> QED BY <2>1, LinesOfRequestsAreFunctions
<1> QED
    BY <1>1, <1>2

LEMMA LineIn ==
    ASSUME NEW line, IsLine(line), DOMAIN line \subseteq PhaseNames, \A phase \in DOMAIN line : line[phase] \in Spanned
    PROVE  line \in Line
<1> DEFINE D == DOMAIN line
<1>1. line \in [D -> Spanned]
    BY DEF IsLine
<1>2. D \in SUBSET PhaseNames
    OBVIOUS
<1> QED
    BY <1>1, <1>2 DEF Line

LEMMA BuiltAre ==
    ASSUME NEW c, NEW ls, NEW k
    PROVE  /\ c.source = "BLE" => (BuiltLine(c, ls, k) <=> BuiltBle(c, ls, k))
           /\ c.source = "API" => (BuiltLine(c, ls, k) <=> BuiltApi(c, ls, k))
BY DEF BuiltLine

\* The next line keeps what is built built.
LEMMA LinesGrow ==
    ASSUME ACase, NEW c, IsCorridor(c), NEW ls, BuiltLines(c, ls), Len(ls) < Count(c)
    PROVE  BuiltLines(c, Append(ls, NextLine(c, ls)))
<1> DEFINE line == NextLine(c, ls)
           k == Len(ls) + 1
           done == Append(ls, line)
<1>1. ls \in Seq(Line) /\ Len(ls) \in Nat /\ Count(c) \in Nat /\ k \in 1 .. Count(c) /\ c.source \in {"BLE", "API"}
    BY CorridorPlaces DEF BuiltLines, IsCorridor
<1>2. \A i \in 1 .. Len(ls) : BuiltLine(c, ls, i)
    BY DEF BuiltLines
<1>3. k # 1 => k - 1 \in 1 .. Len(ls)
    BY <1>1
<1>4. /\ c.source = "BLE" => BleShape(line) /\ DOMAIN line = BleNames
      /\ c.source = "API" => ApiShape(Steps(c)[k], line) /\ DOMAIN line = AllPhases(Steps(c)[k])
      /\ DOMAIN line \subseteq PhaseNames /\ \A phase \in DOMAIN line : line[phase] \in Spanned
      /\ c.source = "BLE" => IF k = 1 THEN BleBegins(Only(BatchAt(c, k)), line)
                             ELSE BleGoesOn(Only(BatchAt(c, k)), ls[k - 1], line)
      /\ c.source = "API" => IF k = 1 THEN ApiBegins(Steps(c)[k], line)
                             ELSE ApiGoesOn(policy.api, Steps(c)[k - 1], Steps(c)[k], ls[k - 1], line)
  <2>1. CASE c.source = "BLE"
    <3>1. k # 1 => BleShape(ls[k - 1])
        BY <1>2, <1>3, <2>1, BuiltAre DEF BuiltBle
    <3> HIDE DEF line
    <3>2. /\ BleShape(line)
          /\ IF k = 1 THEN BleBegins(Only(BatchAt(c, k)), line)
             ELSE BleGoesOn(Only(BatchAt(c, k)), ls[k - 1], line)
        BY <1>1, <2>1, <3>1, NextBleLineBuilt, Zenon DEF line
    <3>3. DOMAIN line = BleNames /\ BleNames \subseteq PhaseNames /\ \A phase \in DOMAIN line : line[phase] \in Spanned
        BY <3>2 DEF BleShape, PhaseNames
    <3> QED BY <2>1, <3>2, <3>3
  <2>2. CASE c.source = "API"
    <3>1. k # 1 => ApiShape(Steps(c)[k - 1], ls[k - 1])
        BY <1>2, <1>3, <2>2, BuiltAre DEF BuiltApi
    <3> HIDE DEF line
    <3>2. /\ ApiShape(Steps(c)[k], line)
          /\ IF k = 1 THEN ApiBegins(Steps(c)[k], line)
             ELSE ApiGoesOn(policy.api, Steps(c)[k - 1], Steps(c)[k], ls[k - 1], line)
        BY <1>1, <2>2, <3>1, NextApiLineBuilt, Zenon DEF line
    <3>3. DOMAIN line = AllPhases(Steps(c)[k]) /\ \A phase \in DOMAIN line : line[phase] \in Spanned
        BY <3>2 DEF ApiShape
    <3>4. AllPhases(Steps(c)[k]) \subseteq PhaseNames
        BY DEF AllPhases, PhaseNames
    <3> QED BY <2>2, <3>2, <3>3, <3>4
  <2> QED BY <1>1, <2>1, <2>2
<1>5. line \in Line
  <2> HIDE DEF line
  <2>1. IsLine(line)
      BY NextLineIsLine DEF line
  <2> QED BY <1>4, <2>1, LineIn
<1> HIDE DEF line
<1>6. /\ done \in Seq(Line) /\ Len(done) = k /\ done[k] = line /\ \A i \in 1 .. Len(ls) : done[i] = ls[i]
    BY <1>1, <1>5
<1> HIDE DEF done
<1>7. ASSUME NEW i \in 1 .. Len(ls) PROVE BuiltLine(c, done, i)
  <2>1. done[i] = ls[i] /\ (i # 1 => done[i - 1] = ls[i - 1])
      BY <1>1, <1>6
  <2>2. BuiltLine(c, ls, i)
      BY <1>2
  <2> QED BY <2>1, <2>2 DEF BuiltLine, BuiltBle, BuiltApi
<1>8. BuiltLine(c, done, k)
  <2>1. k # 1 => done[k - 1] = ls[k - 1]
      BY <1>3, <1>6
  <2>2. CASE c.source = "BLE"
      BY <1>4, <1>6, <2>1, <2>2 DEF BuiltLine, BuiltBle
  <2>3. CASE c.source = "API"
      BY <1>4, <1>6, <2>1, <2>3 DEF BuiltLine, BuiltApi
  <2> QED BY <1>1, <2>2, <2>3
<1>9. \A i \in 1 .. k : BuiltLine(c, done, i)
    BY <1>1, <1>7, <1>8
<1>10. BuiltLines(c, done)
    BY <1>1, <1>6, <1>9 DEF BuiltLines
<1> QED
    BY <1>10, Zenon DEF done, line

-----------------------------------------------------------------------------
(* What a valid corridor's lines are like in time                          *)

\* When the line of the k-th batch begins.
HeadAt(c, ls, k) == IF c.source = "BLE" THEN ls[k].adv.from ELSE First(Steps(c)[k], ls[k]).from

LineWithin(line, head) ==
    /\ head \in Int /\ End(line) \in Int
    /\ \A s \in Spans(line) : s \in Spanned /\ head <= s.from /\ s.from <= s.to /\ s.to <= End(line)
    /\ \E s \in Spans(line) : s.to = End(line)

\* The lines of the corridor that are complete and valid.
Finished(c, ls) == IsCorridor(c) /\ BuiltLines(c, ls) /\ Len(ls) = Count(c) /\ Valid(c, ls)

Paced(c, ls) ==
    /\ \A k \in 1 .. Count(c) : LineWithin(ls[k], HeadAt(c, ls, k))
    /\ 0 <= HeadAt(c, ls, 1)
    /\ \A k \in 1 .. Count(c) - 1 : HeadAt(c, ls, k) <= HeadAt(c, ls, k + 1)
    /\ \A k \in 1 .. Count(c) - 2 : End(ls[k]) <= HeadAt(c, ls, k + 2)
    /\ \A j, k \in 1 .. Count(c) : j < k => End(ls[j]) <= End(ls[k])
    /\ End(ls[1]) <= BatchLatency(c.source, BatchAt(c, 1))
    /\ \A k \in 1 .. Count(c) - 1 : End(ls[k + 1]) <= End(ls[k]) + BatchLatency(c.source, BatchAt(c, k + 1))

LEMMA CountsAreNatural ==
    ASSUME ACase, NEW c, NEW ls, Finished(c, ls)
    PROVE  /\ Count(c) \in Nat \ {0} /\ Len(ls) = Count(c) /\ DOMAIN ls = 1 .. Count(c)
           /\ \A k \in 1 .. Count(c) - 1 : k \in 1 .. Count(c) /\ k + 1 \in 1 .. Count(c) /\ (k + 1) - 1 = k /\ k + 1 # 1
           /\ \A k \in 1 .. Count(c) - 2 : /\ k \in 1 .. Count(c) - 1 /\ k + 1 \in 1 .. Count(c) - 1
                                           /\ (k + 1) + 1 = k + 2
           /\ 1 \in 1 .. Count(c)
           /\ c.source \in {"BLE", "API"}
<1>1. Count(c) \in Nat \ {0}
    BY CorridorPlaces DEF Finished
<1>2. ls \in Seq(Line) /\ Len(ls) = Count(c) /\ c.source \in {"BLE", "API"}
    BY DEF Finished, BuiltLines, IsCorridor
<1>3. DOMAIN ls = 1 .. Count(c)
    BY <1>2
<1> QED
    BY <1>1, <1>2, <1>3

-----------------------------------------------------------------------------
(* BLE                                                                     *)

BleFinished(c, ls) == Finished(c, ls) /\ c.source = "BLE"

LEMMA BleBuilt ==
    ASSUME ACase, NEW c, NEW ls, BleFinished(c, ls)
    PROVE  /\ \A k \in 1 .. Count(c) : BleShape(ls[k])
           /\ BleBegins(Only(BatchAt(c, 1)), ls[1])
           /\ \A k \in 1 .. Count(c) - 1 : BleGoesOn(Only(BatchAt(c, k + 1)), ls[k], ls[k + 1])
           /\ BleValid(policy.ble, BleActions(c), ls)
<1>1. \A k \in 1 .. Count(c) : BuiltBle(c, ls, k)
    BY BuiltAre DEF BleFinished, Finished, BuiltLines
<1>2. 1 \in 1 .. Count(c) /\ \A k \in 1 .. Count(c) - 1 : k + 1 \in 1 .. Count(c) /\ k + 1 # 1 /\ (k + 1) - 1 = k
    BY CountsAreNatural DEF BleFinished
<1>3. BleBegins(Only(BatchAt(c, 1)), ls[1])
    BY <1>1, <1>2 DEF BuiltBle
<1>4. ASSUME NEW k \in 1 .. Count(c) - 1 PROVE BleGoesOn(Only(BatchAt(c, k + 1)), ls[k], ls[k + 1])
  <2>1. BuiltBle(c, ls, k + 1) /\ k + 1 # 1 /\ (k + 1) - 1 = k
      BY <1>1, <1>2
  <2> QED BY <2>1 DEF BuiltBle
<1>5. BleValid(policy.ble, BleActions(c), ls)
    BY DEF BleFinished, Finished, Valid
<1> QED
    BY <1>1, <1>3, <1>4, <1>5 DEF BuiltBle

LEMMA ThreeAtATime ==
    ASSUME NEW S, IsFiniteSet(S), NEW a \in S, NEW b \in S, NEW c \in S, a # b, b # c, a # c
    PROVE  Cardinality(S) > 2
<1> DEFINE T == {a, b, c}
<1>1. IsFiniteSet(T) /\ Cardinality(T) = 3
  <2> DEFINE C == {c}
             B == {b, c}
  <2>1. IsFiniteSet(C) /\ Cardinality(C) = 1
      BY FS_Singleton
  <2>2. B = C \cup {b} /\ b \notin C
      OBVIOUS
  <2>3. T = B \cup {a} /\ a \notin B
      OBVIOUS
  <2> HIDE DEF C, B, T
  <2>4. IsFiniteSet(C \cup {b}) /\ Cardinality(C \cup {b}) = Cardinality(C) + 1
      BY <2>1, <2>2, FS_AddElement
  <2>5. IsFiniteSet(B) /\ Cardinality(B) = 2
      BY <2>1, <2>2, <2>4
  <2>6. IsFiniteSet(B \cup {a}) /\ Cardinality(B \cup {a}) = Cardinality(B) + 1
      BY <2>3, <2>5, FS_AddElement
  <2> QED BY <2>3, <2>5, <2>6
<1>2. T \subseteq S
    OBVIOUS
<1> HIDE DEF T
<1>3. Cardinality(T) <= Cardinality(S) /\ Cardinality(S) \in Nat
    BY <1>2, FS_Subset, FS_CardinalityType
<1> QED
    BY <1>1, <1>3

LEMMA BleInts ==
    ASSUME NEW line, BleShape(line)
    PROVE  /\ line.adv.from \in Int /\ line.adv.to \in Int /\ line.connect.from \in Int /\ line.connect.to \in Int
           /\ line.xfer.from \in Int /\ line.xfer.to \in Int /\ line.settle.from \in Int /\ line.settle.to \in Int
           /\ {line.adv, line.connect, line.xfer, line.settle} \subseteq Spans(line)
           /\ End(line) = line.settle.to
BY BleEnd DEF BleShape, BleNames, Spanned, Spans, Range

\* The radio is never busy with three actions at once: an action begins when the one
\* before the last has ended.
LEMMA BleTwoAtATime ==
    ASSUME ACase, NEW c, NEW ls, BleFinished(c, ls), NEW k \in 1 .. Count(c) - 2
    PROVE  ls[k].settle.to <= ls[k + 2].adv.from
<1>1. /\ k \in 1 .. Count(c) - 1 /\ k + 1 \in 1 .. Count(c) - 1 /\ (k + 1) + 1 = k + 2
      /\ k \in 1 .. Count(c) /\ k + 1 \in 1 .. Count(c) /\ k + 2 \in 1 .. Count(c) /\ k < k + 1
      /\ DOMAIN ls = 1 .. Count(c) /\ Count(c) \in Nat
    BY CountsAreNatural DEF BleFinished
<1> DEFINE l == ls[k]  m == ls[k + 1]  r == ls[k + 2]
           t == r.adv.from
<1>2. /\ BleShape(l) /\ BleShape(m) /\ BleShape(r)
      /\ BleGoesOn(Only(BatchAt(c, k + 1)), l, m) /\ BleGoesOn(Only(BatchAt(c, k + 2)), m, r)
      /\ BleValid(policy.ble, BleActions(c), ls)
    BY <1>1, BleBuilt
<1>3. l.settle.to <= m.settle.to
  <2> DEFINE end == [i \in DOMAIN ls |-> ls[i].settle.to]
             id == [i \in DOMAIN ls |-> BleActions(c)[i].id]
  <2>1. CompletionKept(end, id)
      BY <1>2 DEF BleValid
  <2>2. DOMAIN end = 1 .. Count(c) /\ end[k] = l.settle.to /\ end[k + 1] = m.settle.to
      BY <1>1
  <2> HIDE DEF end, id
  <2>3. end[k] < end[k + 1] \/ end[k] = end[k + 1]
      BY <1>1, <2>1, <2>2 DEF CompletionKept
  <2>4. end[k] \in Int /\ end[k + 1] \in Int
      BY <1>2, <2>2, BleInts
  <2> QED BY <2>2, <2>3, <2>4
<1>4. \A u \in Moments(ls) : Depth(ls, u) <= 2
  <2>1. policy.ble.lookahead + 1 = 2
      BY PlanFacts DEF BlePolicy
  <2> QED BY <1>2, <2>1 DEF BleValid
<1> HIDE DEF l, m, r
<1>5. /\ l.xfer.from \in Int /\ l.xfer.to \in Int /\ l.settle.from \in Int /\ l.settle.to \in Int
      /\ m.connect.from \in Int /\ m.connect.to \in Int /\ m.xfer.from \in Int /\ m.xfer.to \in Int /\ m.settle.to \in Int
      /\ r.adv.from \in Int /\ r.adv.to \in Int /\ t \in Int
      /\ l.xfer \in Spans(l) /\ l.settle \in Spans(l) /\ m.connect \in Spans(m) /\ m.xfer \in Spans(m)
      /\ r.adv \in Spans(r)
    BY <1>2, BleInts
<1>6. ASSUME t < l.settle.to PROVE FALSE
  <2>1. t \in {m.connect.from, m.xfer.from}
      BY <1>2, <1>3, <1>5, <1>6 DEF BleGoesOn
  <2>2. m.connect.from >= l.xfer.from /\ m.xfer.from >= l.xfer.to /\ l.xfer.to = l.settle.from
        /\ l.xfer.from < l.xfer.to
      BY <1>2 DEF BleGoesOn, BleShape
  <2>3. Busy(l, t)
    <3>1. l.xfer.from <= t
        BY <1>5, <2>1, <2>2
    <3>2. CASE t < l.xfer.to
        BY <1>5, <3>1, <3>2 DEF Busy, Covers
    <3>3. CASE ~(t < l.xfer.to)
        BY <1>5, <1>6, <2>2, <3>3 DEF Busy, Covers
    <3> QED BY <3>2, <3>3
  <2>4. Busy(m, t)
    <3>1. m.connect.from < m.connect.to /\ m.xfer.from < m.xfer.to
        BY <1>2 DEF BleShape
    <3>2. Covers(m.connect, t) \/ Covers(m.xfer, t)
        BY <1>5, <2>1, <3>1 DEF Covers
    <3> QED BY <1>5, <3>2 DEF Busy
  <2>5. Busy(r, t)
    <3>1. r.adv.from < r.adv.to
        BY <1>2 DEF BleShape
    <3> QED BY <1>5, <3>1 DEF Busy, Covers
  <2>6. t \in Moments(ls)
    <3>1. t \in {s.from : s \in Spans(r)}
        BY <1>5
    <3> QED BY <1>1, <3>1 DEF Moments, r
  <2> DEFINE B == {i \in DOMAIN ls : Busy(ls[i], t)}
  <2>7. IsFiniteSet(B)
    <3>1. IsFiniteSet(1 .. Count(c))
        BY <1>1, FS_Interval
    <3> QED BY <1>1, <3>1, FS_Subset
  <2>8. k \in B /\ k + 1 \in B /\ k + 2 \in B
      BY <1>1, <2>3, <2>4, <2>5 DEF l, m, r
  <2>9. Depth(ls, t) = Cardinality(B)
      BY DEF Depth
  <2> HIDE DEF B, t
  <2>10. Cardinality(B) > 2
    <3>1. k # k + 1 /\ k + 1 # k + 2 /\ k # k + 2
        BY <1>1
    <3> QED BY <2>7, <2>8, <3>1, ThreeAtATime
  <2>11. Cardinality(B) \in Nat
      BY <2>7, FS_CardinalityType
  <2> QED BY <1>4, <2>6, <2>9, <2>10, <2>11
<1> QED
    BY <1>5, <1>6 DEF l, r

LEMMA BlePaced ==
    ASSUME ACase, NEW c, NEW ls, BleFinished(c, ls)
    PROVE  Paced(c, ls)
<1>1. /\ Count(c) \in Nat \ {0} /\ DOMAIN ls = 1 .. Count(c) /\ 1 \in 1 .. Count(c)
      /\ \A k \in 1 .. Count(c) - 1 : k \in 1 .. Count(c) /\ k + 1 \in 1 .. Count(c)
      /\ \A k \in 1 .. Count(c) - 2 : k \in 1 .. Count(c) /\ k + 2 \in 1 .. Count(c)
    BY CountsAreNatural DEF BleFinished
<1>2. \A k : HeadAt(c, ls, k) = ls[k].adv.from
    BY DEF HeadAt, BleFinished
<1>3. \A k \in 1 .. Count(c) : BleShape(ls[k]) /\ End(ls[k]) = ls[k].settle.to
    BY BleBuilt, BleInts
<1>4. ASSUME NEW k \in 1 .. Count(c) PROVE LineWithin(ls[k], HeadAt(c, ls, k))
  <2>1. ls[k].adv.from \in Int /\ End(ls[k]) = ls[k].settle.to /\ End(ls[k]) \in Int /\ ls[k].settle \in Spans(ls[k])
      BY <1>3, BleInts
  <2>2. \A s \in Spans(ls[k]) : s \in Spanned /\ ls[k].adv.from <= s.from /\ s.from <= s.to /\ s.to <= End(ls[k])
      BY <1>3, BleEnd
  <2> QED BY <1>2, <2>1, <2>2 DEF LineWithin
<1>5. 0 <= HeadAt(c, ls, 1)
    BY <1>1, <1>2, <1>3, BleBuilt, BleInts DEF BleBegins
<1>6. ASSUME NEW k \in 1 .. Count(c) - 1
      PROVE  HeadAt(c, ls, k) <= HeadAt(c, ls, k + 1)
  <2>1. BleGoesOn(Only(BatchAt(c, k + 1)), ls[k], ls[k + 1]) /\ BleShape(ls[k]) /\ BleShape(ls[k + 1])
      BY <1>1, BleBuilt
  <2> DEFINE l == ls[k]  r == ls[k + 1]
  <2>2. /\ l.adv.from \in Int /\ l.adv.to \in Int /\ l.connect.from \in Int /\ l.connect.to \in Int
        /\ l.xfer.from \in Int /\ l.xfer.to \in Int /\ l.settle.from \in Int /\ l.settle.to \in Int
        /\ r.adv.from \in Int
      BY <2>1, BleInts
  <2>3. r.adv.from \in {l.connect.from, l.xfer.from, l.settle.to}
      BY <2>1 DEF BleGoesOn
  <2>4. BleShape(l)
      BY <2>1
  <2> HIDE DEF l, r
  <2>5. l.adv.from <= r.adv.from
      BY <2>2, <2>3, <2>4 DEF BleShape
  <2> QED BY <1>2, <2>5 DEF l, r
<1>7. ASSUME NEW k \in 1 .. Count(c) - 2 PROVE End(ls[k]) <= HeadAt(c, ls, k + 2)
  <2>1. k \in 1 .. Count(c) /\ End(ls[k]) = ls[k].settle.to
      BY <1>1, <1>3
  <2>2. ls[k].settle.to <= ls[k + 2].adv.from
      BY BleTwoAtATime
  <2>3. HeadAt(c, ls, k + 2) = ls[k + 2].adv.from
      BY <1>2
  <2> DEFINE w == ls[k].settle.to  z == ls[k + 2].adv.from
  <2>4. w <= z /\ End(ls[k]) = w /\ HeadAt(c, ls, k + 2) = z
      BY <2>1, <2>2, <2>3
  <2> HIDE DEF w, z
  <2> QED BY <2>4
<1>8. ASSUME NEW j \in 1 .. Count(c), NEW k \in 1 .. Count(c), j < k PROVE End(ls[j]) <= End(ls[k])
  <2> DEFINE end == [i \in DOMAIN ls |-> ls[i].settle.to]
             id == [i \in DOMAIN ls |-> BleActions(c)[i].id]
  <2>1. CompletionKept(end, id)
      BY BleBuilt DEF BleValid
  <2>2. DOMAIN end = 1 .. Count(c) /\ end[j] = End(ls[j]) /\ end[k] = End(ls[k])
      BY <1>1, <1>3
  <2> HIDE DEF end, id
  <2>3. end[j] < end[k] \/ end[j] = end[k]
      BY <1>8, <2>1, <2>2 DEF CompletionKept
  <2>4. end[j] \in Int /\ end[k] \in Int
      BY <1>4, <2>2 DEF LineWithin
  <2> QED BY <2>2, <2>3, <2>4
<1>9. \A k \in 1 .. Count(c) : BatchLatency(c.source, BatchAt(c, k)) = BleLatency(Only(BatchAt(c, k)).kind)
    BY BleCorridor DEF BleFinished, Finished
<1>10. End(ls[1]) <= BatchLatency(c.source, BatchAt(c, 1))
    BY <1>1, <1>3, <1>9, BleBuilt DEF BleBegins
<1>11. ASSUME NEW k \in 1 .. Count(c) - 1 PROVE End(ls[k + 1]) <= End(ls[k]) + BatchLatency(c.source, BatchAt(c, k + 1))
  <2>1. BleGoesOn(Only(BatchAt(c, k + 1)), ls[k], ls[k + 1])
      BY BleBuilt
  <2> QED BY <1>1, <1>3, <1>9, <2>1 DEF BleGoesOn
<1> QED
    BY <1>4, <1>5, <1>6, <1>7, <1>8, <1>10, <1>11 DEF Paced

-----------------------------------------------------------------------------
(* Requests                                                                *)

ApiFinished(c, ls) == Finished(c, ls) /\ c.source = "API"

\* What is known of two lines that follow one another.
ApiFollows(p, l, r, left, right) ==
    /\ IsRequest(l) /\ ApiShape(l, left) /\ ApiTidy(l, left)
    /\ IsRequest(r) /\ ApiShape(r, right) /\ ApiTidy(r, right)
    /\ l.lane = r.lane
    /\ ApiGoesOn(p, l, r, left, right)
    /\ ApiPairValid(p, l, r, left, right)

LEMMA ApiBuilt ==
    ASSUME ACase, NEW c, NEW ls, ApiFinished(c, ls)
    PROVE  /\ \A k \in 1 .. Count(c) : /\ IsRequest(Steps(c)[k]) /\ ApiShape(Steps(c)[k], ls[k])
                                       /\ ApiTidy(Steps(c)[k], ls[k])
                                       /\ Steps(c)[k].lane = Lane(plan[c.first])
                                       /\ Steps(c)[k].latency = BatchLatency(c.source, BatchAt(c, k))
                                       /\ Steps(c)[k].backoff = BatchAt(c, k).backoff
           /\ ApiBegins(Steps(c)[1], ls[1])
           /\ \A k \in 1 .. Count(c) - 1 :
                  ApiFollows(policy.api, Steps(c)[k], Steps(c)[k + 1], ls[k], ls[k + 1])
           /\ ApiValid(policy.api, Steps(c), ls)
<1>1. \A k \in 1 .. Count(c) : BuiltApi(c, ls, k)
    BY BuiltAre DEF ApiFinished, Finished, BuiltLines
<1>2. /\ 1 \in 1 .. Count(c) /\ Len(ls) = Count(c) /\ DOMAIN ls = 1 .. Count(c)
      /\ \A k \in 1 .. Count(c) - 1 : k \in 1 .. Count(c) /\ k + 1 \in 1 .. Count(c) /\ k + 1 # 1 /\ (k + 1) - 1 = k
    BY CountsAreNatural DEF ApiFinished
<1>3. ApiValid(policy.api, Steps(c), ls)
    BY DEF ApiFinished, Finished, Valid
<1>4. ApiBegins(Steps(c)[1], ls[1])
    BY <1>1, <1>2 DEF BuiltApi
<1>5. ASSUME NEW k \in 1 .. Count(c)
      PROVE  /\ IsRequest(Steps(c)[k]) /\ ApiShape(Steps(c)[k], ls[k]) /\ ApiTidy(Steps(c)[k], ls[k])
             /\ Steps(c)[k].lane = Lane(plan[c.first])
             /\ Steps(c)[k].latency = BatchLatency(c.source, BatchAt(c, k))
             /\ Steps(c)[k].backoff = BatchAt(c, k).backoff
  <2>1. /\ IsRequest(Steps(c)[k])
        /\ Steps(c)[k].lane = Lane(plan[c.first])
        /\ Steps(c)[k].latency = BatchLatency(c.source, BatchAt(c, k))
        /\ Steps(c)[k].backoff = BatchAt(c, k).backoff
      BY ApiCorridor DEF ApiFinished, Finished
  <2>2. ApiShape(Steps(c)[k], ls[k])
      BY <1>1 DEF BuiltApi
  <2>3. InOrder(ls[k], ApiPhases(Steps(c)[k]))
      BY <1>2, <1>3 DEF ApiValid, ApiPhasesValid
  <2> QED BY <2>1, <2>2, <2>3, ApiLineTidy, Zenon
<1>6. ASSUME NEW k \in 1 .. Count(c) - 1
      PROVE  ApiFollows(policy.api, Steps(c)[k], Steps(c)[k + 1], ls[k], ls[k + 1])
  <2>1. k \in 1 .. Count(c) /\ k + 1 \in 1 .. Count(c) /\ k + 1 # 1 /\ (k + 1) - 1 = k /\ k \in 1 .. Len(ls) - 1
      BY <1>2
  <2>2. BuiltApi(c, ls, k + 1)
      BY <1>1, <2>1
  <2>3. ApiGoesOn(policy.api, Steps(c)[k], Steps(c)[k + 1], ls[k], ls[k + 1])
      BY <2>1, <2>2 DEF BuiltApi
  <2>4. ApiPairValid(policy.api, Steps(c)[k], Steps(c)[k + 1], ls[k], ls[k + 1])
      BY <1>3, <2>1 DEF ApiValid
  <2> QED BY <1>5, <2>1, <2>3, <2>4 DEF ApiFollows
<1> QED
    BY <1>3, <1>4, <1>5, <1>6

LEMMA ApiInts ==
    ASSUME NEW s, NEW line, ApiShape(s, line), ApiTidy(s, line)
    PROVE  /\ First(s, line).from \in Int /\ line.send.from \in Int /\ line.recv.to \in Int /\ line.write.to \in Int
           /\ line.write.from \in Int
           /\ First(s, line).from <= line.send.from /\ line.send.from <= line.recv.to
           /\ line.recv.to < line.write.to /\ First(s, line).from <= line.write.to
           /\ End(line) = line.write.to /\ line.write \in Spans(line)
<1>1. /\ First(s, line) \in Spanned /\ line.send \in Spanned /\ line.recv \in Spanned /\ line.write \in Spanned
      /\ First(s, line).from <= line.send.from /\ line.send.from <= line.recv.to /\ line.recv.to < line.write.to
      /\ "write" \in AllPhases(s)
    BY DEF ApiTidy
<1>2. End(line) = line.write.to
    BY ApiEnd
<1>3. line.write \in Spans(line)
    BY <1>1 DEF ApiShape, Spans, Range
<1>4. /\ First(s, line).from \in Int /\ line.send.from \in Int /\ line.recv.to \in Int /\ line.write.to \in Int
      /\ line.write.from \in Int
    BY <1>1 DEF Spanned
<1>5. First(s, line).from <= line.write.to
    BY <1>1, <1>4
<1> QED
    BY <1>1, <1>2, <1>3, <1>4, <1>5

\* The line on the right begins when the one on the left has sent its request.
LEMMA ApiHeads ==
    ASSUME NEW p, NEW l, NEW r, NEW left, NEW right, ApiFollows(p, l, r, left, right)
    PROVE  /\ left.send.from <= First(r, right).from
           /\ left.write.to <= right.send.from
           /\ right.write.to <= left.write.to + r.latency
<1>1. /\ left.send.from \in Int /\ left.write.to \in Int /\ left.recv.to \in Int /\ left.send.from <= left.recv.to
      /\ left.recv.to < left.write.to
    BY ApiInts DEF ApiFollows
<1>2. First(r, right).from \in Int
    BY ApiInts DEF ApiFollows
<1>3. First(r, right).from < left.write.to => left.send.from <= First(r, right).from
    BY DEF ApiFollows, ApiPairValid
<1>4. left.send.from <= First(r, right).from
    BY <1>1, <1>2, <1>3
<1>5. left.write.to <= right.send.from /\ right.write.to <= left.write.to + r.latency
    BY DEF ApiFollows, ApiPairValid, ApiGoesOn
<1> QED
    BY <1>4, <1>5

LEMMA ApiPaced ==
    ASSUME ACase, NEW c, NEW ls, ApiFinished(c, ls)
    PROVE  Paced(c, ls)
<1>1. /\ Count(c) \in Nat \ {0} /\ DOMAIN ls = 1 .. Count(c) /\ 1 \in 1 .. Count(c)
      /\ \A k \in 1 .. Count(c) - 1 : k \in 1 .. Count(c) /\ k + 1 \in 1 .. Count(c)
      /\ \A k \in 1 .. Count(c) - 2 : /\ k \in 1 .. Count(c) - 1 /\ k + 1 \in 1 .. Count(c) - 1
                                      /\ (k + 1) + 1 = k + 2 /\ k + 2 \in 1 .. Count(c)
    BY CountsAreNatural DEF ApiFinished
<1>2. \A k : HeadAt(c, ls, k) = First(Steps(c)[k], ls[k]).from
    BY DEF HeadAt, ApiFinished
<1>3. \A k \in 1 .. Count(c) : ApiShape(Steps(c)[k], ls[k]) /\ ApiTidy(Steps(c)[k], ls[k])
    BY ApiBuilt
<1>4. \A k \in 1 .. Count(c) : /\ HeadAt(c, ls, k) \in Int /\ ls[k].send.from \in Int /\ ls[k].write.to \in Int
                               /\ HeadAt(c, ls, k) <= ls[k].send.from
                               /\ End(ls[k]) = ls[k].write.to /\ ls[k].write \in Spans(ls[k])
    BY <1>2, <1>3, ApiInts
<1>5. ASSUME NEW k \in 1 .. Count(c) - 1
      PROVE  /\ ls[k].send.from <= HeadAt(c, ls, k + 1) /\ ls[k].write.to <= ls[k + 1].send.from
             /\ ls[k + 1].write.to <= ls[k].write.to + BatchLatency(c.source, BatchAt(c, k + 1))
  <2>1. ApiFollows(policy.api, Steps(c)[k], Steps(c)[k + 1], ls[k], ls[k + 1])
      BY ApiBuilt
  <2>2. Steps(c)[k + 1].latency = BatchLatency(c.source, BatchAt(c, k + 1))
      BY <1>1, ApiBuilt
  <2>3. /\ ls[k].send.from <= First(Steps(c)[k + 1], ls[k + 1]).from
        /\ ls[k].write.to <= ls[k + 1].send.from
        /\ ls[k + 1].write.to <= ls[k].write.to + Steps(c)[k + 1].latency
      BY <2>1, ApiHeads, Zenon
  <2> QED BY <1>2, <2>2, <2>3
<1>6. ASSUME NEW k \in 1 .. Count(c) PROVE LineWithin(ls[k], HeadAt(c, ls, k))
  <2>1. \A x \in Spans(ls[k]) : /\ x \in Spanned /\ First(Steps(c)[k], ls[k]).from <= x.from
                                /\ x.from <= x.to /\ x.to <= End(ls[k])
      BY <1>3, ApiEnd, Zenon
  <2> QED BY <1>2, <1>4, <2>1 DEF LineWithin
<1>7. 0 <= HeadAt(c, ls, 1)
  <2>1. /\ ApiBegins(Steps(c)[1], ls[1]) /\ IsRequest(Steps(c)[1])
      BY <1>1, ApiBuilt
  <2>2. First(Steps(c)[1], ls[1]) \in {ls[1].auth, ls[1].resolve}
        /\ (Steps(c)[1].lane = "cloud" => First(Steps(c)[1], ls[1]) = ls[1].auth)
        /\ (Steps(c)[1].lane = "http" => First(Steps(c)[1], ls[1]) = ls[1].resolve)
      BY DEF First
  <2>3. /\ Steps(c)[1].lane = "cloud" => "auth" \in AllPhases(Steps(c)[1])
        /\ Steps(c)[1].lane = "http" => "resolve" \in AllPhases(Steps(c)[1])
      BY DEF AllPhases, CloudRest, HttpRest
  <2>4. First(Steps(c)[1], ls[1]).from >= 0
      BY <2>1, <2>2, <2>3 DEF ApiBegins, IsRequest
  <2> QED BY <1>1, <1>2, <1>4, <2>4
<1>8. ASSUME NEW k \in 1 .. Count(c) - 1 PROVE HeadAt(c, ls, k) <= HeadAt(c, ls, k + 1)
  <2>1. k \in 1 .. Count(c) /\ k + 1 \in 1 .. Count(c) /\ ls[k].send.from <= HeadAt(c, ls, k + 1)
      BY <1>1, <1>5
  <2>2. /\ HeadAt(c, ls, k) \in Int /\ HeadAt(c, ls, k + 1) \in Int /\ ls[k].send.from \in Int
        /\ HeadAt(c, ls, k) <= ls[k].send.from
      BY <1>4, <2>1
  <2> QED BY <2>1, <2>2
<1>9. ASSUME NEW k \in 1 .. Count(c) - 2 PROVE End(ls[k]) <= HeadAt(c, ls, k + 2)
  <2>1. k \in 1 .. Count(c) - 1 /\ k + 1 \in 1 .. Count(c) - 1 /\ (k + 1) + 1 = k + 2
        /\ k \in 1 .. Count(c) /\ k + 1 \in 1 .. Count(c) /\ k + 2 \in 1 .. Count(c)
      BY <1>1
  <2>2. ls[k].write.to <= ls[k + 1].send.from
      BY <1>5, <2>1
  <2>3. ls[k + 1].send.from <= HeadAt(c, ls, k + 2)
      BY <1>5, <2>1
  <2> QED BY <1>4, <2>1, <2>2, <2>3
<1>10. ASSUME NEW j \in 1 .. Count(c), NEW k \in 1 .. Count(c), j < k PROVE End(ls[j]) <= End(ls[k])
  <2> DEFINE end == [i \in DOMAIN ls |-> End(ls[i])]
             id == [i \in DOMAIN ls |-> Steps(c)[i].id]
  <2>1. CompletionKept(end, id)
      BY ApiBuilt DEF ApiValid
  <2>2. DOMAIN end = 1 .. Count(c) /\ end[j] = End(ls[j]) /\ end[k] = End(ls[k])
      BY <1>1
  <2> HIDE DEF end, id
  <2>3. end[j] < end[k] \/ end[j] = end[k]
      BY <1>10, <2>1, <2>2 DEF CompletionKept
  <2>4. end[j] \in Int /\ end[k] \in Int
      BY <1>4, <2>2
  <2> QED BY <2>2, <2>3, <2>4
<1>11. End(ls[1]) <= BatchLatency(c.source, BatchAt(c, 1))
  <2>1. ls[1].write.to <= Steps(c)[1].latency /\ Steps(c)[1].latency = BatchLatency(c.source, BatchAt(c, 1))
      BY <1>1, ApiBuilt DEF ApiBegins
  <2> QED BY <1>1, <1>4, <2>1
<1>12. \A k \in 1 .. Count(c) - 1 : End(ls[k + 1]) <= End(ls[k]) + BatchLatency(c.source, BatchAt(c, k + 1))
    BY <1>1, <1>4, <1>5
<1> QED
    BY <1>6, <1>7, <1>8, <1>9, <1>10, <1>11, <1>12 DEF Paced

-----------------------------------------------------------------------------
(* What the walk needs of a finished corridor                              *)

\* The latency of the corridor's first k batches.
UpTo(c, k) == SumFunctionOnSet(Latencies(c.source), c.first .. Place(c, k))

Neat(c, ls) ==
    /\ \A k \in 1 .. Count(c) :
           /\ End(ls[k]) \in Nat /\ End(ls[k]) <= UpTo(c, k)
           /\ \A s \in Spans(ls[k]) : s \in Spanned /\ 0 <= s.from /\ s.from <= s.to /\ s.to <= End(ls[k])
    /\ \A j, k \in 1 .. Count(c) : j < k => End(ls[j]) <= End(ls[k])
    /\ \A j, k \in 1 .. Count(c) : j + 1 < k => \A s \in Spans(ls[k]) : End(ls[j]) <= s.from

LEMMA LatenciesAreNatural ==
    ASSUME ACase, NEW file
    PROVE  /\ DOMAIN Latencies(file) = 1 .. Len(plan)
           /\ \A i \in 1 .. Len(plan) : Latencies(file)[i] \in Nat /\ Latencies(file)[i] = BatchLatency(file, plan[i])
BY PlanFacts, LatencyOfBatch DEF Latencies

LEMMA UpToSteps ==
    ASSUME ACase, NEW c, IsCorridor(c), NEW k \in 1 .. Count(c)
    PROVE  /\ UpTo(c, k) = UpTo(c, k - 1) + BatchLatency(c.source, BatchAt(c, k)) /\ UpTo(c, k) \in Int
           /\ UpTo(c, k - 1) \in Int /\ UpTo(c, 0) = 0 /\ BatchLatency(c.source, BatchAt(c, k)) \in Nat
<1>1. /\ c.first \in Nat \ {0} /\ Count(c) \in Nat \ {0} /\ Place(c, k) \in 1 .. Len(plan) /\ Len(plan) \in Nat
    BY CorridorPlaces, PlanFacts
<1> DEFINE a == c.first
           b == Place(c, k - 1)
           f == Latencies(c.source)
<1>2. /\ a \in Int /\ b \in Int /\ a <= b + 1 /\ b + 1 = Place(c, k) /\ a .. b + 1 \subseteq 1 .. Len(plan)
    BY <1>1 DEF Place
<1>3. \A i \in 1 .. Len(plan) : f[i] \in Nat /\ f[i] = BatchLatency(c.source, plan[i])
    BY LatenciesAreNatural
<1>4. \A i \in a .. b + 1 : f[i] \in Int
    BY <1>2, <1>3
<1> HIDE DEF a, b, f
<1>5. /\ Summable(f, a .. b) /\ Summable(f, a .. b + 1)
      /\ SumFunctionOnSet(f, a .. b + 1) = SumFunctionOnSet(f, a .. b) + f[b + 1]
    BY <1>2, <1>4, SumInterval
<1>6. SumFunctionOnSet(f, a .. b) \in Int /\ SumFunctionOnSet(f, a .. b + 1) \in Int
    BY <1>5, SumInt
<1>7. UpTo(c, k) = SumFunctionOnSet(f, a .. b + 1) /\ UpTo(c, k - 1) = SumFunctionOnSet(f, a .. b)
    BY <1>2 DEF UpTo, f, a, b
<1>8. f[b + 1] = BatchLatency(c.source, BatchAt(c, k)) /\ f[b + 1] \in Nat
    BY <1>1, <1>2, <1>3 DEF BatchAt
<1>9. UpTo(c, 0) = 0
  <2>1. c.first .. Place(c, 0) = {}
      BY <1>1 DEF Place
  <2> QED BY <2>1, SumOfNone DEF UpTo
<1> QED
    BY <1>5, <1>6, <1>7, <1>8, <1>9

LEMMA PacedEndsInTime ==
    ASSUME ACase, NEW c, IsCorridor(c), NEW ls, Paced(c, ls), NEW n \in 1 .. Count(c)
    PROVE  End(ls[n]) <= UpTo(c, n)
<1> DEFINE T == {k \in 0 .. n : k = 0 \/ End(ls[k]) <= UpTo(c, k)}
<1>1. Count(c) \in Nat \ {0} /\ n \in Nat /\ n # 0
    BY CorridorPlaces
<1>2. \A k \in 1 .. Count(c) : /\ UpTo(c, k) = UpTo(c, k - 1) + BatchLatency(c.source, BatchAt(c, k)) /\ UpTo(c, k) \in Int
                               /\ UpTo(c, k - 1) \in Int /\ UpTo(c, 0) = 0 /\ BatchLatency(c.source, BatchAt(c, k)) \in Nat
    BY UpToSteps
<1>3. \A k \in 1 .. Count(c) : End(ls[k]) \in Int
    BY DEF Paced, LineWithin
<1>4. ASSUME NEW k \in 1 .. n, k - 1 \in T PROVE k \in T
  <2>1. k \in 1 .. Count(c) /\ k \in 0 .. n
      BY <1>1
  <2>2. CASE k = 1
    <3>1. End(ls[1]) <= BatchLatency(c.source, BatchAt(c, 1))
        BY DEF Paced
    <3>2. UpTo(c, 1) = BatchLatency(c.source, BatchAt(c, 1))
      <4>1. UpTo(c, 1) = UpTo(c, 1 - 1) + BatchLatency(c.source, BatchAt(c, 1)) /\ UpTo(c, 0) = 0 /\ 1 - 1 = 0
            /\ BatchLatency(c.source, BatchAt(c, 1)) \in Nat
          BY <1>2, <2>1, <2>2
      <4> QED BY <4>1
    <3> QED BY <2>1, <2>2, <3>1, <3>2
  <2>3. CASE k # 1
    <3>1. k - 1 \in 1 .. Count(c) - 1 /\ k - 1 \in 1 .. Count(c) /\ (k - 1) + 1 = k
        BY <1>1, <2>3
    <3>2. End(ls[(k - 1) + 1]) <= End(ls[k - 1]) + BatchLatency(c.source, BatchAt(c, (k - 1) + 1))
        BY <3>1 DEF Paced
    <3>3. End(ls[k]) <= End(ls[k - 1]) + BatchLatency(c.source, BatchAt(c, k))
        BY <3>1, <3>2
    <3>4. End(ls[k - 1]) <= UpTo(c, k - 1)
        BY <1>4, <3>1
    <3>5. End(ls[k]) <= UpTo(c, k)
        BY <1>2, <1>3, <2>1, <3>1, <3>3, <3>4
    <3> QED BY <2>1, <3>5
  <2> QED BY <2>2, <2>3
<1>5. 0 \in T
    BY <1>1
<1> HIDE DEF T
<1>6. n \in T
    BY <1>1, <1>4, <1>5, PrefixInduction
<1> QED
    BY <1>1, <1>6 DEF T

LEMMA PacedIsNeat ==
    ASSUME ACase, NEW c, NEW ls, Finished(c, ls), Paced(c, ls)
    PROVE  Neat(c, ls)
<1>1. Count(c) \in Nat \ {0} /\ 1 \in 1 .. Count(c)
    BY CountsAreNatural
<1> DEFINE h(k) == HeadAt(c, ls, k)
           e(k) == End(ls[k])
<1>2. \A k \in 1 .. Count(c) : /\ h(k) \in Int /\ e(k) \in Int
                               /\ \A s \in Spans(ls[k]) : s \in Spanned /\ h(k) <= s.from /\ s.from <= s.to /\ s.to <= e(k)
                               /\ \E s \in Spans(ls[k]) : s.to = e(k)
    BY DEF Paced, LineWithin
<1>3. \A j, k \in 1 .. Count(c) : j < k => e(j) <= e(k)
    BY DEF Paced
<1>4. \A k \in 1 .. Count(c) : h(k) <= e(k)
    BY <1>2 DEF Spanned
<1>5. 0 <= h(1) /\ \A k \in 1 .. Count(c) - 1 : h(k) <= h(k + 1)
    BY DEF Paced
<1>6. \A k \in 1 .. Count(c) - 2 : e(k) <= h(k + 2)
    BY DEF Paced
<1>7. \A k \in 1 .. Count(c) : e(k) <= UpTo(c, k)
    BY PacedEndsInTime DEF Finished
<1> HIDE DEF h, e
<1>8. ASSUME NEW j \in 1 .. Count(c), NEW k \in 1 .. Count(c), j + 1 < k PROVE e(j) <= h(k)
  <2>1. k - 2 \in 1 .. Count(c) - 2 /\ k - 2 \in 1 .. Count(c) /\ (k - 2) + 2 = k /\ (j < k - 2 \/ j = k - 2)
      BY <1>1, <1>8
  <2>2. e(k - 2) <= h((k - 2) + 2)
      BY <1>6, <2>1
  <2>3. e(j) <= e(k - 2)
      BY <1>2, <1>3, <2>1
  <2> QED BY <1>2, <2>1, <2>2, <2>3
<1>9. ASSUME NEW k \in 1 .. Count(c) PROVE 0 <= h(k)
  <2>1. CASE k = 1
      BY <1>5, <2>1
  <2>2. CASE k = 2
    <3>1. 1 \in 1 .. Count(c) - 1 /\ 1 + 1 = 2
        BY <1>1, <2>2
    <3>2. h(1) <= h(1 + 1)
        BY <1>5, <3>1
    <3> QED BY <1>1, <1>2, <1>5, <2>2, <3>1, <3>2
  <2>3. CASE k > 2
    <3>1. 1 + 1 < k
        BY <2>3
    <3>2. e(1) <= h(k)
        BY <1>1, <1>8, <3>1
    <3> QED BY <1>1, <1>2, <1>4, <1>5, <3>2
  <2> QED BY <1>1, <2>1, <2>2, <2>3
<1>10. ASSUME NEW k \in 1 .. Count(c)
       PROVE  /\ e(k) \in Nat /\ e(k) <= UpTo(c, k)
              /\ \A s \in Spans(ls[k]) : s \in Spanned /\ 0 <= s.from /\ s.from <= s.to /\ s.to <= e(k)
  <2>1. e(k) \in Nat
      BY <1>2, <1>4, <1>9
  <2>2. \A s \in Spans(ls[k]) : s \in Spanned /\ 0 <= s.from /\ s.from <= s.to /\ s.to <= e(k)
      BY <1>2, <1>9 DEF Spanned
  <2> QED BY <1>7, <2>1, <2>2
<1>11. ASSUME NEW j \in 1 .. Count(c), NEW k \in 1 .. Count(c), j + 1 < k, NEW s \in Spans(ls[k]) PROVE e(j) <= s.from
  <2>1. e(j) <= h(k) /\ h(k) <= s.from
      BY <1>2, <1>8, <1>11
  <2> QED BY <1>2, <2>1 DEF Spanned
<1> QED
    BY <1>3, <1>10, <1>11 DEF Neat, e

LEMMA FinishedIsNeat ==
    ASSUME ACase, NEW c, NEW ls, Finished(c, ls)
    PROVE  Neat(c, ls)
<1>1. Paced(c, ls)
    BY CountsAreNatural, BlePaced, ApiPaced, Zenon DEF BleFinished, ApiFinished
<1> QED
    BY <1>1, PacedIsNeat

\* The last line ends the corridor.
LEMMA LatestIsLast ==
    ASSUME ACase, NEW c, NEW ls, Finished(c, ls)
    PROVE  Latest(ls) = End(ls[Count(c)]) /\ Latest(ls) \in Nat
<1>1. Count(c) \in Nat \ {0} /\ DOMAIN ls = 1 .. Count(c)
    BY CountsAreNatural
<1> DEFINE n == Count(c)
           g == [i \in 1 .. n |-> End(ls[i])]
<1>2. \A k \in 1 .. n : End(ls[k]) \in Nat /\ (k < n => End(ls[k]) <= End(ls[n]))
    BY <1>1, FinishedIsNeat DEF Neat
<1>3. n \in Nat \ {0} /\ g \in [1 .. n -> Nat] /\ (\A k \in 1 .. n : g[k] = End(ls[k]))
    BY <1>1, <1>2
<1>4. Latest(ls) = Max(Range(g))
  <2>1. {End(ls[i]) : i \in DOMAIN ls} = Range(g)
      BY <1>1 DEF Range
  <2> QED BY <2>1 DEF Latest
<1> HIDE DEF g, n
<1>5. Max(Range(g)) \in Range(g) /\ Max(Range(g)) \in Nat /\ \A i \in 1 .. n : Max(Range(g)) >= g[i]
    BY <1>3, MaxOfRange
<1>6. PICK i \in 1 .. n : Max(Range(g)) = g[i]
    BY <1>3, <1>5 DEF Range
<1>7. n \in 1 .. n
    BY <1>3
<1>8. g[i] <= g[n] /\ g[i] \in Nat /\ g[n] \in Nat /\ g[i] >= g[n]
    BY <1>2, <1>3, <1>5, <1>6, <1>7
<1>9. Max(Range(g)) = g[n]
    BY <1>6, <1>8
<1> QED
    BY <1>3, <1>4, <1>5, <1>7, <1>9 DEF n

-----------------------------------------------------------------------------
(* Neighbours of a corridor                                                *)

Overlap(left, right) == \E s \in Spans(right) : s.from < End(left)

BleNeighbours(l, r, left, right) ==
    /\ left.xfer.to <= right.xfer.from /\ left.connect.to <= right.connect.from
    /\ Overlap(left, right) => ~SameDevice(l, r) /\ ~SameSession(l, r)

AfterAnswer == {"send", "recv", "parse", "aggregate", "cache", "commit"}
BeforeRequest(lane) == IF lane = "cloud" THEN {"auth", "budget", "prepare"} ELSE {"resolve", "session"}

ApiNeighbours(p, l, r, left, right) ==
    /\ End(left) = left.write.to
    /\ \A phase \in AllPhases(r) \cap AfterAnswer : left.write.to <= right[phase].from
    /\ r.lane = "cloud" => left.write.to <= right.session.from
    /\ r.lane = "cloud" /\ l.backoff => \A s \in Spans(right) : left.backoff.to <= s.from
    /\ PrepareAdmitted(p, l, r) =>
           \A phase \in AllPhases(r) \cap BeforeRequest(r.lane) :
               left.send.from <= right[phase].from /\ right[phase].to <= left.recv.to

LEMMA BlePairsAreNeighbours ==
    ASSUME ACase, NEW c, NEW ls, BleFinished(c, ls), NEW k \in 1 .. Count(c) - 1
    PROVE  BleNeighbours(Only(BatchAt(c, k)), Only(BatchAt(c, k + 1)), ls[k], ls[k + 1])
<1>1. /\ k \in 1 .. Count(c) /\ k + 1 \in 1 .. Count(c) /\ k \in 1 .. Len(ls) - 1
    BY CountsAreNatural DEF BleFinished
<1> DEFINE l == Only(BatchAt(c, k))  r == Only(BatchAt(c, k + 1))
           left == ls[k]  right == ls[k + 1]
<1>2. BleActions(c)[k] = l /\ BleActions(c)[k + 1] = r
    BY <1>1, BleCorridor DEF BleFinished, Finished
<1>3. BleShape(left) /\ BleShape(right) /\ BleGoesOn(r, left, right)
      /\ BleValid(policy.ble, BleActions(c), ls)
    BY <1>1, BleBuilt
<1>4. BlePairValid(policy.ble, l, r, left, right)
    BY <1>1, <1>2, <1>3 DEF BleValid
<1> HIDE DEF l, r, left, right
<1>5. right.adv.from < left.settle.to => ~SameDevice(l, r) /\ ~SameSession(l, r)
    BY <1>4 DEF BlePairValid, AdvAdmitted
<1>6. /\ left.connect.to \in Int /\ left.xfer.from \in Int /\ right.connect.from \in Int /\ right.adv.from \in Int
      /\ left.settle.to \in Int /\ End(left) = left.settle.to /\ left.xfer.to \in Int /\ right.xfer.from \in Int
    BY <1>3, BleInts
<1>7. left.xfer.to <= right.xfer.from /\ left.connect.to <= right.connect.from
    BY <1>3, <1>6 DEF BleGoesOn, BleShape
<1>8. Overlap(left, right) => right.adv.from < left.settle.to
  <2>1. \A s \in Spans(right) : right.adv.from <= s.from /\ s \in Spanned
      BY <1>3, BleEnd
  <2> QED BY <1>6, <2>1 DEF Overlap, Spanned
<1> QED
    BY <1>5, <1>7, <1>8 DEF BleNeighbours, l, r, left, right

LEMMA ApiPairsAreNeighbours ==
    ASSUME NEW p, NEW l, NEW r, NEW left, NEW right, ApiFollows(p, l, r, left, right)
    PROVE  ApiNeighbours(p, l, r, left, right)
<1>1. /\ left.send.from \in Int /\ left.write.to \in Int /\ left.recv.to \in Int /\ left.send.from <= left.recv.to
      /\ left.recv.to < left.write.to /\ End(left) = left.write.to
    BY ApiInts DEF ApiFollows
<1>2. /\ First(r, right).from \in Int /\ right.send.from \in Int /\ right.write.to \in Int
    BY ApiInts DEF ApiFollows
<1>3. left.send.from <= First(r, right).from /\ left.write.to <= right.send.from
    BY ApiHeads, Zenon
<1>4. /\ \A phase \in AllPhases(r) : /\ right[phase] \in Spanned /\ First(r, right).from <= right[phase].from
                                     /\ right[phase].from <= right[phase].to
      /\ \A phase \in AllPhases(r) \cap {"send", "recv", "backoff", "parse", "aggregate", "cache", "commit"} :
             right.send.from <= right[phase].from
      /\ r.lane = "cloud" => right.auth.from <= right.prepare.from /\ right.auth.to <= right.budget.to
      /\ r.lane = "http" => right.resolve.to <= right.session.to
    BY DEF ApiFollows, ApiTidy
<1>5. /\ r.lane \in {"cloud", "http"} /\ l.lane = r.lane /\ l.backoff \in BOOLEAN
    BY DEF ApiFollows, IsRequest
<1>6. ASSUME NEW phase \in AllPhases(r) \cap AfterAnswer PROVE left.write.to <= right[phase].from
  <2>1. right.send.from <= right[phase].from /\ right[phase].from \in Int
      BY <1>4 DEF AfterAnswer, Spanned
  <2> QED BY <1>1, <1>2, <1>3, <2>1
<1>7. r.lane = "cloud" => left.write.to <= right.session.from
  <2>1. r.lane = "cloud" => right.session.from >= left.write.to
      BY DEF ApiFollows, ApiGoesOn
  <2>2. r.lane = "cloud" => right.session.from \in Int
      BY <1>4 DEF AllPhases, CloudRest, Spanned
  <2> QED BY <1>1, <2>1, <2>2
<1>8. ASSUME r.lane = "cloud", l.backoff, NEW s \in Spans(right) PROVE left.backoff.to <= s.from
  <2>1. First(r, right).from <= s.from /\ s.from \in Int
      BY ApiEnd DEF ApiFollows, Spanned
  <2>2. /\ left.backoff \in Spanned /\ left.backoff.from < left.backoff.to /\ left.backoff.to <= left.write.to
      BY <1>5, <1>8 DEF ApiFollows, ApiShape, ApiTidy
  <2>3. left.backoff.to \in Int /\ Length(left.backoff) > 0
      BY <2>2 DEF Length, Spanned
  <2>4. left.backoff.to <= First(r, right).from
    <3>1. CASE First(r, right).from < left.write.to
        BY <1>5, <1>8, <2>3, <3>1 DEF ApiFollows, ApiPairValid
    <3>2. CASE ~(First(r, right).from < left.write.to)
        BY <1>1, <1>2, <2>2, <2>3, <3>2
    <3> QED BY <3>1, <3>2
  <2> QED BY <1>2, <2>1, <2>3, <2>4
<1>9. ASSUME PrepareAdmitted(p, l, r)
      PROVE  \A phase \in AllPhases(r) \cap BeforeRequest(r.lane) :
                 left.send.from <= right[phase].from /\ right[phase].to <= left.recv.to
  <2>1. r.lane = "cloud" => p.authBudget
    <3> SUFFICES ASSUME r.lane = "cloud", ~p.authBudget PROVE FALSE
        OBVIOUS
    <3>1. right.auth.from >= left.write.to /\ right.prepare.from <= Larger(left.send.from, left.recv.to)
        BY <1>9 DEF ApiFollows, ApiGoesOn
    <3>2. right.auth.from \in Int /\ right.prepare.from \in Int /\ right.auth.from <= right.prepare.from
        BY <1>4 DEF AllPhases, CloudRest, Spanned
    <3> QED BY <1>1, <3>1, <3>2 DEF Larger
  <2>2. First(r, right).from <= Larger(left.send.from, left.recv.to)
      BY <1>9, <2>1 DEF ApiFollows, ApiGoesOn
  <2>3. First(r, right).from < left.write.to
      BY <1>1, <1>2, <2>2 DEF Larger
  <2>4. \A s \in Prepared(r, right) : s.to <= left.recv.to
      BY <2>3 DEF ApiFollows, ApiPairValid
  <2>5. ASSUME NEW phase \in AllPhases(r) \cap BeforeRequest(r.lane)
        PROVE  left.send.from <= right[phase].from /\ right[phase].to <= left.recv.to
    <3>1. left.send.from <= right[phase].from
        BY <1>1, <1>2, <1>3, <1>4 DEF Spanned
    <3>2. CASE r.lane = "cloud"
      <4>1. right.budget.to <= left.recv.to /\ right.prepare.to <= left.recv.to
          BY <2>4, <3>2 DEF Prepared
      <4>2. right.auth.to \in Int /\ right.budget.to \in Int
          BY <1>4, <3>2 DEF AllPhases, CloudRest, Spanned
      <4>3. right.auth.to <= left.recv.to
          BY <1>1, <1>4, <3>2, <4>1, <4>2
      <4> QED BY <3>1, <3>2, <4>1, <4>3 DEF BeforeRequest
    <3>3. CASE r.lane = "http"
      <4>1. right.session.to <= left.recv.to
          BY <2>4, <3>3 DEF Prepared
      <4>2. right.resolve.to \in Int /\ right.session.to \in Int
          BY <1>4, <3>3 DEF AllPhases, HttpRest, Spanned
      <4>3. right.resolve.to <= left.recv.to
          BY <1>1, <1>4, <3>3, <4>1, <4>2
      <4> QED BY <3>1, <3>3, <4>1, <4>3 DEF BeforeRequest
    <3> QED BY <1>5, <3>2, <3>3
  <2> QED BY <2>5
<1> QED
    BY <1>1, <1>6, <1>7, <1>8, <1>9 DEF ApiNeighbours

-----------------------------------------------------------------------------
(* The resolution of conflicts                                             *)

Candidates == pool \cup accepted \cup rejected

AtLeast(c, d) == c.saved > d.saved \/ c.saved = d.saved

\* Every corridor is either to do or a candidate, and only one candidate comes of it.
TodoInv ==
    /\ ACase
    /\ todo \subseteq Corridor
    /\ todo # {} => accepted = {} /\ rejected = {}
    /\ \A c \in todo \cup Candidates : IsCorridor(c)
    /\ \A c \in todo, d \in Candidates : c.first # d.first
    /\ \A c, d \in Candidates : c.first = d.first => c = d

\* The pool is decided about from the largest saving down.
ChoiceInv ==
    /\ \A d \in accepted, c \in pool : AtLeast(d, c)
    /\ \A c, d \in accepted : c # d => ~Conflict(c, d)
    /\ \A c \in rejected : c.valid /\ c.saved > 0 =>
           \E d \in accepted : Conflict(c, d) /\ AtLeast(d, c)

ResolutionInv == TodoInv /\ ChoiceInv

-----------------------------------------------------------------------------
\* Two runs that share a batch begin with the same one: otherwise the later one
\* would go on before its first batch.
LEMMA SharedRunsBeginTogether ==
    ASSUME ACase, NEW c, NEW d, IsCorridor(c), IsCorridor(d),
           NEW i \in Batches(c) \cap Batches(d), c.first < d.first
    PROVE  FALSE
<1>1. /\ c.first \in Nat /\ c.last \in Nat /\ d.first \in Nat /\ d.last \in Nat
      /\ c.first >= 1
    BY PlansAssumption DEF IsCorridor, ACase
<1>2. d.first \in Batches(c) /\ d.first - 1 \in Batches(c) /\ d.first > 1
    BY <1>1 DEF Batches
<1>3. Like(plan[d.first], plan[c.first]) /\ Like(plan[d.first - 1], plan[c.first])
    BY <1>2 DEF IsCorridor, IsRun
<1>4. Like(plan[d.first - 1], plan[d.first])
    BY <1>3 DEF Like
<1> QED
    BY <1>2, <1>4 DEF IsCorridor, IsRun

\* A run that begins where another one does ends there too.
LEMMA RunsEndTogether ==
    ASSUME ACase, NEW c, NEW d, IsCorridor(c), IsCorridor(d),
           c.first = d.first, c.last < d.last
    PROVE  FALSE
<1>1. /\ c.first \in Nat /\ c.last \in Nat /\ d.last \in Nat
      /\ c.first <= c.last /\ d.last <= Len(plan) /\ Len(plan) \in Nat
    BY PlansAssumption DEF IsCorridor, ACase
<1>2. c.last + 1 \in Batches(d) /\ c.last < Len(plan)
    BY <1>1 DEF Batches
<1>3. Like(plan[c.last + 1], plan[c.first])
    BY <1>2 DEF IsCorridor, IsRun
<1> QED
    BY <1>2, <1>3 DEF IsCorridor, IsRun

\* There is at most one corridor from a batch on.
LEMMA OneCorridorFromABatch ==
    ASSUME ACase, NEW c \in Corridor, NEW d \in Corridor,
           IsCorridor(c), IsCorridor(d), c.first = d.first
    PROVE  c = d
<1>2. c.source = d.source
    BY DEF IsCorridor
<1>3. c.last \in Int /\ d.last \in Int
    BY PlansAssumption DEF IsCorridor, ACase
<1>4. c.last = d.last
  <2>1. ~(c.last < d.last)
      BY RunsEndTogether
  <2>2. ~(d.last < c.last)
      BY RunsEndTogether
  <2> QED
      BY <1>3, <2>1, <2>2
<1> QED
    BY <1>2, <1>4 DEF Corridor

LEMMA ConflictIsMutual ==
    ASSUME NEW c, NEW d
    PROVE  Conflict(c, d) <=> Conflict(d, c)
<1>1. DeviceDomain(c) \cap DeviceDomain(d) = DeviceDomain(d) \cap DeviceDomain(c)
    OBVIOUS
<1>2. SessionDomain(c) \cap SessionDomain(d) = SessionDomain(d) \cap SessionDomain(c)
    OBVIOUS
<1> QED
    BY <1>1, <1>2, Zenon DEF Conflict

-----------------------------------------------------------------------------
LEMMA InitResolution == Init => ResolutionInv
BY DEF Init, ACase, ResolutionInv, TodoInv, ChoiceInv, Candidates,
       Corridors, Corridor, IsCorridor, Worthwhile

\* A corridor leaves the list as the candidate it becomes.
LEMMA RefineResolution ==
    ASSUME ResolutionInv, Refine
    PROVE  ResolutionInv'
<1> USE DEF ResolutionInv
<1>1. PICK c \in todo :
          /\ pool' = pool \cup {Candidate(c, lines)}
          /\ todo' = todo \ {c}
    BY DEF Refine
<1>2. accepted = {} /\ rejected = {} /\ accepted' = {} /\ rejected' = {}
      /\ plan' = plan /\ policy' = policy
    BY DEF Refine, TodoInv
<1> DEFINE new == Candidate(c, lines)
<1>3. new.first = c.first /\ new.last = c.last /\ new.source = c.source
    BY DEF Candidate
<1>4. c \in Corridor /\ IsCorridor(c)
    BY DEF TodoInv
<1>5. IsCorridor(new)
    BY <1>3, <1>4 DEF IsCorridor, IsRun, Batches
<1>6. Candidates' = Candidates \cup {new}
    BY <1>1, <1>2 DEF Candidates
<1> HIDE DEF new
<1>7. TodoInv'
  <2>1. ACase' /\ todo' \subseteq Corridor'
      BY <1>1, <1>2 DEF TodoInv, ACase, Corridor
  <2>2. \A d \in todo' \cup Candidates' : IsCorridor(d)'
      BY <1>1, <1>2, <1>5, <1>6 DEF TodoInv, IsCorridor, IsRun, Batches, Like
  <2>3. \A b \in todo', d \in Candidates' : b.first # d.first
      BY <1>1, <1>3, <1>4, <1>6, OneCorridorFromABatch DEF TodoInv
  <2>4. \A b, d \in Candidates' : b.first = d.first => b = d
      BY <1>1, <1>3, <1>6 DEF TodoInv
  <2> QED
      BY <1>2, <2>1, <2>2, <2>3, <2>4 DEF TodoInv
<1> QED
    BY <1>2, <1>7 DEF ChoiceInv

\* The candidate decided about saves at most what the accepted ones save, and at
\* least what the others of the pool save.
LEMMA ResolveResolution ==
    ASSUME ResolutionInv, Resolve
    PROVE  ResolutionInv'
<1> USE DEF ResolutionInv
<1>1. PICK c \in pool :
          /\ \A d \in pool \ {c} : Before(c, d)
          /\ pool' = pool \ {c}
          /\ IF c.valid /\ c.saved > 0 /\ \A d \in accepted : ~Conflict(d, c)
             THEN accepted' = accepted \cup {c} /\ rejected' = rejected
             ELSE rejected' = rejected \cup {c} /\ accepted' = accepted
    BY DEF Resolve
<1>2. plan' = plan /\ policy' = policy /\ todo' = todo /\ todo = {}
    BY DEF Resolve
<1>3. Candidates' = Candidates
    BY <1>1 DEF Candidates
<1>4. TodoInv'
    BY <1>2, <1>3 DEF TodoInv, ACase, Corridor, IsCorridor, IsRun, Batches, Like
<1>5. \A d \in pool \ {c} : AtLeast(c, d)
    BY <1>1 DEF Before, AtLeast
<1>6. \A b, d : Conflict(b, d)' <=> Conflict(b, d)
    BY <1>2 DEF Conflict, DeviceDomain, SessionDomain, BleActions
<1>7. \A d \in accepted', b \in pool' : AtLeast(d, b)
    BY <1>1, <1>5 DEF ChoiceInv
<1>8. \A b, d \in accepted' : b # d => ~Conflict(b, d)
    BY <1>1, ConflictIsMutual DEF ChoiceInv
<1>9. \A b \in rejected' : b.valid /\ b.saved > 0 =>
          \E d \in accepted' : Conflict(b, d) /\ AtLeast(d, b)
  <2> SUFFICES ASSUME NEW b \in rejected', b.valid, b.saved > 0
               PROVE  \E d \in accepted' : Conflict(b, d) /\ AtLeast(d, b)
      OBVIOUS
  <2>1. CASE b \in rejected
      BY <1>1, <2>1 DEF ChoiceInv
  <2>2. CASE b \notin rejected
    <3>1. b = c /\ accepted' = accepted
        BY <1>1, <2>2
    <3>2. PICK d \in accepted : Conflict(d, c)
        BY <1>1, <2>2, <3>1
    <3> QED
        BY <3>1, <3>2, ConflictIsMutual DEF ChoiceInv
  <2> QED
      BY <2>1, <2>2
<1>10. ChoiceInv'
    BY <1>6, <1>7, <1>8, <1>9 DEF ChoiceInv, AtLeast
<1> QED
    BY <1>4, <1>10

\* What the other steps leave alone.
LEMMA UnchangedResolution ==
    ASSUME ResolutionInv, UNCHANGED << plan, policy, todo, pool, accepted, rejected >>
    PROVE  ResolutionInv'
<1>1. Candidates' = Candidates
    BY DEF Candidates
<1>2. TodoInv'
    BY <1>1 DEF ResolutionInv, TodoInv, ACase, Corridor, IsCorridor, IsRun, Batches, Like
<1>3. \A c, d : Conflict(c, d)' <=> Conflict(c, d)
    BY DEF Conflict, DeviceDomain, SessionDomain, BleActions
<1>4. ChoiceInv'
    BY <1>3 DEF ResolutionInv, ChoiceInv, AtLeast
<1> QED
    BY <1>2, <1>4 DEF ResolutionInv

LEMMA NextResolution == ResolutionInv /\ [Next]_vars => ResolutionInv'
<1> SUFFICES ASSUME ResolutionInv, [Next]_vars
             PROVE  ResolutionInv'
    OBVIOUS
<1>1. CASE Refine
    BY <1>1, RefineResolution
<1>2. CASE Resolve
    BY <1>2, ResolveResolution
<1>3. CASE Expand
    BY <1>3, UnchangedResolution DEF Expand
<1>4. CASE WalkBatch
    BY <1>4, UnchangedResolution DEF WalkBatch
<1>5. CASE WalkCorridor
    BY <1>5, UnchangedResolution DEF WalkCorridor
<1>6. CASE Conclude
    BY <1>6, UnchangedResolution DEF Conclude
<1>7. CASE UNCHANGED vars
    BY <1>7, UnchangedResolution DEF vars
<1> QED
    BY <1>1, <1>2, <1>3, <1>4, <1>5, <1>6, <1>7 DEF Next

LEMMA ResolutionGivesWinners == ResolutionInv => HighestSavingWins
<1> SUFFICES ASSUME ResolutionInv
             PROVE  HighestSavingWins
    OBVIOUS
<1>1. ASSUME NEW c \in accepted, NEW d \in accepted, c # d
      PROVE  Batches(c) \cap Batches(d) = {}
  <2>1. IsCorridor(c) /\ IsCorridor(d) /\ ACase /\ c.first # d.first
      BY <1>1 DEF ResolutionInv, TodoInv, Candidates
  <2>2. c.first \in Int /\ d.first \in Int
      BY <2>1, PlansAssumption DEF IsCorridor, ACase
  <2> QED
      BY <2>1, <2>2, SharedRunsBeginTogether
<1> QED
    BY <1>1 DEF ResolutionInv, ChoiceInv, HighestSavingWins, AtLeast

-----------------------------------------------------------------------------
(* Candidates                                                              *)

\* A candidate is its corridor with all its lines, and saves what they say.
Promise(c) ==
    /\ BuiltLines(c, c.lines) /\ Len(c.lines) = Count(c)
    /\ c.valid = Valid(c, c.lines)
    /\ c.saved = IF c.valid THEN Larger(0, Original(c) - Latest(c.lines)) ELSE 0

CandidatesInv ==
    /\ \A c \in todo : Refining(c) => BuiltLines(c, lines)
    /\ \A c \in Candidates : Promise(c)
    /\ \A c \in accepted : c.valid /\ c.saved > 0
    /\ IsFiniteSet(accepted)

LEMMA PromisesAreFixed ==
    ASSUME plan' = plan, policy' = policy, NEW c
    PROVE  /\ Promise(c)' <=> Promise(c)
           /\ IsCorridor(c)' <=> IsCorridor(c)
           /\ \A ls : BuiltLines(c, ls)' <=> BuiltLines(c, ls)
<1> USE plan' = plan, policy' = policy
<1>1. Steps(c)' = Steps(c) /\ BleActions(c)' = BleActions(c)
    BY DEF Steps, BleActions
<1>2. ASSUME NEW ls PROVE BuiltLines(c, ls)' <=> BuiltLines(c, ls)
  <2>1. \A k : BatchAt(c, k)' = BatchAt(c, k)
      BY DEF BatchAt
  <2>2. \A k : BuiltLine(c, ls, k)' <=> BuiltLine(c, ls, k)
      BY <1>1, <2>1 DEF BuiltLine, BuiltBle, BuiltApi
  <2> QED BY <2>2 DEF BuiltLines
<1>3. ASSUME NEW ls PROVE Valid(c, ls)' = Valid(c, ls)
    BY <1>1 DEF Valid
<1>4. Original(c)' = Original(c)
    BY DEF Original, Latencies
<1>5. Promise(c)' <=> Promise(c)
    BY <1>2, <1>3, <1>4 DEF Promise
<1>6. IsCorridor(c)' <=> IsCorridor(c)
    BY DEF IsCorridor, IsRun, Like
<1> QED
    BY <1>2, <1>5, <1>6

SameCorridor(c, d) == c.source = d.source /\ c.first = d.first /\ c.last = d.last

LEMMA SameCorridorSame ==
    ASSUME NEW c, NEW d, SameCorridor(c, d), NEW ls
    PROVE  /\ BuiltLines(c, ls) => BuiltLines(d, ls)
           /\ Valid(c, ls) = Valid(d, ls)
           /\ Original(c) = Original(d) /\ Count(c) = Count(d) /\ Batches(c) = Batches(d)
<1>1. c.source = d.source /\ c.first = d.first /\ c.last = d.last
    BY DEF SameCorridor
<1>2. Steps(c) = Steps(d) /\ BleActions(c) = BleActions(d) /\ Count(c) = Count(d) /\ Batches(c) = Batches(d)
    BY <1>1 DEF Steps, BleActions, Count, Batches
<1>3. \A k : BatchAt(c, k) = BatchAt(d, k)
    BY <1>1 DEF BatchAt, Place
<1>4. \A k : BuiltLine(c, ls, k) <=> BuiltLine(d, ls, k)
    BY <1>1, <1>2, <1>3 DEF BuiltLine, BuiltBle, BuiltApi
<1>5. BuiltLines(c, ls) => BuiltLines(d, ls)
    BY <1>2, <1>4 DEF BuiltLines
<1>6. Valid(c, ls) = Valid(d, ls)
    BY <1>1, <1>2 DEF Valid
<1>7. Original(c) = Original(d)
    BY <1>1, <1>2 DEF Original
<1> QED
    BY <1>2, <1>5, <1>6, <1>7

\* All lines are there: the candidate is what it promises.
LEMMA CandidatePromise ==
    ASSUME NEW c, NEW ls, BuiltLines(c, ls), Len(ls) = Count(c)
    PROVE  Promise(Candidate(c, ls))
<1> DEFINE d == Candidate(c, ls)
<1>1. /\ d.source = c.source /\ d.first = c.first /\ d.last = c.last /\ d.lines = ls /\ d.valid = Valid(c, ls)
      /\ d.saved = IF Valid(c, ls) THEN Larger(0, Original(c) - Latest(ls)) ELSE 0
    BY DEF Candidate
<1> HIDE DEF d
<1>2. SameCorridor(c, d)
    BY <1>1 DEF SameCorridor
<1>3. BuiltLines(d, ls) /\ Valid(c, ls) = Valid(d, ls) /\ Original(c) = Original(d) /\ Count(c) = Count(d)
    BY <1>2, SameCorridorSame
<1>4. Promise(d)
    BY <1>1, <1>3 DEF Promise
<1> QED
    BY <1>4 DEF d

\* Only one corridor is refined at a time.
LEMMA OneIsRefined ==
    ASSUME TodoInv, NEW c \in todo, NEW d \in todo, Refining(c), Refining(d)
    PROVE  c = d
<1>1. c.first \in Nat /\ d.first \in Nat
    BY CorridorPlaces DEF TodoInv
<1>2. ASSUME c # d PROVE FALSE
    BY <1>1, <1>2 DEF Refining
<1> QED
    BY <1>2

LEMMA NoLinesAreBuilt ==
    ASSUME TodoInv, NEW c \in todo
    PROVE  BuiltLines(c, << >>)
<1>1. Count(c) \in Nat
    BY CorridorPlaces DEF TodoInv
<1>2. << >> \in Seq(Line) /\ Len(<< >>) = 0
    OBVIOUS
<1> QED
    BY <1>1, <1>2 DEF BuiltLines

LEMMA InitCandidates == Init => CandidatesInv
<1> SUFFICES ASSUME Init PROVE CandidatesInv
    OBVIOUS
<1>1. TodoInv
    BY InitResolution DEF ResolutionInv
<1>2. lines = << >> /\ Candidates = {} /\ accepted = {}
    BY DEF Init, Candidates
<1>3. IsFiniteSet(accepted)
    BY <1>2, FS_EmptySet
<1> QED
    BY <1>1, <1>2, <1>3, NoLinesAreBuilt DEF CandidatesInv

LEMMA ExpandCandidates ==
    ASSUME ResolutionInv, CandidatesInv, Expand
    PROVE  CandidatesInv'
<1>1. PICK c \in todo : Refining(c) /\ ~Complete(c) /\ lines' = Append(lines, NextLine(c, lines))
    BY DEF Expand
<1>2. /\ plan' = plan /\ policy' = policy /\ todo' = todo /\ accepted' = accepted /\ Candidates' = Candidates
    BY DEF Expand, Candidates
<1>3. TodoInv /\ ACase /\ IsCorridor(c)
    BY DEF ResolutionInv, TodoInv
<1>4. BuiltLines(c, lines) /\ Len(lines) < Count(c)
  <2>1. BuiltLines(c, lines)
      BY <1>1 DEF CandidatesInv
  <2>2. Len(lines) # Count(c)
      BY <1>1 DEF Complete, Count
  <2>3. Len(lines) \in Nat /\ Count(c) \in Nat
      BY <1>3, <2>1, CorridorPlaces DEF BuiltLines
  <2>4. Len(lines) <= Count(c)
      BY <2>1 DEF BuiltLines
  <2> QED BY <2>1, <2>2, <2>3, <2>4
<1>5. PICK ls : ls = lines'
    OBVIOUS
<1>6. BuiltLines(c, ls)
    BY <1>1, <1>3, <1>4, <1>5, LinesGrow
<1>7. BuiltLines(c, ls)'
    BY <1>2, <1>6, PromisesAreFixed
<1>8. BuiltLines(c, lines)'
    BY <1>5, <1>7
<1>9. \A d \in todo' : Refining(d)' => BuiltLines(d, lines)'
  <2>1. \A d : Refining(d)' <=> Refining(d)
      BY <1>2 DEF Refining
  <2>2. \A d \in todo : Refining(d) => d = c
      BY <1>1, <1>3, OneIsRefined
  <2> QED BY <1>2, <1>8, <2>1, <2>2
<1>10. \A d \in Candidates' : Promise(d)'
    BY <1>2, PromisesAreFixed DEF CandidatesInv
<1> QED
    BY <1>2, <1>9, <1>10 DEF CandidatesInv

LEMMA RefineCandidates ==
    ASSUME ResolutionInv, CandidatesInv, Refine
    PROVE  CandidatesInv'
<1>1. PICK c \in todo :
          /\ Complete(c)
          /\ pool' = pool \cup {Candidate(c, lines)}
          /\ todo' = todo \ {c}
    BY DEF Refine
<1>2. /\ plan' = plan /\ policy' = policy /\ lines' = << >> /\ accepted' = accepted /\ rejected' = rejected
    BY DEF Refine
<1> DEFINE new == Candidate(c, lines)
<1>3. Candidates' = Candidates \cup {new}
    BY <1>1, <1>2 DEF Candidates
<1>4. Promise(new)
  <2>1. BuiltLines(c, lines) /\ Len(lines) = Count(c)
      BY <1>1 DEF CandidatesInv, Complete, Count
  <2> QED BY <2>1, CandidatePromise
<1> HIDE DEF new
<1>5. \A d \in Candidates' : Promise(d)'
  <2>1. \A d : Promise(d)' <=> Promise(d)
      BY <1>2, PromisesAreFixed
  <2> QED BY <1>3, <1>4, <2>1 DEF CandidatesInv
<1>6. \A d \in todo' : BuiltLines(d, lines)'
  <2> TAKE d \in todo'
  <2>1. BuiltLines(d, << >>)
      BY <1>1, NoLinesAreBuilt DEF ResolutionInv
  <2>2. BuiltLines(d, << >>)'
      BY <1>2, <2>1, PromisesAreFixed
  <2> QED BY <1>2, <2>2
<1> QED
    BY <1>2, <1>5, <1>6 DEF CandidatesInv

LEMMA ResolveCandidates ==
    ASSUME ResolutionInv, CandidatesInv, Resolve
    PROVE  CandidatesInv'
<1>1. PICK c \in pool :
          /\ pool' = pool \ {c}
          /\ IF c.valid /\ c.saved > 0 /\ \A d \in accepted : ~Conflict(d, c)
             THEN accepted' = accepted \cup {c} /\ rejected' = rejected
             ELSE rejected' = rejected \cup {c} /\ accepted' = accepted
    BY DEF Resolve
<1>2. /\ plan' = plan /\ policy' = policy /\ todo' = todo /\ lines' = lines /\ todo = {}
    BY DEF Resolve
<1>3. Candidates' = Candidates
    BY <1>1 DEF Candidates
<1>4. \A d \in Candidates' : Promise(d)'
  <2>1. \A d : Promise(d)' <=> Promise(d)
      BY <1>2, PromisesAreFixed
  <2> QED BY <1>3, <2>1 DEF CandidatesInv
<1>5. \A d \in accepted' : d.valid /\ d.saved > 0
    BY <1>1 DEF CandidatesInv
<1>6. IsFiniteSet(accepted')
    BY <1>1, FS_AddElement DEF CandidatesInv
<1> QED
    BY <1>2, <1>4, <1>5, <1>6 DEF CandidatesInv

LEMMA UnchangedCandidates ==
    ASSUME CandidatesInv, UNCHANGED << plan, policy, todo, lines, pool, accepted, rejected >>
    PROVE  CandidatesInv'
<1>1. Candidates' = Candidates
    BY DEF Candidates
<1>2. \A d : Promise(d)' <=> Promise(d)
    BY PromisesAreFixed
<1>3. \A d : Refining(d)' <=> Refining(d)
    BY DEF Refining
<1>4. \A d : BuiltLines(d, lines)' <=> BuiltLines(d, lines)
  <2> TAKE d
  <2>1. PICK ls : ls = lines
      OBVIOUS
  <2>2. BuiltLines(d, ls)' <=> BuiltLines(d, ls)
      BY PromisesAreFixed
  <2> QED BY <2>1, <2>2
<1> QED
    BY <1>1, <1>2, <1>3, <1>4 DEF CandidatesInv

\* What an accepted corridor has to offer.
LEMMA AcceptedIsFinished ==
    ASSUME ResolutionInv, CandidatesInv, NEW c \in accepted
    PROVE  /\ ACase /\ Finished(c, c.lines)
           /\ c.saved \in Nat \ {0}
           /\ c.saved = Original(c) - Latest(c.lines)
           /\ Latest(c.lines) <= Original(c)
           /\ Original(c) = UpTo(c, Count(c)) /\ Original(c) \in Int
<1>1. c \in Candidates
    BY DEF Candidates
<1>2. ACase /\ IsCorridor(c) /\ Promise(c) /\ c.valid /\ c.saved > 0
    BY <1>1 DEF ResolutionInv, TodoInv, CandidatesInv
<1>3. Finished(c, c.lines)
    BY <1>2 DEF Promise, Finished
<1>4. c.saved = Larger(0, Original(c) - Latest(c.lines))
    BY <1>2 DEF Promise
<1>5. Latest(c.lines) \in Nat
    BY <1>2, <1>3, LatestIsLast
<1>6. Count(c) \in Nat \ {0} /\ Place(c, Count(c)) = c.last
    BY <1>2, CorridorPlaces DEF Place, Count
<1>7. Original(c) = UpTo(c, Count(c))
    BY <1>6 DEF Original, UpTo, Batches
<1>8. Original(c) \in Int
    BY <1>2, <1>6, <1>7, UpToSteps
<1>9. c.saved = Original(c) - Latest(c.lines) /\ c.saved \in Nat \ {0} /\ Latest(c.lines) <= Original(c)
    BY <1>2, <1>4, <1>5, <1>8 DEF Larger
<1> QED
    BY <1>2, <1>3, <1>7, <1>8, <1>9

-----------------------------------------------------------------------------
(* The walk over the plan                                                  *)

Entry == [line : Line \cup {<< >>}, corridor : Nat, end : Int]

Bare(e) == e.line = << >> /\ e.corridor = 0

\* The k-th batch of c, laid from the time m on, and all of c in a timeline.
LaidEntry(c, k, m) ==
    [line |-> Shifted(c.lines[k], m), corridor |-> c.first, end |-> m + End(c.lines[k])]
LaidIn(tl, c, m) ==
    \A k \in 1 .. Count(c) : Place(c, k) \in DOMAIN tl /\ tl[Place(c, k)] = LaidEntry(c, k, m)

\* The time saved by the corridors before batch n.
Behind(n) == {c \in accepted : c.last < n}
SavedUntil(n) == SumFunctionOnSet([c \in accepted |-> c.saved], Behind(n))

AloneOrLaid(tl, i) ==
    Bare(tl[i]) \/ \E c \in accepted : \E m \in Int : i \in Batches(c) /\ LaidIn(tl, c, m)

\* Batch j runs after batch i, or they are of one corridor.
AfterOrTogether(a, b) ==
    \/ a.corridor # 0 /\ a.corridor = b.corridor
    \/ \A s \in Spans(b.line) : a.end <= s.from

\* The walk is as much earlier as promised, or earlier still.
AsPromised(n, t) ==
    /\ CoarseEnd(n - 1) - t >= SavedUntil(n)
    /\ (\A c \in Behind(n) : MeasuredAlike(c)) => CoarseEnd(n - 1) - t = SavedUntil(n)

WalkedTo(tl, n, t) ==
    /\ n \in Nat \ {0} /\ n <= Len(plan) + 1
    /\ tl \in Seq(Entry) /\ Len(tl) = n - 1
    /\ \A c \in accepted : c.last < n \/ n <= c.first
    /\ t \in Int /\ AsPromised(n, t)
    /\ \A i \in 1 .. n - 1 : tl[i].end <= CoarseEnd(i) /\ tl[i].end <= t
    /\ \A i \in 1 .. n - 1 : AloneOrLaid(tl, i)
    /\ \A i, j \in 1 .. n - 1 : i < j => tl[i].end <= tl[j].end /\ AfterOrTogether(tl[i], tl[j])

TimelineInv == WalkedTo(timeline, at, cursor) /\ (at > 1 => Decided)

-----------------------------------------------------------------------------
LEMMA CoarseEnds ==
    ASSUME ACase
    PROVE  /\ CoarseEnd(0) = 0
           /\ \A i \in 0 .. Len(plan) : CoarseEnd(i) \in Nat
           /\ \A i \in 1 .. Len(plan) : /\ CoarseEnd(i) = CoarseEnd(i - 1) + BatchLatency("COMBINED", plan[i])
                                        /\ BatchLatency("COMBINED", plan[i]) \in Nat
<1>1. /\ Len(plan) \in Nat
      /\ \A i \in 1 .. Len(plan) : /\ Latencies("COMBINED")[i] \in Nat
                                   /\ Latencies("COMBINED")[i] = BatchLatency("COMBINED", plan[i])
    BY PlanFacts, LatenciesAreNatural
<1>2. CoarseEnd(0) = 0
  <2>1. 1 .. 0 = {}
      OBVIOUS
  <2> QED BY <2>1, SumOfNone DEF CoarseEnd
<1>3. ASSUME NEW i \in 0 .. Len(plan) PROVE CoarseEnd(i) \in Nat
  <2> DEFINE f == Latencies("COMBINED")
             S == 1 .. i
  <2>1. IsFiniteSet(S) /\ \A k \in S : f[k] \in Nat
      BY <1>1, FS_Interval
  <2> HIDE DEF f, S
  <2>2. SumFunctionOnSet(f, S) \in Nat
      BY <2>1, SumNat
  <2> QED BY <2>2 DEF CoarseEnd, f, S
<1>4. ASSUME NEW i \in 1 .. Len(plan) PROVE CoarseEnd(i) = CoarseEnd(i - 1) + BatchLatency("COMBINED", plan[i])
  <2> DEFINE f == Latencies("COMBINED")
             a == 1
             b == i - 1
  <2>1. a \in Int /\ b \in Int /\ a <= b + 1 /\ b + 1 = i /\ \A k \in a .. b + 1 : f[k] \in Int
      BY <1>1
  <2> HIDE DEF f, a, b
  <2>2. SumFunctionOnSet(f, a .. b + 1) = SumFunctionOnSet(f, a .. b) + f[b + 1]
      BY <2>1, SumInterval
  <2>3. CoarseEnd(i) = SumFunctionOnSet(f, a .. b + 1) /\ CoarseEnd(i - 1) = SumFunctionOnSet(f, a .. b)
      BY <2>1 DEF CoarseEnd, f, a, b
  <2>4. f[b + 1] = BatchLatency("COMBINED", plan[i])
      BY <1>1, <2>1 DEF f
  <2> QED BY <2>2, <2>3, <2>4
<1> QED
    BY <1>1, <1>2, <1>3, <1>4

\* The plan up to a batch of a corridor is the plan before it and its own batches, which
\* the corridor's refiner may measure as shorter.
Fits(c, k) ==
    /\ CoarseEnd(c.first - 1 + k) >= CoarseEnd(c.first - 1) + UpTo(c, k)
    /\ MeasuredAlike(c) => CoarseEnd(c.first - 1 + k) = CoarseEnd(c.first - 1) + UpTo(c, k)

LEMMA CoarseEndInCorridor ==
    ASSUME ACase, NEW c, IsCorridor(c), NEW n \in 0 .. Count(c)
    PROVE  Fits(c, n)
<1> DEFINE T == {k \in 0 .. n : Fits(c, k)}
<1>1. /\ c.first \in Nat \ {0} /\ Count(c) \in Nat \ {0} /\ n \in Nat /\ c.first - 1 + Count(c) = c.last
      /\ c.last <= Len(plan) /\ Len(plan) \in Nat /\ c.last \in Nat
    BY CorridorPlaces, PlanFacts DEF Count
<1>2. CoarseEnd(c.first - 1) \in Nat /\ UpTo(c, 0) = 0
  <2>1. c.first - 1 \in 0 .. Len(plan) /\ 1 \in 1 .. Count(c)
      BY <1>1, CorridorPlaces
  <2>2. CoarseEnd(c.first - 1) \in Nat
      BY <2>1, CoarseEnds
  <2>3. UpTo(c, 0) = 0
      BY <2>1, UpToSteps
  <2> QED BY <2>2, <2>3
<1>3. 0 \in T
  <2>1. c.first - 1 + 0 = c.first - 1 /\ 0 \in 0 .. n
      BY <1>1
  <2> QED BY <1>2, <2>1 DEF Fits
<1>4. ASSUME NEW k \in 1 .. n, k - 1 \in T PROVE k \in T
  <2>1. k \in 1 .. Count(c) /\ k \in 0 .. n
      BY <1>1
  <2>2. /\ UpTo(c, k) = UpTo(c, k - 1) + BatchLatency(c.source, BatchAt(c, k)) /\ UpTo(c, k - 1) \in Int
        /\ BatchLatency(c.source, BatchAt(c, k)) \in Nat
      BY <2>1, UpToSteps
  <2> DEFINE i == c.first - 1 + k
  <2>3. i \in 1 .. Len(plan) /\ i - 1 = c.first - 1 + (k - 1) /\ Place(c, k) = i
      BY <1>1, <2>1, SMTT(30) DEF Place
  <2>4. /\ CoarseEnd(i) = CoarseEnd(i - 1) + BatchLatency("COMBINED", plan[i])
        /\ BatchLatency("COMBINED", plan[i]) \in Nat /\ CoarseEnd(i - 1) \in Nat
    <3>1. i - 1 \in 0 .. Len(plan)
        BY <1>1, <2>3
    <3> QED BY <2>3, <3>1, CoarseEnds
  <2>5. /\ BatchLatency(c.source, BatchAt(c, k)) <= BatchLatency("COMBINED", plan[i])
        /\ MeasuredAlike(c) => BatchLatency(c.source, BatchAt(c, k)) = BatchLatency("COMBINED", plan[i])
    <3>1. plan[i] = BatchAt(c, k) /\ i \in Batches(c) /\ plan[i] \in BatchRecord
        BY <2>1, <2>3, CorridorPlaces DEF BatchAt
    <3>2. BatchLatency(c.source, plan[i]) <= BatchLatency("COMBINED", plan[i])
        BY <3>1, BatchMeasured
    <3>3. MeasuredAlike(c) => BatchLatency(c.source, plan[i]) = BatchLatency("COMBINED", plan[i])
        BY <3>1 DEF MeasuredAlike
    <3> QED BY <3>1, <3>2, <3>3
  <2>6. /\ CoarseEnd(i - 1) >= CoarseEnd(c.first - 1) + UpTo(c, k - 1)
        /\ MeasuredAlike(c) => CoarseEnd(i - 1) = CoarseEnd(c.first - 1) + UpTo(c, k - 1)
      BY <1>4, <2>3 DEF Fits
  <2> HIDE DEF T
  <2>7. CoarseEnd(i) >= CoarseEnd(c.first - 1) + UpTo(c, k)
      BY <1>2, <2>2, <2>4, <2>5, <2>6
  <2>8. MeasuredAlike(c) => CoarseEnd(i) = CoarseEnd(c.first - 1) + UpTo(c, k)
      BY <1>2, <2>2, <2>4, <2>5, <2>6
  <2>9. Fits(c, k)
      BY <2>7, <2>8 DEF Fits
  <2> QED BY <2>1, <2>9 DEF T
<1> HIDE DEF T
<1>5. n \in T
    BY <1>1, <1>3, <1>4, PrefixInduction
<1> QED
    BY <1>5 DEF T

\* The savings summed up so far.
LEMMA Savings ==
    ASSUME ResolutionInv, CandidatesInv, NEW n
    PROVE  /\ IsFiniteSet(Behind(n)) /\ SavedUntil(n) \in Nat
           /\ Summable([c \in accepted |-> c.saved], Behind(n))
<1> DEFINE f == [c \in accepted |-> c.saved]
           S == Behind(n)
<1>1. IsFiniteSet(S)
    BY FS_Subset DEF CandidatesInv, Behind
<1>2. S \subseteq accepted
    BY DEF Behind
<1>3. \A c \in accepted : c.saved \in Nat
    BY AcceptedIsFinished
<1>4. \A c \in S : f[c] \in Nat
    BY <1>2, <1>3
<1> HIDE DEF f, S
<1>5. SumFunctionOnSet(f, S) \in Nat /\ Summable(f, S)
    BY <1>1, <1>4, SumNat DEF Summable
<1> QED
    BY <1>1, <1>5 DEF SavedUntil, f, S

LEMMA CorridorsApart ==
    ASSUME ResolutionInv, NEW c \in accepted, NEW d \in accepted, c # d
    PROVE  /\ c.first \in Nat \ {0} /\ c.last \in Nat /\ c.first <= c.last
           /\ d.first \in Nat \ {0} /\ d.last \in Nat /\ d.first <= d.last
           /\ c.last < d.first \/ d.last < c.first
<1>1. c \in Candidates /\ d \in Candidates
    BY DEF Candidates
<1>2. /\ c.first \in Nat \ {0} /\ c.last \in Nat /\ c.first <= c.last
      /\ d.first \in Nat \ {0} /\ d.last \in Nat /\ d.first <= d.last
    BY <1>1, CorridorPlaces DEF ResolutionInv, TodoInv
<1>3. Batches(c) \cap Batches(d) = {}
    BY ResolutionGivesWinners DEF HighestSavingWins
<1>4. c.first \notin Batches(d) /\ d.first \notin Batches(c)
    BY <1>2, <1>3 DEF Batches
<1> QED
    BY <1>2, <1>4 DEF Batches

LEMMA WalkBegins ==
    ASSUME ResolutionInv
    PROVE  WalkedTo(<< >>, 1, 0) /\ Behind(1) = {} /\ SavedUntil(1) = 0 /\ CoarseEnd(1 - 1) = 0
<1>1. ACase /\ \A c \in accepted : c.first \in Nat \ {0} /\ c.last \in Nat /\ c.first <= c.last
  <2>1. \A c \in accepted : c \in Candidates
      BY DEF Candidates
  <2> QED BY <2>1, CorridorPlaces DEF ResolutionInv, TodoInv
<1>2. Behind(1) = {}
    BY <1>1 DEF Behind
<1>3. SavedUntil(1) = 0
    BY <1>2, SumOfNone DEF SavedUntil
<1>4. CoarseEnd(1 - 1) = 0
    BY <1>1, CoarseEnds
<1>5. Len(plan) \in Nat
    BY <1>1, PlanFacts
<1>6. \A c \in accepted : 1 <= c.first
    BY <1>1
<1>7. << >> \in Seq(Entry) /\ Len(<< >>) = 0
    OBVIOUS
<1>8. AsPromised(1, 0)
    BY <1>3, <1>4 DEF AsPromised
<1> QED
    BY <1>2, <1>3, <1>4, <1>5, <1>6, <1>7, <1>8 DEF WalkedTo

LEMMA ShiftedLine ==
    ASSUME NEW line \in Line, NEW m \in Int
    PROVE  /\ Shifted(line, m) \in Line /\ DOMAIN Shifted(line, m) = DOMAIN line
           /\ \A phase \in DOMAIN line : /\ Shifted(line, m)[phase].from = line[phase].from + m
                                         /\ Shifted(line, m)[phase].to = line[phase].to + m
                                         /\ line[phase] \in Spanned /\ line[phase] \in Spans(line)
           /\ \A s \in Spans(Shifted(line, m)) :
                  \E r \in Spans(line) : r \in Spanned /\ s.from = r.from + m /\ s.to = r.to + m
<1>1. PICK D \in SUBSET PhaseNames : line \in [D -> Spanned]
    BY DEF Line
<1>2. DOMAIN line = D /\ \A phase \in D : line[phase] \in Spanned /\ line[phase].from \in Int /\ line[phase].to \in Int
    BY <1>1 DEF Spanned
<1> DEFINE new == Shifted(line, m)
<1>3. new = [phase \in D |-> [from |-> line[phase].from + m, to |-> line[phase].to + m]]
    BY <1>2 DEF Shifted
<1>4. new \in [D -> Spanned]
    BY <1>2, <1>3 DEF Spanned
<1>5. new \in Line
    BY <1>4 DEF Line
<1>6. \A phase \in D : new[phase].from = line[phase].from + m /\ new[phase].to = line[phase].to + m
    BY <1>3
<1>7. DOMAIN new = D
    BY <1>3
<1> HIDE DEF new
<1>8. \A phase \in D : line[phase] \in Spans(line)
    BY <1>2 DEF Spans, Range
<1>9. \A s \in Spans(new) : \E phase \in D : s = new[phase]
    BY <1>7 DEF Spans, Range
<1> QED
    BY <1>2, <1>5, <1>6, <1>7, <1>8, <1>9 DEF new

\* What has been walked over stays as it is.
LEMMA LaidStays ==
    ASSUME NEW tl \in Seq(Entry), NEW more \in Seq(Entry), NEW i, AloneOrLaid(tl, i), i \in 1 .. Len(tl)
    PROVE  AloneOrLaid(tl \o more, i)
<1>1. /\ DOMAIN tl = 1 .. Len(tl) /\ Len(tl) \in Nat /\ Len(more) \in Nat
      /\ DOMAIN (tl \o more) = 1 .. Len(tl) + Len(more)
    OBVIOUS
<1>2. \A k \in 1 .. Len(tl) : (tl \o more)[k] = tl[k] /\ k \in DOMAIN (tl \o more)
    BY <1>1
<1> DEFINE all == tl \o more
<1>3. \A k \in DOMAIN tl : all[k] = tl[k] /\ k \in DOMAIN all
    BY <1>1, <1>2
<1> HIDE DEF all
<1>4. \A c, m : LaidIn(tl, c, m) => LaidIn(all, c, m)
    BY <1>3 DEF LaidIn
<1>5. all[i] = tl[i]
    BY <1>1, <1>3
<1> QED
    BY <1>4, <1>5 DEF AloneOrLaid, all

CoarseEntry(n, t) == [line |-> << >>, corridor |-> 0, end |-> t + BatchLatency("COMBINED", plan[n])]

LEMMA NotLate ==
    ASSUME ResolutionInv, CandidatesInv, NEW tl, NEW n, NEW t, WalkedTo(tl, n, t)
    PROVE  /\ ACase /\ n \in Nat \ {0} /\ n <= Len(plan) + 1 /\ Len(plan) \in Nat /\ n - 1 \in 0 .. Len(plan)
           /\ tl \in Seq(Entry) /\ Len(tl) = n - 1 /\ t \in Int /\ t <= CoarseEnd(n - 1) /\ CoarseEnd(n - 1) \in Nat
           /\ \A i \in 1 .. n - 1 : tl[i] \in Entry /\ tl[i].end \in Int /\ tl[i].end <= t /\ CoarseEnd(i) \in Nat
<1>1. ACase /\ Len(plan) \in Nat
    BY PlanFacts DEF ResolutionInv, TodoInv
<1>2. /\ n \in Nat \ {0} /\ n <= Len(plan) + 1 /\ tl \in Seq(Entry) /\ Len(tl) = n - 1
      /\ t \in Int /\ CoarseEnd(n - 1) - t >= SavedUntil(n)
      /\ \A i \in 1 .. n - 1 : tl[i].end <= t
    BY DEF WalkedTo, AsPromised
<1>3. SavedUntil(n) \in Nat
    BY Savings
<1>4. n - 1 \in 0 .. Len(plan)
    BY <1>1, <1>2
<1>5. CoarseEnd(n - 1) \in Nat /\ \A i \in 1 .. n - 1 : CoarseEnd(i) \in Nat
    BY <1>1, <1>2, <1>4, CoarseEnds
<1>6. \A i \in 1 .. n - 1 : tl[i] \in Entry
    BY <1>2
<1>7. \A i \in 1 .. n - 1 : tl[i].end \in Int
    BY <1>6 DEF Entry
<1>8. t <= CoarseEnd(n - 1)
    BY <1>2, <1>3, <1>5
<1> QED
    BY <1>1, <1>2, <1>4, <1>5, <1>6, <1>7, <1>8

\* A batch that is left alone follows what was walked over.
LEMMA BatchWalked ==
    ASSUME ResolutionInv, CandidatesInv, NEW tl, NEW n, NEW t, WalkedTo(tl, n, t), n <= Len(plan), Begins(n) = {}
    PROVE  WalkedTo(Append(tl, CoarseEntry(n, t)), n + 1, t + BatchLatency("COMBINED", plan[n]))
<1> DEFINE e == CoarseEntry(n, t)
           u == t + BatchLatency("COMBINED", plan[n])
           new == Append(tl, e)
<1>1. /\ ACase /\ n \in Nat \ {0} /\ n <= Len(plan) + 1 /\ Len(plan) \in Nat /\ n - 1 \in 0 .. Len(plan)
      /\ tl \in Seq(Entry) /\ Len(tl) = n - 1 /\ t \in Int /\ t <= CoarseEnd(n - 1) /\ CoarseEnd(n - 1) \in Nat
      /\ \A i \in 1 .. n - 1 : tl[i] \in Entry /\ tl[i].end \in Int /\ tl[i].end <= t /\ CoarseEnd(i) \in Nat
    BY NotLate
<1>2. n \in 1 .. Len(plan) /\ (n + 1) - 1 = n /\ n + 1 <= Len(plan) + 1 /\ n + 1 \in Nat \ {0}
    BY <1>1
<1>3. BatchLatency("COMBINED", plan[n]) \in Nat /\ CoarseEnd(n) = CoarseEnd(n - 1) + BatchLatency("COMBINED", plan[n])
    BY <1>1, <1>2, CoarseEnds
<1>4. u \in Int /\ t <= u /\ u <= CoarseEnd(n)
    BY <1>1, <1>3
<1>5. e \in Entry /\ e.end = u /\ e.line = << >> /\ Bare(e)
    BY <1>1, <1>4 DEF CoarseEntry, Entry, Bare
<1> HIDE DEF e, u
<1>6. /\ new \in Seq(Entry) /\ Len(new) = n /\ new[n] = e /\ \A i \in 1 .. n - 1 : new[i] = tl[i]
      /\ new = tl \o << e >> /\ << e >> \in Seq(Entry)
    BY <1>1, <1>5
<1> HIDE DEF new
<1>7. \A c \in accepted : c.last < n + 1 \/ n + 1 <= c.first
  <2> TAKE c \in accepted
  <2>1. c.first \in Nat /\ c.last \in Nat /\ c.first <= c.last
    <3>1. c \in Candidates
        BY DEF Candidates
    <3> QED BY <3>1, CorridorPlaces DEF ResolutionInv, TodoInv
  <2>2. c.first # n
      BY DEF Begins
  <2>3. c.last < n \/ n <= c.first
      BY DEF WalkedTo
  <2> QED BY <1>1, <2>1, <2>2, <2>3
<1>8. SavedUntil(n + 1) = SavedUntil(n) /\ Behind(n + 1) = Behind(n)
  <2>1. \A c \in accepted : c.last < n + 1 <=> c.last < n
    <3> TAKE c \in accepted
    <3>1. c \in Candidates
        BY DEF Candidates
    <3>2. c.first \in Nat /\ c.last \in Nat /\ c.first <= c.last
        BY <3>1, CorridorPlaces DEF ResolutionInv, TodoInv
    <3>3. c.first # n /\ (c.last < n \/ n <= c.first)
        BY DEF Begins, WalkedTo
    <3> QED BY <1>1, <3>2, <3>3
  <2>2. Behind(n + 1) = Behind(n)
      BY <2>1 DEF Behind
  <2> QED BY <2>2 DEF SavedUntil
<1>9. AsPromised(n + 1, u)
  <2>1. AsPromised(n, t) /\ SavedUntil(n) \in Nat
      BY Savings DEF WalkedTo
  <2>2. CoarseEnd((n + 1) - 1) - u = CoarseEnd(n - 1) - t
      BY <1>1, <1>2, <1>3 DEF u
  <2> QED BY <1>8, <2>1, <2>2, Zenon DEF AsPromised
<1>10. ASSUME NEW i \in 1 .. n PROVE new[i].end <= CoarseEnd(i) /\ new[i].end <= u /\ AloneOrLaid(new, i)
  <2>1. CASE i \in 1 .. n - 1
    <3>1. tl[i].end <= CoarseEnd(i) /\ tl[i].end <= t /\ AloneOrLaid(tl, i)
        BY <2>1 DEF WalkedTo
    <3>2. AloneOrLaid(tl \o << e >>, i)
        BY <1>1, <1>6, <2>1, <3>1, LaidStays
    <3>3. AloneOrLaid(new, i)
      <4>1. new = tl \o << e >>
          BY <1>6
      <4> QED BY <3>2, <4>1, Zenon
    <3>4. new[i] = tl[i] /\ tl[i].end \in Int /\ tl[i].end <= t /\ t \in Int /\ u \in Int /\ t <= u
        BY <1>1, <1>4, <1>6, <2>1
    <3>5. new[i].end <= u
        BY <3>4
    <3> QED BY <3>1, <3>3, <3>4, <3>5, Zenon
  <2>2. CASE i = n
      BY <1>4, <1>5, <1>6, <2>2 DEF AloneOrLaid
  <2> QED BY <1>1, <2>1, <2>2
<1>11. ASSUME NEW i \in 1 .. n, NEW j \in 1 .. n, i < j PROVE new[i].end <= new[j].end /\ AfterOrTogether(new[i], new[j])
  <2>1. CASE j \in 1 .. n - 1
    <3>1. i \in 1 .. n - 1
        BY <1>1, <1>11, <2>1
    <3> QED BY <1>6, <1>11, <2>1, <3>1 DEF WalkedTo
  <2>2. CASE j = n
    <3>1. i \in 1 .. n - 1
        BY <1>1, <1>11, <2>2
    <3>2. Spans(new[j].line) = {}
      <4>1. new[j].line = << >>
          BY <1>5, <1>6, <2>2
      <4> QED BY <4>1 DEF Spans, Range
    <3>3. new[i].end <= new[j].end
        BY <1>1, <1>4, <1>5, <1>6, <2>2, <3>1
    <3> QED BY <3>2, <3>3 DEF AfterOrTogether
  <2> QED BY <1>1, <2>1, <2>2
<1>12. WalkedTo(new, n + 1, u)
    BY <1>2, <1>4, <1>6, <1>7, <1>9, <1>10, <1>11 DEF WalkedTo
<1> QED
    BY <1>12 DEF new, e, u

LEMMA Concatenated ==
    ASSUME NEW a \in Seq(Entry), NEW b \in Seq(Entry)
    PROVE  /\ a \o b \in Seq(Entry) /\ Len(a \o b) = Len(a) + Len(b)
           /\ \A i \in 1 .. Len(a) : (a \o b)[i] = a[i]
           /\ \A k \in 1 .. Len(b) : (a \o b)[Len(a) + k] = b[k]
OBVIOUS

LaidEntries(c, m) == [k \in 1 .. Count(c) |-> LaidEntry(c, k, m)]

LEMMA LaidEntriesAre ==
    ASSUME ResolutionInv, CandidatesInv, NEW c \in accepted, NEW m \in Int
    PROVE  /\ LaidEntries(c, m) \in Seq(Entry) /\ Len(LaidEntries(c, m)) = Count(c) /\ Count(c) \in Nat \ {0}
           /\ \A k \in 1 .. Count(c) : /\ LaidEntries(c, m)[k] = LaidEntry(c, k, m)
                                       /\ LaidEntry(c, k, m) \in Entry
                                       /\ LaidEntry(c, k, m).end = m + End(c.lines[k])
                                       /\ LaidEntry(c, k, m).corridor = c.first
                                       /\ LaidEntry(c, k, m).line = Shifted(c.lines[k], m)
                                       /\ End(c.lines[k]) \in Nat /\ c.lines[k] \in Line
<1>1. ACase /\ Finished(c, c.lines)
    BY AcceptedIsFinished
<1>2. Count(c) \in Nat \ {0} /\ c.lines \in Seq(Line) /\ Len(c.lines) = Count(c) /\ c.first \in Nat
    BY <1>1, CountsAreNatural, CorridorPlaces DEF Finished, BuiltLines
<1>3. \A k \in 1 .. Count(c) : c.lines[k] \in Line /\ End(c.lines[k]) \in Nat
    BY <1>1, <1>2, FinishedIsNeat DEF Neat
<1>4. ASSUME NEW k \in 1 .. Count(c) PROVE LaidEntry(c, k, m) \in Entry
  <2>1. Shifted(c.lines[k], m) \in Line /\ m + End(c.lines[k]) \in Int
      BY <1>3, ShiftedLine
  <2> QED BY <1>2, <2>1 DEF LaidEntry, Entry
<1>5. LaidEntries(c, m) \in Seq(Entry) /\ Len(LaidEntries(c, m)) = Count(c)
    BY <1>2, <1>4 DEF LaidEntries
<1>6. \A k \in 1 .. Count(c) : LaidEntries(c, m)[k] = LaidEntry(c, k, m)
    BY DEF LaidEntries
<1>7. \A k \in 1 .. Count(c) : /\ LaidEntry(c, k, m).end = m + End(c.lines[k])
                               /\ LaidEntry(c, k, m).corridor = c.first
                               /\ LaidEntry(c, k, m).line = Shifted(c.lines[k], m)
    BY DEF LaidEntry
<1> QED
    BY <1>2, <1>3, <1>4, <1>5, <1>6, <1>7

\* What a corridor adds to the savings.
LEMMA SavingsOfCorridor ==
    ASSUME ResolutionInv, CandidatesInv, NEW n \in Nat, NEW c \in accepted, c.first = n,
           \A d \in accepted : d.last < n \/ n <= d.first
    PROVE  /\ SavedUntil(c.last + 1) = SavedUntil(n) + c.saved
           /\ Behind(c.last + 1) = Behind(n) \cup {c}
           /\ \A d \in accepted : d.last < c.last + 1 \/ c.last + 1 <= d.first
<1> DEFINE f == [d \in accepted |-> d.saved]
           S == Behind(n)
<1>1. c.first \in Nat \ {0} /\ c.last \in Nat /\ c.first <= c.last
  <2>1. c \in Candidates
      BY DEF Candidates
  <2> QED BY <2>1, CorridorPlaces DEF ResolutionInv, TodoInv
<1>2. \A d \in accepted : d # c => /\ d.first \in Nat /\ d.last \in Nat /\ d.first <= d.last
                                   /\ c.last < d.first \/ d.last < c.first
    BY CorridorsApart
<1>3. \A d \in accepted : d # c => (d.last < c.last + 1 <=> d.last < n)
    BY <1>1, <1>2
<1>4. c.last < c.last + 1 /\ ~(c.last < n)
    BY <1>1
<1>5. Behind(c.last + 1) = S \cup {c} /\ c \notin S
    BY <1>3, <1>4 DEF Behind
<1>6. Summable(f, S)
    BY Savings
<1>7. f[c] = c.saved /\ c.saved \in Int
    BY AcceptedIsFinished
<1> HIDE DEF f, S
<1>8. SumFunctionOnSet(f, S \cup {c}) = SumFunctionOnSet(f, S) + f[c]
    BY <1>5, <1>6, <1>7, SumInsert
<1>9. SavedUntil(c.last + 1) = SavedUntil(n) + c.saved
    BY <1>5, <1>7, <1>8 DEF SavedUntil, f, S
<1>10. \A d \in accepted : d.last < c.last + 1 \/ c.last + 1 <= d.first
    BY <1>1, <1>2
<1> QED
    BY <1>5, <1>9, <1>10 DEF S

\* An accepted corridor follows what was walked over.
LEMMA CorridorWalked ==
    ASSUME ResolutionInv, CandidatesInv, NEW tl, NEW n, NEW t, WalkedTo(tl, n, t), NEW c \in accepted, c.first = n
    PROVE  WalkedTo(tl \o LaidEntries(c, t), c.last + 1, t + Latest(c.lines))
<1> DEFINE u == t + Latest(c.lines)
           more == LaidEntries(c, t)
           new == tl \o more
           cnt == Count(c)
           m == c.last + 1
           L(k) == End(c.lines[k])
<1>1. /\ ACase /\ n \in Nat \ {0} /\ n <= Len(plan) + 1 /\ Len(plan) \in Nat /\ n - 1 \in 0 .. Len(plan)
      /\ tl \in Seq(Entry) /\ Len(tl) = n - 1 /\ t \in Int /\ t <= CoarseEnd(n - 1) /\ CoarseEnd(n - 1) \in Nat
      /\ \A i \in 1 .. n - 1 : tl[i] \in Entry /\ tl[i].end \in Int /\ tl[i].end <= t /\ CoarseEnd(i) \in Nat
    BY NotLate
<1>2. /\ Finished(c, c.lines) /\ c.saved \in Nat /\ c.saved = Original(c) - Latest(c.lines)
      /\ Original(c) = UpTo(c, cnt) /\ Original(c) \in Int /\ Latest(c.lines) = L(cnt) /\ Latest(c.lines) \in Nat
    BY AcceptedIsFinished, LatestIsLast
<1>3. IsCorridor(c) /\ Neat(c, c.lines)
    BY <1>1, <1>2, FinishedIsNeat DEF Finished
<1>4. /\ c.last \in Nat /\ c.last <= Len(plan) /\ cnt \in Nat \ {0} /\ n - 1 + cnt = c.last
      /\ \A k \in 1 .. cnt : Place(c, k) = n - 1 + k
  <2>1. c.last \in Nat /\ c.last <= Len(plan) /\ cnt \in Nat \ {0}
      BY <1>1, <1>3, CorridorPlaces
  <2>2. cnt = c.last - n + 1 /\ \A k : Place(c, k) = n + k - 1
      BY DEF Count, Place
  <2> HIDE DEF cnt
  <2>3. n - 1 + cnt = c.last /\ \A k \in 1 .. cnt : Place(c, k) = n - 1 + k
    <3>1. n - 1 + cnt = c.last
        BY <1>1, <2>1, <2>2
    <3>2. \A k \in 1 .. cnt : n + k - 1 = n - 1 + k
        BY <1>1, <2>1
    <3> QED BY <2>2, <3>1, <3>2
  <2> QED BY <2>1, <2>3
<1>5. \A k \in 1 .. cnt : /\ L(k) \in Nat /\ L(k) <= UpTo(c, k) /\ L(k) <= L(cnt)
                          /\ UpTo(c, k) \in Int /\ CoarseEnd(n - 1 + k) \in Nat
                          /\ CoarseEnd(n - 1 + k) >= CoarseEnd(n - 1) + UpTo(c, k)
                          /\ MeasuredAlike(c) => CoarseEnd(n - 1 + k) = CoarseEnd(n - 1) + UpTo(c, k)
  <2> TAKE k \in 1 .. cnt
  <2>1. L(k) \in Nat /\ L(k) <= UpTo(c, k) /\ (k < cnt => L(k) <= L(cnt))
      BY <1>3, <1>4 DEF Neat
  <2>2. L(k) <= L(cnt)
      BY <1>4, <2>1
  <2>3. UpTo(c, k) \in Int
      BY <1>1, <1>3, UpToSteps
  <2>4. /\ CoarseEnd(n - 1 + k) >= CoarseEnd(n - 1) + UpTo(c, k)
        /\ MeasuredAlike(c) => CoarseEnd(n - 1 + k) = CoarseEnd(n - 1) + UpTo(c, k)
    <3>1. k \in 0 .. Count(c)
        BY <1>4
    <3>2. Fits(c, k)
        BY <1>1, <1>3, <3>1, CoarseEndInCorridor
    <3> QED BY <3>2 DEF Fits
  <2>5. CoarseEnd(n - 1 + k) \in Nat
    <3>1. n - 1 + k \in 0 .. Len(plan)
        BY <1>1, <1>4
    <3> QED BY <1>1, <3>1, CoarseEnds
  <2> QED BY <2>1, <2>2, <2>3, <2>4, <2>5
<1>6. \A j, k \in 1 .. cnt : j < k => L(j) <= L(k)
    BY <1>3 DEF Neat
<1>7. /\ more \in Seq(Entry) /\ Len(more) = cnt
      /\ \A k \in 1 .. cnt : more[k] = LaidEntry(c, k, t) /\ more[k].end = t + L(k) /\ more[k].corridor = n
                             /\ more[k].line = Shifted(c.lines[k], t) /\ c.lines[k] \in Line
  <2>1. /\ more \in Seq(Entry) /\ Len(more) = cnt
        /\ \A k \in 1 .. cnt : /\ more[k] = LaidEntry(c, k, t)
                               /\ LaidEntry(c, k, t).end = t + L(k)
                               /\ LaidEntry(c, k, t).corridor = c.first
                               /\ LaidEntry(c, k, t).line = Shifted(c.lines[k], t)
                               /\ c.lines[k] \in Line
    <3>1. t \in Int
        BY <1>1
    <3> QED BY <3>1, LaidEntriesAre
  <2> HIDE DEF more, cnt, L
  <2> QED BY <2>1
<1>8. /\ SavedUntil(m) = SavedUntil(n) + c.saved /\ SavedUntil(n) \in Nat /\ Behind(m) = Behind(n) \cup {c}
      /\ \A d \in accepted : d.last < m \/ m <= d.first
  <2>1. \A d \in accepted : d.last < n \/ n <= d.first
      BY DEF WalkedTo
  <2> QED BY <1>1, <2>1, SavingsOfCorridor, Savings
<1>9. \A k \in 1 .. cnt : \A s \in Spans(Shifted(c.lines[k], t)) : t <= s.from
  <2> TAKE k \in 1 .. cnt
  <2> TAKE s \in Spans(Shifted(c.lines[k], t))
  <2>1. PICK r \in Spans(c.lines[k]) : r \in Spanned /\ s.from = r.from + t
      BY <1>1, <1>7, ShiftedLine
  <2>2. 0 <= r.from /\ r.from \in Int
      BY <1>3, <2>1 DEF Neat, Spanned
  <2> QED BY <1>1, <2>1, <2>2
<1> HIDE DEF u, more, cnt, m, L
<1>10. u \in Int /\ u = t + L(cnt) /\ t <= u
    BY <1>1, <1>2 DEF u
<1>11. m \in Nat \ {0} /\ m <= Len(plan) + 1 /\ m - 1 = c.last /\ m - 1 = n - 1 + cnt
    BY <1>1, <1>4 DEF m
<1>12. /\ new \in Seq(Entry) /\ Len(new) = m - 1 /\ DOMAIN new = 1 .. m - 1
       /\ \A i \in 1 .. n - 1 : new[i] = tl[i]
       /\ \A k \in 1 .. cnt : n - 1 + k \in 1 .. m - 1 /\ new[n - 1 + k] = more[k]
       /\ \A i \in 1 .. m - 1 : i \notin 1 .. n - 1 => i - (n - 1) \in 1 .. cnt /\ n - 1 + (i - (n - 1)) = i
  <2>0. /\ new \in Seq(Entry) /\ Len(new) = Len(tl) + Len(more)
        /\ \A i \in 1 .. Len(tl) : new[i] = tl[i]
        /\ \A k \in 1 .. Len(more) : new[Len(tl) + k] = more[k]
      BY <1>1, <1>7, Concatenated
  <2> HIDE DEF new
  <2>1. new \in Seq(Entry)
      BY <2>0
  <2>2. Len(new) = m - 1
      BY <1>1, <1>7, <1>11, <2>0
  <2>3. DOMAIN new = 1 .. m - 1
      BY <2>1, <2>2
  <2>4. \A i \in 1 .. n - 1 : new[i] = tl[i]
      BY <1>1, <2>0
  <2>5. \A k \in 1 .. cnt : new[n - 1 + k] = more[k]
      BY <1>1, <1>7, <2>0
  <2>6. \A k \in 1 .. cnt : n - 1 + k \in 1 .. m - 1
      BY <1>1, <1>4, <1>11
  <2>7. \A i \in 1 .. m - 1 : i \notin 1 .. n - 1 => i - (n - 1) \in 1 .. cnt /\ n - 1 + (i - (n - 1)) = i
      BY <1>1, <1>4, <1>11
  <2> QED BY <2>1, <2>2, <2>3, <2>4, <2>5, <2>6, <2>7
<1>13. LaidIn(new, c, t)
    BY <1>4, <1>7, <1>12 DEF LaidIn, cnt
<1>14. \A i \in 1 .. n - 1 : AloneOrLaid(new, i)
  <2> TAKE i \in 1 .. n - 1
  <2>1. AloneOrLaid(tl, i) /\ i \in 1 .. Len(tl)
      BY <1>1 DEF WalkedTo
  <2> QED BY <1>1, <1>7, <2>1, LaidStays
<1> HIDE DEF new
<1>15. AsPromised(m, u)
  <2>1. /\ CoarseEnd(n - 1) - t >= SavedUntil(n)
        /\ (\A d \in Behind(n) : MeasuredAlike(d)) => CoarseEnd(n - 1) - t = SavedUntil(n)
      BY DEF WalkedTo, AsPromised
  <2>2. /\ CoarseEnd(m - 1) >= CoarseEnd(n - 1) + UpTo(c, cnt) /\ CoarseEnd(m - 1) \in Nat
        /\ MeasuredAlike(c) => CoarseEnd(m - 1) = CoarseEnd(n - 1) + UpTo(c, cnt)
        /\ L(cnt) \in Nat /\ UpTo(c, cnt) \in Int /\ c.saved = UpTo(c, cnt) - L(cnt)
    <3>1. cnt \in 1 .. cnt
        BY <1>4
    <3> QED BY <1>2, <1>5, <1>11, <3>1
  <2>3. CoarseEnd(m - 1) - u >= SavedUntil(m)
      BY <1>1, <1>2, <1>8, <1>10, <2>1, <2>2, SMTT(30)
  <2>4. ASSUME \A d \in Behind(m) : MeasuredAlike(d) PROVE CoarseEnd(m - 1) - u = SavedUntil(m)
    <3>1. CoarseEnd(n - 1) - t = SavedUntil(n) /\ CoarseEnd(m - 1) = CoarseEnd(n - 1) + UpTo(c, cnt)
        BY <1>8, <2>1, <2>2, <2>4, Zenon
    <3> QED BY <1>1, <1>2, <1>8, <1>10, <2>2, <3>1, SMTT(30)
  <2> QED BY <2>3, <2>4 DEF AsPromised
<1>16. ASSUME NEW i \in 1 .. m - 1 PROVE new[i].end <= CoarseEnd(i) /\ new[i].end <= u /\ AloneOrLaid(new, i)
  <2>1. CASE i \in 1 .. n - 1
    <3>1. tl[i].end <= CoarseEnd(i) /\ tl[i].end <= t /\ tl[i].end \in Int /\ new[i] = tl[i]
        BY <1>1, <1>12, <2>1 DEF WalkedTo
    <3>2. tl[i].end <= u
        BY <1>1, <1>10, <3>1
    <3> QED BY <1>14, <2>1, <3>1, <3>2
  <2>2. CASE i \notin 1 .. n - 1
    <3>1. PICK k \in 1 .. cnt : i = n - 1 + k
        BY <1>12, <2>2
    <3>2. new[i].end = t + L(k)
        BY <1>7, <1>12, <3>1
    <3>3. L(k) \in Nat /\ L(k) <= UpTo(c, k) /\ L(k) <= L(cnt) /\ UpTo(c, k) \in Int
          /\ CoarseEnd(i) >= CoarseEnd(n - 1) + UpTo(c, k) /\ CoarseEnd(i) \in Nat /\ L(cnt) \in Nat
      <4>1. cnt \in 1 .. cnt
          BY <1>4
      <4>2. L(cnt) \in Nat
          BY <1>5, <4>1
      <4>3. /\ L(k) \in Nat /\ L(k) <= UpTo(c, k) /\ L(k) <= L(cnt) /\ UpTo(c, k) \in Int
            /\ CoarseEnd(n - 1 + k) >= CoarseEnd(n - 1) + UpTo(c, k) /\ CoarseEnd(n - 1 + k) \in Nat
          BY <1>5
      <4> QED BY <3>1, <4>2, <4>3
    <3>4. new[i].end <= CoarseEnd(i) /\ new[i].end <= u
      <4>1. t \in Int /\ t <= CoarseEnd(n - 1) /\ CoarseEnd(n - 1) \in Nat /\ u = t + L(cnt)
          BY <1>1, <1>10
      <4> QED BY <3>2, <3>3, <4>1, SMTT(30)
    <3>5. i \in Batches(c)
        BY <1>1, <1>4, <3>1 DEF Batches
    <3>6. AloneOrLaid(new, i)
        BY <1>1, <1>13, <3>5 DEF AloneOrLaid
    <3> QED BY <3>4, <3>6
  <2> QED BY <2>1, <2>2
<1>17. ASSUME NEW i \in 1 .. m - 1, NEW j \in 1 .. m - 1, i < j
       PROVE  new[i].end <= new[j].end /\ AfterOrTogether(new[i], new[j])
  <2>1. CASE j \in 1 .. n - 1
    <3>1. i \in 1 .. n - 1
        BY <1>1, <1>17, <2>1
    <3>2. tl[i].end <= tl[j].end /\ AfterOrTogether(tl[i], tl[j])
        BY <1>17, <2>1, <3>1 DEF WalkedTo
    <3> QED BY <1>12, <2>1, <3>1, <3>2
  <2>2. CASE j \notin 1 .. n - 1
    <3>1. PICK k \in 1 .. cnt : j = n - 1 + k
        BY <1>12, <2>2
    <3>2. /\ new[j].end = t + L(k) /\ new[j].corridor = n /\ new[j].line = Shifted(c.lines[k], t)
          /\ L(k) \in Nat
        BY <1>5, <1>7, <1>12, <3>1
    <3>3. CASE i \in 1 .. n - 1
      <4>1. new[i].end \in Int /\ new[i].end <= t
          BY <1>1, <1>12, <3>3
      <4>2. new[i].end <= new[j].end
          BY <1>1, <3>2, <4>1
      <4>3. \A s \in Spans(new[j].line) : s.from \in Int /\ t <= s.from
        <5> TAKE s \in Spans(new[j].line)
        <5>1. t <= s.from
            BY <1>9, <3>2
        <5>2. \E r \in Spans(c.lines[k]) : r \in Spanned /\ s.from = r.from + t
            BY <1>1, <1>7, <3>2, ShiftedLine, SMTT(30)
        <5> QED BY <1>1, <5>1, <5>2 DEF Spanned
      <4>4. \A s \in Spans(new[j].line) : new[i].end <= s.from
          BY <1>1, <4>1, <4>3
      <4> QED BY <4>2, <4>4 DEF AfterOrTogether
    <3>4. CASE i \notin 1 .. n - 1
      <4>1. PICK l \in 1 .. cnt : i = n - 1 + l
          BY <1>12, <3>4
      <4>2. new[i].end = t + L(l) /\ new[i].corridor = n /\ L(l) \in Nat
          BY <1>5, <1>7, <1>12, <4>1
      <4>3. l < k
          BY <1>1, <1>17, <3>1, <4>1
      <4>4. new[i].end <= new[j].end
          BY <1>1, <1>6, <3>2, <4>2, <4>3
      <4> QED BY <1>1, <3>2, <4>2, <4>4 DEF AfterOrTogether
    <3> QED BY <3>3, <3>4
  <2> QED BY <2>1, <2>2
<1>18. WalkedTo(new, m, u)
    BY <1>8, <1>10, <1>11, <1>12, <1>15, <1>16, <1>17 DEF WalkedTo
<1> QED
    BY <1>18 DEF new, m, u, more

RefinementInv == ResolutionInv /\ CandidatesInv /\ TimelineInv

LEMMA WalkIsFixed ==
    ASSUME plan' = plan, accepted' = accepted, NEW tl, NEW n, NEW t
    PROVE  WalkedTo(tl, n, t)' <=> WalkedTo(tl, n, t)
<1>1. \A i : CoarseEnd(i)' = CoarseEnd(i)
    BY DEF CoarseEnd, Latencies
<1>2. \A i : SavedUntil(i)' = SavedUntil(i)
    BY DEF SavedUntil, Behind
<1>3. \A i : AloneOrLaid(tl, i)' <=> AloneOrLaid(tl, i)
    BY DEF AloneOrLaid
<1>4. AsPromised(n, t)' <=> AsPromised(n, t)
  <2>1. \A c : MeasuredAlike(c)' <=> MeasuredAlike(c)
      BY DEF MeasuredAlike
  <2>2. Behind(n)' = Behind(n)
      BY DEF Behind
  <2> QED BY <1>1, <1>2, <2>1, <2>2 DEF AsPromised
<1> QED
    BY <1>1, <1>3, <1>4 DEF WalkedTo

LEMMA InitRefinement == Init => RefinementInv
<1> SUFFICES ASSUME Init PROVE RefinementInv
    OBVIOUS
<1>1. ResolutionInv /\ CandidatesInv
    BY InitResolution, InitCandidates
<1>2. timeline = << >> /\ at = 1 /\ cursor = 0
    BY DEF Init
<1>3. WalkedTo(timeline, at, cursor)
    BY <1>1, <1>2, WalkBegins
<1> QED
    BY <1>1, <1>2, <1>3 DEF RefinementInv, TimelineInv

\* As long as there is something to decide about, the walk has not begun.
LEMMA NotYetWalking ==
    ASSUME RefinementInv, ~Decided
    PROVE  at = 1 /\ timeline = << >> /\ cursor = 0
<1>1. ResolutionInv /\ CandidatesInv /\ WalkedTo(timeline, at, cursor) /\ ~(at > 1)
    BY DEF RefinementInv, TimelineInv
<1>2. /\ at \in Nat \ {0} /\ timeline \in Seq(Entry) /\ Len(timeline) = at - 1
      /\ cursor \in Int /\ AsPromised(at, cursor)
    BY <1>1 DEF WalkedTo
<1>3. at = 1
    BY <1>1, <1>2
<1>4. timeline = << >>
    BY <1>2, <1>3
<1>5. cursor = 0
  <2>1. Behind(1) = {} /\ SavedUntil(1) = 0 /\ CoarseEnd(1 - 1) = 0
      BY <1>1, WalkBegins
  <2>2. CoarseEnd(1 - 1) - cursor = SavedUntil(1)
      BY <1>2, <1>3, <2>1 DEF AsPromised
  <2> QED BY <1>2, <2>1, <2>2
<1> QED
    BY <1>3, <1>4, <1>5

LEMMA WalkBeginsNext == ResolutionInv' => WalkedTo(<< >>, 1, 0)'
<1>1. ResolutionInv => WalkedTo(<< >>, 1, 0)
    BY WalkBegins
<1> QED
    BY <1>1, PTL

\* Expand, Refine and Resolve leave the empty timeline alone.
LEMMA StillNotWalking ==
    ASSUME RefinementInv, ~Decided, ResolutionInv', UNCHANGED << at, cursor, timeline >>
    PROVE  TimelineInv'
<1>1. at' = 1 /\ timeline' = << >> /\ cursor' = 0
    BY NotYetWalking
<1>2. WalkedTo(<< >>, 1, 0)'
    BY WalkBeginsNext
<1>3. WalkedTo(timeline, at, cursor)'
    BY <1>1, <1>2
<1> QED
    BY <1>1, <1>3 DEF TimelineInv

LEMMA WalkGoesOn ==
    ASSUME UNCHANGED << plan, todo, pool, accepted >>, Decided, WalkedTo(timeline', at', cursor')
    PROVE  TimelineInv'
<1>1. PICK tl, n, t : tl = timeline' /\ n = at' /\ t = cursor'
    OBVIOUS
<1>2. WalkedTo(tl, n, t)
    BY <1>1
<1>3. WalkedTo(tl, n, t)'
    BY <1>2, WalkIsFixed
<1>4. WalkedTo(timeline, at, cursor)'
    BY <1>1, <1>3
<1> QED
    BY <1>4 DEF TimelineInv, Decided

LEMMA TimelineFixed ==
    ASSUME TimelineInv, UNCHANGED << plan, todo, pool, accepted, timeline, at, cursor >>
    PROVE  TimelineInv'
<1>1. PICK tl, n, t : tl = timeline /\ n = at /\ t = cursor
    OBVIOUS
<1>2. WalkedTo(tl, n, t)'
    BY <1>1, WalkIsFixed DEF TimelineInv
<1>3. WalkedTo(timeline, at, cursor)'
    BY <1>1, <1>2
<1> QED
    BY <1>3 DEF TimelineInv, Decided

LEMMA NextRefinement == RefinementInv /\ [Next]_vars => RefinementInv'
<1> SUFFICES ASSUME RefinementInv, [Next]_vars PROVE RefinementInv'
    OBVIOUS
<1>1. ResolutionInv /\ CandidatesInv /\ TimelineInv /\ WalkedTo(timeline, at, cursor)
    BY DEF RefinementInv, TimelineInv
<1>2. ResolutionInv'
    BY <1>1, NextResolution
<1>3. CASE Expand
  <2>1. CandidatesInv'
      BY <1>1, <1>3, ExpandCandidates
  <2>2. ~Decided /\ UNCHANGED << at, cursor, timeline >>
      BY <1>3 DEF Expand, Decided
  <2>3. TimelineInv'
      BY <1>2, <2>2, StillNotWalking
  <2> QED BY <1>2, <2>1, <2>3 DEF RefinementInv
<1>4. CASE Refine
  <2>1. CandidatesInv'
      BY <1>1, <1>4, RefineCandidates
  <2>2. ~Decided /\ UNCHANGED << at, cursor, timeline >>
      BY <1>4 DEF Refine, Decided
  <2>3. TimelineInv'
      BY <1>2, <2>2, StillNotWalking
  <2> QED BY <1>2, <2>1, <2>3 DEF RefinementInv
<1>5. CASE Resolve
  <2>1. CandidatesInv'
      BY <1>1, <1>5, ResolveCandidates
  <2>2. ~Decided /\ UNCHANGED << at, cursor, timeline >>
      BY <1>5 DEF Resolve, Decided
  <2>3. TimelineInv'
      BY <1>2, <2>2, StillNotWalking
  <2> QED BY <1>2, <2>1, <2>3 DEF RefinementInv
<1>6. CASE WalkBatch
  <2>1. /\ Decided /\ at <= Len(plan) /\ Begins(at) = {}
        /\ timeline' = Append(timeline, Coarse(at)) /\ cursor' = cursor + BatchLatency("COMBINED", plan[at]) /\ at' = at + 1
        /\ UNCHANGED << plan, policy, todo, lines, pool, accepted, rejected, verdict >>
      BY <1>6 DEF WalkBatch
  <2>2. CandidatesInv'
      BY <1>1, <2>1, UnchangedCandidates
  <2>3. Coarse(at) = CoarseEntry(at, cursor)
      BY DEF Coarse, CoarseEntry
  <2>4. WalkedTo(timeline', at', cursor')
      BY <1>1, <2>1, <2>3, BatchWalked
  <2>5. TimelineInv'
      BY <2>1, <2>4, WalkGoesOn
  <2> QED BY <1>2, <2>2, <2>5 DEF RefinementInv
<1>7. CASE WalkCorridor
  <2>1. PICK c \in Begins(at) :
            timeline' = timeline \o Refined(c) /\ cursor' = cursor + Latest(c.lines) /\ at' = c.last + 1
      BY <1>7 DEF WalkCorridor
  <2>2. Decided /\ UNCHANGED << plan, policy, todo, lines, pool, accepted, rejected, verdict >>
      BY <1>7 DEF WalkCorridor
  <2>3. CandidatesInv'
      BY <1>1, <2>2, UnchangedCandidates
  <2>4. c \in accepted /\ c.first = at
      BY <2>1 DEF Begins
  <2>5. Refined(c) = LaidEntries(c, cursor)
    <3>1. Len(c.lines) = Count(c)
        BY <1>1, <2>4, AcceptedIsFinished DEF Finished
    <3> QED BY <3>1 DEF Refined, LaidEntries, LaidEntry
  <2>6. WalkedTo(timeline', at', cursor')
      BY <1>1, <2>1, <2>4, <2>5, CorridorWalked
  <2>7. TimelineInv'
      BY <2>2, <2>6, WalkGoesOn
  <2> QED BY <1>2, <2>3, <2>7 DEF RefinementInv
<1>8. CASE Conclude \/ UNCHANGED vars
  <2>1. UNCHANGED << plan, policy, todo, lines, pool, accepted, rejected, at, cursor, timeline >>
      BY <1>8 DEF Conclude, vars
  <2>2. CandidatesInv' /\ TimelineInv'
      BY <1>1, <2>1, UnchangedCandidates, TimelineFixed
  <2> QED BY <1>2, <2>2 DEF RefinementInv
<1> QED
    BY <1>3, <1>4, <1>5, <1>6, <1>7, <1>8 DEF Next

LEMMA SpecRefinement == Spec => []RefinementInv
BY InitRefinement, NextRefinement, PTL DEF Spec

-----------------------------------------------------------------------------
LEMMA WalkIsAsPromised == RefinementInv => SavedAsPromised
<1> SUFFICES ASSUME RefinementInv PROVE SavedAsPromised
    OBVIOUS
<1>1. ResolutionInv /\ CandidatesInv /\ WalkedTo(timeline, at, cursor)
    BY DEF RefinementInv, TimelineInv
<1>2. timeline \in Seq(Entry) /\ Len(timeline) = at - 1 /\ at \in Nat \ {0} /\ DOMAIN timeline = 1 .. at - 1
    BY <1>1, NotLate
<1>3. OrderKept
    BY <1>1, <1>2 DEF OrderKept, WalkedTo
<1>4. \A i \in DOMAIN timeline : timeline[i].end <= CoarseEnd(i)
    BY <1>1, <1>2 DEF WalkedTo
<1>5. AsPromised(at, cursor)
    BY <1>1 DEF WalkedTo
<1> QED
    BY <1>3, <1>4, <1>5 DEF SavedAsPromised, AsPromised, SavedUntil, Behind

\* For every plan and policy: on the refined timeline every batch ends no later than
\* in the plan the scheduler made, in its order, and the walk is at least as much earlier
\* as the accepted corridors promised, and just as much where the files agree about how
\* long their batches take (refine_case and _refine_corridor of both refiners).
THEOREM RefinedInTime == Spec => []SavedAsPromised
BY SpecRefinement, WalkIsAsPromised, PTL

-----------------------------------------------------------------------------
(* Two batches of the timeline                                             *)

\* Batches i and j are neighbours of the corridor c, which was laid from m on.
IsPair(c, k, m, i, j) ==
    /\ c \in accepted /\ m \in Int /\ k \in 1 .. Count(c) - 1
    /\ i = Place(c, k) /\ j = Place(c, k + 1)
    /\ timeline[i] = LaidEntry(c, k, m) /\ timeline[j] = LaidEntry(c, k + 1, m)

Neighbours(i, j) == \E c, k, m : IsPair(c, k, m, i, j)

Later(i, j) == \A s \in Spans(timeline[j].line) : timeline[i].end <= s.from

LEMMA TimelineFacts ==
    ASSUME RefinementInv
    PROVE  /\ ACase /\ ResolutionInv /\ CandidatesInv
           /\ DOMAIN timeline = 1 .. Len(timeline) /\ Len(timeline) \in Nat /\ Len(timeline) <= Len(plan) /\ Len(plan) \in Nat
           /\ \A i \in DOMAIN timeline : timeline[i] \in Entry /\ timeline[i].end \in Int /\ AloneOrLaid(timeline, i)
           /\ \A i, j \in DOMAIN timeline : i < j => AfterOrTogether(timeline[i], timeline[j])
<1>1. ResolutionInv /\ CandidatesInv /\ WalkedTo(timeline, at, cursor)
    BY DEF RefinementInv, TimelineInv
<1>2. /\ timeline \in Seq(Entry) /\ Len(timeline) = at - 1 /\ at \in Nat \ {0} /\ at <= Len(plan) + 1 /\ ACase /\ Len(plan) \in Nat
      /\ \A i \in 1 .. at - 1 : timeline[i] \in Entry /\ timeline[i].end \in Int
    BY <1>1, NotLate
<1>3. DOMAIN timeline = 1 .. at - 1
    BY <1>2
<1> QED
    BY <1>1, <1>2, <1>3 DEF WalkedTo

\* Batches of one corridor have their places in one laying of it.
LEMMA SameCorridorLaid ==
    ASSUME RefinementInv, NEW i \in DOMAIN timeline, NEW j \in DOMAIN timeline,
           timeline[i].corridor # 0, timeline[i].corridor = timeline[j].corridor
    PROVE  \E c \in accepted : \E m \in Int : LaidIn(timeline, c, m) /\ i \in Batches(c) /\ j \in Batches(c)
<1>1. AloneOrLaid(timeline, i) /\ AloneOrLaid(timeline, j) /\ ACase /\ ResolutionInv /\ CandidatesInv
    BY TimelineFacts
<1>2. PICK c \in accepted, m \in Int : i \in Batches(c) /\ LaidIn(timeline, c, m)
    BY <1>1 DEF AloneOrLaid, Bare
<1>3. PICK d \in accepted, n \in Int : j \in Batches(d) /\ LaidIn(timeline, d, n)
    BY <1>1 DEF AloneOrLaid, Bare
<1>4. c \in Candidates /\ d \in Candidates /\ IsCorridor(c) /\ IsCorridor(d)
    BY <1>1 DEF Candidates, ResolutionInv, TodoInv
<1>5. timeline[i].corridor = c.first
  <2>1. i - c.first + 1 \in 1 .. Count(c) /\ Place(c, i - c.first + 1) = i
      BY <1>1, <1>2, <1>4, CorridorPlaces
  <2>2. timeline[i] = LaidEntry(c, i - c.first + 1, m)
      BY <1>2, <2>1 DEF LaidIn
  <2> QED BY <2>2 DEF LaidEntry
<1>6. timeline[j].corridor = d.first
  <2>1. j - d.first + 1 \in 1 .. Count(d) /\ Place(d, j - d.first + 1) = j
      BY <1>1, <1>3, <1>4, CorridorPlaces
  <2>2. timeline[j] = LaidEntry(d, j - d.first + 1, n)
      BY <1>3, <2>1 DEF LaidIn
  <2> QED BY <2>2 DEF LaidEntry
<1>7. c = d
    BY <1>1, <1>4, <1>5, <1>6 DEF ResolutionInv, TodoInv
<1> QED
    BY <1>2, <1>3, <1>7

\* A span of a laid line is one of the line, shifted.
LEMMA LaidSpans ==
    ASSUME RefinementInv, NEW c \in accepted, NEW m \in Int, NEW k \in 1 .. Count(c)
    PROVE  /\ LaidEntry(c, k, m).end = m + End(c.lines[k]) /\ End(c.lines[k]) \in Nat
           /\ LaidEntry(c, k, m).corridor = c.first /\ c.first \in Nat \ {0}
           /\ DOMAIN LaidEntry(c, k, m).line = DOMAIN c.lines[k]
           /\ \A phase \in DOMAIN c.lines[k] :
                  /\ LaidEntry(c, k, m).line[phase].from = c.lines[k][phase].from + m
                  /\ LaidEntry(c, k, m).line[phase].to = c.lines[k][phase].to + m
                  /\ c.lines[k][phase] \in Spanned /\ c.lines[k][phase].to <= End(c.lines[k])
           /\ \A s \in Spans(LaidEntry(c, k, m).line) :
                  \E r \in Spans(c.lines[k]) : r \in Spanned /\ s.from = r.from + m /\ s.to = r.to + m
<1>1. ResolutionInv /\ CandidatesInv /\ ACase /\ Finished(c, c.lines)
    BY TimelineFacts, AcceptedIsFinished
<1>2. /\ LaidEntry(c, k, m).end = m + End(c.lines[k]) /\ LaidEntry(c, k, m).corridor = c.first
      /\ LaidEntry(c, k, m).line = Shifted(c.lines[k], m)
      /\ End(c.lines[k]) \in Nat /\ c.lines[k] \in Line
    BY <1>1, LaidEntriesAre
<1>3. c.first \in Nat \ {0}
    BY <1>1, CorridorPlaces DEF Finished
<1>4. /\ DOMAIN Shifted(c.lines[k], m) = DOMAIN c.lines[k]
      /\ \A phase \in DOMAIN c.lines[k] : /\ Shifted(c.lines[k], m)[phase].from = c.lines[k][phase].from + m
                                          /\ Shifted(c.lines[k], m)[phase].to = c.lines[k][phase].to + m
                                          /\ c.lines[k][phase] \in Spanned /\ c.lines[k][phase] \in Spans(c.lines[k])
      /\ \A s \in Spans(Shifted(c.lines[k], m)) :
             \E r \in Spans(c.lines[k]) : r \in Spanned /\ s.from = r.from + m /\ s.to = r.to + m
    BY <1>2, ShiftedLine
<1>5. \A s \in Spans(c.lines[k]) : s.to <= End(c.lines[k])
    BY <1>1, FinishedIsNeat DEF Neat
<1> QED
    BY <1>2, <1>3, <1>4, <1>5

\* Of two batches the later one begins when the earlier one has ended, or they are
\* neighbours of one corridor.
LEMMA LaterOrNeighbours ==
    ASSUME RefinementInv, NEW i \in DOMAIN timeline, NEW j \in DOMAIN timeline, i < j, ~Later(i, j)
    PROVE  Neighbours(i, j)
<1>1. ACase /\ ResolutionInv /\ CandidatesInv /\ AfterOrTogether(timeline[i], timeline[j])
    BY TimelineFacts
<1>2. timeline[i].corridor # 0 /\ timeline[i].corridor = timeline[j].corridor
    BY <1>1 DEF AfterOrTogether, Later
<1>3. PICK c \in accepted, m \in Int : LaidIn(timeline, c, m) /\ i \in Batches(c) /\ j \in Batches(c)
    BY <1>2, SameCorridorLaid
<1>4. Finished(c, c.lines) /\ IsCorridor(c) /\ Neat(c, c.lines)
    BY <1>1, AcceptedIsFinished, FinishedIsNeat DEF Finished
<1> DEFINE k == i - c.first + 1
           l == j - c.first + 1
<1>5. k \in 1 .. Count(c) /\ Place(c, k) = i /\ l \in 1 .. Count(c) /\ Place(c, l) = j
    BY <1>1, <1>3, <1>4, CorridorPlaces
<1>6. c.first \in Nat /\ Count(c) \in Nat /\ i \in Int /\ j \in Int
    BY <1>1, <1>4, CorridorPlaces, TimelineFacts
<1>7. k < l
    BY <1>6
<1> HIDE DEF k, l
<1>8. timeline[i] = LaidEntry(c, k, m) /\ timeline[j] = LaidEntry(c, l, m)
    BY <1>3, <1>5 DEF LaidIn
<1>9. ASSUME k + 1 < l PROVE FALSE
  <2>1. \A r \in Spans(c.lines[l]) : End(c.lines[k]) <= r.from
      BY <1>4, <1>5, <1>9 DEF Neat
  <2>2. timeline[i].end = m + End(c.lines[k]) /\ End(c.lines[k]) \in Nat
      BY <1>5, <1>8, LaidSpans
  <2>3. \A s \in Spans(timeline[j].line) : \E r \in Spans(c.lines[l]) : r \in Spanned /\ s.from = r.from + m
      BY <1>5, <1>8, LaidSpans
  <2>4. \A s \in Spans(timeline[j].line) : timeline[i].end <= s.from
      BY <2>1, <2>2, <2>3 DEF Spanned
  <2> QED BY <2>4 DEF Later
<1>10. l = k + 1 /\ k \in 1 .. Count(c) - 1
    BY <1>5, <1>6, <1>7, <1>9
<1>11. IsPair(c, k, m, i, j)
    BY <1>5, <1>8, <1>10 DEF IsPair
<1> QED
    BY <1>11 DEF Neighbours

LEMMA PairFacts ==
    ASSUME RefinementInv, NEW c, NEW k, NEW m, NEW i, NEW j, IsPair(c, k, m, i, j)
    PROVE  /\ ACase /\ c \in accepted /\ m \in Int /\ k \in 1 .. Count(c) - 1 /\ k \in 1 .. Count(c) /\ k + 1 \in 1 .. Count(c)
           /\ Finished(c, c.lines) /\ IsCorridor(c) /\ c.source \in {"BLE", "API"}
           /\ j = i + 1 /\ i \in Int
           /\ BatchAt(c, k) = plan[i] /\ BatchAt(c, k + 1) = plan[j]
           /\ Lane(plan[i]) = Lane(plan[c.first]) /\ Lane(plan[j]) = Lane(plan[c.first])
           /\ timeline[i] = LaidEntry(c, k, m) /\ timeline[j] = LaidEntry(c, k + 1, m)
<1>1. /\ c \in accepted /\ m \in Int /\ k \in 1 .. Count(c) - 1
      /\ i = Place(c, k) /\ j = Place(c, k + 1)
      /\ timeline[i] = LaidEntry(c, k, m) /\ timeline[j] = LaidEntry(c, k + 1, m)
    BY DEF IsPair
<1>2. ACase /\ Finished(c, c.lines) /\ IsCorridor(c) /\ c.source \in {"BLE", "API"}
    BY <1>1, TimelineFacts, AcceptedIsFinished DEF Finished, IsCorridor
<1>3. k \in 1 .. Count(c) /\ k + 1 \in 1 .. Count(c) /\ c.first \in Nat
    BY <1>1, <1>2, CountsAreNatural, CorridorPlaces
<1>4. j = i + 1 /\ i \in Int
    BY <1>1, <1>3 DEF Place
<1>5. Lane(BatchAt(c, k)) = Lane(plan[c.first]) /\ Lane(BatchAt(c, k + 1)) = Lane(plan[c.first])
    BY <1>2, <1>3, CorridorPlaces
<1>6. BatchAt(c, k) = plan[i] /\ BatchAt(c, k + 1) = plan[j]
    BY <1>1 DEF BatchAt
<1> QED
    BY <1>1, <1>2, <1>3, <1>4, <1>5, <1>6

\* A batch's spans are over when it ends.
LEMMA EntrySpans ==
    ASSUME RefinementInv, NEW i \in DOMAIN timeline, NEW phase \in DOMAIN timeline[i].line
    PROVE  /\ timeline[i].line[phase] \in Spans(timeline[i].line)
           /\ timeline[i].line[phase].from \in Int /\ timeline[i].line[phase].to \in Int
           /\ timeline[i].line[phase].to <= timeline[i].end
<1>1. AloneOrLaid(timeline, i) /\ ACase /\ ResolutionInv /\ CandidatesInv
    BY TimelineFacts
<1>2. ~Bare(timeline[i])
  <2>1. ASSUME Bare(timeline[i]) PROVE FALSE
    <3>1. timeline[i].line = << >>
        BY <2>1 DEF Bare
    <3> QED BY <3>1
  <2> QED BY <2>1
<1>3. PICK c \in accepted, m \in Int : i \in Batches(c) /\ LaidIn(timeline, c, m)
    BY <1>1, <1>2 DEF AloneOrLaid
<1> DEFINE k == i - c.first + 1
<1>4. k \in 1 .. Count(c) /\ Place(c, k) = i
    BY <1>1, <1>3, AcceptedIsFinished, CorridorPlaces DEF Finished
<1> HIDE DEF k
<1>5. timeline[i] = LaidEntry(c, k, m)
    BY <1>3, <1>4 DEF LaidIn
<1> DEFINE e == LaidEntry(c, k, m)
<1>a. /\ e.end = m + End(c.lines[k]) /\ End(c.lines[k]) \in Nat /\ DOMAIN e.line = DOMAIN c.lines[k]
      /\ \A p \in DOMAIN c.lines[k] :
             /\ e.line[p].from = c.lines[k][p].from + m /\ e.line[p].to = c.lines[k][p].to + m
             /\ c.lines[k][p] \in Spanned /\ c.lines[k][p].to <= End(c.lines[k])
    BY <1>4, LaidSpans
<1>b. timeline[i] = e
    BY <1>5
<1> HIDE DEF e
<1>c. phase \in DOMAIN c.lines[k]
    BY <1>a, <1>b, Zenon
<1>6. /\ timeline[i].line[phase].from = c.lines[k][phase].from + m /\ timeline[i].line[phase].to = c.lines[k][phase].to + m
      /\ c.lines[k][phase] \in Spanned /\ c.lines[k][phase].to <= End(c.lines[k])
      /\ timeline[i].end = m + End(c.lines[k]) /\ End(c.lines[k]) \in Nat
    BY <1>a, <1>b, <1>c, Zenon
<1>7. timeline[i].line[phase] \in Spans(timeline[i].line)
    BY DEF Spans, Range
<1> QED
    BY <1>6, <1>7 DEF Spanned

-----------------------------------------------------------------------------
(* What neighbours of a corridor do to one another on the timeline         *)

\* The entry e is the given line, laid from m on.
LaidAt(e, line, m) ==
    /\ m \in Int /\ End(line) \in Nat /\ e.end = m + End(line)
    /\ DOMAIN e.line = DOMAIN line
    /\ \A phase \in DOMAIN line :
           /\ e.line[phase].from = line[phase].from + m /\ e.line[phase].to = line[phase].to + m
           /\ line[phase] \in Spanned /\ line[phase].to <= End(line)
    /\ \A s \in Spans(e.line) : \E r \in Spans(line) : r \in Spanned /\ s.from = r.from + m /\ s.to = r.to + m

LEMMA EntryIsLaidAt ==
    ASSUME RefinementInv, NEW c \in accepted, NEW m \in Int, NEW k \in 1 .. Count(c)
    PROVE  LaidAt(LaidEntry(c, k, m), c.lines[k], m)
BY LaidSpans DEF LaidAt

PairLaid(c, k, m, i, j) ==
    LaidAt(timeline[i], c.lines[k], m) /\ LaidAt(timeline[j], c.lines[k + 1], m)

LEMMA PairIsLaid ==
    ASSUME RefinementInv, NEW c, NEW k, NEW m, NEW i, NEW j, IsPair(c, k, m, i, j)
    PROVE  PairLaid(c, k, m, i, j)
<1>1. /\ c \in accepted /\ m \in Int /\ k \in 1 .. Count(c) /\ k + 1 \in 1 .. Count(c)
      /\ timeline[i] = LaidEntry(c, k, m) /\ timeline[j] = LaidEntry(c, k + 1, m)
    BY PairFacts
<1>2. LaidAt(LaidEntry(c, k, m), c.lines[k], m)
    BY <1>1, EntryIsLaidAt
<1>3. LaidAt(LaidEntry(c, k + 1, m), c.lines[k + 1], m)
    BY <1>1, EntryIsLaidAt
<1> QED
    BY <1>1, <1>2, <1>3, Zenon DEF PairLaid

BlePair(l, r, left, right) ==
    DOMAIN left = BleNames /\ DOMAIN right = BleNames /\ BleNeighbours(l, r, left, right)

ApiPair(p, l, r, left, right) ==
    /\ IsRequest(l) /\ IsRequest(r) /\ l.lane = r.lane
    /\ DOMAIN left = AllPhases(l) /\ DOMAIN right = AllPhases(r)
    /\ ApiNeighbours(p, l, r, left, right)

LEMMA PairOfBle ==
    ASSUME RefinementInv, NEW c, NEW k, NEW m, NEW i, NEW j, IsPair(c, k, m, i, j), c.source = "BLE"
    PROVE  /\ LaneAt(i) = "ble" /\ LaneAt(j) = "ble"
           /\ BlePair(Only(plan[i]), Only(plan[j]), c.lines[k], c.lines[k + 1])
<1>1. /\ ACase /\ k \in 1 .. Count(c) - 1 /\ k \in 1 .. Count(c) /\ k + 1 \in 1 .. Count(c)
      /\ BleFinished(c, c.lines) /\ IsCorridor(c)
      /\ BatchAt(c, k) = plan[i] /\ BatchAt(c, k + 1) = plan[j]
    BY PairFacts DEF BleFinished
<1>2. BleNeighbours(Only(plan[i]), Only(plan[j]), c.lines[k], c.lines[k + 1])
    BY <1>1, BlePairsAreNeighbours
<1>3. BleShape(c.lines[k]) /\ BleShape(c.lines[k + 1])
    BY <1>1, BleBuilt
<1>4. LaneAt(i) = "ble" /\ LaneAt(j) = "ble"
    BY <1>1, BleCorridor DEF LaneAt
<1> QED
    BY <1>2, <1>3, <1>4 DEF BlePair, BleShape

LEMMA PairOfRequests ==
    ASSUME RefinementInv, NEW c, NEW k, NEW m, NEW i, NEW j, IsPair(c, k, m, i, j), c.source = "API"
    PROVE  /\ LaneAt(i) = Steps(c)[k].lane /\ LaneAt(j) = Steps(c)[k].lane
           /\ Steps(c)[k].backoff = plan[i].backoff
           /\ ApiPair(policy.api, Steps(c)[k], Steps(c)[k + 1], c.lines[k], c.lines[k + 1])
<1>1. /\ ACase /\ k \in 1 .. Count(c) - 1 /\ k \in 1 .. Count(c) /\ k + 1 \in 1 .. Count(c)
      /\ ApiFinished(c, c.lines) /\ IsCorridor(c)
      /\ BatchAt(c, k) = plan[i] /\ BatchAt(c, k + 1) = plan[j]
      /\ Lane(plan[i]) = Lane(plan[c.first]) /\ Lane(plan[j]) = Lane(plan[c.first])
    BY PairFacts DEF ApiFinished
<1>2. ApiFollows(policy.api, Steps(c)[k], Steps(c)[k + 1], c.lines[k], c.lines[k + 1])
    BY <1>1, ApiBuilt
<1>3. Steps(c)[k].lane = Lane(plan[c.first]) /\ Steps(c)[k].backoff = BatchAt(c, k).backoff
    BY <1>1, ApiBuilt
<1>4. ApiNeighbours(policy.api, Steps(c)[k], Steps(c)[k + 1], c.lines[k], c.lines[k + 1])
    BY <1>2, ApiPairsAreNeighbours
<1>5. ApiPair(policy.api, Steps(c)[k], Steps(c)[k + 1], c.lines[k], c.lines[k + 1])
    BY <1>2, <1>4 DEF ApiPair, ApiFollows, ApiShape
<1> QED
    BY <1>1, <1>3, <1>5 DEF LaneAt

\* The phases that batches of a kind go through one after the other.
OneByOne == {{"xfer"}, {"connect"}, {"send"}, {"parse", "aggregate", "cache"}}

\* The phases of the names in the line a are over when those in b begin.
InTurn(a, b, names) ==
    \A x \in names \cap DOMAIN a, y \in names \cap DOMAIN b : a[x].to <= b[y].from

LEMMA BlePairSerial ==
    ASSUME NEW l, NEW r, NEW left, NEW right, BlePair(l, r, left, right), NEW names \in OneByOne
    PROVE  InTurn(left, right, names)
<1>1. left.xfer.to <= right.xfer.from /\ left.connect.to <= right.connect.from
    BY DEF BlePair, BleNeighbours
<1>2. DOMAIN left = BleNames /\ DOMAIN right = BleNames
    BY DEF BlePair
<1> QED
    BY <1>1, <1>2 DEF OneByOne, InTurn, BleNames

LEMMA ApiPairSerial ==
    ASSUME NEW p, NEW l, NEW r, NEW left, NEW right, ApiPair(p, l, r, left, right), NEW names \in OneByOne,
           End(left) \in Int, \A x \in DOMAIN left : left[x] \in Spanned /\ left[x].to <= End(left),
           \A y \in DOMAIN right : right[y] \in Spanned
    PROVE  InTurn(left, right, names)
<1>1. /\ DOMAIN left = AllPhases(l) /\ DOMAIN right = AllPhases(r) /\ End(left) = left.write.to
      /\ \A phase \in AllPhases(r) \cap AfterAnswer : left.write.to <= right[phase].from
    BY DEF ApiPair, ApiNeighbours
<1>2. names \cap AllPhases(r) \subseteq AfterAnswer
    BY DEF OneByOne, AllPhases, CloudRest, HttpRest, AfterAnswer
<1>3. ASSUME NEW x \in names \cap DOMAIN left, NEW y \in names \cap DOMAIN right
      PROVE  left[x].to <= right[y].from
  <2>1. left[x].to \in Int /\ left[x].to <= End(left)
      BY DEF Spanned
  <2>2. right[y].from \in Int
      BY DEF Spanned
  <2>3. End(left) <= right[y].from
      BY <1>1, <1>2, Zenon
  <2> QED BY <2>1, <2>2, <2>3
<1> QED
    BY <1>3 DEF InTurn

LEMMA LaidSerial ==
    ASSUME NEW e, NEW f, NEW left, NEW right, NEW m, LaidAt(e, left, m), LaidAt(f, right, m), NEW names,
           InTurn(left, right, names)
    PROVE  InTurn(e.line, f.line, names)
<1>1. ASSUME NEW x \in names \cap DOMAIN e.line, NEW y \in names \cap DOMAIN f.line
      PROVE  e.line[x].to <= f.line[y].from
  <2>1. /\ x \in DOMAIN left /\ left[x] \in Spanned /\ e.line[x].to = left[x].to + m
      BY DEF LaidAt
  <2>2. /\ y \in DOMAIN right /\ right[y] \in Spanned /\ f.line[y].from = right[y].from + m
      BY DEF LaidAt
  <2>3. left[x].to <= right[y].from /\ m \in Int
      BY <2>1, <2>2 DEF InTurn, LaidAt
  <2>4. left[x].to \in Int /\ right[y].from \in Int
      BY <2>1, <2>2 DEF Spanned
  <2> QED BY <2>1, <2>2, <2>3, <2>4
<1> QED
    BY <1>1 DEF InTurn

LEMMA PairSerial ==
    ASSUME RefinementInv, NEW c, NEW k, NEW m, NEW i, NEW j, IsPair(c, k, m, i, j), NEW names \in OneByOne
    PROVE  InTurn(timeline[i].line, timeline[j].line, names)
<1>1. LaidAt(timeline[i], c.lines[k], m) /\ LaidAt(timeline[j], c.lines[k + 1], m)
    BY PairIsLaid DEF PairLaid
<1>2. InTurn(c.lines[k], c.lines[k + 1], names)
  <2>1. CASE c.source = "BLE"
      BY <2>1, PairOfBle, BlePairSerial
  <2>2. CASE c.source = "API"
    <3>1. ApiPair(policy.api, Steps(c)[k], Steps(c)[k + 1], c.lines[k], c.lines[k + 1])
        BY <2>2, PairOfRequests
    <3>2. /\ End(c.lines[k]) \in Int /\ \A x \in DOMAIN c.lines[k] : c.lines[k][x] \in Spanned /\ c.lines[k][x].to <= End(c.lines[k])
          /\ \A y \in DOMAIN c.lines[k + 1] : c.lines[k + 1][y] \in Spanned
        BY <1>1 DEF LaidAt
    <3> QED BY <3>1, <3>2, ApiPairSerial
  <2>3. c.source \in {"BLE", "API"}
      BY PairFacts
  <2> QED BY <2>1, <2>2, <2>3
<1> QED
    BY <1>1, <1>2, LaidSerial

\* Of two batches the earlier one is through with such a phase when the later one
\* comes to it.
LEMMA PhasesSerial ==
    ASSUME RefinementInv, NEW i \in DOMAIN timeline, NEW j \in DOMAIN timeline, i < j, NEW names \in OneByOne
    PROVE  InTurn(timeline[i].line, timeline[j].line, names)
<1>1. CASE Neighbours(i, j)
    BY <1>1, PairSerial DEF Neighbours
<1>2. CASE Later(i, j)
  <2>1. ASSUME NEW x \in names \cap DOMAIN timeline[i].line, NEW y \in names \cap DOMAIN timeline[j].line
        PROVE  timeline[i].line[x].to <= timeline[j].line[y].from
    <3>1. timeline[i].line[x].to \in Int /\ timeline[i].line[x].to <= timeline[i].end
        BY EntrySpans
    <3>2. timeline[j].line[y] \in Spans(timeline[j].line) /\ timeline[j].line[y].from \in Int
        BY EntrySpans
    <3>3. timeline[i].end <= timeline[j].line[y].from /\ timeline[i].end \in Int
        BY <1>2, <3>2, TimelineFacts DEF Later
    <3> QED BY <3>1, <3>2, <3>3
  <2> QED BY <2>1 DEF InTurn
<1> QED
    BY <1>1, <1>2, LaterOrNeighbours

LEMMA AllApart ==
    ASSUME RefinementInv, NEW batches, batches \subseteq DOMAIN timeline, NEW names \in OneByOne
    PROVE  Apart(batches, names)
<1>1. ASSUME NEW i \in DOMAIN timeline, NEW j \in DOMAIN timeline, i < j,
             NEW s \in PhasesOf(i, names), NEW r \in PhasesOf(j, names)
      PROVE  s.to <= r.from
    BY <1>1, PhasesSerial DEF InTurn, PhasesOf
<1>2. \A i, j \in DOMAIN timeline : i # j => i < j \/ j < i
    BY TimelineFacts
<1> QED
    BY <1>1, <1>2 DEF Apart

-----------------------------------------------------------------------------
(* The timeline of the whole plan                                          *)

\* Neighbours have been refined, and belong together.
LEMMA NeighboursAreRefined ==
    ASSUME RefinementInv, NEW i, NEW j, Neighbours(i, j)
    PROVE  /\ j = i + 1 /\ timeline[i].corridor = timeline[j].corridor
           /\ IsRefined(i) /\ IsRefined(j)
<1>1. PICK c, k, m : IsPair(c, k, m, i, j)
    BY DEF Neighbours
<1>2. /\ c \in accepted /\ m \in Int /\ k \in 1 .. Count(c) /\ k + 1 \in 1 .. Count(c) /\ j = i + 1
      /\ timeline[i] = LaidEntry(c, k, m) /\ timeline[j] = LaidEntry(c, k + 1, m)
    BY <1>1, PairFacts
<1>3. LaidEntry(c, k, m).corridor = c.first /\ LaidEntry(c, k + 1, m).corridor = c.first /\ c.first # 0
    BY <1>2, LaidSpans
<1> QED
    BY <1>2, <1>3 DEF IsRefined

LEMMA PlacesOfLane ==
    ASSUME NEW lane
    PROVE  Of(lane) \subseteq DOMAIN timeline
BY DEF Of

LEMMA RefinementGivesOneAtATime == RefinementInv => OneAtATime
<1> SUFFICES ASSUME RefinementInv PROVE OneAtATime
    OBVIOUS
<1>1. ASSUME NEW lane \in {"ble", "cloud", "http"}, NEW name \in {"xfer", "connect", "send"}
      PROVE  Apart(Of(lane), {name})
  <2>1. {name} \in OneByOne
      BY DEF OneByOne
  <2> QED BY <2>1, PlacesOfLane, AllApart
<1>2. ASSUME NEW i \in DOMAIN timeline, NEW j \in DOMAIN timeline, i < j, ~(IsRefined(i) /\ IsRefined(j)),
             NEW t \in Starts(j)
      PROVE  timeline[i].end <= t
  <2>1. Later(i, j)
      BY <1>2, LaterOrNeighbours, NeighboursAreRefined
  <2> QED BY <2>1 DEF Later, Starts
<1> QED
    BY <1>1, <1>2 DEF OneAtATime

\* For every plan and policy: on the refined timeline the radio makes one transfer and
\* one connection at a time, requests of a kind go out one at a time, and a batch that
\* was left alone runs beside no other one (refine_case and the validators it calls).
THEOREM NoTwoAtATime == Spec => []OneAtATime
BY SpecRefinement, RefinementGivesOneAtATime, PTL

-----------------------------------------------------------------------------
LEMMA LaidAfter ==
    ASSUME NEW e, NEW f, NEW left, NEW right, NEW m, LaidAt(e, left, m), LaidAt(f, right, m)
    PROVE  /\ \A x \in DOMAIN left, y \in DOMAIN right : left[x].to <= right[y].from => e.line[x].to <= f.line[y].from
           /\ \A x \in DOMAIN left, t \in Spans(f.line) :
                  (\A s \in Spans(right) : left[x].to <= s.from) => e.line[x].to <= t.from
           /\ \A t \in Spans(f.line) : t.from < e.end => Overlap(left, right)
<1>1. ASSUME NEW x \in DOMAIN left, NEW y \in DOMAIN right, left[x].to <= right[y].from
      PROVE  e.line[x].to <= f.line[y].from
    BY <1>1 DEF LaidAt, Spanned
<1>2. ASSUME NEW x \in DOMAIN left, NEW t \in Spans(f.line), \A s \in Spans(right) : left[x].to <= s.from
      PROVE  e.line[x].to <= t.from
  <2>1. PICK r \in Spans(right) : r \in Spanned /\ t.from = r.from + m
      BY DEF LaidAt
  <2>2. left[x].to <= r.from /\ r.from \in Int /\ left[x].to \in Int /\ e.line[x].to = left[x].to + m /\ m \in Int
      BY <1>2, <2>1 DEF LaidAt, Spanned
  <2> QED BY <2>1, <2>2
<1>3. ASSUME NEW t \in Spans(f.line), t.from < e.end
      PROVE  Overlap(left, right)
  <2>1. PICK r \in Spans(right) : r \in Spanned /\ t.from = r.from + m
      BY DEF LaidAt
  <2>2. e.end = m + End(left) /\ End(left) \in Int /\ m \in Int /\ r.from \in Int
      BY <2>1 DEF LaidAt, Spanned
  <2>3. r.from < End(left)
      BY <1>3, <2>1, <2>2
  <2> QED BY <2>3 DEF Overlap
<1> QED
    BY <1>1, <1>2, <1>3

\* What the right one of two neighbours does before the left one has ended.
Harmless(i, j) ==
    /\ LaneAt(i) = "ble" =>
           ~SameDevice(Only(plan[i]), Only(plan[j])) /\ ~SameSession(Only(plan[i]), Only(plan[j]))
    /\ LaneAt(i) = "cloud" =>
           /\ \A s \in PhasesOf(j, {"session", "send", "recv", "parse", "aggregate", "commit"}) :
                  timeline[i].line.write.to <= s.from
           /\ plan[i].backoff => \A t \in Starts(j) : timeline[i].line.backoff.to <= t

LEMMA PairIsHarmless ==
    ASSUME RefinementInv, NEW c, NEW k, NEW m, NEW i, NEW j, IsPair(c, k, m, i, j),
           NEW t \in Spans(timeline[j].line), t.from < timeline[i].end
    PROVE  Harmless(i, j)
<1>1. LaidAt(timeline[i], c.lines[k], m) /\ LaidAt(timeline[j], c.lines[k + 1], m)
    BY PairIsLaid DEF PairLaid
<1>2. CASE c.source = "BLE"
  <2>1. LaneAt(i) = "ble" /\ BlePair(Only(plan[i]), Only(plan[j]), c.lines[k], c.lines[k + 1])
      BY <1>2, PairOfBle
  <2>2. Overlap(c.lines[k], c.lines[k + 1])
      BY <1>1, LaidAfter
  <2>3. ~SameDevice(Only(plan[i]), Only(plan[j])) /\ ~SameSession(Only(plan[i]), Only(plan[j]))
      BY <2>1, <2>2, Zenon DEF BlePair, BleNeighbours
  <2> QED BY <2>1, <2>3 DEF Harmless
<1>3. CASE c.source = "API"
  <2> DEFINE l == Steps(c)[k]  r == Steps(c)[k + 1]
  <2>1. LaneAt(i) = l.lane /\ l.backoff = plan[i].backoff /\ ApiPair(policy.api, l, r, c.lines[k], c.lines[k + 1])
      BY <1>3, PairOfRequests
  <2> HIDE DEF l, r
  <2>2. /\ l.lane = r.lane /\ l.lane \in {"cloud", "http"}
        /\ DOMAIN c.lines[k] = AllPhases(l) /\ DOMAIN c.lines[k + 1] = AllPhases(r)
        /\ ApiNeighbours(policy.api, l, r, c.lines[k], c.lines[k + 1])
      BY <2>1 DEF ApiPair, IsRequest
  <2>3. ASSUME LaneAt(i) = "cloud",
               NEW phase \in {"session", "send", "recv", "parse", "aggregate", "commit"} \cap DOMAIN timeline[j].line
        PROVE  timeline[i].line.write.to <= timeline[j].line[phase].from
    <3>1. r.lane = "cloud" /\ phase \in DOMAIN c.lines[k + 1] /\ "write" \in DOMAIN c.lines[k]
        BY <1>1, <2>1, <2>2, <2>3 DEF LaidAt, AllPhases
    <3>2. c.lines[k].write.to <= c.lines[k + 1][phase].from
        BY <2>2, <2>3, <3>1 DEF ApiNeighbours, AfterAnswer
    <3> QED BY <1>1, <3>1, <3>2, LaidAfter
  <2>4. ASSUME LaneAt(i) = "cloud", plan[i].backoff, NEW s \in Spans(timeline[j].line)
        PROVE  timeline[i].line.backoff.to <= s.from
    <3>1. r.lane = "cloud" /\ l.backoff /\ "backoff" \in DOMAIN c.lines[k]
        BY <2>1, <2>2, <2>4 DEF AllPhases, CloudRest
    <3>2. \A u \in Spans(c.lines[k + 1]) : c.lines[k].backoff.to <= u.from
        BY <2>2, <3>1 DEF ApiNeighbours
    <3> QED BY <1>1, <3>1, <3>2, LaidAfter
  <2>5. LaneAt(i) # "ble"
      BY <2>1, <2>2
  <2> QED BY <2>3, <2>4, <2>5 DEF Harmless, PhasesOf, Starts
<1> QED
    BY <1>2, <1>3, PairFacts

LEMMA RefinementGivesHarmless == RefinementInv => OverlapsAreHarmless
<1> SUFFICES ASSUME RefinementInv, NEW i \in DOMAIN timeline, NEW j \in DOMAIN timeline, i < j,
                    NEW s \in Spans(timeline[j].line), s.from < timeline[i].end
             PROVE  j = i + 1 /\ timeline[i].corridor = timeline[j].corridor /\ Harmless(i, j)
    BY DEF OverlapsAreHarmless, Harmless, Starts
<1>1. ~Later(i, j)
  <2>1. ASSUME Later(i, j) PROVE FALSE
    <3>1. timeline[i].end <= s.from /\ timeline[i].end \in Int
        BY <2>1, TimelineFacts DEF Later
    <3>2. s.from \in Int
      <4>1. PICK phase \in DOMAIN timeline[j].line : s = timeline[j].line[phase]
          BY DEF Spans, Range
      <4> QED BY <4>1, EntrySpans
    <3> QED BY <3>1, <3>2
  <2> QED BY <2>1
<1>2. Neighbours(i, j)
    BY <1>1, LaterOrNeighbours
<1>3. PICK c, k, m : IsPair(c, k, m, i, j)
    BY <1>2 DEF Neighbours
<1>4. Harmless(i, j)
    BY <1>3, PairIsHarmless
<1> QED
    BY <1>2, <1>4, NeighboursAreRefined

\* For every plan and policy: batches overlap only as neighbours of one corridor, BLE
\* actions only on different devices and sessions, cloud requests only in what the
\* later one prepares and not while the earlier one's backoff runs.
THEOREM OverlapsHarmNothing == Spec => []OverlapsAreHarmless
BY SpecRefinement, RefinementGivesHarmless, PTL

-----------------------------------------------------------------------------
(* Why a refined plan is given up                                          *)

\* The requests wait for one another only where the admission says so.
NothingSpeaksAgainst ==
    /\ rejected = {}
    /\ \A i \in Of("cloud") : ~plan[i].backoff
    /\ \A c \in accepted : c.source = "API" => \A k \in 1 .. c.last - c.first : Admitted(c, k)
    /\ \A c \in accepted : MeasuredAlike(c)

Walked == RefinementInv /\ at > Len(plan)

LEMMA SegmentMeasuredAlike ==
    ASSUME ACase, NEW c, IsCorridor(c), MeasuredAlike(c)
    PROVE  Segment(c) = Original(c)
<1> DEFINE f == Latencies(c.source)
           h == Latencies("COMBINED")
           S == Batches(c)
<1>1. S \subseteq 1 .. Len(plan) /\ IsFiniteSet(S)
  <2>1. c.first \in Nat \ {0} /\ c.last \in Nat \ {0} /\ c.last <= Len(plan) /\ Len(plan) \in Nat
      BY CorridorPlaces, PlanFacts
  <2>2. Batches(c) \subseteq 1 .. Len(plan)
      BY <2>1 DEF Batches
  <2>3. IsFiniteSet(Batches(c))
    <3> DEFINE a == c.first
               b == c.last
    <3>1. a \in Int /\ b \in Int
        BY <2>1
    <3> HIDE DEF a, b
    <3>2. IsFiniteSet(a .. b)
        BY <3>1, FS_Interval
    <3> QED BY <3>2 DEF Batches, a, b
  <2> QED BY <2>2, <2>3
<1>2. \A i \in S : f[i] \in Nat /\ f[i] = h[i]
    BY <1>1, LatenciesAreNatural DEF MeasuredAlike
<1> HIDE DEF f, h, S
<1>3. Summable(f, S)
    BY <1>1, <1>2 DEF Summable
<1>4. SumFunctionOnSet(f, S) = SumFunctionOnSet(h, S)
    BY <1>2, <1>3, SumEqual
<1> QED
    BY <1>4 DEF Segment, Original, f, h, S

LEMMA WalkedSavesAsPromised ==
    ASSUME Walked, \A c \in accepted : MeasuredAlike(c)
    PROVE  SavingsConsistent
<1>1. RefinementInv /\ ResolutionInv /\ CandidatesInv /\ WalkedTo(timeline, at, cursor)
    BY DEF Walked, RefinementInv, TimelineInv
<1>2. /\ ACase /\ Len(plan) \in Nat /\ at = Len(plan) + 1 /\ cursor \in Int
      /\ CoarseEnd(at - 1) - cursor = SavedUntil(at)
  <2>1. AsPromised(at, cursor) /\ \A c \in Behind(at) : MeasuredAlike(c)
      BY <1>1 DEF WalkedTo, Behind
  <2> QED BY <1>1, <2>1, NotLate DEF Walked, WalkedTo, AsPromised
<1>3. \A c \in accepted : /\ Latest(c.lines) <= Segment(c) /\ c.saved = Segment(c) - Latest(c.lines)
                          /\ c.saved \in Nat /\ IsCorridor(c)
  <2> TAKE c \in accepted
  <2>1. /\ Latest(c.lines) <= Original(c) /\ c.saved = Original(c) - Latest(c.lines)
        /\ c.saved \in Nat /\ IsCorridor(c)
      BY <1>1, AcceptedIsFinished DEF Finished
  <2>2. Segment(c) = Original(c)
      BY <1>2, <2>1, SegmentMeasuredAlike
  <2> QED BY <2>1, <2>2
<1>4. Behind(at) = accepted
    BY <1>2, <1>3, CorridorPlaces DEF Behind
<1>5. TotalSaved = SavedUntil(at)
  <2>1. \A c \in accepted : Larger(0, Segment(c) - Latest(c.lines)) = c.saved
      BY <1>3 DEF Larger
  <2>2. [c \in accepted |-> Larger(0, Segment(c) - Latest(c.lines))] = [c \in accepted |-> c.saved]
      BY <2>1
  <2>3. TotalSaved = SumFunctionOnSet([c \in accepted |-> c.saved], accepted)
      BY <2>2 DEF TotalSaved, SumFunction
  <2> QED BY <1>4, <2>3 DEF SavedUntil
<1>6. CoarseEnd(Len(plan)) \in Nat /\ SavedUntil(at) \in Nat
  <2>1. Len(plan) \in 0 .. Len(plan)
      BY <1>2
  <2>2. CoarseEnd(Len(plan)) \in Nat
      BY <1>2, <2>1, CoarseEnds
  <2>3. SavedUntil(at) \in Nat
      BY <1>1, Savings
  <2> QED BY <2>2, <2>3
<1>7. CoarseEnd(Len(plan)) - cursor = TotalSaved
  <2>1. at - 1 = Len(plan)
      BY <1>2
  <2> QED BY <1>2, <1>5, <1>6, <2>1
<1> QED
    BY <1>3, <1>7 DEF SavingsConsistent

LEMMA RefinementKeepsLimits == RefinementInv => LimitsKept
<1> SUFFICES ASSUME RefinementInv PROVE LimitsKept
    OBVIOUS
<1>1. /\ \A lane : Of(lane) \subseteq DOMAIN timeline
      /\ Api \subseteq DOMAIN timeline
    BY DEF Of, Api
<1>2. /\ Apart(Of("ble"), {"xfer"}) /\ Apart(Of("ble"), {"connect"})
      /\ Apart(Api, {"parse", "aggregate", "cache"})
    BY <1>1, AllApart DEF OneByOne
<1>3. \A batches \in SUBSET DOMAIN timeline : Apart(batches, {"send"})
    BY AllApart DEF OneByOne
<1>4. \A k \in Of("cloud") : Apart({i \in Of("cloud") : HostAt(i) = HostAt(k)}, {"send"})
    BY <1>1, <1>3
<1>5. \A k \in Of("http") : Apart({i \in Of("http") : SessionAt(i) = SessionAt(k)}, {"send"})
    BY <1>1, <1>3
<1> QED
    BY <1>2, <1>4, <1>5 DEF LimitsKept

\* Two batches of a corridor that follow one another are neighbours.
LEMMA NextInCorridor ==
    ASSUME RefinementInv, NEW i \in DOMAIN timeline, i + 1 \in DOMAIN timeline,
           IsRefined(i), timeline[i].corridor = timeline[i + 1].corridor
    PROVE  \E c, k, m : IsPair(c, k, m, i, i + 1)
<1>1. PICK c \in accepted, m \in Int : LaidIn(timeline, c, m) /\ i \in Batches(c) /\ i + 1 \in Batches(c)
    BY SameCorridorLaid DEF IsRefined
<1>2. ACase /\ IsCorridor(c)
    BY TimelineFacts, AcceptedIsFinished DEF Finished
<1> DEFINE k == i - c.first + 1
<1>3. /\ k \in 1 .. Count(c) /\ Place(c, k) = i
      /\ (i + 1) - c.first + 1 \in 1 .. Count(c) /\ Place(c, (i + 1) - c.first + 1) = i + 1
  <2>1. \A n \in Batches(c) : n - c.first + 1 \in 1 .. Count(c) /\ Place(c, n - c.first + 1) = n
      BY <1>2, CorridorPlaces
  <2> DEFINE j == i + 1
  <2>2. i \in Batches(c) /\ j \in Batches(c)
      BY <1>1
  <2> HIDE DEF j
  <2>3. j - c.first + 1 \in 1 .. Count(c) /\ Place(c, j - c.first + 1) = j
      BY <2>1, <2>2, Zenon
  <2>4. i - c.first + 1 \in 1 .. Count(c) /\ Place(c, i - c.first + 1) = i
      BY <2>1, <2>2, Zenon
  <2> QED BY <2>3, <2>4, Zenon DEF j
<1>4. c.first \in Nat /\ Count(c) \in Nat /\ i \in Int
    BY <1>2, CorridorPlaces, TimelineFacts
<1>5. (i + 1) - c.first + 1 = k + 1
    BY <1>4
<1>6. k \in 1 .. Count(c) - 1
    BY <1>3, <1>4, <1>5
<1> HIDE DEF k
<1>7. /\ k + 1 \in 1 .. Count(c) /\ Place(c, k + 1) = i + 1
    BY <1>3, <1>5
<1>8. timeline[i] = LaidEntry(c, k, m) /\ timeline[i + 1] = LaidEntry(c, k + 1, m)
    BY <1>1, <1>3, <1>7 DEF LaidIn
<1>9. IsPair(c, k, m, i, i + 1)
    BY <1>1, <1>3, <1>6, <1>7, <1>8 DEF IsPair
<1> QED
    BY <1>9

\* The window of the later one of two batches of requests.
Window(i, j) ==
    LET left == timeline[i].line  right == timeline[j].line
    IN  /\ left.write.to <= right.send.from
        /\ \A s \in PhasesOf(j, IF LaneAt(j) = "cloud" THEN {"auth", "budget", "prepare"}
                                ELSE {"resolve", "session"}) :
               left.send.from <= s.from /\ s.to <= left.recv.to

LEMMA LaidWithin ==
    ASSUME NEW e, NEW f, NEW left, NEW right, NEW m, LaidAt(e, left, m), LaidAt(f, right, m)
    PROVE  /\ \A x \in DOMAIN left, y \in DOMAIN right :
                  left[x].from <= right[y].from => e.line[x].from <= f.line[y].from
           /\ \A x \in DOMAIN left, y \in DOMAIN right :
                  right[y].to <= left[x].to => f.line[y].to <= e.line[x].to
<1>1. ASSUME NEW x \in DOMAIN left, NEW y \in DOMAIN right, left[x].from <= right[y].from
      PROVE  e.line[x].from <= f.line[y].from
    BY <1>1 DEF LaidAt, Spanned
<1>2. ASSUME NEW x \in DOMAIN left, NEW y \in DOMAIN right, right[y].to <= left[x].to
      PROVE  f.line[y].to <= e.line[x].to
    BY <1>2 DEF LaidAt, Spanned
<1> QED
    BY <1>1, <1>2

LEMMA PairKeepsWindow ==
    ASSUME RefinementInv, NEW c, NEW k, NEW m, NEW i, NEW j, IsPair(c, k, m, i, j), c.source = "API",
           Admitted(c, k)
    PROVE  Window(i, j)
<1> DEFINE l == Steps(c)[k]  r == Steps(c)[k + 1]
           left == c.lines[k]  right == c.lines[k + 1]
<1>1. LaidAt(timeline[i], left, m) /\ LaidAt(timeline[j], right, m)
    BY PairIsLaid DEF PairLaid
<1>2. LaneAt(j) = l.lane /\ ApiPair(policy.api, l, r, left, right)
    BY PairOfRequests
<1>3. PrepareAdmitted(policy.api, l, r)
    BY DEF Admitted
<1> HIDE DEF l, r, left, right
<1>4. /\ l.lane = r.lane /\ l.lane \in {"cloud", "http"}
      /\ DOMAIN left = AllPhases(l) /\ DOMAIN right = AllPhases(r)
      /\ ApiNeighbours(policy.api, l, r, left, right)
    BY <1>2 DEF ApiPair, IsRequest
<1>5. /\ {"write", "send", "recv"} \subseteq DOMAIN left /\ "send" \in DOMAIN right
    BY <1>4 DEF AllPhases, CloudRest, HttpRest
<1>6. timeline[i].line.write.to <= timeline[j].line.send.from
  <2>1. left.write.to <= right.send.from
      BY <1>4, <1>5 DEF ApiNeighbours, AfterAnswer
  <2> QED BY <1>1, <1>5, <2>1, LaidAfter
<1>7. ASSUME NEW phase \in BeforeRequest(LaneAt(j)) \cap DOMAIN timeline[j].line
      PROVE  /\ timeline[i].line.send.from <= timeline[j].line[phase].from
             /\ timeline[j].line[phase].to <= timeline[i].line.recv.to
  <2>1. phase \in BeforeRequest(r.lane) /\ phase \in DOMAIN right /\ phase \in AllPhases(r)
      BY <1>1, <1>2, <1>4 DEF LaidAt
  <2>2. left.send.from <= right[phase].from /\ right[phase].to <= left.recv.to
      BY <1>3, <1>4, <2>1 DEF ApiNeighbours
  <2> QED BY <1>1, <1>5, <2>1, <2>2, LaidWithin
<1> QED
    BY <1>6, <1>7 DEF Window, PhasesOf, BeforeRequest

LEMMA RefinementKeepsWindows ==
    ASSUME RefinementInv, NothingSpeaksAgainst
    PROVE  WindowsKept
<1> SUFFICES ASSUME NEW i \in Api, i + 1 \in Api, timeline[i].corridor = timeline[i + 1].corridor
             PROVE  Window(i, i + 1)
    BY DEF WindowsKept, Window
<1>1. i \in DOMAIN timeline /\ i + 1 \in DOMAIN timeline /\ IsRefined(i) /\ LaneAt(i) \in {"cloud", "http"}
    BY DEF Api, Of
<1>2. PICK c, k, m : IsPair(c, k, m, i, i + 1)
    BY <1>1, NextInCorridor
<1>3. /\ c \in accepted /\ k \in 1 .. Count(c) - 1 /\ IsCorridor(c) /\ c.source \in {"BLE", "API"}
      /\ ACase
    BY <1>2, PairFacts
<1>4. c.source = "API"
    BY <1>1, <1>2, <1>3, PairOfBle
<1>5. Admitted(c, k)
  <2>1. Count(c) - 1 = c.last - c.first
      BY <1>3, CorridorPlaces DEF Count
  <2> QED BY <1>3, <1>4, <2>1 DEF NothingSpeaksAgainst
<1> QED
    BY <1>2, <1>4, <1>5, PairKeepsWindow

LEMMA NothingSpeaksAgainstIt ==
    ASSUME Walked, NothingSpeaksAgainst
    PROVE  Passed
<1>1. RefinementInv
    BY DEF Walked
<1>2. SavingsConsistent
    BY WalkedSavesAsPromised DEF NothingSpeaksAgainst
<1>3. OrderKept /\ NotDelayed
    BY <1>1, WalkIsAsPromised DEF SavedAsPromised, NotDelayed
<1>4. LimitsKept
    BY <1>1, RefinementKeepsLimits
<1>5. BackoffKept
    BY DEF BackoffKept, NothingSpeaksAgainst
<1>6. WindowsKept
    BY <1>1, RefinementKeepsWindows
<1> QED
    BY <1>2, <1>3, <1>4, <1>5, <1>6 DEF Passed, NothingSpeaksAgainst

-----------------------------------------------------------------------------
VerdictInv ==
    /\ RefinementInv
    /\ verdict # "" => Decided /\ at > Len(plan)
    /\ GivenUpForAReason

LEMMA InitVerdict == Init => VerdictInv
<1> SUFFICES ASSUME Init PROVE VerdictInv
    OBVIOUS
<1>1. RefinementInv
    BY InitRefinement
<1>2. verdict = ""
    BY DEF Init
<1> QED
    BY <1>1, <1>2 DEF VerdictInv, GivenUpForAReason

LEMMA AReasonIsGiven ==
    ASSUME ~NothingSpeaksAgainst
    PROVE  \/ rejected # {}
           \/ \E i \in Of("cloud") : plan[i].backoff
           \/ \E c \in accepted : c.source = "API" /\ \E i \in 1 .. c.last - c.first : ~Admitted(c, i)
           \/ \E c \in accepted : ~MeasuredAlike(c)
BY DEF NothingSpeaksAgainst

LEMMA ReasonsAreFixed ==
    ASSUME UNCHANGED << plan, policy, accepted, rejected, timeline >>
    PROVE  NothingSpeaksAgainst' <=> NothingSpeaksAgainst
BY DEF NothingSpeaksAgainst, Of, IsRefined, LaneAt, Admitted, BleActions, Steps, MeasuredAlike

LEMMA ReasonIsGivenNext == ~NothingSpeaksAgainst' => GivenUpForAReason'
<1>1. ~NothingSpeaksAgainst => GivenUpForAReason
    BY AReasonIsGiven DEF GivenUpForAReason
<1> QED
    BY <1>1, PTL

LEMMA NextVerdict == VerdictInv /\ [Next]_vars => VerdictInv'
<1> SUFFICES ASSUME VerdictInv, [Next]_vars PROVE VerdictInv'
    OBVIOUS
<1>1. RefinementInv /\ RefinementInv'
    BY NextRefinement DEF VerdictInv
<1>2. CASE Expand \/ Refine \/ Resolve \/ WalkBatch \/ WalkCorridor
  <2>1. verdict' = verdict /\ ~(Decided /\ at > Len(plan))
    <3>1. ASSUME Expand \/ Refine \/ Resolve PROVE verdict' = verdict /\ ~Decided
        BY <3>1 DEF Expand, Refine, Resolve, Decided
    <3>2. ASSUME WalkBatch \/ WalkCorridor PROVE verdict' = verdict /\ at <= Len(plan)
        BY <3>2 DEF WalkBatch, WalkCorridor
    <3>3. at \in Int /\ Len(plan) \in Int
        BY <1>1, TimelineFacts DEF RefinementInv, TimelineInv, WalkedTo
    <3> QED BY <1>2, <3>1, <3>2, <3>3
  <2>2. verdict' = ""
      BY <2>1 DEF VerdictInv
  <2> QED BY <1>1, <2>2 DEF VerdictInv, GivenUpForAReason
<1>3. CASE Conclude
  <2>1. /\ Decided /\ at > Len(plan) /\ verdict' = IF Passed THEN "refined" ELSE "macro"
        /\ UNCHANGED << plan, policy, todo, lines, pool, accepted, rejected, at, cursor, timeline >>
      BY <1>3 DEF Conclude
  <2>2. Decided' /\ at' > Len(plan)'
      BY <2>1 DEF Decided
  <2>3. GivenUpForAReason'
    <3>1. CASE NothingSpeaksAgainst
      <4>1. Passed
          BY <1>1, <2>1, <3>1, NothingSpeaksAgainstIt DEF Walked
      <4>2. verdict' # "macro"
          BY <2>1, <4>1
      <4> QED BY <4>2 DEF GivenUpForAReason
    <3>2. CASE ~NothingSpeaksAgainst
      <4>1. ~NothingSpeaksAgainst'
          BY <2>1, <3>2, ReasonsAreFixed
      <4> QED BY <4>1, ReasonIsGivenNext
    <3> QED BY <3>1, <3>2
  <2> QED BY <1>1, <2>2, <2>3 DEF VerdictInv
<1>4. CASE UNCHANGED vars
  <2>1. UNCHANGED << plan, policy, todo, pool, accepted, rejected, at, timeline, verdict >>
      BY <1>4 DEF vars
  <2>2. verdict' # "" => Decided' /\ at' > Len(plan)'
      BY <2>1 DEF VerdictInv, Decided
  <2>3. GivenUpForAReason'
    <3>1. CASE NothingSpeaksAgainst
      <4>1. verdict # "macro"
          BY <3>1 DEF VerdictInv, GivenUpForAReason, NothingSpeaksAgainst
      <4> QED BY <2>1, <4>1 DEF GivenUpForAReason
    <3>2. CASE ~NothingSpeaksAgainst
      <4>1. ~NothingSpeaksAgainst'
          BY <2>1, <3>2, ReasonsAreFixed
      <4> QED BY <4>1, ReasonIsGivenNext
    <3> QED BY <3>1, <3>2
  <2> QED BY <1>1, <2>2, <2>3 DEF VerdictInv
<1> QED
    BY <1>2, <1>3, <1>4 DEF Next

\* For every plan and policy: when nothing was rejected, no refined cloud request waits
\* for a backoff, every neighbour in a corridor of requests was admitted and the files
\* agree about how long the batches of every accepted corridor take, the last validation
\* passes and the refined plan is used (validate_combined_candidates).
THEOREM AlwaysForAReason == Spec => []GivenUpForAReason
<1>1. VerdictInv => GivenUpForAReason
    BY DEF VerdictInv
<1> QED
    BY <1>1, InitVerdict, NextVerdict, PTL DEF Spec

\* For every plan and policy: accepted corridors share no batch and do not conflict,
\* and a valid corridor that saves time is only rejected for one that conflicts with
\* it and saves as much (highest_saving_wins in resolve_combined_candidates).
THEOREM WinnersSaveMost == Spec => []HighestSavingWins
BY SpecRefinement, ResolutionGivesWinners, PTL DEF RefinementInv

-----------------------------------------------------------------------------
(* What the refiners build, their validators accept: durations             *)

\* The phases that may be prepared fit into the time the batch before waits for its
\* answer, and the phases the validator measures are short.
ApiFits(s, d) ==
    /\ s.lane = "cloud" => /\ d.auth + d.budget + d.prepare <= d.send + d.recv
                           /\ d.backoff = 0 /\ d.aggregate <= AggregateMax
    /\ s.lane = "http" => d.resolve + d.session <= d.send + d.recv /\ d.cache <= AggregateMax
    /\ d.parse <= ParseMax

NotTooLong(s) == s.latency <= (IF s.lane = "cloud" THEN 2106 ELSE 1547)

LEMMA CloudAllocated ==
    ASSUME NEW total \in Nat, total >= 350
    PROVE  \A phase \in CloudRest :
               Allocate(total, CloudSpecs(0))[phase] = Share(total, CloudSpecs(0)[phase], 126 + 0, 76)
<1> DEFINE W == 0
<1>1. W \in 0 .. 434
    OBVIOUS
<1> HIDE DEF W
<1>2. \A phase \in CloudRest :
          Allocate(total, CloudSpecs(W))[phase] = Share(total, CloudSpecs(W)[phase], 126 + W, 76)
    BY <1>1, CloudSpread
<1> QED
    BY <1>2 DEF W

LEMMA CloudFits ==
    ASSUME NEW total \in Nat, total >= 350, NEW d, d = Allocate(total, CloudSpecs(0))
    PROVE  total <= 2106 => /\ d.auth + d.budget + d.prepare <= d.send + d.recv
                            /\ d.backoff = 0 /\ d.aggregate <= 180 /\ d.parse <= 220
<1>2. \A phase \in CloudRest : d[phase] = Share(total, CloudSpecs(0)[phase], 126 + 0, 76)
    BY CloudAllocated
<1> HAVE total <= 2106
<1> DEFINE rem == total - 126
           q(w) == Rounded(rem * w, 76)
<1>1. rem \in Nat /\ rem <= 1980 /\ total - (126 + 0) = rem /\ ~(total <= 126 + 0)
    OBVIOUS
<1>3. \A phase \in CloudRest : d[phase] = CloudSpecs(0)[phase].least + q(CloudSpecs(0)[phase].weight)
    BY <1>1, <1>2 DEF Share
<1> HIDE DEF rem
<1>4. /\ d.auth = 10 + q(5) /\ d.budget = 8 + q(4) /\ d.prepare = 14 + q(8)
      /\ d.send = 24 + q(18) /\ d.recv = 24 + q(16) /\ d.backoff = 0 + q(0)
      /\ d.parse = 12 + q(8) /\ d.aggregate = 10 + q(6)
  <2> HIDE DEF q
  <2> QED BY <1>3 DEF CloudSpecs, CloudRest
<1>5. \A w \in Nat : q(w) \in Nat /\ 152 * q(w) <= 2 * (rem * w) + 76 /\ 2 * (rem * w) <= 152 * q(w) + 76
  <2> TAKE w \in Nat
  <2> DEFINE n == rem * w
             c == 76
  <2>2. n \in Nat /\ c \in Nat \ {0}
      BY <1>1
  <2> HIDE DEF n, c
  <2>3. /\ Rounded(n, c) \in Nat /\ 2 * (Rounded(n, c) * c) <= 2 * n + c
        /\ 2 * n <= 2 * (Rounded(n, c) * c) + c
      BY <2>2, RoundedBounds
  <2>4. /\ Rounded(n, c) \in Nat /\ 152 * Rounded(n, c) <= 2 * n + 76
        /\ 2 * n <= 152 * Rounded(n, c) + 76
      BY <2>2, <2>3 DEF c
  <2> QED BY <2>4 DEF n, c
<1>6. q(0) = 0
    BY <1>1 DEF Rounded
<1> HIDE DEF q
<1>7. /\ q(5) \in Nat /\ 152 * q(5) <= 10 * rem + 76 /\ q(4) \in Nat /\ 152 * q(4) <= 8 * rem + 76
      /\ q(8) \in Nat /\ 152 * q(8) <= 16 * rem + 76 /\ q(18) \in Nat /\ 36 * rem <= 152 * q(18) + 76
      /\ q(16) \in Nat /\ 32 * rem <= 152 * q(16) + 76
      /\ q(6) \in Nat /\ 152 * q(6) <= 12 * rem + 76
    BY <1>1, <1>5
<1>8. q(5) + q(4) + q(8) <= q(18) + q(16) + 16
    BY <1>1, <1>7
<1>9. q(8) <= 208 /\ q(6) <= 170
    BY <1>1, <1>7
<1> QED
    BY <1>4, <1>6, <1>7, <1>8, <1>9

LEMMA HttpFits ==
    ASSUME NEW total \in Nat, total >= 80, total <= 1547, NEW d, d = Allocate(total, HttpSpecs)
    PROVE  /\ d.resolve + d.session <= d.send + d.recv /\ d.cache <= 180 /\ d.parse <= 220
<1>1. \A phase \in HttpRest : d[phase] = Share(total, HttpSpecs[phase], 88, 56)
    BY HttpSpread
<1>2. CASE total <= 88
  <2> DEFINE q(w) == Rounded(w * total, 88)
  <2>1. \A phase \in HttpRest : d[phase] = q(HttpSpecs[phase].least)
      BY <1>1, <1>2 DEF Share
  <2>2. \A w \in Nat : q(w) \in Nat /\ 176 * q(w) <= 2 * (w * total) + 88 /\ 2 * (w * total) <= 176 * q(w) + 88
    <3> TAKE w \in Nat
    <3> DEFINE n == w * total
               c == 88
    <3>2. n \in Nat /\ c \in Nat \ {0}
        OBVIOUS
    <3> HIDE DEF n, c
    <3>3. /\ Rounded(n, c) \in Nat /\ 2 * (Rounded(n, c) * c) <= 2 * n + c
          /\ 2 * n <= 2 * (Rounded(n, c) * c) + c
        BY <3>2, RoundedBounds
    <3>4. /\ Rounded(n, c) \in Nat /\ 176 * Rounded(n, c) <= 2 * n + 88
          /\ 2 * n <= 176 * Rounded(n, c) + 88
        BY <3>2, <3>3 DEF c
    <3> QED BY <3>4 DEF n, c
  <2> HIDE DEF q
  <2>3. /\ d.resolve = q(12) /\ d.session = q(10) /\ d.send = q(18) /\ d.recv = q(18)
        /\ d.parse = q(12) /\ d.cache = q(10)
      BY <2>1 DEF HttpSpecs, HttpRest
  <2>4. /\ q(12) \in Nat /\ 176 * q(12) <= 24 * total + 88 /\ q(10) \in Nat /\ 176 * q(10) <= 20 * total + 88
        /\ q(18) \in Nat /\ 36 * total <= 176 * q(18) + 88
      BY <2>2
  <2>5. q(12) + q(10) <= q(18) + q(18) /\ q(10) <= 180 /\ q(12) <= 220
      BY <1>2, <2>4
  <2> QED BY <2>3, <2>5
<1>3. CASE total > 88
  <2> DEFINE rem == total - 88
             q(w) == Rounded(rem * w, 56)
  <2>1. rem \in Nat /\ rem <= 1459 /\ ~(total <= 88)
      BY <1>3
  <2>2. \A phase \in HttpRest : d[phase] = HttpSpecs[phase].least + q(HttpSpecs[phase].weight)
      BY <1>1, <2>1 DEF Share
  <2> HIDE DEF rem
  <2>3. \A w \in Nat : q(w) \in Nat /\ 112 * q(w) <= 2 * (rem * w) + 56 /\ 2 * (rem * w) <= 112 * q(w) + 56
    <3> TAKE w \in Nat
    <3> DEFINE n == rem * w
               c == 56
    <3>2. n \in Nat /\ c \in Nat \ {0}
        BY <2>1
    <3> HIDE DEF n, c
    <3>3. /\ Rounded(n, c) \in Nat /\ 2 * (Rounded(n, c) * c) <= 2 * n + c
          /\ 2 * n <= 2 * (Rounded(n, c) * c) + c
        BY <3>2, RoundedBounds
    <3>4. /\ Rounded(n, c) \in Nat /\ 112 * Rounded(n, c) <= 2 * n + 56
          /\ 2 * n <= 112 * Rounded(n, c) + 56
        BY <3>2, <3>3 DEF c
    <3> QED BY <3>4 DEF n, c
  <2> HIDE DEF q
  <2>4. /\ d.resolve = 12 + q(8) /\ d.session = 10 + q(6) /\ d.send = 18 + q(14) /\ d.recv = 18 + q(12)
        /\ d.parse = 12 + q(8) /\ d.cache = 10 + q(5)
      BY <2>2 DEF HttpSpecs, HttpRest
  <2>5. /\ q(8) \in Nat /\ 112 * q(8) <= 16 * rem + 56 /\ q(6) \in Nat /\ 112 * q(6) <= 12 * rem + 56
        /\ q(14) \in Nat /\ 28 * rem <= 112 * q(14) + 56 /\ q(12) \in Nat /\ 24 * rem <= 112 * q(12) + 56
        /\ q(5) \in Nat /\ 112 * q(5) <= 10 * rem + 56
      BY <2>1, <2>3
  <2>6. q(8) + q(6) <= q(14) + q(12) + 14 /\ q(8) <= 208 /\ q(5) <= 170
      BY <2>1, <2>5
  <2> QED BY <2>4, <2>5, <2>6
<1> QED
    BY <1>2, <1>3

LEMMA PhasesFit ==
    ASSUME NEW p \in ApiPolicy, NEW s, IsRequest(s), ~s.backoff, NotTooLong(s)
    PROVE  ApiFits(s, Durations(p, s))
<1> DEFINE d == Durations(p, s)
           total == s.latency
<1>0. total \in Nat /\ (s.lane = "cloud" => total >= 350 /\ total <= 2106)
      /\ (s.lane = "http" => total >= 80 /\ total <= 1547)
    BY DEF IsRequest, NotTooLong
<1>1. CASE s.lane = "cloud"
  <2>1. d = Allocate(total, CloudSpecs(0))
      BY <1>1 DEF Durations, Specs
  <2> HIDE DEF d, total
  <2>2. /\ d.auth + d.budget + d.prepare <= d.send + d.recv
        /\ d.backoff = 0 /\ d.aggregate <= 180 /\ d.parse <= 220
      BY <1>0, <1>1, <2>1, CloudFits
  <2> QED BY <1>1, <2>2 DEF ApiFits, AggregateMax, ParseMax, d
<1>2. CASE s.lane = "http"
  <2>1. d = Allocate(total, HttpSpecs)
      BY <1>2 DEF Durations, Specs
  <2> HIDE DEF d, total
  <2>2. d.resolve + d.session <= d.send + d.recv /\ d.cache <= 180 /\ d.parse <= 220
      BY <1>0, <1>2, <2>1, HttpFits
  <2> QED BY <1>2, <2>2 DEF ApiFits, AggregateMax, ParseMax, d
<1> QED
    BY <1>1, <1>2 DEF IsRequest

\* What is prepared takes no longer than sending the request and receiving the answer.
LEMMA PrepareTime ==
    ASSUME NEW p, p.authBudget, NEW l, NEW r, IsRequest(r), NEW d,
           \A x \in AllPhases(r) : d[x] \in Nat, ApiFits(r, d)
    PROVE  SumFunctionOnSet(d, Preparing(p, l, r)) <= d.send + d.recv
<1>0. Summable(d, {}) /\ SumFunctionOnSet(d, {}) = 0
    BY FS_EmptySet, SumOfNone DEF Summable
<1>1. CASE ~PrepareAdmitted(p, l, r)
  <2>1. Preparing(p, l, r) = {}
      BY <1>1 DEF Preparing
  <2>2. d.send \in Nat /\ d.recv \in Nat
      BY DEF AllPhases, CloudRest, HttpRest
  <2> QED BY <1>0, <2>1, <2>2
<1>2. CASE PrepareAdmitted(p, l, r) /\ r.lane = "cloud"
  <2>1. Preparing(p, l, r) = {"auth", "budget", "prepare"}
      BY <1>2, PreparedPhases
  <2>2. /\ d.auth \in Nat /\ d.budget \in Nat /\ d.prepare \in Nat
      BY <1>2 DEF AllPhases, CloudRest
  <2>3. Summable(d, {"auth"}) /\ SumFunctionOnSet(d, {"auth"}) = d.auth
    <3> DEFINE S == {}
    <3>1. "auth" \notin S /\ S \cup {"auth"} = {"auth"}
        OBVIOUS
    <3>2. Summable(d, S) /\ SumFunctionOnSet(d, S) = 0 /\ d["auth"] \in Int
        BY <1>0, <2>2
    <3> HIDE DEF S
    <3>3. Summable(d, S \cup {"auth"}) /\ SumFunctionOnSet(d, S \cup {"auth"}) = SumFunctionOnSet(d, S) + d["auth"]
        BY <3>1, <3>2, SumInsert
    <3> QED BY <2>2, <3>1, <3>2, <3>3
  <2>4. Summable(d, {"auth", "budget"}) /\ SumFunctionOnSet(d, {"auth", "budget"}) = d.auth + d.budget
    <3> DEFINE S == {"auth"}
    <3>1. "budget" \notin S
        OBVIOUS
    <3>2. Summable(d, S) /\ d["budget"] \in Int
        BY <2>2, <2>3
    <3>3. S \cup {"budget"} = {"auth", "budget"}
        OBVIOUS
    <3> HIDE DEF S
    <3>4. Summable(d, S \cup {"budget"}) /\ SumFunctionOnSet(d, S \cup {"budget"}) = SumFunctionOnSet(d, S) + d["budget"]
        BY <3>1, <3>2, SumInsert
    <3> QED BY <2>3, <3>3, <3>4 DEF S
  <2>5. SumFunctionOnSet(d, {"auth", "budget", "prepare"}) = d.auth + d.budget + d.prepare
    <3> DEFINE S == {"auth", "budget"}
    <3>1. "prepare" \notin S
        OBVIOUS
    <3>2. Summable(d, S) /\ d["prepare"] \in Int
        BY <2>2, <2>4
    <3>3. S \cup {"prepare"} = {"auth", "budget", "prepare"}
        OBVIOUS
    <3> HIDE DEF S
    <3>4. SumFunctionOnSet(d, S \cup {"prepare"}) = SumFunctionOnSet(d, S) + d["prepare"]
        BY <3>1, <3>2, SumInsert
    <3> QED BY <2>4, <3>3, <3>4 DEF S
  <2> QED BY <1>2, <2>1, <2>5 DEF ApiFits
<1>3. CASE PrepareAdmitted(p, l, r) /\ r.lane = "http"
  <2>1. Preparing(p, l, r) = {"resolve", "session"}
      BY <1>3, PreparedPhases
  <2>2. d.resolve \in Nat /\ d.session \in Nat
      BY <1>3 DEF AllPhases, HttpRest
  <2>3. Summable(d, {"resolve"}) /\ SumFunctionOnSet(d, {"resolve"}) = d.resolve
    <3> DEFINE S == {}
    <3>1. "resolve" \notin S /\ S \cup {"resolve"} = {"resolve"}
        OBVIOUS
    <3>2. Summable(d, S) /\ SumFunctionOnSet(d, S) = 0 /\ d["resolve"] \in Int
        BY <1>0, <2>2
    <3> HIDE DEF S
    <3>3. Summable(d, S \cup {"resolve"}) /\ SumFunctionOnSet(d, S \cup {"resolve"}) = SumFunctionOnSet(d, S) + d["resolve"]
        BY <3>1, <3>2, SumInsert
    <3> QED BY <2>2, <3>1, <3>2, <3>3
  <2>4. SumFunctionOnSet(d, {"resolve", "session"}) = d.resolve + d.session
    <3> DEFINE S == {"resolve"}
    <3>1. "session" \notin S
        OBVIOUS
    <3>2. Summable(d, S) /\ d["session"] \in Int
        BY <2>2, <2>3
    <3>3. S \cup {"session"} = {"resolve", "session"}
        OBVIOUS
    <3> HIDE DEF S
    <3>4. SumFunctionOnSet(d, S \cup {"session"}) = SumFunctionOnSet(d, S) + d["session"]
        BY <3>1, <3>2, SumInsert
    <3> QED BY <2>3, <3>3, <3>4 DEF S
  <2> QED BY <1>3, <2>1, <2>4 DEF ApiFits
<1> QED
    BY <1>1, <1>2, <1>3 DEF IsRequest

-----------------------------------------------------------------------------
(* What the refiners build, their validators accept: the line of a batch   *)

\* In the order of the phases, y comes next after x.
Follows(phases, x, y) ==
    EarlierThan(phases, y) = EarlierThan(phases, x) \cup {x} /\ x \notin EarlierThan(phases, x)

LEMMA NeighboursFollow ==
    ASSUME NEW n \in Nat, NEW s, DOMAIN s = 1 .. n,
           \A i, j \in 1 .. n : s[i] = s[j] => i = j,
           NEW i \in 1 .. n - 1
    PROVE  Follows(s, s[i], s[i + 1])
<1> DEFINE E(x) == EarlierThan(s, x)
<1>1. ASSUME NEW k \in 1 .. n PROVE E(s[k]) = {s[j] : j \in 1 .. k - 1}
  <2>1. {j \in DOMAIN s : \E m \in DOMAIN s : j < m /\ s[m] = s[k]} = 1 .. k - 1
    <3>1. ASSUME NEW j \in 1 .. n, NEW m \in 1 .. n, j < m, s[m] = s[k] PROVE j \in 1 .. k - 1
      <4>1. m = k
          BY <3>1
      <4> QED BY <3>1, <4>1
    <3>2. ASSUME NEW j \in 1 .. k - 1 PROVE j \in 1 .. n /\ j < k
        OBVIOUS
    <3> QED BY <3>1, <3>2
  <2> QED BY <2>1 DEF EarlierThan
<1>2. i \in 1 .. n /\ i + 1 \in 1 .. n /\ (i + 1) - 1 = i
    OBVIOUS
<1>3. E(s[i]) = {s[j] : j \in 1 .. i - 1} /\ E(s[i + 1]) = {s[j] : j \in 1 .. i}
    BY <1>1, <1>2
<1> HIDE DEF E
<1>4. E(s[i + 1]) = E(s[i]) \cup {s[i]}
  <2>1. \A j \in 1 .. i : j \in 1 .. i - 1 \/ j = i
      OBVIOUS
  <2>2. \A j \in 1 .. i - 1 : j \in 1 .. i
      OBVIOUS
  <2> QED BY <1>2, <1>3, <2>1, <2>2
<1>5. s[i] \notin E(s[i])
  <2>1. \A j \in 1 .. i - 1 : j \in 1 .. n /\ j # i
      OBVIOUS
  <2> QED BY <1>2, <1>3, <2>1
<1> QED
    BY <1>4, <1>5 DEF Follows, E

\* The number of phases, and how many of them may come early.
PhaseCount(s) == IF s.lane = "cloud" THEN 11 ELSE 7

PhasesAreListed(s, n) ==
    /\ Len(ApiPhases(s)) = n /\ DOMAIN ApiPhases(s) = 1 .. n
    /\ \A i, j \in 1 .. n : ApiPhases(s)[i] = ApiPhases(s)[j] => i = j
    /\ \A i \in 1 .. n : ApiPhases(s)[i] \in AllPhases(s)
    /\ \A i \in 1 .. n - 1 : Follows(ApiPhases(s), ApiPhases(s)[i], ApiPhases(s)[i + 1])

LEMMA ListedInCloud ==
    ASSUME NEW s, s.lane = "cloud"
    PROVE  /\ PhasesAreListed(s, 11)
           /\ ApiPhases(s)[1] = "auth" /\ ApiPhases(s)[2] = "budget" /\ ApiPhases(s)[3] = "prepare"
           /\ ApiPhases(s)[4] = "session" /\ ApiPhases(s)[5] = "send" /\ ApiPhases(s)[6] = "recv"
           /\ \A i \in 4 .. 11 : ApiPhases(s)[i] \notin {"auth", "budget", "prepare"}
<1> DEFINE f == ApiPhases(s)
           n == 11
<1>1. f = CloudPhases
    BY DEF ApiPhases
<1>2. Len(f) = 11 /\ DOMAIN f = 1 .. 11
    BY <1>1 DEF CloudPhases
<1>3. /\ f[1] = "auth" /\ f[2] = "budget" /\ f[3] = "prepare" /\ f[4] = "session" /\ f[5] = "send"
      /\ f[6] = "recv" /\ f[7] = "backoff" /\ f[8] = "parse" /\ f[9] = "aggregate" /\ f[10] = "commit"
      /\ f[11] = "write"
    BY <1>1 DEF CloudPhases
<1> HIDE DEF f
<1>4. \A i \in 1 .. 11 : f[i] \in AllPhases(s)
    BY <1>3 DEF AllPhases, CloudRest
<1> DEFINE at1 == [x \in AllPhases(s) |->
                     CASE x = "auth" -> 1 [] x = "budget" -> 2 [] x = "prepare" -> 3 [] x = "session" -> 4
                       [] x = "send" -> 5 [] x = "recv" -> 6 [] x = "backoff" -> 7 [] x = "parse" -> 8
                       [] x = "aggregate" -> 9 [] x = "commit" -> 10 [] x = "write" -> 11]
<1>5. \A i \in 1 .. 11 : at1[f[i]] = i
    BY <1>3, <1>4
<1> HIDE DEF at1
<1>6. \A i, j \in 1 .. 11 : f[i] = f[j] => i = j
    BY <1>5
<1>7. \A i \in 4 .. 11 : f[i] \notin {"auth", "budget", "prepare"}
  <2>1. \A i \in 4 .. 11 : i \in 1 .. 11 /\ i # 1 /\ i # 2 /\ i # 3
      OBVIOUS
  <2> QED BY <1>3, <1>6, <2>1
<1>8. \A i \in 1 .. n - 1 : Follows(f, f[i], f[i + 1])
  <2>1. n \in Nat /\ DOMAIN f = 1 .. n /\ \A i, j \in 1 .. n : f[i] = f[j] => i = j
      BY <1>2, <1>6
  <2> HIDE DEF n
  <2> QED BY <2>1, NeighboursFollow
<1> QED
    BY <1>2, <1>3, <1>4, <1>6, <1>7, <1>8 DEF PhasesAreListed, f

LEMMA ListedInHttp ==
    ASSUME NEW s, s.lane = "http"
    PROVE  /\ PhasesAreListed(s, 7)
           /\ ApiPhases(s)[1] = "resolve" /\ ApiPhases(s)[2] = "session"
           /\ ApiPhases(s)[3] = "send" /\ ApiPhases(s)[4] = "recv"
           /\ \A i \in 3 .. 7 : ApiPhases(s)[i] \notin {"resolve", "session"}
<1> DEFINE f == ApiPhases(s)
           n == 7
<1>1. f = HttpPhases
    BY DEF ApiPhases
<1>2. Len(f) = 7 /\ DOMAIN f = 1 .. 7
    BY <1>1 DEF HttpPhases
<1>3. /\ f[1] = "resolve" /\ f[2] = "session" /\ f[3] = "send" /\ f[4] = "recv" /\ f[5] = "parse"
      /\ f[6] = "cache" /\ f[7] = "write"
    BY <1>1 DEF HttpPhases
<1> HIDE DEF f
<1>4. \A i \in 1 .. 7 : f[i] \in AllPhases(s)
    BY <1>3 DEF AllPhases, HttpRest
<1> DEFINE at1 == [x \in AllPhases(s) |->
                     CASE x = "resolve" -> 1 [] x = "session" -> 2 [] x = "send" -> 3 [] x = "recv" -> 4
                       [] x = "parse" -> 5 [] x = "cache" -> 6 [] x = "write" -> 7]
<1>5. \A i \in 1 .. 7 : at1[f[i]] = i
    BY <1>3, <1>4
<1> HIDE DEF at1
<1>6. \A i, j \in 1 .. 7 : f[i] = f[j] => i = j
    BY <1>5
<1>7. \A i \in 3 .. 7 : f[i] \notin {"resolve", "session"}
  <2>1. \A i \in 3 .. 7 : i \in 1 .. 7 /\ i # 1 /\ i # 2
      OBVIOUS
  <2> QED BY <1>3, <1>6, <2>1
<1>8. \A i \in 1 .. n - 1 : Follows(f, f[i], f[i + 1])
  <2>1. n \in Nat /\ DOMAIN f = 1 .. n /\ \A i, j \in 1 .. n : f[i] = f[j] => i = j
      BY <1>2, <1>6
  <2> HIDE DEF n
  <2> QED BY <2>1, NeighboursFollow
<1> QED
    BY <1>2, <1>3, <1>4, <1>6, <1>7, <1>8 DEF PhasesAreListed, f

LEMMA ConsecutiveNext ==
    ASSUME NEW phases, NEW d, NEW total, NEW all, ApiSpread(d, total, all),
           NEW set \in SUBSET all, NEW t \in Int,
           NEW x \in set, NEW y \in set, Follows(phases, x, y)
    PROVE  Consecutive(phases, set, d, t)[y].from = Consecutive(phases, set, d, t)[x].to
<1> DEFINE X == set \cap EarlierThan(phases, x)
           Y == set \cap EarlierThan(phases, y)
<1>1. Y = X \cup {x} /\ x \notin X /\ X \in SUBSET all
    BY DEF Follows
<1>2. /\ Consecutive(phases, set, d, t)[x] = Span(t + SumFunctionOnSet(d, X), d[x])
      /\ Consecutive(phases, set, d, t)[y] = Span(t + SumFunctionOnSet(d, Y), d[y])
    BY DEF Consecutive
<1> HIDE DEF X, Y
<1>3. d[x] \in Int /\ IsFiniteSet(all) /\ \A z \in all : d[z] \in Int
    BY DEF ApiSpread
<1>4. Summable(d, X)
    BY <1>1, <1>3, FS_Subset DEF Summable
<1>5. SumFunctionOnSet(d, X \cup {x}) = SumFunctionOnSet(d, X) + d[x] /\ SumFunctionOnSet(d, X) \in Int
    BY <1>1, <1>3, <1>4, SumInsert, SumInt
<1> QED
    BY <1>1, <1>2, <1>3, <1>5 DEF Span

LEMMA PhasesListed ==
    ASSUME NEW s, IsRequest(s)
    PROVE  /\ PhasesAreListed(s, PhaseCount(s)) /\ PhaseCount(s) \in {7, 11}
           /\ Follows(ApiPhases(s), "send", "recv")
           /\ {"send", "recv", "write"} \subseteq AllPhases(s)
<1>1. CASE s.lane = "cloud"
  <2>1. /\ PhasesAreListed(s, 11) /\ ApiPhases(s)[5] = "send" /\ ApiPhases(s)[6] = "recv"
      BY <1>1, ListedInCloud
  <2>2. Follows(ApiPhases(s), ApiPhases(s)[5], ApiPhases(s)[5 + 1])
      BY <2>1, 5 \in 1 .. 11 - 1 DEF PhasesAreListed
  <2>3. {"send", "recv", "write"} \subseteq AllPhases(s)
      BY <1>1 DEF AllPhases, CloudRest
  <2> QED BY <1>1, <2>1, <2>2, <2>3 DEF PhaseCount
<1>2. CASE s.lane = "http"
  <2>1. /\ PhasesAreListed(s, 7) /\ ApiPhases(s)[3] = "send" /\ ApiPhases(s)[4] = "recv"
      BY <1>2, ListedInHttp
  <2>2. Follows(ApiPhases(s), ApiPhases(s)[3], ApiPhases(s)[3 + 1])
      BY <2>1, 3 \in 1 .. 7 - 1 DEF PhasesAreListed
  <2>3. {"send", "recv", "write"} \subseteq AllPhases(s)
      BY <1>2 DEF AllPhases, HttpRest
  <2> QED BY <1>2, <2>1, <2>2, <2>3 DEF PhaseCount
<1> QED
    BY <1>1, <1>2 DEF IsRequest

\* The line is in order, each phase lasts as long as it is given, and the answer is
\* received as soon as the request is sent.
ApiLaid(s, d, line) ==
    /\ InOrder(line, ApiPhases(s))
    /\ \A x \in AllPhases(s) : line[x].to = line[x].from + d[x]
    /\ line.recv.from = line.send.to

LEMMA FirstLaid ==
    ASSUME NEW p \in ApiPolicy, NEW s, IsRequest(s), NEW line,
           line = Consecutive(ApiPhases(s), Range(ApiPhases(s)), Durations(p, s), 0)
    PROVE  ApiLaid(s, Durations(p, s), line)
<1> DEFINE d == Durations(p, s)
           all == AllPhases(s)
           f == ApiPhases(s)
           n == PhaseCount(s)
           t == 0
           set == all
           total == s.latency
<1>1. ApiSpread(d, total, all)
    BY DurationsSpread
<1>2. line = Consecutive(f, set, d, t) /\ set = all
    BY OrderOfPhases
<1>20. set \in SUBSET all /\ t \in Int
    OBVIOUS
<1>3. /\ Len(f) = n /\ n \in {7, 11} /\ (\A i \in 1 .. n : f[i] \in all)
      /\ \A i \in 1 .. n - 1 : Follows(f, f[i], f[i + 1])
      /\ Follows(f, "send", "recv") /\ "send" \in all /\ "recv" \in all
    BY PhasesListed DEF PhasesAreListed
<1> HIDE DEF d, all, f, n, t, set, total
<1>4. ASSUME NEW x \in all, NEW y \in all, Follows(f, x, y) PROVE line[y].from = line[x].to
  <2>1. x \in set /\ y \in set
      BY <1>2
  <2>2. Consecutive(f, set, d, t)[y].from = Consecutive(f, set, d, t)[x].to
      BY <1>1, <1>20, <1>4, <2>1, ConsecutiveNext
  <2> QED BY <1>2, <2>2
<1>5. \A x \in all : line[x] \in Spanned /\ line[x].to = line[x].from + d[x]
  <2>1. \A x \in set : /\ Consecutive(f, set, d, t)[x] \in Spanned
                       /\ Consecutive(f, set, d, t)[x].to = Consecutive(f, set, d, t)[x].from + d[x]
      BY <1>1, <1>20, ConsecutiveFacts
  <2> QED BY <1>2, <2>1
<1>6. InOrder(line, f)
  <2>1. ASSUME NEW i \in 1 .. n - 1 PROVE line[f[i]].to <= line[f[i + 1]].from
    <3>1. i \in 1 .. n /\ i + 1 \in 1 .. n
        BY <1>3
    <3> DEFINE x == f[i]  y == f[i + 1]
    <3>2. x \in all /\ y \in all /\ Follows(f, x, y)
        BY <1>3, <3>1
    <3> HIDE DEF x, y
    <3>3. line[y].from = line[x].to /\ line[y].from \in Int
        BY <1>4, <1>5, <3>2 DEF Spanned
    <3>4. line[x].to <= line[y].from
        BY <3>3
    <3> QED BY <3>4 DEF x, y
  <2> QED BY <1>3, <2>1 DEF InOrder
<1>7. line["recv"].from = line["send"].to
    BY <1>3, <1>4
<1> QED
    BY <1>5, <1>6, <1>7 DEF ApiLaid, d, all, f

\* The first m phases of r are prepared early.
EarlyUpTo(p, l, r, m) ==
    LET early == Preparing(p, l, r)
        f == ApiPhases(r)
    IN  /\ m \in 0 .. PhaseCount(r) - 1
        /\ \A i \in 1 .. m : f[i] \in early
        /\ \A i \in m + 1 .. PhaseCount(r) : f[i] \notin early
        /\ m # 0 => /\ early = (early \cap EarlierThan(f, f[m])) \cup {f[m]}
                    /\ f[m] \notin EarlierThan(f, f[m])

LEMMA EarlyAreFirst ==
    ASSUME NEW p, p.authBudget, NEW l, NEW r, IsRequest(r)
    PROVE  \E m \in {0, 2, 3} : EarlyUpTo(p, l, r, m)
<1> DEFINE f == ApiPhases(r)
           early == Preparing(p, l, r)
<1>1. CASE ~PrepareAdmitted(p, l, r)
  <2>1. early = {}
      BY <1>1 DEF Preparing
  <2>2. PhaseCount(r) \in {7, 11}
      BY PhasesListed
  <2>3. EarlyUpTo(p, l, r, 0)
      BY <2>1, <2>2 DEF EarlyUpTo
  <2> QED BY <2>3
<1>2. CASE PrepareAdmitted(p, l, r) /\ r.lane = "cloud"
  <2>1. early = {"prepare", "auth", "budget"} /\ PhaseCount(r) = 11 /\ EarlierThan(f, "auth") = {}
      BY <1>2, PreparedPhases, OrderOfPhases DEF PhaseCount
  <2>2. /\ PhasesAreListed(r, 11) /\ f[1] = "auth" /\ f[2] = "budget" /\ f[3] = "prepare"
        /\ \A i \in 4 .. 11 : f[i] \notin {"auth", "budget", "prepare"}
      BY <1>2, ListedInCloud
  <2>3. Follows(f, f[1], f[1 + 1]) /\ Follows(f, f[2], f[2 + 1])
      BY <2>2, 1 \in 1 .. 11 - 1, 2 \in 1 .. 11 - 1 DEF PhasesAreListed
  <2> HIDE DEF f, early
  <2>4. EarlierThan(f, "prepare") = {"auth", "budget"}
      BY <2>1, <2>2, <2>3 DEF Follows
  <2>5. /\ \A i \in 1 .. 3 : f[i] \in early
        /\ \A i \in 4 .. 11 : f[i] \notin early
        /\ early = (early \cap EarlierThan(f, f[3])) \cup {f[3]} /\ f[3] \notin EarlierThan(f, f[3])
      BY <2>1, <2>2, <2>4
  <2>6. EarlyUpTo(p, l, r, 3)
    <3>1. 3 \in 0 .. PhaseCount(r) - 1 /\ PhaseCount(r) = 11 /\ 3 + 1 = 4
        BY <2>1
    <3> QED BY <2>5, <3>1 DEF EarlyUpTo, f, early
  <2> QED BY <2>6
<1>3. CASE PrepareAdmitted(p, l, r) /\ r.lane = "http"
  <2>1. early = {"resolve", "session"} /\ PhaseCount(r) = 7 /\ EarlierThan(f, "resolve") = {}
      BY <1>3, PreparedPhases, OrderOfPhases DEF PhaseCount
  <2>2. /\ PhasesAreListed(r, 7) /\ f[1] = "resolve" /\ f[2] = "session"
        /\ \A i \in 3 .. 7 : f[i] \notin {"resolve", "session"}
      BY <1>3, ListedInHttp
  <2>3. Follows(f, f[1], f[1 + 1])
      BY <2>2, 1 \in 1 .. 7 - 1 DEF PhasesAreListed
  <2> HIDE DEF f, early
  <2>4. EarlierThan(f, "session") = {"resolve"}
      BY <2>1, <2>2, <2>3 DEF Follows
  <2>5. /\ \A i \in 1 .. 2 : f[i] \in early
        /\ \A i \in 3 .. 7 : f[i] \notin early
        /\ early = (early \cap EarlierThan(f, f[2])) \cup {f[2]} /\ f[2] \notin EarlierThan(f, f[2])
      BY <2>1, <2>2, <2>4
  <2>6. EarlyUpTo(p, l, r, 2)
    <3>1. 2 \in 0 .. PhaseCount(r) - 1 /\ PhaseCount(r) = 7 /\ 2 + 1 = 3
        BY <2>1
    <3> QED BY <2>5, <3>1 DEF EarlyUpTo, f, early
  <2> QED BY <2>6
<1> QED
    BY <1>1, <1>2, <1>3 DEF IsRequest

\* What is prepared lies between the request of the batch before and its answer; the
\* request of the batch follows when that one has been written.
ApiLater(p, l, r, before, line) ==
    /\ ~PrepareAdmitted(p, l, r) => before.write.to <= First(r, line).from
    /\ before.send.from <= First(r, line).from
    /\ PrepareAdmitted(p, l, r) => \A s \in Prepared(r, line) : s.to <= before.recv.to
    /\ before.write.to <= line.send.from

\* The line before leaves the time that the preparation takes.
LeavesTime(before, ms) ==
    /\ before.send.from \in Int /\ before.recv.to \in Int /\ before.write.to \in Int
    /\ before.send.from <= before.recv.to /\ before.recv.to <= before.write.to
    /\ ms <= before.recv.to - before.send.from

LEMMA LaterLaid ==
    ASSUME NEW p \in ApiPolicy, p.authBudget, NEW l, NEW r, IsRequest(r), NEW before,
           LeavesTime(before, SumFunctionOnSet(Durations(p, r), Preparing(p, l, r))),
           NEW line, line = LaterApiLine(p, l, r, before)
    PROVE  ApiLaid(r, Durations(p, r), line) /\ ApiLater(p, l, r, before, line)
<1> DEFINE d == Durations(p, r)
           all == AllPhases(r)
           f == ApiPhases(r)
           n == PhaseCount(r)
           early == Preparing(p, l, r)
           late == all \ early
           prepareTime == SumFunctionOnSet(d, early)
           t == Larger(before.send.from, before.recv.to - prepareTime)
           u == before.write.to
           prepared == Consecutive(f, early, d, t)
           others == Consecutive(f, late, d, u)
           total == r.latency
<1>1. ApiSpread(d, total, all)
    BY DurationsSpread
<1>2. Range(f) = all /\ early \in SUBSET all /\ late \in SUBSET all
    BY OrderOfPhases, PreparedPhases
<1>3. line = [x \in all |-> IF x \in early THEN prepared[x] ELSE others[x]]
    BY <1>2 DEF LaterApiLine
<1>4. /\ Len(f) = n /\ n \in {7, 11} /\ (\A i \in 1 .. n : f[i] \in all)
      /\ \A i \in 1 .. n - 1 : Follows(f, f[i], f[i + 1])
      /\ Follows(f, "send", "recv") /\ "send" \in all /\ "recv" \in all
    BY PhasesListed DEF PhasesAreListed
<1>5. PICK m \in {0, 2, 3} : EarlyUpTo(p, l, r, m)
    BY EarlyAreFirst
<1>6. /\ m \in 0 .. n - 1 /\ (\A i \in 1 .. m : f[i] \in early) /\ (\A i \in m + 1 .. n : f[i] \notin early)
      /\ m # 0 => early = (early \cap EarlierThan(f, f[m])) \cup {f[m]} /\ f[m] \notin EarlierThan(f, f[m])
    BY <1>5 DEF EarlyUpTo
<1>7. /\ before.send.from \in Int /\ before.recv.to \in Int /\ u \in Int
      /\ before.send.from <= before.recv.to /\ before.recv.to <= u
      /\ prepareTime <= before.recv.to - before.send.from
    BY DEF LeavesTime
<1>8. (\A x \in all : d[x] \in Nat) /\ IsFiniteSet(all)
    BY <1>1 DEF ApiSpread
<1>9. "send" \notin early /\ "recv" \notin early
    BY PreparedPhases DEF Preparing
<1>10. ~PrepareAdmitted(p, l, r) => early = {}
    BY DEF Preparing
<1> HIDE DEF d, all, f, n, early, prepared, others, total
<1>11. prepareTime \in Nat
    BY <1>2, <1>8, SumOfPart
<1> HIDE DEF prepareTime, u
<1>12. t \in Int /\ t >= before.send.from /\ t + prepareTime = before.recv.to
    BY <1>7, <1>11 DEF Larger
<1> HIDE DEF t
<1>13. /\ \A x \in early : line[x] = prepared[x]
       /\ \A x \in late : line[x] = others[x]
       /\ all = early \cup late
    BY <1>2, <1>3
<1>130. \A x \in all : x \notin early => x \in late
    OBVIOUS
<1> HIDE DEF late
<1>14. ASSUME NEW x \in early
       PROVE  /\ line[x] \in Spanned /\ line[x].from >= t /\ line[x].to = line[x].from + d[x]
              /\ early = (early \cap EarlierThan(f, x)) \cup {x} /\ x \notin EarlierThan(f, x)
                     => line[x].to = before.recv.to
  <2>1. /\ prepared[x] \in Spanned /\ prepared[x].from >= t /\ prepared[x].to = prepared[x].from + d[x]
        /\ early = (early \cap EarlierThan(f, x)) \cup {x} /\ x \notin EarlierThan(f, x)
               => prepared[x].to = t + SumFunctionOnSet(d, early)
      BY <1>1, <1>2, <1>12, <1>14, ConsecutiveFacts DEF prepared
  <2> QED BY <1>12, <1>13, <1>14, <2>1 DEF prepareTime
<1>15. ASSUME NEW x \in late
       PROVE  line[x] \in Spanned /\ line[x].from >= u /\ line[x].to = line[x].from + d[x]
  <2>1. others[x] \in Spanned /\ others[x].from >= u /\ others[x].to = others[x].from + d[x]
      BY <1>1, <1>2, <1>7, <1>15, ConsecutiveFacts DEF others
  <2> QED BY <1>13, <1>15, <2>1
<1>16. ASSUME NEW x \in early, NEW y \in early, Follows(f, x, y) PROVE line[y].from = line[x].to
  <2>0. early \in SUBSET all /\ t \in Int
      BY <1>2, <1>12
  <2>1. prepared[y].from = prepared[x].to
      BY <1>1, <1>16, <2>0, ConsecutiveNext DEF prepared
  <2> QED BY <1>13, <1>16, <2>1
<1>17. ASSUME NEW x \in late, NEW y \in late, Follows(f, x, y) PROVE line[y].from = line[x].to
  <2>1. others[y].from = others[x].to
      BY <1>1, <1>2, <1>7, <1>17, ConsecutiveNext DEF others
  <2> QED BY <1>13, <1>17, <2>1
<1>18. "send" \in late /\ "recv" \in late
    BY <1>4, <1>9, <1>130
<1>19. \A x \in all : line[x] \in Spanned /\ line[x].to = line[x].from + d[x]
    BY <1>13, <1>14, <1>15
<1>180. \A i \in 1 .. n : i > m => f[i] \in late
  <2> TAKE i \in 1 .. n
  <2> SUFFICES ASSUME i > m PROVE f[i] \in late
    OBVIOUS
  <2>1. i \in m + 1 .. n
    BY <1>4, <1>6
  <2> QED BY <1>4, <1>6, <1>130, <2>1
<1>20. InOrder(line, f)
  <2>1. ASSUME NEW i \in 1 .. n - 1 PROVE line[f[i]].to <= line[f[i + 1]].from
    <3>1. i \in 1 .. n /\ i + 1 \in 1 .. n /\ m \in Nat
        BY <1>4, <1>6
    <3> DEFINE x == f[i]  y == f[i + 1]
    <3>2. x \in all /\ y \in all /\ Follows(f, x, y)
        BY <1>4, <3>1
    <3>3. CASE i < m
      <4>1. x \in early /\ y \in early
          BY <1>4, <1>6, <3>1, <3>3
      <4> HIDE DEF x, y
      <4>2. line[y].from = line[x].to /\ line[y].from \in Int
          BY <1>16, <1>19, <3>2, <4>1 DEF Spanned
      <4>3. line[x].to <= line[y].from
          BY <4>2
      <4> QED BY <4>3 DEF x, y
    <3>4. CASE i > m
      <4>1. x \in late /\ y \in late
          BY <1>4, <1>180, <3>1, <3>4
      <4> HIDE DEF x, y
      <4>2. line[y].from = line[x].to /\ line[y].from \in Int
          BY <1>17, <1>19, <3>2, <4>1 DEF Spanned
      <4>3. line[x].to <= line[y].from
          BY <4>2
      <4> QED BY <4>3 DEF x, y
    <3>5. CASE i = m
      <4>1. /\ x \in early /\ y \in late
            /\ early = (early \cap EarlierThan(f, x)) \cup {x} /\ x \notin EarlierThan(f, x)
          BY <1>4, <1>6, <1>180, <3>1, <3>5
      <4> HIDE DEF x, y
      <4>2. line[x].to = before.recv.to /\ line[y].from >= u /\ line[y].from \in Int
          BY <1>14, <1>15, <4>1 DEF Spanned
      <4>3. line[x].to <= line[y].from
          BY <1>7, <4>2
      <4> QED BY <4>3 DEF x, y
    <3> QED BY <1>4, <1>6, <3>3, <3>4, <3>5
  <2> QED BY <1>4, <2>1 DEF InOrder
<1>21. line["recv"].from = line["send"].to
    BY <1>4, <1>17, <1>18
<1>22. ApiLaid(r, d, line)
    BY <1>19, <1>20, <1>21 DEF ApiLaid, all, f
<1>23. u <= line["send"].from
    BY <1>7, <1>15, <1>18 DEF Spanned
<1>24. \A x \in all : line[x].from >= before.send.from /\ (early = {} => line[x].from >= u)
  <2> TAKE x \in all
  <2>1. CASE x \in early
      BY <1>7, <1>12, <1>14, <2>1 DEF Spanned
  <2>2. CASE x \in late
      BY <1>7, <1>15, <2>2 DEF Spanned
  <2> QED BY <1>13, <2>1, <2>2
<1>25. \E x \in all : First(r, line) = line[x]
  <2>1. /\ r.lane = "cloud" => "auth" \in all
        /\ r.lane = "http" => "resolve" \in all
      BY DEF all, AllPhases, CloudRest, HttpRest
  <2> QED BY <2>1 DEF First, IsRequest
<1>26. before.send.from <= First(r, line).from /\ (early = {} => u <= First(r, line).from)
    BY <1>7, <1>19, <1>24, <1>25 DEF Spanned
<1>27. ASSUME PrepareAdmitted(p, l, r), NEW s \in Prepared(r, line) PROVE s.to <= before.recv.to
  <2>1. CASE r.lane = "cloud"
    <3>1. early = {"prepare", "auth", "budget"}
        BY <1>27, <2>1, PreparedPhases DEF early
    <3>2. f[1] = "auth" /\ f[2] = "budget" /\ f[3] = "prepare" /\ n = 11 /\ PhasesAreListed(r, 11)
        BY <2>1, ListedInCloud DEF f, n, PhaseCount
    <3>3. Follows(f, "budget", "prepare") /\ Follows(f, "auth", "budget")
        BY <1>4, <3>2, 1 \in 1 .. 11 - 1, 2 \in 1 .. 11 - 1
    <3>4. EarlierThan(f, "auth") = {}
        BY <2>1, OrderOfPhases DEF f
    <3>5. EarlierThan(f, "prepare") = {"auth", "budget"}
        BY <3>3, <3>4 DEF Follows
    <3>6. line["prepare"].to = before.recv.to
      <4>1. early = (early \cap EarlierThan(f, "prepare")) \cup {"prepare"} /\ "prepare" \notin EarlierThan(f, "prepare")
          BY <3>1, <3>5
      <4> QED BY <1>14, <3>1, <4>1
    <3>7. line["budget"].to = line["prepare"].from
        BY <1>16, <3>1, <3>3
    <3>8. /\ line["prepare"].to = line["prepare"].from + d["prepare"] /\ d["prepare"] \in Nat
          /\ line["prepare"].from \in Int
        BY <1>2, <1>8, <1>19, <3>1 DEF Spanned
    <3>9. line["budget"].to <= before.recv.to /\ line["prepare"].to <= before.recv.to
        BY <1>7, <3>6, <3>7, <3>8
    <3>10. s = line.budget \/ s = line.prepare
        BY <1>27, <2>1 DEF Prepared
    <3> QED BY <3>9, <3>10
  <2>2. CASE r.lane = "http"
    <3>1. early = {"resolve", "session"}
        BY <1>27, <2>2, PreparedPhases DEF early
    <3>2. f[1] = "resolve" /\ f[2] = "session" /\ n = 7
        BY <2>2, ListedInHttp DEF f, n, PhaseCount
    <3>3. Follows(f, "resolve", "session")
        BY <1>4, <3>2, 1 \in 1 .. 7 - 1
    <3>4. EarlierThan(f, "resolve") = {}
        BY <2>2, OrderOfPhases DEF f
    <3>5. EarlierThan(f, "session") = {"resolve"}
        BY <3>3, <3>4 DEF Follows
    <3>6. line["session"].to = before.recv.to
      <4>1. early = (early \cap EarlierThan(f, "session")) \cup {"session"} /\ "session" \notin EarlierThan(f, "session")
          BY <3>1, <3>5
      <4> QED BY <1>14, <3>1, <4>1
    <3>7. s = line.session
        BY <1>27, <2>2 DEF Prepared
    <3> QED BY <1>7, <3>6, <3>7
  <2> QED BY <2>1, <2>2 DEF IsRequest
<1>28. ApiLater(p, l, r, before, line)
    BY <1>10, <1>23, <1>26, <1>27 DEF ApiLater, u
<1> QED
    BY <1>22, <1>28 DEF d

-----------------------------------------------------------------------------
(* What the refiners build, their validators accept: the order of the lines *)

Ascends(f, n) ==
    /\ \A k \in 1 .. n : f[k] \in Int
    /\ \A k \in 1 .. n - 1 : f[k] <= f[k + 1]

LEMMA Ascending ==
    ASSUME NEW n \in Nat, NEW f, Ascends(f, n), NEW i \in 1 .. n, NEW j \in 1 .. n, i <= j
    PROVE  f[i] <= f[j]
<1> DEFINE T == {k \in Nat : k <= n /\ (i <= k => f[i] <= f[k])}
           m == j
<1>1. 0 \in T
    OBVIOUS
<1>2. ASSUME NEW k \in 1 .. m, k - 1 \in T PROVE k \in T
  <2>1. k \in 1 .. n /\ k \in Nat /\ k <= n
      OBVIOUS
  <2>2. CASE i = k
      BY <2>1, <2>2 DEF Ascends
  <2>3. CASE i > k
      BY <2>1, <2>3
  <2>4. CASE i < k
    <3> DEFINE l == k - 1
    <3>1. l \in 1 .. n - 1 /\ l + 1 = k /\ l \in 1 .. n
        BY <2>1, <2>4
    <3>2. f[i] <= f[l]
        BY <1>2, <2>4
    <3>3. f[l] <= f[l + 1] /\ f[l] \in Int /\ f[k] \in Int /\ f[i] \in Int
        BY <2>1, <3>1 DEF Ascends
    <3> HIDE DEF l
    <3>4. f[i] <= f[k]
        BY <3>1, <3>2, <3>3
    <3> QED BY <2>1, <3>4
  <2> QED BY <2>2, <2>3, <2>4
<1>3. m \in Nat
    OBVIOUS
<1> HIDE DEF T, m
<1>4. m \in T
    BY <1>1, <1>2, <1>3, PrefixInduction
<1> QED
    BY <1>4 DEF T, m

\* Numbers any two of which are neighbours are at most two.
LEMMA AtMostTwo ==
    ASSUME NEW S, S \subseteq Int, \A i, j \in S : i < j => j = i + 1
    PROVE  Cardinality(S) <= 2
<1>1. CASE S = {}
    BY <1>1, FS_EmptySet
<1>2. CASE \E a \in S : S = {a}
  <2>1. PICK a \in S : S = {a}
      BY <1>2
  <2>2. Cardinality({a}) = 1
      BY FS_Singleton
  <2> QED BY <2>1, <2>2
<1>3. CASE \E a, b \in S : a < b
  <2>1. PICK a \in S, b \in S : a < b
      BY <1>3
  <2>2. b = a + 1 /\ a \in Int
      BY <2>1
  <2>3. ASSUME NEW x \in S PROVE x = a \/ x = b
    <3>1. x \in Int
        OBVIOUS
    <3>2. CASE x < a
      <4>1. a = x + 1 /\ b = x + 1
          BY <2>1, <2>2, <3>1, <3>2
      <4> QED BY <2>2, <4>1
    <3>3. CASE x > b
      <4>1. x = a + 1 /\ x = b + 1
          BY <2>1, <2>2, <3>1, <3>3
      <4> QED BY <2>2, <4>1
    <3> QED BY <2>2, <3>1, <3>2, <3>3
  <2>40. a # b
      BY <2>2
  <2>4. S = {b} \cup {a} /\ a \notin {b}
      BY <2>3, <2>40, Zenon
  <2>5. IsFiniteSet({b}) /\ Cardinality({b}) = 1
      BY FS_Singleton
  <2>6. Cardinality({b} \cup {a}) = 2
      BY <2>4, <2>5, FS_AddElement
  <2> QED BY <2>4, <2>6
<1>4. S = {} \/ (\E a \in S : S = {a}) \/ (\E a, b \in S : a < b)
  <2> SUFFICES ASSUME S # {}, ~(\E a, b \in S : a < b) PROVE \E a \in S : S = {a}
      OBVIOUS
  <2>1. PICK a \in S : TRUE
      OBVIOUS
  <2>2. \A x \in S : x = a
      BY <2>1
  <2> QED BY <2>1, <2>2
<1> QED
    BY <1>1, <1>2, <1>3, <1>4

\* Each line begins no earlier than the one before and ends later, and the one after
\* the next begins when it has ended.
Steady(ls, n, head, end) ==
    /\ DOMAIN ls = 1 .. n
    /\ Ascends(head, n) /\ (\A k \in 1 .. n : end[k] \in Int)
    /\ \A k \in 1 .. n : \A s \in Spans(ls[k]) : s \in Spanned /\ head[k] <= s.from /\ s.to <= end[k]
    /\ \A k \in 1 .. n - 1 : end[k] < end[k + 1]
    /\ \A k \in 1 .. n - 2 : end[k] <= head[k + 2]

LEMMA SteadyEnds ==
    ASSUME NEW n \in Nat, NEW ls, NEW head, NEW end, Steady(ls, n, head, end),
           NEW i \in 1 .. n, NEW j \in 1 .. n, i < j
    PROVE  end[i] < end[j]
<1>1. Ascends(end, n)
  <2>1. \A k \in 1 .. n - 1 : k \in 1 .. n /\ k + 1 \in 1 .. n
      OBVIOUS
  <2> QED BY <2>1 DEF Steady, Ascends
<1> DEFINE m == i + 1
<1>2. m \in 1 .. n /\ m <= j /\ i \in 1 .. n - 1
    OBVIOUS
<1>3. end[i] < end[m] /\ end[i] \in Int /\ end[m] \in Int /\ end[j] \in Int
    BY <1>2 DEF Steady
<1> HIDE DEF m
<1>4. end[m] <= end[j]
    BY <1>1, <1>2, Ascending
<1> QED
    BY <1>3, <1>4

LEMMA SteadyIsTwo ==
    ASSUME NEW n \in Nat, NEW ls, NEW head, NEW end, Steady(ls, n, head, end), NEW t \in Int
    PROVE  Depth(ls, t) <= 2
<1> DEFINE B == {i \in DOMAIN ls : Busy(ls[i], t)}
<1>1. ASSUME NEW i \in B PROVE i \in 1 .. n /\ head[i] <= t /\ t < end[i] /\ head[i] \in Int /\ end[i] \in Int
  <2>1. i \in 1 .. n /\ Busy(ls[i], t)
      BY DEF Steady
  <2>2. PICK s \in Spans(ls[i]) : Covers(s, t)
      BY <2>1 DEF Busy
  <2>3. s.from \in Int /\ s.to \in Int /\ head[i] <= s.from /\ s.to <= end[i] /\ head[i] \in Int /\ end[i] \in Int
      BY <2>1, <2>2 DEF Steady, Ascends, Spanned
  <2>4. s.from <= t /\ t < s.to
      BY <2>2 DEF Covers
  <2> QED BY <2>1, <2>3, <2>4
<1>2. ASSUME NEW i \in B, NEW j \in B, i < j PROVE j = i + 1
  <2> SUFFICES ASSUME j # i + 1 PROVE FALSE
      OBVIOUS
  <2>1. i \in 1 .. n /\ j \in 1 .. n /\ t < end[i] /\ head[j] <= t /\ end[i] \in Int /\ head[j] \in Int
      BY <1>1
  <2> DEFINE m == i + 2
  <2>2. i \in 1 .. n - 2 /\ m \in 1 .. n /\ m <= j
      BY <1>2, <2>1
  <2>3. end[i] <= head[m] /\ head[m] \in Int
      BY <2>2 DEF Steady, Ascends
  <2> HIDE DEF m
  <2>4. Ascends(head, n)
      BY DEF Steady
  <2>5. head[m] <= head[j]
      BY <2>1, <2>2, <2>4, Ascending
  <2> QED BY <2>1, <2>3, <2>5
<1>3. B \subseteq Int
    BY <1>1
<1> HIDE DEF B
<1>4. Cardinality(B) <= 2
    BY <1>2, <1>3, AtMostTwo
<1> QED
    BY <1>4 DEF B, Depth

LEMMA MomentsAreNumbers ==
    ASSUME NEW n, NEW ls, NEW head, NEW end, Steady(ls, n, head, end)
    PROVE  Moments(ls) \subseteq Int
<1>1. \A k \in DOMAIN ls : \A s \in Spans(ls[k]) : s.from \in Int /\ s.to \in Int
    BY DEF Steady, Spanned
<1> QED
    BY <1>1 DEF Moments

-----------------------------------------------------------------------------
(* What the refiners build, their validators accept: corridors of BLE      *)

BleAfter(p, actions, k, before) ==
    IF k = 1 THEN BleLine(PhaseDurations(p, actions[k]), 0, 0, 0)
    ELSE BleLine(PhaseDurations(p, actions[k]), AdvFrom(p, actions[k - 1], actions[k], before),
                 ConnectFrom(p, actions[k - 1], actions[k], before), before.xfer.to)

LEMMA BleWithinTimeouts ==
    ASSUME NEW p \in BlePolicy, NEW a, NEW adv \in Int, NEW connect \in Int, NEW xfer \in Int,
           NEW line, line = BleLine(PhaseDurations(p, a), adv, connect, xfer), BleShape(line)
    PROVE  /\ BlePhasesValid(p, line)
           /\ line.adv.from = adv /\ line.connect.from >= connect
<1> DEFINE d == PhaseDurations(p, a)
<1>1. /\ d.adv \in Int /\ d.connect \in Int /\ d.adv <= p.advTimeout /\ d.connect <= p.connectTimeout
    BY BlePhasesSpread DEF BleSpread, WithinTimeouts
<1> HIDE DEF d
<1> DEFINE from == Larger(adv + d.adv, connect)
<1>2. from \in Int /\ from >= connect
    BY <1>1 DEF Larger
<1>3. line.adv = Span(adv, d.adv) /\ line.connect = Span(from, d.connect)
    BY DEF BleLine, d
<1> HIDE DEF from
<1>4. Length(line.adv) = d.adv /\ Length(line.connect) = d.connect /\ line.adv.from = adv /\ line.connect.from >= connect
    BY <1>1, <1>2, <1>3 DEF Length, Span
<1>5. InOrder(line, BlePhases)
  <2>1. /\ line.adv.to <= line.connect.from /\ line.connect.to <= line.xfer.from
        /\ line.xfer.to = line.settle.from /\ line.xfer.to \in Int
      BY BleInts DEF BleShape
  <2>2. /\ Len(BlePhases) = 4 /\ BlePhases[1] = "adv" /\ BlePhases[2] = "connect"
        /\ BlePhases[3] = "xfer" /\ BlePhases[4] = "settle"
      BY DEF BlePhases
  <2>3. line.xfer.to <= line.settle.from
      BY <2>1
  <2>4. \A i \in 1 .. 4 - 1 : i = 1 \/ i = 2 \/ i = 3
      OBVIOUS
  <2>5. \A i \in 1 .. 4 - 1 : line[BlePhases[i]].to <= line[BlePhases[i + 1]].from
      BY <2>1, <2>2, <2>3, <2>4
  <2> QED BY <2>2, <2>5 DEF InOrder
<1> QED
    BY <1>1, <1>4, <1>5 DEF BlePhasesValid

\* While the radio makes one connection at a time, the next action is laid as the
\* validator will have it.
BleFits(p, l, r, before, line) ==
    /\ BlePhasesValid(p, line) /\ BlePairValid(p, l, r, before, line)
    /\ before.settle.to <= line.connect.from
    /\ line.adv.from \in {before.connect.from, before.xfer.from, before.settle.to}

LEMMA BleNextFits ==
    ASSUME NEW p \in BlePolicy, ~p.connectOverlap, NEW l, NEW r, NEW before, BleShape(before), NEW line,
           line = BleLine(PhaseDurations(p, r), AdvFrom(p, l, r, before), ConnectFrom(p, l, r, before), before.xfer.to)
    PROVE  BleShape(line) /\ BleFits(p, l, r, before, line)
<1> DEFINE adv == AdvFrom(p, l, r, before)
           connect == ConnectFrom(p, l, r, before)
           xfer == before.xfer.to
<1>1. BleShape(line)
    BY BleLineGoesOn
<1>2. connect = before.settle.to
    BY DEF ConnectFrom, ConnectAdmitted
<1>3. /\ AnchorAdmitted(p, l, r) => adv = before.connect.from /\ AdvAdmitted(p, l, r)
      /\ ~AnchorAdmitted(p, l, r) /\ AdvAdmitted(p, l, r) => adv = before.xfer.from
      /\ ~AdvAdmitted(p, l, r) => adv = before.settle.to
    BY DEF AdvFrom, AnchorAdmitted
<1>4. /\ before.connect.from \in Int /\ before.xfer.from \in Int /\ before.settle.to \in Int /\ xfer \in Int
      /\ line.connect.from \in Int
    BY <1>1, BleInts
<1>5. adv \in Int /\ connect \in Int /\ adv \in {before.connect.from, before.xfer.from, before.settle.to}
    BY <1>2, <1>3, <1>4
<1>6. line = BleLine(PhaseDurations(p, r), adv, connect, xfer)
    OBVIOUS
<1> HIDE DEF adv, connect, xfer
<1>7. BlePhasesValid(p, line) /\ line.adv.from = adv /\ line.connect.from >= connect
    BY <1>1, <1>4, <1>5, <1>6, BleWithinTimeouts
<1>8. before.settle.to <= line.connect.from
    BY <1>2, <1>4, <1>7
<1>9. before.xfer.from <= before.settle.to /\ before.connect.from <= before.xfer.from
    BY BleInts DEF BleShape
<1>10. /\ adv < before.settle.to => AdvAdmitted(p, l, r)
       /\ adv < before.xfer.from => AnchorAdmitted(p, l, r) /\ before.connect.from <= adv
    BY <1>3, <1>4, <1>9
<1>11. BlePairValid(p, l, r, before, line)
    BY <1>4, <1>7, <1>8, <1>10 DEF BlePairValid
<1> QED
    BY <1>1, <1>5, <1>7, <1>8, <1>11 DEF BleFits

BleMade(p, actions, ls, n) ==
    /\ n \in Nat /\ DOMAIN ls = 1 .. n /\ Len(ls) = n
    /\ \A k \in 1 .. n : BleShape(ls[k]) /\ ls[k] = BleAfter(p, actions, k, ls[k - 1])

LEMMA BleMadeFits ==
    ASSUME NEW p \in BlePolicy, ~p.connectOverlap, NEW actions, NEW ls, NEW n, BleMade(p, actions, ls, n)
    PROVE  /\ \A k \in 1 .. n : BlePhasesValid(p, ls[k])
           /\ \A k \in 1 .. n - 1 : BleFits(p, actions[k], actions[k + 1], ls[k], ls[k + 1])
<1>1. n \in Nat
    BY DEF BleMade
<1>2. ASSUME NEW k \in 1 .. n - 1 PROVE BleFits(p, actions[k], actions[k + 1], ls[k], ls[k + 1])
  <2> DEFINE m == k + 1
  <2>1. m \in 1 .. n /\ m # 1 /\ m - 1 = k /\ k \in 1 .. n
      BY <1>1
  <2> HIDE DEF m
  <2>2. BleShape(ls[k]) /\ ls[m] = BleAfter(p, actions, m, ls[m - 1])
      BY <2>1 DEF BleMade
  <2>3. ls[m] = BleLine(PhaseDurations(p, actions[m]), AdvFrom(p, actions[k], actions[m], ls[k]),
                        ConnectFrom(p, actions[k], actions[m], ls[k]), ls[k].xfer.to)
      BY <2>1, <2>2 DEF BleAfter
  <2>4. BleFits(p, actions[k], actions[m], ls[k], ls[m])
      BY <2>2, <2>3, BleNextFits
  <2> QED BY <2>4 DEF m
<1>3. ASSUME NEW k \in 1 .. n PROVE BlePhasesValid(p, ls[k])
  <2>1. CASE k = 1
    <3> DEFINE none == 0
    <3>1. ls[k] = BleLine(PhaseDurations(p, actions[k]), none, none, none) /\ BleShape(ls[k])
        BY <2>1 DEF BleMade, BleAfter
    <3>2. none \in Int
        OBVIOUS
    <3> HIDE DEF none
    <3> QED BY <3>1, <3>2, BleWithinTimeouts
  <2>2. CASE k # 1
    <3> DEFINE m == k - 1
    <3>1. m \in 1 .. n - 1 /\ m + 1 = k
        BY <1>1, <2>2
    <3> HIDE DEF m
    <3>2. BleFits(p, actions[m], actions[m + 1], ls[m], ls[m + 1])
        BY <1>2, <3>1
    <3> QED BY <3>1, <3>2 DEF BleFits
  <2> QED BY <2>1, <2>2
<1> QED
    BY <1>2, <1>3

LEMMA BleMadeSteady ==
    ASSUME NEW p \in BlePolicy, ~p.connectOverlap, NEW actions, NEW ls, NEW n, BleMade(p, actions, ls, n),
           NEW head, head = [k \in 1 .. n |-> ls[k].adv.from],
           NEW end, end = [k \in 1 .. n |-> ls[k].settle.to]
    PROVE  Steady(ls, n, head, end)
<1>1. n \in Nat /\ DOMAIN ls = 1 .. n
    BY DEF BleMade
<1>2. ASSUME NEW k \in 1 .. n
      PROVE  /\ head[k] = ls[k].adv.from /\ end[k] = ls[k].settle.to /\ BleShape(ls[k])
             /\ head[k] \in Int /\ end[k] \in Int
             /\ \A s \in Spans(ls[k]) : s \in Spanned /\ head[k] <= s.from /\ s.to <= end[k]
  <2>1. BleShape(ls[k])
      BY DEF BleMade
  <2> QED BY <2>1, BleInts, BleEnd
<1>3. ASSUME NEW l, NEW r, BleShape(l), BleShape(r), l.settle.to <= r.connect.from,
             r.adv.from \in {l.connect.from, l.xfer.from, l.settle.to}
      PROVE  /\ l.adv.from <= r.adv.from /\ l.connect.from <= r.adv.from /\ l.settle.to < r.settle.to
  <2>1. /\ l.adv.from \in Int /\ l.adv.to \in Int /\ l.connect.from \in Int /\ l.connect.to \in Int
        /\ l.xfer.from \in Int /\ l.xfer.to \in Int /\ l.settle.from \in Int /\ l.settle.to \in Int
        /\ r.adv.from \in Int /\ r.connect.from \in Int /\ r.connect.to \in Int
        /\ r.xfer.from \in Int /\ r.xfer.to \in Int /\ r.settle.from \in Int /\ r.settle.to \in Int
      BY <1>3, BleInts
  <2>2. l.adv.from <= r.adv.from /\ l.connect.from <= r.adv.from
      BY <1>3, <2>1, SMTT(30) DEF BleShape
  <2>3. l.settle.to < r.settle.to
      BY <1>3, <2>1, SMTT(30) DEF BleShape
  <2> QED BY <2>2, <2>3
<1>4. ASSUME NEW k \in 1 .. n - 1
      PROVE  /\ head[k] <= head[k + 1] /\ end[k] < end[k + 1]
             /\ ls[k].settle.to <= ls[k + 1].connect.from /\ ls[k].connect.from <= ls[k + 1].adv.from
  <2> DEFINE m == k + 1
  <2>1. k \in 1 .. n /\ m \in 1 .. n
      BY <1>1
  <2>2. BleFits(p, actions[k], actions[m], ls[k], ls[m])
      BY BleMadeFits
  <2> HIDE DEF m
  <2>3. BleShape(ls[k]) /\ BleShape(ls[m])
      BY <1>2, <2>1
  <2>4. ls[k].settle.to <= ls[m].connect.from /\ ls[m].adv.from \in {ls[k].connect.from, ls[k].xfer.from, ls[k].settle.to}
      BY <2>2 DEF BleFits
  <2>5. ls[k].adv.from <= ls[m].adv.from /\ ls[k].connect.from <= ls[m].adv.from /\ ls[k].settle.to < ls[m].settle.to
      BY <1>3, <2>3, <2>4
  <2>6. head[k] <= head[m] /\ end[k] < end[m]
      BY <1>2, <2>1, <2>5
  <2> QED BY <2>4, <2>5, <2>6 DEF m
<1>5. ASSUME NEW k \in 1 .. n - 2 PROVE end[k] <= head[k + 2]
  <2> DEFINE m == k + 1  r == k + 2
  <2>1. /\ k \in 1 .. n - 1 /\ m \in 1 .. n - 1 /\ k \in 1 .. n /\ m \in 1 .. n /\ r \in 1 .. n
        /\ m + 1 = r
      BY <1>1
  <2>2. ls[k].settle.to <= ls[m].connect.from
      BY <1>4, <2>1
  <2> HIDE DEF m, r
  <2>3. ls[m].connect.from <= ls[r].adv.from
      BY <1>4, <2>1
  <2>4. ls[m].connect.from \in Int /\ ls[k].settle.to \in Int /\ ls[r].adv.from \in Int
      BY <1>2, <2>1, BleInts
  <2>5. end[k] <= head[r]
      BY <1>2, <2>1, <2>2, <2>3, <2>4
  <2> QED BY <2>5 DEF r
<1> QED
    BY <1>1, <1>2, <1>4, <1>5 DEF Steady, Ascends

LEMMA BleMadeValid ==
    ASSUME NEW p \in BlePolicy, ~p.connectOverlap, NEW actions, NEW ls, NEW n, BleMade(p, actions, ls, n)
    PROVE  BleValid(p, actions, ls)
<1> DEFINE head == [k \in 1 .. n |-> ls[k].adv.from]
           end == [k \in 1 .. n |-> ls[k].settle.to]
<1>1. n \in Nat /\ DOMAIN ls = 1 .. n /\ Len(ls) = n /\ p.lookahead + 1 = 2
    BY DEF BleMade, BlePolicy
<1>2. Steady(ls, n, head, end)
    BY BleMadeSteady
<1>3. \A t \in Moments(ls) : Depth(ls, t) <= p.lookahead + 1
  <2> HIDE DEF head, end
  <2> QED BY <1>1, <1>2, SteadyIsTwo, MomentsAreNumbers
<1>4. \A i, j \in 1 .. n : i < j => end[i] < end[j]
  <2> HIDE DEF head, end
  <2> QED BY <1>1, <1>2, SteadyEnds
<1>5. CompletionKept([i \in DOMAIN ls |-> ls[i].settle.to], [i \in DOMAIN ls |-> actions[i].id])
  <2> DEFINE id == [i \in DOMAIN ls |-> actions[i].id]
  <2>1. [i \in DOMAIN ls |-> ls[i].settle.to] = end /\ DOMAIN end = 1 .. n
      BY <1>1
  <2> HIDE DEF end, id
  <2>2. CompletionKept(end, id)
      BY <1>4, <2>1 DEF CompletionKept
  <2> QED BY <2>1, <2>2 DEF id
<1>6. XferSerialized(ls)
  <2> DEFINE x == [k \in 1 .. n |-> ls[k].xfer.from]
  <2>1. \A k \in 1 .. n : x[k] = ls[k].xfer.from /\ BleShape(ls[k]) /\ x[k] \in Int /\ ls[k].xfer.to \in Int
      BY BleInts DEF BleMade
  <2>2. ASSUME NEW k \in 1 .. n - 1 PROVE ls[k].xfer.to <= x[k + 1] /\ x[k] <= x[k + 1]
    <3> DEFINE m == k + 1
    <3>1. k \in 1 .. n /\ m \in 1 .. n
        BY <1>1
    <3>2. BleFits(p, actions[k], actions[m], ls[k], ls[m])
        BY BleMadeFits
    <3>3. BleShape(ls[k]) /\ BleShape(ls[m])
        BY <2>1, <3>1
    <3> DEFINE l == ls[k]  r == ls[m]
    <3>4. x[k] = l.xfer.from /\ x[m] = r.xfer.from
        BY <3>1
    <3>5. BleShape(l) /\ BleShape(r) /\ l.settle.to <= r.connect.from
        BY <3>2, <3>3 DEF BleFits
    <3> HIDE DEF m, l, r, x
    <3>6. /\ l.xfer.from \in Int /\ l.xfer.to \in Int /\ l.settle.from \in Int /\ l.settle.to \in Int
          /\ r.connect.from \in Int /\ r.connect.to \in Int /\ r.xfer.from \in Int
        BY <3>5, BleInts
    <3>7. l.xfer.to <= r.xfer.from /\ l.xfer.from <= r.xfer.from
        BY <3>5, <3>6 DEF BleShape
    <3>8. l.xfer.to <= x[m] /\ x[k] <= x[m]
        BY <3>4, <3>7
    <3> QED BY <3>8 DEF m, l
  <2>3. Ascends(x, n)
      BY <2>1, <2>2 DEF Ascends
  <2> HIDE DEF x
  <2>4. ASSUME NEW i \in 1 .. n, NEW j \in 1 .. n, i < j PROVE ls[i].xfer.to <= ls[j].xfer.from
    <3> DEFINE m == i + 1
    <3>1. i \in 1 .. n - 1 /\ m \in 1 .. n /\ m <= j
        BY <1>1, <2>4
    <3>2. ls[i].xfer.to <= x[m] /\ x[m] \in Int /\ x[j] \in Int /\ ls[i].xfer.to \in Int
        BY <2>1, <2>2, <3>1
    <3> HIDE DEF m
    <3>3. x[m] <= x[j]
        BY <1>1, <2>3, <3>1, Ascending
    <3> QED BY <2>1, <3>2, <3>3
  <2>5. \A i, j \in 1 .. n : i # j => i < j \/ j < i
      OBVIOUS
  <2> QED BY <1>1, <2>4, <2>5 DEF XferSerialized
<1>7. \A k \in 1 .. n - 1 : BlePairValid(p, actions[k], actions[k + 1], ls[k], ls[k + 1])
    BY BleMadeFits DEF BleFits
<1>8. \A k \in 1 .. n : BlePhasesValid(p, ls[k])
    BY BleMadeFits
<1> QED
    BY <1>1, <1>3, <1>5, <1>6, <1>7, <1>8 DEF BleValid

-----------------------------------------------------------------------------
(* What the refiners build, their validators accept: corridors of requests *)

ApiAfter(p, steps, k, before) ==
    IF k = 1 THEN Consecutive(ApiPhases(steps[k]), Range(ApiPhases(steps[k])), Durations(p, steps[k]), 0)
    ELSE LaterApiLine(p, steps[k - 1], steps[k], before)

\* A batch like its neighbour, without a backoff and not too long.
Alike(l, r) ==
    /\ IsRequest(l) /\ IsRequest(r) /\ l.lane = r.lane /\ l.latency = r.latency
    /\ ~l.backoff /\ ~r.backoff /\ NotTooLong(r)

LEMMA AlikeLastAlike ==
    ASSUME NEW p, NEW l, NEW r, Alike(l, r)
    PROVE  Durations(p, l) = Durations(p, r)
BY DEF Durations, Specs, Alike

LEMMA LaidIsTidy ==
    ASSUME NEW s, IsRequest(s), NEW d, NEW line, ApiShape(s, line), ApiLaid(s, d, line)
    PROVE  ApiTidy(s, line)
BY ApiLineTidy DEF ApiLaid

LEMMA LaidLeavesTime ==
    ASSUME NEW p \in ApiPolicy, p.authBudget, NEW l, NEW r, Alike(l, r),
           NEW line, ApiShape(l, line), ApiLaid(l, Durations(p, l), line)
    PROVE  LeavesTime(line, SumFunctionOnSet(Durations(p, r), Preparing(p, l, r)))
<1> DEFINE d == Durations(p, r)
           ms == SumFunctionOnSet(d, Preparing(p, l, r))
<1>1. IsRequest(l) /\ IsRequest(r) /\ l.lane = r.lane /\ ~r.backoff /\ NotTooLong(r) /\ Durations(p, l) = d
    BY AlikeLastAlike DEF Alike
<1>2. ApiFits(r, d)
    BY <1>1, PhasesFit
<1>3. \A x \in AllPhases(r) : d[x] \in Nat
    BY <1>1, DurationsSpread DEF ApiSpread
<1>4. {"send", "recv"} \subseteq AllPhases(r) /\ AllPhases(l) = AllPhases(r)
    BY <1>1, PhasesListed DEF AllPhases
<1>5. ApiLaid(l, d, line) /\ ApiTidy(l, line)
    BY <1>1, LaidIsTidy
<1> HIDE DEF d
<1>6. ms <= d.send + d.recv
    BY <1>1, <1>2, <1>3, PrepareTime
<1> HIDE DEF ms
<1>7. /\ line.send.to = line.send.from + d.send /\ line.recv.to = line.recv.from + d.recv
      /\ line.recv.from = line.send.to
    BY <1>4, <1>5 DEF ApiLaid
<1>8. /\ line.send.from \in Int /\ line.recv.to \in Int /\ line.write.to \in Int
      /\ line.send.from <= line.recv.to /\ line.recv.to < line.write.to
    BY <1>5, ApiInts
<1>9. d.send \in Int /\ d.recv \in Int
    BY <1>3, <1>4
<1>10. line.recv.to - line.send.from = d.send + d.recv
    BY <1>7, <1>8, <1>9
<1>11. LeavesTime(line, ms)
    BY <1>6, <1>8, <1>10 DEF LeavesTime
<1> QED
    BY <1>11 DEF ms, d

ApiMade(p, steps, ls, n) ==
    /\ n \in Nat /\ DOMAIN ls = 1 .. n /\ Len(ls) = n
    /\ \A k \in 1 .. n : /\ IsRequest(steps[k]) /\ ~steps[k].backoff /\ NotTooLong(steps[k])
                         /\ ApiShape(steps[k], ls[k]) /\ ls[k] = ApiAfter(p, steps, k, ls[k - 1])
    /\ \A k \in 1 .. n - 1 : Alike(steps[k], steps[k + 1])

StepLaid(p, steps, ls, k) == ApiLaid(steps[k], Durations(p, steps[k]), ls[k])

LEMMA NextIsLaid ==
    ASSUME NEW p \in ApiPolicy, p.authBudget, NEW steps, NEW ls, NEW n, ApiMade(p, steps, ls, n),
           NEW k \in 1 .. n - 1, StepLaid(p, steps, ls, k)
    PROVE  /\ StepLaid(p, steps, ls, k + 1)
           /\ ApiLater(p, steps[k], steps[k + 1], ls[k], ls[k + 1])
<1> DEFINE m == k + 1
<1>1. m \in 1 .. n /\ k \in 1 .. n /\ m # 1 /\ m - 1 = k
    BY DEF ApiMade
<1>2. Alike(steps[k], steps[m])
    BY DEF ApiMade
<1> HIDE DEF m
<1>3. IsRequest(steps[m]) /\ ApiShape(steps[k], ls[k]) /\ ls[m] = ApiAfter(p, steps, m, ls[m - 1])
    BY <1>1 DEF ApiMade
<1>4. ls[m] = LaterApiLine(p, steps[k], steps[m], ls[k])
    BY <1>1, <1>3 DEF ApiAfter
<1>5. LeavesTime(ls[k], SumFunctionOnSet(Durations(p, steps[m]), Preparing(p, steps[k], steps[m])))
    BY <1>2, <1>3, LaidLeavesTime DEF StepLaid
<1>6. ApiLaid(steps[m], Durations(p, steps[m]), ls[m]) /\ ApiLater(p, steps[k], steps[m], ls[k], ls[m])
  <2> DEFINE l == steps[k]  r == steps[m]  before == ls[k]  line == ls[m]
  <2>1. IsRequest(r) /\ LeavesTime(before, SumFunctionOnSet(Durations(p, r), Preparing(p, l, r)))
        /\ line = LaterApiLine(p, l, r, before)
      BY <1>3, <1>4, <1>5
  <2> HIDE DEF l, r, before, line
  <2>2. ApiLaid(r, Durations(p, r), line) /\ ApiLater(p, l, r, before, line)
      BY <2>1, LaterLaid
  <2> QED BY <2>2 DEF l, r, before, line
<1> QED
    BY <1>6 DEF StepLaid, m

LEMMA AllAreLaid ==
    ASSUME NEW p \in ApiPolicy, p.authBudget, NEW steps, NEW ls, NEW n, ApiMade(p, steps, ls, n)
    PROVE  /\ \A k \in 1 .. n : StepLaid(p, steps, ls, k)
           /\ \A k \in 1 .. n - 1 : ApiLater(p, steps[k], steps[k + 1], ls[k], ls[k + 1])
<1>1. n \in Nat
    BY DEF ApiMade
<1>2. ASSUME NEW m \in 1 .. n PROVE StepLaid(p, steps, ls, m)
  <2> DEFINE T == {k \in Nat : k \in 1 .. n => StepLaid(p, steps, ls, k)}
  <2>1. 0 \in T /\ m \in Nat
      OBVIOUS
  <2>2. ASSUME NEW k \in 1 .. m, k - 1 \in T PROVE k \in T
    <3>1. CASE k = 1
      <4>1. IsRequest(steps[k]) /\ ls[k] = ApiAfter(p, steps, k, ls[k - 1])
          BY <1>1, <3>1 DEF ApiMade
      <4>2. ls[k] = Consecutive(ApiPhases(steps[k]), Range(ApiPhases(steps[k])), Durations(p, steps[k]), 0)
          BY <3>1, <4>1 DEF ApiAfter
      <4>3. ApiLaid(steps[k], Durations(p, steps[k]), ls[k])
          BY <4>1, <4>2, FirstLaid
      <4> QED BY <4>3 DEF StepLaid
    <3>2. CASE k # 1
      <4> DEFINE i == k - 1
      <4>1. i \in 1 .. n - 1 /\ i \in 1 .. n /\ i + 1 = k
          BY <1>1, <3>2
      <4>2. StepLaid(p, steps, ls, i)
          BY <2>2, <4>1
      <4> HIDE DEF i, T
      <4>3. StepLaid(p, steps, ls, i + 1)
          BY <4>1, <4>2, NextIsLaid
      <4> QED BY <4>1, <4>3 DEF T
    <3> QED BY <3>1, <3>2
  <2> HIDE DEF T
  <2>3. m \in T
      BY <2>1, <2>2, PrefixInduction
  <2> QED BY <2>3 DEF T
<1>3. ASSUME NEW k \in 1 .. n - 1 PROVE ApiLater(p, steps[k], steps[k + 1], ls[k], ls[k + 1])
  <2>1. StepLaid(p, steps, ls, k)
      BY <1>1, <1>2
  <2> QED BY <2>1, NextIsLaid
<1> QED
    BY <1>2, <1>3

LEMMA ApiPhasesFit ==
    ASSUME NEW p \in ApiPolicy, NEW s, IsRequest(s), ~s.backoff, NotTooLong(s),
           NEW line, ApiShape(s, line), ApiLaid(s, Durations(p, s), line)
    PROVE  /\ ApiPhasesValid(s, line)
           /\ s.lane = "cloud" => Length(line.backoff) = 0
<1> DEFINE d == Durations(p, s)
<1>1. ApiFits(s, d)
    BY PhasesFit
<1>2. InOrder(line, ApiPhases(s)) /\ \A x \in AllPhases(s) : line[x].to = line[x].from + d[x]
    BY DEF ApiLaid
<1>3. \A x \in AllPhases(s) : d[x] \in Nat
    BY DurationsSpread DEF ApiSpread
<1> HIDE DEF d
<1>4. \A x \in AllPhases(s) : Length(line[x]) = d[x]
  <2> TAKE x \in AllPhases(s)
  <2>1. line[x].from \in Int /\ line[x].to = line[x].from + d[x] /\ d[x] \in Int
      BY <1>2, <1>3 DEF ApiShape, Spanned
  <2> QED BY <2>1 DEF Length
<1>5. /\ "parse" \in AllPhases(s)
      /\ s.lane = "cloud" => "aggregate" \in AllPhases(s) /\ "backoff" \in AllPhases(s)
      /\ s.lane = "http" => "cache" \in AllPhases(s)
    BY DEF AllPhases, CloudRest, HttpRest, IsRequest
<1>6. s.lane = "cloud" \/ s.lane = "http"
    BY DEF IsRequest
<1>7. Length(line.parse) <= ParseMax
    BY <1>1, <1>4, <1>5 DEF ApiFits
<1>8. CASE s.lane = "cloud"
    BY <1>1, <1>2, <1>4, <1>5, <1>7, <1>8 DEF ApiFits, ApiPhasesValid
<1>9. CASE s.lane = "http"
    BY <1>1, <1>2, <1>4, <1>5, <1>7, <1>9 DEF ApiFits, ApiPhasesValid
<1> QED
    BY <1>6, <1>8, <1>9

LEMMA LaterIsValid ==
    ASSUME NEW p, NEW l, NEW r, NEW left, NEW right, ApiLater(p, l, r, left, right),
           ApiShape(l, left), ApiTidy(l, left), ApiShape(r, right), ApiTidy(r, right),
           l.lane = "cloud" => Length(left.backoff) = 0
    PROVE  /\ ApiPairValid(p, l, r, left, right)
           /\ First(l, left).from <= First(r, right).from /\ left.write.to < right.write.to
           /\ left.send.from <= First(r, right).from /\ left.write.to <= right.send.from
<1>1. /\ First(l, left).from \in Int /\ left.send.from \in Int /\ left.write.to \in Int
      /\ First(l, left).from <= left.send.from
    BY ApiInts
<1>2. /\ First(r, right).from \in Int /\ right.send.from \in Int /\ right.recv.to \in Int /\ right.write.to \in Int
      /\ right.send.from <= right.recv.to /\ right.recv.to < right.write.to
    BY ApiInts
<1>3. left.send.from <= First(r, right).from /\ left.write.to <= right.send.from
    BY DEF ApiLater
<1>4. First(r, right).from < left.write.to => PrepareAdmitted(p, l, r)
    BY <1>1, <1>2 DEF ApiLater
<1>5. PrepareAdmitted(p, l, r) => \A s \in Prepared(r, right) : s.to <= left.recv.to
    BY DEF ApiLater
<1>6. ~(l.lane = "cloud" /\ Length(left.backoff) > 0)
    OBVIOUS
<1>7. ApiPairValid(p, l, r, left, right)
    BY <1>3, <1>4, <1>5, <1>6 DEF ApiPairValid
<1>8. First(l, left).from <= First(r, right).from /\ left.write.to < right.write.to
    BY <1>1, <1>2, <1>3
<1> QED
    BY <1>3, <1>7, <1>8

LEMMA ApiMadeValid ==
    ASSUME NEW p \in ApiPolicy, p.authBudget, NEW steps, NEW ls, NEW n, ApiMade(p, steps, ls, n)
    PROVE  ApiValid(p, steps, ls)
<1> DEFINE head == [k \in 1 .. n |-> First(steps[k], ls[k]).from]
           end == [k \in 1 .. n |-> End(ls[k])]
<1>1. n \in Nat /\ DOMAIN ls = 1 .. n /\ Len(ls) = n
    BY DEF ApiMade
<1>2. ASSUME NEW k \in 1 .. n
      PROVE  /\ ApiShape(steps[k], ls[k]) /\ ApiTidy(steps[k], ls[k])
             /\ ApiPhasesValid(steps[k], ls[k])
             /\ steps[k].lane = "cloud" => Length(ls[k].backoff) = 0
  <2>1. IsRequest(steps[k]) /\ ~steps[k].backoff /\ NotTooLong(steps[k]) /\ ApiShape(steps[k], ls[k])
      BY DEF ApiMade
  <2>2. ApiLaid(steps[k], Durations(p, steps[k]), ls[k])
      BY AllAreLaid DEF StepLaid
  <2> QED BY <2>1, <2>2, LaidIsTidy, ApiPhasesFit
<1>3. ASSUME NEW k \in 1 .. n
      PROVE  /\ head[k] = First(steps[k], ls[k]).from /\ end[k] = ls[k].write.to /\ end[k] = End(ls[k])
             /\ head[k] \in Int /\ end[k] \in Int
             /\ \A s \in Spans(ls[k]) : s \in Spanned /\ head[k] <= s.from /\ s.to <= end[k]
  <2>1. End(ls[k]) = ls[k].write.to /\ ls[k].write.to \in Int /\ First(steps[k], ls[k]).from \in Int
      BY <1>2, ApiInts
  <2>2. \A s \in Spans(ls[k]) : s \in Spanned /\ First(steps[k], ls[k]).from <= s.from /\ s.to <= End(ls[k])
      BY <1>2, ApiEnd
  <2> QED BY <2>1, <2>2
<1>4. ASSUME NEW k \in 1 .. n - 1
      PROVE  /\ ApiPairValid(p, steps[k], steps[k + 1], ls[k], ls[k + 1])
             /\ head[k] <= head[k + 1] /\ end[k] < end[k + 1]
             /\ ls[k].send.from <= head[k + 1] /\ end[k] <= ls[k + 1].send.from
  <2> DEFINE m == k + 1
  <2>1. k \in 1 .. n /\ m \in 1 .. n
      BY <1>1
  <2>2. ApiLater(p, steps[k], steps[m], ls[k], ls[m])
      BY AllAreLaid
  <2>3. /\ ApiShape(steps[k], ls[k]) /\ ApiTidy(steps[k], ls[k]) /\ ApiShape(steps[m], ls[m]) /\ ApiTidy(steps[m], ls[m])
        /\ steps[k].lane = "cloud" => Length(ls[k].backoff) = 0
      BY <1>2, <2>1
  <2>4. head[k] = First(steps[k], ls[k]).from /\ end[k] = ls[k].write.to
        /\ head[m] = First(steps[m], ls[m]).from /\ end[m] = ls[m].write.to
      BY <1>3, <2>1
  <2> HIDE DEF m, head, end
  <2>5. /\ ApiPairValid(p, steps[k], steps[m], ls[k], ls[m])
        /\ First(steps[k], ls[k]).from <= First(steps[m], ls[m]).from /\ ls[k].write.to < ls[m].write.to
        /\ ls[k].send.from <= First(steps[m], ls[m]).from /\ ls[k].write.to <= ls[m].send.from
      BY <2>2, <2>3, LaterIsValid
  <2>6. /\ ApiPairValid(p, steps[k], steps[m], ls[k], ls[m])
        /\ head[k] <= head[m] /\ end[k] < end[m]
        /\ ls[k].send.from <= head[m] /\ end[k] <= ls[m].send.from
      BY <2>4, <2>5
  <2> QED BY <2>6 DEF m
<1>5. ASSUME NEW k \in 1 .. n - 2 PROVE end[k] <= head[k + 2]
  <2> DEFINE m == k + 1  r == k + 2
  <2>1. /\ k \in 1 .. n - 1 /\ m \in 1 .. n - 1 /\ k \in 1 .. n /\ m \in 1 .. n /\ r \in 1 .. n
        /\ m + 1 = r
      BY <1>1
  <2>2. end[k] <= ls[m].send.from
      BY <1>4, <2>1
  <2> HIDE DEF m, r
  <2>3. ls[m].send.from <= head[r]
      BY <1>4, <2>1
  <2>4. ls[m].send.from \in Int /\ end[k] \in Int /\ head[r] \in Int
      BY <1>2, <1>3, <2>1, ApiInts
  <2> HIDE DEF head, end
  <2>5. end[k] <= head[r]
      BY <2>2, <2>3, <2>4
  <2> QED BY <2>5 DEF r
<1>6. Steady(ls, n, head, end)
  <2>1. \A k \in 1 .. n : /\ head[k] \in Int /\ end[k] \in Int
                          /\ \A s \in Spans(ls[k]) : s \in Spanned /\ head[k] <= s.from /\ s.to <= end[k]
      BY <1>3
  <2>2. \A k \in 1 .. n - 1 : head[k] <= head[k + 1] /\ end[k] < end[k + 1]
      BY <1>4
  <2> HIDE DEF head, end
  <2> QED BY <1>1, <1>5, <2>1, <2>2 DEF Steady, Ascends
<1>7. \A t \in Moments(ls) : Depth(ls, t) <= Lookahead + 1
  <2> HIDE DEF head, end
  <2>1. Lookahead + 1 = 2
      BY DEF Lookahead
  <2> QED BY <1>1, <1>6, <2>1, SteadyIsTwo, MomentsAreNumbers
<1>8. CompletionKept([i \in DOMAIN ls |-> End(ls[i])], [i \in DOMAIN ls |-> steps[i].id])
  <2> DEFINE id == [i \in DOMAIN ls |-> steps[i].id]
  <2>1. [i \in DOMAIN ls |-> End(ls[i])] = end /\ DOMAIN end = 1 .. n
      BY <1>1
  <2> HIDE DEF head, end, id
  <2>2. \A i, j \in 1 .. n : i < j => end[i] < end[j]
      BY <1>1, <1>6, SteadyEnds
  <2>3. CompletionKept(end, id)
      BY <2>1, <2>2 DEF CompletionKept
  <2> QED BY <2>1, <2>3 DEF id
<1>9. /\ \A k \in 1 .. n : ApiPhasesValid(steps[k], ls[k])
      /\ \A k \in 1 .. n - 1 : ApiPairValid(p, steps[k], steps[k + 1], ls[k], ls[k + 1])
    BY <1>2, <1>4
<1> HIDE DEF head, end
<1> QED
    BY <1>1, <1>7, <1>8, <1>9 DEF ApiValid

-----------------------------------------------------------------------------
(* What the refiners build, their validators accept: the invariant         *)

LineAfter(c, k, before) ==
    IF c.source = "BLE" THEN BleAfter(policy.ble, BleActions(c), k, before)
    ELSE ApiAfter(policy.api, Steps(c), k, before)

\* Every line is the one that comes after the line before.
Made(c, ls) == \A k \in 1 .. Len(ls) : ls[k] = LineAfter(c, k, ls[k - 1])

LinesMade == \A c \in todo : Refining(c) => Made(c, lines)

LEMMA NextLineIsAfter ==
    ASSUME NEW c, NEW ls, NEW k, k = Len(ls) + 1
    PROVE  NextLine(c, ls) = LineAfter(c, k, ls[k - 1])
<1>1. CASE c.source = "BLE"
  <2>1. NextBleLine(policy.ble, BleActions(c), ls) = BleAfter(policy.ble, BleActions(c), k, ls[k - 1])
      BY Zenon DEF NextBleLine, BleAfter
  <2> QED BY <1>1, <2>1, Zenon DEF NextLine, LineAfter
<1>2. CASE c.source # "BLE"
  <2>1. NextApiLine(policy.api, Steps(c), ls) = ApiAfter(policy.api, Steps(c), k, ls[k - 1])
      BY Zenon DEF NextApiLine, ApiAfter, LaterApiLine
  <2> QED BY <1>2, <2>1, Zenon DEF NextLine, LineAfter
<1> QED
    BY <1>1, <1>2

LEMMA MadeGrows ==
    ASSUME NEW c, NEW ls \in Seq(Line), Made(c, ls), NEW line \in Line, line = NextLine(c, ls)
    PROVE  Made(c, Append(ls, line))
<1> DEFINE done == Append(ls, line)
           n == Len(ls) + 1
<1>1. /\ Len(ls) \in Nat /\ Len(done) = n /\ done[n] = line
      /\ \A i \in 1 .. Len(ls) : done[i] = ls[i]
    OBVIOUS
<1> HIDE DEF done, n
<1>2. n = Len(ls) + 1
    BY DEF n
<1>3. ASSUME NEW k \in 1 .. n PROVE done[k] = LineAfter(c, k, done[k - 1])
  <2>1. k # 1 => done[k - 1] = ls[k - 1]
      BY <1>1, <1>2
  <2>2. \A b : LineAfter(c, 1, b) = LineAfter(c, 1, ls[1 - 1])
      BY DEF LineAfter, BleAfter, ApiAfter
  <2>3. LineAfter(c, k, done[k - 1]) = LineAfter(c, k, ls[k - 1])
    <3>1. CASE k = 1
        BY <2>2, <3>1, Zenon
    <3>2. CASE k # 1
        BY <2>1, <3>2
    <3> QED BY <3>1, <3>2
  <2>4. CASE k = n
    <3>1. line = LineAfter(c, k, ls[k - 1])
        BY <1>2, <2>4, NextLineIsAfter
    <3> QED BY <1>1, <2>3, <2>4, <3>1
  <2>5. CASE k # n
    <3>1. k \in 1 .. Len(ls)
        BY <1>1, <1>2, <2>5
    <3>2. ls[k] = LineAfter(c, k, ls[k - 1]) /\ done[k] = ls[k]
        BY <1>1, <3>1 DEF Made
    <3> QED BY <2>3, <3>2
  <2> QED BY <2>4, <2>5
<1>4. Made(c, done)
    BY <1>1, <1>3 DEF Made
<1> QED
    BY <1>4 DEF done

LEMMA MadeIsFixed ==
    ASSUME plan' = plan, policy' = policy, NEW c, NEW ls
    PROVE  Made(c, ls)' <=> Made(c, ls)
<1>1. Steps(c)' = Steps(c) /\ BleActions(c)' = BleActions(c)
    BY DEF Steps, BleActions
<1>2. \A k, b : LineAfter(c, k, b)' = LineAfter(c, k, b)
    BY <1>1 DEF LineAfter
<1> QED
    BY <1>2 DEF Made

LEMMA NothingIsMade ==
    ASSUME NEW c
    PROVE  Made(c, << >>)
<1>1. \A k \in 1 .. 0 : FALSE
    OBVIOUS
<1>2. Len(<< >>) = 0
    OBVIOUS
<1> QED
    BY <1>1, <1>2 DEF Made

LEMMA InitMade == Init => LinesMade
BY NothingIsMade DEF Init, LinesMade

LEMMA ExpandMade ==
    ASSUME RefinementInv, LinesMade, Expand
    PROVE  LinesMade'
<1>1. PICK c \in todo : Refining(c) /\ ~Complete(c) /\ lines' = Append(lines, NextLine(c, lines))
    BY DEF Expand
<1>2. plan' = plan /\ policy' = policy /\ todo' = todo
    BY DEF Expand
<1>3. TodoInv /\ ACase /\ IsCorridor(c) /\ BuiltLines(c, lines) /\ Made(c, lines)
    BY <1>1 DEF RefinementInv, ResolutionInv, TodoInv, CandidatesInv, LinesMade
<1>4. lines \in Seq(Line) /\ Len(lines) < Count(c)
  <2>1. Len(lines) # Count(c)
      BY <1>1 DEF Complete, Count
  <2>2. Len(lines) \in Nat /\ Count(c) \in Nat /\ Len(lines) <= Count(c) /\ lines \in Seq(Line)
      BY <1>3, CorridorPlaces DEF BuiltLines
  <2> QED BY <2>1, <2>2
<1> DEFINE line == NextLine(c, lines)
<1>5. line \in Line
  <2>1. BuiltLines(c, Append(lines, line))
      BY <1>3, <1>4, LinesGrow
  <2> HIDE DEF line
  <2> DEFINE n == Len(lines) + 1
  <2>2. Append(lines, line)[n] = line /\ n \in 1 .. Len(Append(lines, line))
      BY <1>4
  <2> HIDE DEF n
  <2>3. \A ls \in Seq(Line) : \A i \in 1 .. Len(ls) : ls[i] \in Line
      OBVIOUS
  <2> QED BY <2>1, <2>2, <2>3 DEF BuiltLines
<1>6. PICK ls : ls = lines'
    OBVIOUS
<1>7. Made(c, ls)
    BY <1>1, <1>3, <1>4, <1>5, <1>6, MadeGrows
<1>8. Made(c, ls)'
    BY <1>2, <1>7, MadeIsFixed
<1>9. Made(c, lines)'
    BY <1>6, <1>8
<1>10. \A d : Refining(d)' <=> Refining(d)
    BY <1>2 DEF Refining
<1>11. \A d \in todo : Refining(d) => d = c
    BY <1>1, <1>3, OneIsRefined
<1> QED
    BY <1>2, <1>9, <1>10, <1>11 DEF LinesMade

LEMMA OthersMade ==
    ASSUME plan' = plan, policy' = policy, todo' \subseteq todo, LinesMade,
           lines' = << >> \/ (lines' = lines /\ todo' = todo)
    PROVE  LinesMade'
<1>1. CASE lines' = << >>
  <2>1. ASSUME NEW c PROVE Made(c, lines)'
    <3>1. PICK ls : ls = lines'
        OBVIOUS
    <3>2. Made(c, ls)
        BY <1>1, <3>1, NothingIsMade
    <3>3. Made(c, ls)'
        BY <3>2, MadeIsFixed
    <3> QED BY <3>1, <3>3
  <2> QED BY <2>1 DEF LinesMade
<1>2. CASE lines' = lines /\ todo' = todo
  <2>1. \A d : Refining(d)' <=> Refining(d)
      BY <1>2 DEF Refining
  <2>2. ASSUME NEW c \in todo, Refining(c) PROVE Made(c, lines)'
    <3>1. PICK ls : ls = lines'
        OBVIOUS
    <3>2. Made(c, ls)
        BY <1>2, <2>2, <3>1 DEF LinesMade
    <3>3. Made(c, ls)'
        BY <3>2, MadeIsFixed
    <3> QED BY <3>1, <3>3
  <2> QED BY <1>2, <2>1, <2>2 DEF LinesMade
<1> QED
    BY <1>1, <1>2

LEMMA NextMade == RefinementInv /\ LinesMade /\ [Next]_vars => LinesMade'
<1> SUFFICES ASSUME RefinementInv, LinesMade, [Next]_vars PROVE LinesMade'
    OBVIOUS
<1>1. CASE Expand
    BY <1>1, ExpandMade
<1>2. CASE Refine
  <2>1. plan' = plan /\ policy' = policy /\ todo' \subseteq todo /\ lines' = << >>
      BY <1>2 DEF Refine
  <2> QED BY <2>1, OthersMade
<1>3. CASE Resolve \/ WalkBatch \/ WalkCorridor \/ Conclude \/ UNCHANGED vars
  <2>1. plan' = plan /\ policy' = policy /\ todo' = todo /\ lines' = lines
      BY <1>3 DEF Resolve, WalkBatch, WalkCorridor, Conclude, vars
  <2> QED BY <2>1, OthersMade
<1> QED
    BY <1>1, <1>2, <1>3 DEF Next

LEMMA ActionsMade ==
    ASSUME ACase, NEW c, IsCorridor(c), c.source = "BLE", NEW ls, BuiltLines(c, ls), Len(ls) = Count(c), Made(c, ls)
    PROVE  BleMade(policy.ble, BleActions(c), ls, Count(c))
<1>1. Count(c) \in Nat /\ DOMAIN ls = 1 .. Count(c)
    BY CorridorPlaces DEF BuiltLines
<1>2. ASSUME NEW k \in 1 .. Count(c)
      PROVE  BleShape(ls[k]) /\ ls[k] = BleAfter(policy.ble, BleActions(c), k, ls[k - 1])
  <2>1. BuiltLine(c, ls, k) /\ ls[k] = LineAfter(c, k, ls[k - 1])
      BY DEF BuiltLines, Made
  <2> QED BY <2>1, BuiltAre DEF BuiltBle, LineAfter
<1> QED
    BY <1>1, <1>2 DEF BleMade

\* The batches of c wait for no backoff, take equally long and not too long.
Even(c) ==
    \A i \in Batches(c) : /\ ~plan[i].backoff
                          /\ BatchLatency("API", plan[i]) = BatchLatency("API", plan[c.first])
                          /\ BatchLatency("API", plan[i]) <= LongestParsed(plan[i])

LEMMA RequestsMade ==
    ASSUME ACase, NEW c, IsCorridor(c), c.source = "API", NEW ls, BuiltLines(c, ls), Len(ls) = Count(c), Made(c, ls),
           Even(c)
    PROVE  ApiMade(policy.api, Steps(c), ls, Count(c))
<1>1. Count(c) \in Nat /\ DOMAIN ls = 1 .. Count(c)
    BY CorridorPlaces DEF BuiltLines
<1>2. ASSUME NEW k \in 1 .. Count(c)
      PROVE  /\ IsRequest(Steps(c)[k]) /\ ~Steps(c)[k].backoff /\ NotTooLong(Steps(c)[k])
             /\ Steps(c)[k].lane = Lane(plan[c.first]) /\ Steps(c)[k].latency = BatchLatency("API", plan[c.first])
             /\ ApiShape(Steps(c)[k], ls[k]) /\ ls[k] = ApiAfter(policy.api, Steps(c), k, ls[k - 1])
  <2>1. BuiltLine(c, ls, k) /\ ls[k] = LineAfter(c, k, ls[k - 1])
      BY DEF BuiltLines, Made
  <2>2. ApiShape(Steps(c)[k], ls[k]) /\ ls[k] = ApiAfter(policy.api, Steps(c), k, ls[k - 1])
      BY <2>1, BuiltAre DEF BuiltApi, LineAfter
  <2>3. /\ IsRequest(Steps(c)[k]) /\ Steps(c)[k].lane = Lane(plan[c.first])
        /\ Steps(c)[k].latency = BatchLatency("API", BatchAt(c, k)) /\ Steps(c)[k].backoff = BatchAt(c, k).backoff
      BY ApiCorridor
  <2>4. Place(c, k) \in Batches(c) /\ Lane(BatchAt(c, k)) = Lane(plan[c.first])
      BY CorridorPlaces
  <2>5. /\ ~BatchAt(c, k).backoff /\ BatchLatency("API", BatchAt(c, k)) = BatchLatency("API", plan[c.first])
        /\ BatchLatency("API", BatchAt(c, k)) <= LongestParsed(BatchAt(c, k))
      BY <2>4 DEF Even, BatchAt
  <2>6. NotTooLong(Steps(c)[k])
      BY <2>3, <2>4, <2>5 DEF NotTooLong, LongestParsed
  <2> QED BY <2>2, <2>3, <2>5, <2>6
<1>3. \A k \in 1 .. Count(c) - 1 : k \in 1 .. Count(c) /\ k + 1 \in 1 .. Count(c)
    BY <1>1
<1>4. \A k \in 1 .. Count(c) - 1 : Alike(Steps(c)[k], Steps(c)[k + 1])
    BY <1>2, <1>3 DEF Alike
<1> QED
    BY <1>1, <1>2, <1>4 DEF ApiMade

LEMMA MadeIsValid == RefinementInv /\ LinesMade => BuiltIsValid
<1> SUFFICES ASSUME RefinementInv, LinesMade PROVE BuiltIsValid
    OBVIOUS
<1>1. ACase /\ policy.ble \in BlePolicy /\ policy.api \in ApiPolicy
    BY PlanFacts DEF RefinementInv, ResolutionInv, TodoInv
<1>2. ASSUME NEW c \in todo, Complete(c)
      PROVE  /\ IsCorridor(c) /\ c.source \in {"BLE", "API"} /\ BuiltLines(c, lines) /\ Len(lines) = Count(c)
             /\ Made(c, lines)
  <2>1. Refining(c) /\ Len(lines) = Count(c)
      BY <1>2 DEF Complete, Count
  <2> QED BY <2>1 DEF RefinementInv, ResolutionInv, TodoInv, CandidatesInv, LinesMade, IsCorridor
<1>3. ASSUME NEW c \in todo, Complete(c), c.source = "BLE", ~policy.ble.connectOverlap PROVE Valid(c, lines)
  <2>1. BleMade(policy.ble, BleActions(c), lines, Count(c))
      BY <1>1, <1>2, <1>3, ActionsMade
  <2>2. BleValid(policy.ble, BleActions(c), lines)
      BY <1>1, <1>3, <2>1, BleMadeValid
  <2> QED BY <1>3, <2>2 DEF Valid
<1>4. ASSUME NEW c \in todo, Complete(c), c.source = "API", policy.api.authBudget, Even(c) PROVE Valid(c, lines)
  <2>1. ApiMade(policy.api, Steps(c), lines, Count(c))
      BY <1>1, <1>2, <1>4, RequestsMade
  <2>2. ApiValid(policy.api, Steps(c), lines)
      BY <1>1, <1>4, <2>1, ApiMadeValid
  <2> QED BY <1>4, <2>2 DEF Valid
<1>5. ASSUME NEW c \in todo, Complete(c)
      PROVE  \/ Even(c)
             \/ \E i \in Batches(c) : \/ plan[i].backoff
                                      \/ BatchLatency("API", plan[i]) # BatchLatency("API", plan[c.first])
                                      \/ BatchLatency("API", plan[i]) > LongestParsed(plan[i])
  <2>1. ASSUME NEW i \in Batches(c)
        PROVE  BatchLatency("API", plan[i]) <= LongestParsed(plan[i]) \/ BatchLatency("API", plan[i]) > LongestParsed(plan[i])
    <3>1. i \in 1 .. Len(plan)
      <4>1. c.first \in Nat \ {0} /\ c.last \in Nat \ {0} /\ c.last <= Len(plan) /\ Len(plan) \in Nat
          BY <1>1, <1>2, <1>5, CorridorPlaces, PlanFacts
      <4> QED BY <4>1 DEF Batches
    <3>2. BatchLatency("API", plan[i]) \in Nat /\ LongestParsed(plan[i]) \in Nat
        BY <1>1, <3>1, PlanFacts, LatencyOfBatch DEF LongestParsed
    <3> QED BY <3>2
  <2> QED BY <2>1 DEF Even
<1> QED
    BY <1>2, <1>3, <1>4, <1>5 DEF BuiltIsValid

LEMMA SpecMade == Spec => [](RefinementInv /\ LinesMade)
<1>1. Init => RefinementInv /\ LinesMade
    BY InitRefinement, InitMade
<1>2. RefinementInv /\ LinesMade /\ [Next]_vars => (RefinementInv /\ LinesMade)'
    BY NextRefinement, NextMade
<1> QED
    BY <1>1, <1>2, PTL DEF Spec

\* What a refiner lays out its own validator accepts, whatever the plan and the policy:
\* no corridor is built in vain, unless connections overlap, a request is not prepared
\* at once, a batch waits for a backoff, or the batches differ in length or are too long.
THEOREM NothingInVain == Spec => []BuiltIsValid
BY SpecMade, MadeIsValid, PTL
=============================================================================
