------------------------ MODULE BatchScheduler_proofs ------------------------
(***************************************************************************)
(* For every set of actions, every graph and all limits: the scheduler's   *)
(* state is well typed, its batches keep every hard edge of the input, it   *)
(* never stands before an empty ready list, and verification comes after    *)
(* control unless the input forces it.  Further sections carry this over    *)
(* to the graphs the DAG builder makes, and prove what breaking cycles      *)
(* costs, why a schedule is refused, and that the counters of the loop      *)
(* keep the limits of the batch as a whole.                                 *)
(*                                                                         *)
(* The order is inductive for the edges left in the graph only; that it    *)
(* holds for those transitive reduction removed needs the second half of   *)
(* the invariant, that what an edge joined stays joined by a path.  Since  *)
(* a path is what every closed set of successors contains, both steps are  *)
(* about sets: the reduced graph has the closed sets of the graph before,  *)
(* and the actions not in the first k batches are such a set.              *)
(***************************************************************************)
EXTENDS TypedDag, FiniteSetTheorems, WellFoundedInduction, TLAPS

\* The bookkeeping: types, and what the counters and the ready list stand for.
BooksKept ==
    /\ stage \in {"project", "reduce", "batch", "done", "rejected"}
    /\ given \subseteq CandidateEdges /\ out \subseteq Proper(given) /\ todo \subseteq out
    /\ batches \in Nat /\ batchOf \in [Action -> 0 .. batches]
    /\ forced \subseteq 1 .. batches
    /\ ready \subseteq Action /\ selected \subseteq ready
    /\ indegree \in [Action -> Nat]
    /\ \A a \in Action : indegree[a] = Cardinality(Before(out, a) \ Done)
    /\ stage \in {"project", "reduce", "rejected"} =>
         Done = {} /\ ready = {} /\ selected = {}
    /\ stage = "batch" =>
         ready = {a \in Action \ Done : Before(out, a) \subseteq Done} /\ Done # Action
    /\ stage \in {"project"} => out = {}

\* The order of the batches, along the edges that are left.
OutKept ==
    \A e \in out : batchOf[e[2]] # 0 => batchOf[e[1]] # 0 /\ batchOf[e[1]] < batchOf[e[2]]

\* What a hard edge joined is joined by a path, and there is no cycle.
PathsKept ==
    /\ stage # "project" => \A e \in Proper(given) : Reaches(out, e[1], e[2])
    /\ stage \in {"reduce", "batch"} => ~Cyclic(out)

CountersKept == occupancy \in 0 .. TotalLimit /\ cloudCount \in 0 .. CloudLimit

LEMMA EdgeFacts ==
    ASSUME BooksKept, NEW e \in out
    PROVE  e[1] \in Action /\ e[2] \in Action /\ e = << e[1], e[2] >> /\ e[1] # e[2]
BY SchedulerAssumption DEF BooksKept, Proper

LEMMA BeforeFinite ==
    ASSUME NEW pairs, NEW a
    PROVE  Before(pairs, a) \subseteq Action /\ IsFiniteSet(Before(pairs, a))
<1>1. Before(pairs, a) \in SUBSET Action
    BY DEF Before
<1> QED
    BY <1>1, SchedulerAssumption, FS_Subset

LEMMA IncrementRange == \A a \in Action : Increment(a) \in {0, 1}
<1> SUFFICES ASSUME NEW a \in Action PROVE Increment(a) \in {0, 1}
    OBVIOUS
<1>1. CloudIncrement(a) \in {0, 1}
    BY DEF CloudIncrement
<1>2. LocalIncrement(a) \in {0, 1}
    BY DEF LocalIncrement
<1> QED
    BY <1>1, <1>2 DEF Increment

-----------------------------------------------------------------------------
(* Counters                                                                *)

LEMMA CountersStep == BooksKept /\ CountersKept /\ [Next]_vars => CountersKept'
<1> SUFFICES ASSUME BooksKept, CountersKept, [Next]_vars PROVE CountersKept'
    OBVIOUS
<1> TotalLimit \in Nat /\ CloudLimit \in Nat
    BY SchedulerAssumption
<1>1. CASE \E a \in Action : Pick(a)
    <2>1. PICK a \in Action : Pick(a)
        BY <1>1
    <2>2. Increment(a) \in {0, 1}
        BY IncrementRange
    <2>3. occupancy + Increment(a) <= TotalLimit
        BY <2>1 DEF Pick, Allowed
    <2>4. Resource[a] = "CLOUD" => cloudCount + Increment(a) <= CloudLimit
        BY <2>1 DEF Pick, Allowed
    <2> QED
        BY <2>1, <2>2, <2>3, <2>4 DEF Pick, CountersKept
<1>2. CASE CloseBatch \/ \E a \in Action : ForcedPick(a)
    BY <1>2 DEF CloseBatch, ForcedPick, Close, CountersKept
<1>3. CASE ProjectHardGraph \/ TransitiveReduce \/ BeginBatches \/ Stopped \/ UNCHANGED vars
    BY <1>3 DEF ProjectHardGraph, TransitiveReduce, BeginBatches, Stopped, vars, batch, CountersKept
<1> QED
    BY <1>1, <1>2, <1>3 DEF Next, Schedule

-----------------------------------------------------------------------------
(* Counters of the graph and the ready list                                *)

LEMMA InitBooks == Init => BooksKept
<1> SUFFICES ASSUME Init PROVE BooksKept
    OBVIOUS
<1>1. Done = {}
    BY DEF Init, Done
<1>2. ASSUME NEW a \in Action
      PROVE  indegree[a] = Cardinality(Before(out, a) \ Done)
    <2>1. Before(out, a) \ Done = {}
        BY DEF Init, Before
    <2> QED
        BY <2>1, FS_EmptySet DEF Init
<1>3. out = {} /\ todo = {} /\ forced = {} /\ batches = 0 /\ stage = "project"
    BY DEF Init
<1>4. batchOf \in [Action -> 0 .. batches] /\ indegree \in [Action -> Nat]
    BY DEF Init
<1> QED
    BY <1>1, <1>2, <1>3, <1>4 DEF Init, BooksKept

LEMMA ProjectBooks == BooksKept /\ ProjectHardGraph => BooksKept'
<1> SUFFICES ASSUME BooksKept, ProjectHardGraph PROVE BooksKept'
    OBVIOUS
<1> USE DEF ProjectHardGraph, BooksKept, batch, plan
<1>1. Done' = {}
    BY DEF Done
<1>2. \A a \in Action : indegree'[a] = Cardinality(Before(out', a) \ Done')
    BY <1>1
<1>3. indegree' \in [Action -> Nat]
    BY BeforeFinite, FS_CardinalityType
<1>4. stage' \in {"reduce", "rejected"} /\ out' = Proper(given') /\ todo' \subseteq out'
    OBVIOUS
<1> QED
    BY <1>1, <1>2, <1>3, <1>4

LEMMA ReduceBooks == BooksKept /\ TransitiveReduce => BooksKept'
<1> SUFFICES ASSUME BooksKept, TransitiveReduce PROVE BooksKept'
    OBVIOUS
<1>1. PICK e \in todo :
        /\ todo' = todo \ {e}
        /\ out' = IF Implied(e) THEN out \ {e} ELSE out
        /\ indegree' = IF Implied(e) THEN [indegree EXCEPT ![e[2]] = Max({0, @ - 1})] ELSE indegree
    BY DEF TransitiveReduce
<1>2. e \in out /\ e[1] \in Action /\ e[2] \in Action /\ e = << e[1], e[2] >>
    BY EdgeFacts DEF BooksKept
<1>3. Done = {} /\ Done' = {}
    BY DEF BooksKept, TransitiveReduce, plan, Done
<1>4. /\ indegree' \in [Action -> Nat]
      /\ \A a \in Action : indegree'[a] = Cardinality(Before(out', a) \ Done')
    <2>1. CASE ~Implied(e)
        BY <2>1, <1>1, <1>3 DEF BooksKept
    <2>2. CASE Implied(e)
        <3> DEFINE n == indegree[e[2]]
        <3>1. n = Cardinality(Before(out, e[2])) /\ n \in Nat
            BY <1>2, <1>3 DEF BooksKept
        <3>2. Before(out \ {e}, e[2]) = Before(out, e[2]) \ {e[1]} /\ e[1] \in Before(out, e[2])
            BY <1>2 DEF Before
        <3>3. Cardinality(Before(out \ {e}, e[2])) = n - 1 /\ n - 1 \in Nat
            <4> DEFINE B == Before(out, e[2])
                       R == B \ {e[1]}
            <4>1. IsFiniteSet(B) /\ e[1] \in B /\ n = Cardinality(B)
                BY <3>1, <3>2, BeforeFinite
            <4> HIDE DEF B
            <4>2. Cardinality(R) = n - 1 /\ IsFiniteSet(R)
                BY <4>1, FS_RemoveElement
            <4> HIDE DEF R
            <4>3. Cardinality(R) \in Nat
                BY <4>2, FS_CardinalityType
            <4> QED
                BY <4>2, <4>3, <3>2 DEF B, R
        <3>4. Max({0, n - 1}) = n - 1
            BY <3>1, <3>3 DEF Max
        <3>5. indegree' = [indegree EXCEPT ![e[2]] = n - 1]
            BY <3>4, <2>2, <1>1
        <3>6. ASSUME NEW a \in Action, a # e[2]
              PROVE  Before(out \ {e}, a) = Before(out, a)
            BY <3>6, <1>2 DEF Before
        <3>7. ASSUME NEW a \in Action
              PROVE  indegree'[a] = Cardinality(Before(out', a) \ Done')
            <4>1. CASE a = e[2]
                BY <4>1, <3>3, <3>5, <2>2, <1>1, <1>2, <1>3 DEF BooksKept
            <4>2. CASE a # e[2]
                BY <4>2, <3>5, <3>6, <2>2, <1>1, <1>2, <1>3 DEF BooksKept
            <4> QED
                BY <4>1, <4>2
        <3>8. indegree' \in [Action -> Nat]
            BY <3>3, <3>5 DEF BooksKept
        <3> QED
            BY <3>7, <3>8
    <2> QED
        BY <2>1, <2>2
<1>5. out' \subseteq out /\ todo' \subseteq out'
    BY <1>1 DEF BooksKept
<1> QED
    BY <1>3, <1>4, <1>5 DEF BooksKept, TransitiveReduce, batch, plan

LEMMA BeginBooks == BooksKept /\ BeginBatches => BooksKept'
<1> SUFFICES ASSUME BooksKept, BeginBatches PROVE BooksKept'
    OBVIOUS
<1>1. Done = {} /\ Done' = {} /\ selected = {}
    BY DEF BooksKept, BeginBatches, plan, Done
<1>2. \A a \in Action : indegree[a] = 0 <=> Before(out, a) \subseteq {}
    <2>1. \A a \in Action : indegree[a] = Cardinality(Before(out, a))
        BY <1>1 DEF BooksKept
    <2> QED
        BY <2>1, BeforeFinite, FS_EmptySet
<1>3. ready' = {a \in Action \ Done' : Before(out', a) \subseteq Done'}
    BY <1>1, <1>2 DEF BeginBatches, graph
<1>4. stage' = "batch" => Done' # Action
    BY <1>1 DEF BeginBatches
<1> QED
    BY <1>1, <1>3, <1>4 DEF BooksKept, BeginBatches, graph, batch, plan

LEMMA PickBooks == BooksKept /\ (\E a \in Action : Pick(a)) => BooksKept'
BY DEF BooksKept, Pick, graph, plan, Done

\* What closing a batch with any ready actions does to the books.
LEMMA CloseBooks ==
    ASSUME BooksKept, OutKept, stage = "batch", NEW S \in SUBSET ready, S # {}, Close(S),
           forced' = forced \/ forced' = forced \cup {batches'}
    PROVE  /\ BooksKept'
           /\ Done' = Done \cup S /\ batches' = batches + 1
<1> USE DEF Close
<1>1. batches' \in Nat /\ batches' = batches + 1 /\ batchOf' \in [Action -> 0 .. batches']
    BY DEF BooksKept
<1>2. S \subseteq Action /\ S \cap Done = {}
    BY DEF BooksKept
<1>3. Done' = Done \cup S
    BY <1>1, <1>2 DEF BooksKept, Done
<1>4. out' = out /\ given' = given /\ todo' = todo
    BY DEF graph
<1>5. ASSUME NEW a \in Action
      PROVE  /\ indegree'[a] = Cardinality(Before(out', a) \ Done')
             /\ indegree'[a] \in Nat
    <2> DEFINE pending == Before(out, a) \ Done
    <2>1. IsFiniteSet(pending)
        BY BeforeFinite, FS_Difference
    <2>2. pending \cap S = Before(out, a) \cap S
        BY <1>2
    <2>3. pending \ S = Before(out', a) \ Done'
        BY <1>3, <1>4
    <2>4. Cardinality(pending \ S) = Cardinality(pending) - Cardinality(pending \cap S)
        BY <2>1, FS_Difference
    <2>5. IsFiniteSet(pending \ S) /\ Cardinality(pending \ S) \in Nat
        BY <2>1, FS_Difference, FS_CardinalityType
    <2>6. indegree'[a] = indegree[a] - Cardinality(Before(out, a) \cap S)
        OBVIOUS
    <2>7. indegree[a] = Cardinality(pending)
        BY DEF BooksKept
    <2> QED
        BY <2>2, <2>3, <2>4, <2>5, <2>6, <2>7
<1>6. indegree' \in [Action -> Nat]
    BY <1>5
<1>7. ready' = {a \in Action \ Done' : Before(out', a) \subseteq Done'}
    <2>1. ASSUME NEW a \in Action
          PROVE  /\ indegree[a] = 0 <=> Before(out, a) \subseteq Done
                 /\ indegree'[a] = 0 <=> Before(out', a) \subseteq Done'
                 /\ indegree[a] \in Nat
        <3>1. IsFiniteSet(Before(out, a) \ Done) /\ IsFiniteSet(Before(out', a) \ Done')
            BY BeforeFinite, FS_Difference
        <3>2. indegree[a] = Cardinality(Before(out, a) \ Done)
            BY DEF BooksKept
        <3>3. indegree[a] = 0 <=> Before(out, a) \ Done = {}
            BY <3>1, <3>2, FS_EmptySet
        <3>4. indegree'[a] = 0 <=> Before(out', a) \ Done' = {}
            BY <3>1, <1>5, FS_EmptySet
        <3> QED
            BY <3>3, <3>4 DEF BooksKept
    <2>2. ready = {a \in Action \ Done : Before(out, a) \subseteq Done}
        BY DEF BooksKept
    <2>3. ready' = (ready \ S) \cup {a \in Action : indegree[a] > 0 /\ indegree'[a] = 0}
        OBVIOUS
    <2>4. ASSUME NEW a \in Action
          PROVE  a \in ready' <=> a \notin Done' /\ Before(out', a) \subseteq Done'
        <3>1. CASE a \in Done
            <4>1. Before(out, a) \subseteq Done
                BY <3>1 DEF OutKept, Done, Before
            <4> QED
                BY <4>1, <3>1, <2>1, <2>2, <2>3, <1>3
        <3>2. CASE a \in S
            <4>1. indegree[a] = 0
                BY <3>2, <2>1, <2>2
            <4> QED
                BY <4>1, <3>2, <2>3, <1>3
        <3>3. CASE a \notin Done /\ a \notin S
            <4>1. CASE indegree[a] = 0
                BY <4>1, <3>3, <2>1, <2>2, <2>3, <1>3, <1>4
            <4>2. CASE indegree[a] # 0
                <5> HIDE DEF Close
                <5>1. indegree[a] > 0
                    BY <4>2, <2>1
                <5>2. a \notin ready
                    BY <4>2, <2>1, <2>2
                <5>3. a \in ready' <=> indegree'[a] = 0
                    BY <5>1, <5>2, <2>3
                <5> QED
                    BY <5>3, <3>3, <2>1, <1>3
            <4> QED
                BY <4>1, <4>2
        <3> QED
            BY <3>1, <3>2, <3>3
    <2>5. ready' \subseteq Action
        BY <2>2, <2>3
    <2> QED
        BY <2>4, <2>5
<1>8. stage' \in {"batch", "done"} /\ (stage' = "batch" => Done' # Action)
    BY <1>1 DEF Done
<1>9. forced' \subseteq 1 .. batches'
    <2>1. forced \subseteq 1 .. batches /\ batches \in Nat
        BY DEF BooksKept
    <2>2. 1 .. batches \subseteq 1 .. (batches + 1) /\ batches + 1 \in 1 .. (batches + 1)
        BY <2>1
    <2> QED
        BY <2>1, <2>2, <1>1
<1> QED
    BY <1>1, <1>3, <1>4, <1>5, <1>6, <1>7, <1>8, <1>9 DEF BooksKept

-----------------------------------------------------------------------------
(* Paths                                                                   *)

LEMMA EdgeReaches ==
    ASSUME NEW pairs, NEW e \in pairs
    PROVE  Reaches(pairs, e[1], e[2])
BY DEF Reaches

\* Removing an edge that the others imply separates nothing.
LEMMA ImpliedEdgeIsSpare ==
    ASSUME NEW pairs, NEW e \in pairs, Reaches(pairs \ {e}, e[1], e[2]),
           NEW a, NEW b, Reaches(pairs, a, b)
    PROVE  Reaches(pairs \ {e}, a, b)
<1> SUFFICES ASSUME NEW S \in SUBSET Action,
                    \A f \in pairs \ {e} : (f[1] = a \/ f[1] \in S) => f[2] \in S
             PROVE  b \in S
    BY DEF Reaches
<1>1. (e[1] = a \/ e[1] \in S) => e[2] \in S
    <2> SUFFICES ASSUME e[1] = a \/ e[1] \in S PROVE e[2] \in S
        OBVIOUS
    <2>1. \A f \in pairs \ {e} : (f[1] = e[1] \/ f[1] \in S) => f[2] \in S
        OBVIOUS
    <2> QED
        BY <2>1 DEF Reaches
<1>2. \A f \in pairs : (f[1] = a \/ f[1] \in S) => f[2] \in S
    BY <1>1
<1> QED
    BY <1>2 DEF Reaches

LEMMA FewerEdgesFewerCycles ==
    ASSUME NEW pairs, NEW fewer \in SUBSET pairs, Cyclic(fewer)
    PROVE  Cyclic(pairs)
<1>1. PICK S \in (SUBSET Action) \ {{}} : \A a \in S : Before(fewer, a) \cap S # {}
    BY DEF Cyclic
<1>2. \A a \in S : Before(fewer, a) \subseteq Before(pairs, a)
    BY DEF Before
<1>3. \A a \in S : Before(pairs, a) \cap S # {}
    BY <1>1, <1>2
<1> QED
    BY <1>3 DEF Cyclic

LEMMA PathsStep == BooksKept /\ PathsKept /\ [Next]_vars => PathsKept'
<1> SUFFICES ASSUME BooksKept, PathsKept, [Next]_vars PROVE PathsKept'
    OBVIOUS
<1>1. CASE ProjectHardGraph
    <2>1. out' = Proper(given') /\ (stage' = "reduce" => ~Cyclic(out'))
          /\ stage' \in {"reduce", "rejected"}
        BY <1>1 DEF ProjectHardGraph
    <2>2. \A e \in Proper(given') : Reaches(out', e[1], e[2])
        BY <2>1, EdgeReaches
    <2>3. ~Cyclic(out)' <=> ~Cyclic(out')
        BY DEF Cyclic, Before
    <2>4. \A e : Reaches(out, e[1], e[2])' <=> Reaches(out', e[1], e[2])
        BY DEF Reaches
    <2> QED
        BY <2>1, <2>2, <2>3, <2>4 DEF PathsKept, Proper
<1>2. CASE TransitiveReduce
    <2>1. PICK e \in todo : out' = IF Implied(e) THEN out \ {e} ELSE out
        BY <1>2 DEF TransitiveReduce
    <2>2. e \in out /\ out' \subseteq out
        BY <2>1 DEF BooksKept
    <2>3. stage = "reduce" /\ stage' = stage /\ given' = given
        BY <1>2 DEF TransitiveReduce
    <2>4. ASSUME NEW a, NEW b, Reaches(out, a, b)
          PROVE  Reaches(out', a, b)
        <3>1. CASE Implied(e)
            BY <3>1, <2>1, <2>2, <2>4, ImpliedEdgeIsSpare DEF Implied
        <3>2. CASE ~Implied(e)
            BY <3>2, <2>1, <2>4
        <3> QED
            BY <3>1, <3>2
    <2>5. ~Cyclic(out')
        BY <2>2, <2>3, FewerEdgesFewerCycles DEF PathsKept
    <2>6. \A f \in Proper(given) : Reaches(out', f[1], f[2])
        BY <2>3, <2>4 DEF PathsKept
    <2> QED
        BY <2>3, <2>5, <2>6 DEF PathsKept
<1>3. CASE BeginBatches \/ (\E a \in Action : Pick(a) \/ ForcedPick(a)) \/ CloseBatch
           \/ Stopped \/ UNCHANGED vars
    <2>1. /\ out' = out /\ given' = given
          /\ stage' # "project" => stage # "project"
          /\ stage' \in {"reduce", "batch"} => stage \in {"reduce", "batch"}
        BY <1>3 DEF BeginBatches, Pick, ForcedPick, CloseBatch, Close, Stopped, vars, graph
    <2> QED
        BY <2>1 DEF PathsKept
<1> QED
    BY <1>1, <1>2, <1>3 DEF Next, Schedule

-----------------------------------------------------------------------------
(* Every step                                                              *)

\* A batch closed with ready actions extends the order.
LEMMA CloseOrder ==
    ASSUME BooksKept, OutKept, stage = "batch", NEW S \in SUBSET ready, Close(S)
    PROVE  OutKept'
<1> SUFFICES ASSUME NEW e \in out, batchOf'[e[2]] # 0
             PROVE  batchOf'[e[1]] # 0 /\ batchOf'[e[1]] < batchOf'[e[2]]
    BY DEF OutKept, Close, graph
<1>1. e[1] \in Action /\ e[2] \in Action /\ e = << e[1], e[2] >>
    BY EdgeFacts
<1>2. batchOf[e[1]] \in 0 .. batches /\ batchOf[e[2]] \in 0 .. batches /\ batches \in Nat
    BY <1>1 DEF BooksKept
<1>3. batchOf'[e[1]] = (IF e[1] \in S THEN batches + 1 ELSE batchOf[e[1]])
      /\ batchOf'[e[2]] = (IF e[2] \in S THEN batches + 1 ELSE batchOf[e[2]])
    BY <1>1 DEF Close
<1>4. \A a \in S : a \notin Done /\ Before(out, a) \subseteq Done
    BY DEF BooksKept
<1>5. CASE e[2] \in S
    <2>1. e[1] \in Before(out, e[2])
        BY <1>1 DEF Before
    <2>2. e[1] \in Done
        BY <2>1, <1>4, <1>5
    <2>3. batchOf[e[1]] # 0 /\ e[1] \notin S
        BY <2>2, <1>4 DEF Done
    <2> QED
        BY <2>3, <1>2, <1>3, <1>5
<1>6. CASE e[2] \notin S
    <2>1. batchOf[e[1]] # 0 /\ batchOf[e[1]] < batchOf[e[2]]
        BY <1>3, <1>6 DEF OutKept
    <2>2. e[1] \notin S
        BY <2>1, <1>1, <1>4 DEF Done
    <2> QED
        BY <2>1, <2>2, <1>3, <1>6
<1> QED
    BY <1>5, <1>6

LEMMA BooksStep == BooksKept /\ OutKept /\ [Next]_vars => BooksKept' /\ OutKept'
<1> SUFFICES ASSUME BooksKept, OutKept, [Next]_vars PROVE BooksKept' /\ OutKept'
    OBVIOUS
<1>1. CASE ProjectHardGraph
    <2>1. batchOf' = batchOf /\ out' \subseteq Action \X Action /\ Done = {}
        BY <1>1, SchedulerAssumption DEF ProjectHardGraph, BooksKept, Proper, plan
    <2>2. OutKept'
        BY <2>1 DEF OutKept, Done
    <2> QED
        BY <1>1, <2>2, ProjectBooks
<1>2. CASE TransitiveReduce
    <2>1. out' \subseteq out /\ batchOf' = batchOf
        BY <1>2 DEF TransitiveReduce, plan
    <2>2. OutKept'
        BY <2>1 DEF OutKept
    <2> QED
        BY <1>2, <2>2, ReduceBooks
<1>3. CASE BeginBatches
    BY <1>3, BeginBooks DEF BeginBatches, graph, plan, OutKept
<1>4. CASE \E a \in Action : Pick(a)
    <2>1. OutKept'
        BY <1>4 DEF Pick, graph, plan, OutKept
    <2> QED
        BY <1>4, <2>1, PickBooks
<1>5. CASE CloseBatch
    <2>1. stage = "batch" /\ selected # {} /\ Close(selected) /\ forced' = forced
        BY <1>5 DEF CloseBatch
    <2>2. selected \in SUBSET ready
        BY DEF BooksKept
    <2> QED
        BY <2>1, <2>2, CloseBooks, CloseOrder
<1>6. CASE \E a \in Action : ForcedPick(a)
    <2>1. PICK a \in Action : ForcedPick(a)
        BY <1>6
    <2>2. /\ stage = "batch" /\ {a} \in SUBSET ready /\ {a} # {}
          /\ Close({a}) /\ forced' = forced \cup {batches'}
        BY <2>1 DEF ForcedPick
    <2> QED
        BY <2>2, CloseBooks, CloseOrder
<1>7. CASE Stopped \/ UNCHANGED vars
    <2>1. UNCHANGED << stage, given, out, todo, indegree, ready, selected, batchOf, batches, forced >>
        BY <1>7 DEF Stopped, vars, graph, batch, plan
    <2>2. Done' = Done
        BY <2>1 DEF Done
    <2>3. \A a : Before(out, a)' = Before(out, a)
        BY <2>1 DEF Before
    <2>4. BooksKept'
        BY <2>1, <2>2, <2>3 DEF BooksKept
    <2> QED
        BY <2>1, <2>4 DEF OutKept
<1> QED
    BY <1>1, <1>2, <1>3, <1>4, <1>5, <1>6, <1>7 DEF Next, Schedule

\* The inductive invariant holds initially and in every step.
IInv == BooksKept /\ CountersKept /\ OutKept /\ PathsKept

LEMMA Inductive == Spec => []IInv
<1>1. Init => IInv
    <2> SUFFICES ASSUME Init PROVE IInv
        OBVIOUS
    <2>1. CountersKept
        BY SchedulerAssumption DEF Init, CountersKept
    <2>2. OutKept /\ PathsKept
        BY DEF Init, OutKept, PathsKept
    <2> QED
        BY <2>1, <2>2, InitBooks DEF IInv
<1>2. IInv /\ [Next]_vars => IInv'
    BY BooksStep, CountersStep, PathsStep DEF IInv
<1> QED
    BY <1>1, <1>2, PTL DEF Spec

-----------------------------------------------------------------------------
(* What the batches keep                                                   *)

LEMMA OrderFromPaths == IInv => HardOrderKept
<1> SUFFICES ASSUME IInv, NEW e \in Proper(given), batchOf[e[2]] # 0
             PROVE  batchOf[e[1]] # 0 /\ batchOf[e[1]] < batchOf[e[2]]
    BY DEF HardOrderKept
<1>1. e[1] \in Action /\ e[2] \in Action /\ batches \in Nat /\ batchOf \in [Action -> 0 .. batches]
    BY SchedulerAssumption DEF IInv, BooksKept, Proper
<1>2. stage # "project"
    BY <1>1 DEF IInv, BooksKept, Done
<1>3. Reaches(out, e[1], e[2])
    BY <1>2 DEF IInv, PathsKept
<1> DEFINE k == batchOf[e[1]]
           Later == {x \in Action : batchOf[x] = 0 \/ (k # 0 /\ k < batchOf[x])}
<1>4. ASSUME NEW f \in out, f[1] = e[1] \/ f[1] \in Later
      PROVE  f[2] \in Later
    <2>1. f[1] \in Action /\ f[2] \in Action
        BY EdgeFacts DEF IInv
    <2>2. batchOf[f[2]] # 0 => batchOf[f[1]] # 0 /\ batchOf[f[1]] < batchOf[f[2]]
        BY DEF IInv, OutKept
    <2>3. batchOf[f[1]] \in Nat /\ batchOf[f[2]] \in Nat /\ k \in Nat
        BY <1>1, <2>1
    <2> QED
        BY <1>4, <2>1, <2>2, <2>3
<1>5. e[2] \in Later
    BY <1>3, <1>4 DEF Reaches
<1> QED
    BY <1>5

LEMMA ReadyFromAcyclic == IInv => NeverStuck
<1> SUFFICES ASSUME IInv, stage = "batch", ready = {} PROVE FALSE
    BY DEF NeverStuck
<1> DEFINE Left == Action \ Done
<1>1. Left \in (SUBSET Action) \ {{}}
    <2>1. Done # Action /\ Done \subseteq Action
        BY DEF IInv, BooksKept, Done
    <2> QED
        BY <2>1
<1>2. ASSUME NEW a \in Left
      PROVE  Before(out, a) \cap Left # {}
    <2>1. ~(Before(out, a) \subseteq Done)
        BY DEF IInv, BooksKept
    <2> QED
        BY <2>1 DEF Before
<1>3. Cyclic(out)
    BY <1>1, <1>2 DEF Cyclic
<1> QED
    BY <1>3 DEF IInv, PathsKept

\* indegree, total_occupancy and cloud_count of CrossProtocolScheduler.schedule
\* stay in range, and a batch is always taken from the ready list.
THEOREM TypeCorrect == Spec => []TypeOK
<1>1. IInv => TypeOK
    BY DEF IInv, BooksKept, CountersKept, TypeOK
<1> QED
    BY <1>1, Inductive, PTL

\* Every hard edge of the input is kept by the batches of schedule, those that
\* _transitive_reduce removed included.
THEOREM OrderKept == Spec => []HardOrderKept
BY OrderFromPaths, Inductive, PTL

\* schedule never meets an empty ready list while actions remain: its error
\* "unresolved hard-edge cycle" inside the batch loop is unreachable.
THEOREM LoopNeverStuck == Spec => []NeverStuck
BY ReadyFromAcyclic, Inductive, PTL

-----------------------------------------------------------------------------
(* Verification after control                                              *)

\* What the phase barrier makes of the batches, and the counters of an empty one.
PhasesKept ==
    /\ \A v \in selected, c \in Action :
         ActionPhase[v] = "verification" /\ ActionPhase[c] = "control" => c \in Done
    /\ VerificationAfterControl

EmptyKept == selected = {} => occupancy = 0 /\ cloudCount = 0

\* Closing a batch: what it verifies comes after control, or the batch is forced.
LEMMA ClosePhases ==
    ASSUME BooksKept, PhasesKept, NEW S \in SUBSET ready, Close(S), stage = "batch",
           forced \subseteq forced',
           \/ batches + 1 \in forced'
           \/ S = selected
    PROVE  PhasesKept'
<1>1. selected' = {} /\ batches \in Nat /\ S \cap Done = {} /\ S \subseteq Action
    BY DEF Close, BooksKept
<1> SUFFICES ASSUME NEW v \in Action, NEW c \in Action,
                    ActionPhase[v] = "verification", ActionPhase[c] = "control",
                    batchOf'[v] # 0, batchOf'[c] = 0 \/ batchOf'[v] <= batchOf'[c]
             PROVE  batchOf'[v] \in forced'
    BY <1>1 DEF PhasesKept, VerificationAfterControl
<1>2. batchOf[v] \in 0 .. batches /\ batchOf[c] \in 0 .. batches
    BY DEF BooksKept
<1>3. batchOf'[v] = (IF v \in S THEN batches + 1 ELSE batchOf[v])
      /\ batchOf'[c] = (IF c \in S THEN batches + 1 ELSE batchOf[c])
    BY DEF Close
<1>4. CASE v \in S
    <2>1. CASE batches + 1 \in forced'
        BY <2>1, <1>3, <1>4
    <2>2. CASE S = selected
        <3>1. c \in Done /\ c \notin S
            BY <2>2, <1>1, <1>4 DEF PhasesKept
        <3> QED
            BY <3>1, <1>1, <1>2, <1>3, <1>4 DEF Done
    <2> QED
        BY <2>1, <2>2
<1>5. CASE v \notin S
    <2>1. batchOf[v] # 0
        BY <1>3, <1>5
    <2>2. batchOf[c] = 0 \/ batchOf[v] <= batchOf[c]
        BY <1>1, <1>2, <1>3, <1>5 DEF Done
    <2>3. batchOf[v] \in forced
        BY <2>1, <2>2 DEF PhasesKept, VerificationAfterControl
    <2> QED
        BY <2>3, <1>3, <1>5
<1> QED
    BY <1>4, <1>5

LEMMA PhasesStep == BooksKept /\ PhasesKept /\ [Next]_vars => PhasesKept'
<1> SUFFICES ASSUME BooksKept, PhasesKept, [Next]_vars PROVE PhasesKept'
    OBVIOUS
<1>1. CASE ProjectHardGraph \/ TransitiveReduce \/ BeginBatches \/ Stopped \/ UNCHANGED vars
    <2>1. selected' = selected /\ batchOf' = batchOf /\ forced' = forced
        BY <1>1 DEF ProjectHardGraph, TransitiveReduce, BeginBatches, Stopped, vars, batch, plan
    <2> QED
        BY <2>1 DEF PhasesKept, VerificationAfterControl, Done
<1>2. ASSUME NEW a \in Action, Pick(a) PROVE PhasesKept'
    <2>1. /\ selected' = selected \cup {a} /\ batchOf' = batchOf /\ forced' = forced
          /\ ~PhaseBarrier(a)
        BY <1>2 DEF Pick, Allowed, plan
    <2>2. ASSUME NEW v \in selected', NEW c \in Action,
                 ActionPhase[v] = "verification", ActionPhase[c] = "control"
          PROVE  c \in Done
        <3>1. CASE v = a
            BY <3>1, <2>1, <2>2 DEF PhaseBarrier
        <3>2. CASE v \in selected
            BY <3>2, <2>2 DEF PhasesKept
        <3> QED
            BY <3>1, <3>2, <2>1, <2>2
    <2> QED
        BY <2>1, <2>2 DEF PhasesKept, VerificationAfterControl, Done
<1>3. ASSUME NEW a \in Action, ForcedPick(a) PROVE PhasesKept'
    <2>1. /\ {a} \in SUBSET ready /\ Close({a}) /\ stage = "batch"
          /\ forced' = forced \cup {batches'} /\ batches' = batches + 1
        BY <1>3 DEF ForcedPick, Close
    <2> QED
        BY <2>1, ClosePhases
<1>4. CASE CloseBatch
    <2>1. selected \in SUBSET ready /\ Close(selected) /\ stage = "batch" /\ forced' = forced
        BY <1>4 DEF CloseBatch, BooksKept
    <2> QED
        BY <2>1, ClosePhases
<1> QED
    BY <1>1, <1>2, <1>3, <1>4 DEF Next, Schedule

LEMMA PhasesInductive == Spec => [](IInv /\ PhasesKept)
<1>1. Init => PhasesKept
    BY DEF Init, PhasesKept, VerificationAfterControl
<1>2. IInv /\ PhasesKept /\ [Next]_vars => PhasesKept'
    BY PhasesStep DEF IInv
<1> QED
    BY <1>1, <1>2, Inductive, PTL DEF Spec

LEMMA EmptyStep == EmptyKept /\ [Next]_vars => EmptyKept'
<1> SUFFICES ASSUME EmptyKept, [Next]_vars PROVE EmptyKept'
    OBVIOUS
<1>1. CASE ProjectHardGraph \/ TransitiveReduce \/ BeginBatches \/ Stopped \/ UNCHANGED vars
    BY <1>1 DEF EmptyKept, ProjectHardGraph, TransitiveReduce, BeginBatches, Stopped, vars, batch
<1>2. CASE CloseBatch \/ \E a \in Action : ForcedPick(a)
    BY <1>2 DEF EmptyKept, CloseBatch, ForcedPick, Close
<1>3. CASE \E a \in Action : Pick(a)
    BY <1>3 DEF EmptyKept, Pick
<1> QED
    BY <1>1, <1>2, <1>3 DEF Next, Schedule

LEMMA EmptyInductive == Spec => [](IInv /\ EmptyKept)
<1>1. Init => EmptyKept
    BY DEF Init, EmptyKept
<1> QED
    BY <1>1, EmptyStep, Inductive, PTL DEF Spec

-----------------------------------------------------------------------------
(* Forced picks                                                            *)

\* An empty batch takes every ready action the phase barrier lets through.
LEMMA EmptyTakesAll ==
    ASSUME EmptyKept, selected = {}, NEW a \in Action, ~PhaseBarrier(a)
    PROVE  Allowed(a)
<1>1. Increment(a) \in {0, 1}
    BY IncrementRange
<1>2. \A r : Cardinality(Of(r)) = 0
    BY FS_EmptySet DEF Of
<1>3. \A scope : selected \cap scope = {} /\ Cardinality(selected \cap scope) = 0
    BY FS_EmptySet
<1>4. {TotalLimit, BleLimit, CloudLimit, LocalLimit, UnknownLimit} \subseteq Nat \ {0}
      /\ \A r \in Budgets : r.limit \in Nat \ {0}
    BY SchedulerAssumption
<1>5. occupancy + Increment(a) <= TotalLimit /\ cloudCount + Increment(a) <= CloudLimit
    BY <1>1, <1>4 DEF EmptyKept
<1>6. Cardinality(Of("BLE")) < BleLimit /\ Cardinality(Of("LOCAL")) < LocalLimit
    BY <1>2, <1>4
<1>7. \A r \in Budgets : Cardinality(selected \cap r.scope) < r.limit
    BY <1>3, <1>4
<1> QED
    BY <1>3, <1>5, <1>6, <1>7 DEF Allowed

\* In a graph without cycles what is not done waits for something ready.
LEMMA WaitsForReady ==
    ASSUME IInv, stage = "batch", NEW c \in Action \ Done, c \notin ready
    PROVE  \E v \in ready : Reaches(out, v, c)
<1> DEFINE Waits == {x \in Action \ Done : x \notin ready /\ \A v \in ready : ~Reaches(out, v, x)}
<1> SUFFICES ASSUME c \in Waits PROVE FALSE
    OBVIOUS
<1>1. ASSUME NEW x \in Waits PROVE Before(out, x) \cap Waits # {}
    <2>1. PICK y \in Before(out, x) : y \notin Done
        BY DEF IInv, BooksKept
    <2>2. << y, x >> \in out /\ y \in Action
        BY DEF Before
    <2>3. y \notin ready
        BY <2>2, EdgeReaches, << y, x >>[1] = y, << y, x >>[2] = x
    <2>4. \A v \in ready : ~Reaches(out, v, y)
        <3> SUFFICES ASSUME NEW v \in ready, Reaches(out, v, y) PROVE FALSE
            OBVIOUS
        <3>1. Reaches(out, v, x)
            BY <2>2, << y, x >>[1] = y, << y, x >>[2] = x DEF Reaches
        <3> QED
            BY <3>1
    <2> QED
        BY <2>1, <2>2, <2>3, <2>4
<1>2. Waits \in (SUBSET Action) \ {{}}
    OBVIOUS
<1>3. Cyclic(out)
    BY <1>1, <1>2 DEF Cyclic
<1> QED
    BY <1>3 DEF IInv, PathsKept

\* A path of the graph that is left is a path of the input.
LEMMA PathsWereGiven ==
    ASSUME BooksKept, NEW a, NEW b, Reaches(out, a, b)
    PROVE  Reaches(given, a, b)
<1>1. out \subseteq given
    BY DEF BooksKept, Proper
<1> QED
    BY <1>1 DEF Reaches

LEMMA ForcedStep ==
    ASSUME IInv, EmptyKept, [Next]_vars, forced' # forced
    PROVE  \E v \in ready, c \in Action \ Done :
             /\ ActionPhase[v] = "verification" /\ ActionPhase[c] = "control"
             /\ Reaches(given, v, c)
<1>1. PICK a \in Action : ForcedPick(a)
    BY DEF Next, Schedule, ProjectHardGraph, TransitiveReduce, BeginBatches, Pick, CloseBatch,
           Stopped, vars, plan
<1>2. stage = "batch" /\ selected = {} /\ a \in ready /\ \A x \in ready : ~Allowed(x)
    BY <1>1 DEF ForcedPick
<1>3. ready \subseteq Action \ Done
    BY <1>2 DEF IInv, BooksKept
<1>4. ASSUME NEW x \in ready
      PROVE  /\ ActionPhase[x] = "verification"
             /\ \E c \in Action \ Done : ActionPhase[c] = "control"
    <2>1. PhaseBarrier(x)
        BY <1>2, <1>3, EmptyTakesAll
    <2> QED
        BY <2>1, <1>2 DEF PhaseBarrier
<1>5. PICK c \in Action \ Done : ActionPhase[c] = "control"
    BY <1>2, <1>4
<1>6. c \notin ready
    BY <1>4, <1>5
<1>7. PICK v \in ready : Reaches(out, v, c)
    BY <1>2, <1>6, WaitsForReady
<1>8. Reaches(given, v, c)
    BY <1>7, PathsWereGiven DEF IInv
<1> QED
    BY <1>4, <1>5, <1>7, <1>8

\* A verification that _phase_barrier_blocks did not hold back until every control
\* action was done is in a batch the plan records as forced.
THEOREM ControlFirst == Spec => []VerificationAfterControl
<1>1. IInv /\ PhasesKept => VerificationAfterControl
    BY DEF PhasesKept
<1> QED
    BY <1>1, PhasesInductive, PTL

\* schedule forces a pick only where hard edges of the input put a control action
\* that is not done after a verification that is ready.
THEOREM ForcedByInput == Spec => ForcedOnlyWhenBlocked
<1>1. IInv /\ EmptyKept /\ [Next]_vars =>
        [forced' # forced =>
            \E v \in ready, c \in Action \ Done :
                /\ ActionPhase[v] = "verification" /\ ActionPhase[c] = "control"
                /\ Reaches(given, v, c)]_vars
    BY ForcedStep
<1> QED
    BY <1>1, EmptyInductive, PTL DEF Spec, ForcedOnlyWhenBlocked

-----------------------------------------------------------------------------
(* From the DAG to the schedule                                            *)

\* Until the graph is handed over, schedule has not begun.
NotBegun == dagStage # "handed" => stage = "project" /\ given = {}

EdgesKept ==
    /\ edges \subseteq Edge /\ demoted \subseteq Edge
    /\ declared \subseteq Dependencies
    /\ dagStage \in {"collect", "actions", "cycles", "handed"}
    /\ dagStage = "collect" => demoted = {}

LEMMA PairsRange == edges \subseteq Edge => ActionPairs(edges) \subseteq Action \X Action
BY DagAssumption DEF ActionPairs, Pairs, Edge

LEMMA EdgesStep == EdgesKept /\ [DagNext]_<< dag, vars >> => EdgesKept'
<1> SUFFICES ASSUME EdgesKept, [DagNext]_<< dag, vars >> PROVE EdgesKept'
    OBVIOUS
<1>1. CASE Collect
    <2>1. PICK found \in SUBSET Rows, deps \in SUBSET Dependencies :
            /\ declared' = deps
            /\ edges' = Injected(deps)
                        \cup {e \in found : \A f \in Injected(deps) : Key(e) # Key(f)}
        BY <1>1 DEF Collect
    <2>2. ASSUME NEW e \in Injected(deps) PROVE e \in Edge
        <3>1. PICK p \in deps \X Mssu \X Mssu :
                e = [src |-> p[2], dst |-> p[3], kind |-> "HARD_CONTROL", why |-> "vdev_dep",
                     semantic |-> FALSE, scoped |-> FALSE]
            BY <2>2 DEF Injected
        <3>2. p[2] \in Mssu /\ p[3] \in Mssu
            OBVIOUS
        <3> QED
            BY <3>1, <3>2 DEF Edge
    <2>3. Rows \subseteq Edge
        BY DagAssumption
    <2>4. dagStage' = "actions" /\ demoted' = demoted
        BY <1>1 DEF Collect
    <2> QED
        BY <2>1, <2>2, <2>3, <2>4 DEF EdgesKept
<1>2. CASE BreakActionCycle \/ BreakCycle
    <2>1. PICK e \in edges : Demote(e)
        BY <1>2 DEF BreakActionCycle, BreakCycle, Cheapest, Removable
    <2>2. dagStage \in {"actions", "cycles"}
        BY <1>2 DEF BreakActionCycle, BreakCycle
    <2> QED
        BY <2>1, <2>2 DEF Demote, EdgesKept
<1>3. CASE ActionCyclesBroken \/ HandOver \/ ScheduleDag \/ (Stopped /\ UNCHANGED dag)
           \/ UNCHANGED << dag, vars >>
    BY <1>3 DEF ActionCyclesBroken, HandOver, ScheduleDag, dag, EdgesKept
<1> QED
    BY <1>1, <1>2, <1>3 DEF DagNext, DagStep

\* Before the hand-over the scheduler's invariants hold of its initial state, and
\* the graph it is handed is one of the graphs they hold for.
LEMMA DagStepKeeps ==
    ASSUME EdgesKept, NotBegun, IInv, PhasesKept, EmptyKept, [DagNext]_<< dag, vars >>
    PROVE  NotBegun' /\ (IInv /\ PhasesKept /\ EmptyKept)'
<1>1. CASE Collect \/ BreakActionCycle \/ BreakCycle \/ ActionCyclesBroken
    <2>1. UNCHANGED vars /\ dagStage # "handed"
        BY <1>1 DEF Collect, BreakActionCycle, BreakCycle, ActionCyclesBroken, Demote
    <2>2. [Next]_vars /\ stage' = stage /\ given' = given
        BY <2>1 DEF vars, graph
    <2> QED
        BY <2>1, <2>2, BooksStep, CountersStep, PathsStep, PhasesStep, EmptyStep DEF IInv, NotBegun
<1>2. CASE HandOver
    <2>1. /\ UNCHANGED << stage, out, todo, indegree, ready, batch, plan >>
          /\ stage = "project" /\ dagStage' = "handed"
        BY <1>2 DEF HandOver, NotBegun
    <2>2. given' \subseteq CandidateEdges
        BY <1>2, PairsRange, DagAssumption DEF HandOver, EdgesKept
    <2>3. BooksKept'
        BY <2>1, <2>2 DEF IInv, BooksKept, batch, plan, Done, Before, Proper
    <2>4. OutKept' /\ PathsKept' /\ CountersKept' /\ EmptyKept' /\ PhasesKept'
        BY <2>1 DEF IInv, OutKept, PathsKept, CountersKept, EmptyKept, PhasesKept,
                    VerificationAfterControl, Done, batch, plan
    <2> QED
        BY <2>1, <2>3, <2>4 DEF IInv, NotBegun
<1>3. CASE ScheduleDag \/ (Stopped /\ UNCHANGED dag) \/ UNCHANGED << dag, vars >>
    <2>1. [Next]_vars /\ dagStage' = dagStage
        BY <1>3 DEF ScheduleDag, Next, dag
    <2>2. dagStage # "handed" => UNCHANGED vars
        BY <1>3 DEF ScheduleDag, Stopped
    <2> QED
        BY <2>1, <2>2, BooksStep, CountersStep, PathsStep, PhasesStep, EmptyStep
        DEF IInv, NotBegun, vars, graph
<1> QED
    BY <1>1, <1>2, <1>3 DEF DagNext, DagStep

LEMMA DagInductive ==
    DagSpec => [](EdgesKept /\ NotBegun /\ IInv /\ PhasesKept /\ EmptyKept)
<1>1. DagInit => EdgesKept /\ NotBegun
    BY DEF DagInit, EdgesKept, NotBegun, Init
<1>2. Init => IInv /\ PhasesKept /\ EmptyKept
    <2> SUFFICES ASSUME Init PROVE IInv /\ PhasesKept /\ EmptyKept
        OBVIOUS
    <2>1. CountersKept
        BY SchedulerAssumption DEF Init, CountersKept
    <2>2. OutKept /\ PathsKept /\ PhasesKept /\ EmptyKept
        BY DEF Init, OutKept, PathsKept, PhasesKept, VerificationAfterControl, EmptyKept
    <2> QED
        BY <2>1, <2>2, InitBooks DEF IInv
<1>3. DagInit => Init
    BY DEF DagInit
<1> QED
    BY <1>1, <1>2, <1>3, EdgesStep, DagStepKeeps, PTL DEF DagSpec

\* Whatever edges build collects and demotes, schedule keeps every hard edge it is
\* handed and every order of the target, and puts verification after control
\* unless it says so.
THEOREM DagScheduled == DagSpec => [](HardOrderKept /\ NeverStuck /\ VerificationAfterControl)
<1>1. IInv /\ PhasesKept => HardOrderKept /\ NeverStuck /\ VerificationAfterControl
    BY OrderFromPaths, ReadyFromAcyclic DEF PhasesKept
<1> QED
    BY <1>1, DagInductive, PTL

-----------------------------------------------------------------------------
(* What cycles cost                                                        *)

\* An edge of data is cheapest only among edges of data.
LEMMA DataIsDear ==
    ASSUME edges \subseteq Edge, NEW e \in Cheapest(edges), e.kind = "HARD_DATA", NEW f \in edges
    PROVE  f.kind = "HARD_DATA"
<1> SUFFICES ASSUME f.kind # "HARD_DATA" PROVE Lower(Rank(f), Rank(e))
    BY DEF Cheapest
<1>1. f.kind \in {"HARD_CONTROL", "HARD_LIFECYCLE"}
    BY DEF Edge
<1>2. Rank(e)[1] = 1 /\ Rank(e)[2] = 2
    BY DEF Rank, Protected
<1>3. Rank(f)[1] \in {0, 1} /\ Rank(f)[2] \in {0, 1}
    BY <1>1 DEF Rank
<1>4. CASE Rank(f)[1] = 0
    <2>1. 1 \in 1 .. 3 /\ \A j \in 1 .. 1 - 1 : Rank(f)[j] = Rank(e)[j]
        OBVIOUS
    <2> QED
        BY <2>1, <1>4, <1>2 DEF Lower
<1>5. CASE Rank(f)[1] = 1
    <2>1. 2 \in 1 .. 3 /\ \A j \in 1 .. 2 - 1 : j = 1
        OBVIOUS
    <2>2. Rank(f)[2] < Rank(e)[2] /\ \A j \in 1 .. 2 - 1 : Rank(f)[j] = Rank(e)[j]
        BY <2>1, <1>2, <1>3, <1>5
    <2> QED
        BY <2>1, <2>2 DEF Lower
<1> QED
    BY <1>3, <1>4, <1>5

LEMMA DearStep == EdgesKept /\ DataDemotedLast /\ [DagNext]_<< dag, vars >> => DataDemotedLast'
<1> SUFFICES ASSUME EdgesKept, DataDemotedLast, [DagNext]_<< dag, vars >>
             PROVE  DataDemotedLast'
    OBVIOUS
<1>1. CASE BreakActionCycle
    <2>1. PICK e \in edges : Demote(e) /\ e.kind # "HARD_DATA"
        BY <1>1 DEF BreakActionCycle, Cheapest, Removable, Movable
    <2>2. edges' \cup demoted' = edges \cup demoted /\ DataEdges(demoted') = DataEdges(demoted)
        BY <2>1 DEF Demote, DataEdges
    <2> QED
        BY <2>2 DEF DataDemotedLast, DataEdges, Cycle
<1>2. CASE BreakCycle
    <2>1. PICK e \in Cheapest(edges) : Demote(e)
        BY <1>2 DEF BreakCycle
    <2>2. e \in edges /\ edges' \cup demoted' = edges \cup demoted
          /\ demoted' = demoted \cup {e} /\ Cycle(edges)
        BY <1>2, <2>1 DEF Demote, Cheapest, BreakCycle
    <2>3. CASE e.kind = "HARD_DATA"
        <3>1. edges \subseteq DataEdges(edges' \cup demoted')
            BY <2>1, <2>2, <2>3, DataIsDear DEF DataEdges, EdgesKept
        <3>2. Cycle(DataEdges(edges' \cup demoted'))
            BY <2>2, <3>1 DEF Cycle
        <3> QED
            BY <3>2 DEF DataDemotedLast, DataEdges, Cycle
    <2>4. CASE e.kind # "HARD_DATA"
        <3>1. DataEdges(demoted') = DataEdges(demoted)
            BY <2>2, <2>4 DEF DataEdges
        <3> QED
            BY <2>2, <3>1 DEF DataDemotedLast, DataEdges, Cycle
    <2> QED
        BY <2>3, <2>4
<1>3. CASE Collect \/ ActionCyclesBroken \/ HandOver \/ ScheduleDag
           \/ (Stopped /\ UNCHANGED dag) \/ UNCHANGED << dag, vars >>
    <2>1. demoted' = {} \/ (demoted' = demoted /\ edges' = edges)
        BY <1>3 DEF Collect, ActionCyclesBroken, HandOver, ScheduleDag, dag, EdgesKept
    <2>2. CASE demoted' = {}
        BY <2>2 DEF DataDemotedLast, DataEdges
    <2>3. CASE demoted' = demoted /\ edges' = edges
        BY <2>3 DEF DataDemotedLast, DataEdges, Cycle
    <2> QED
        BY <2>1, <2>2, <2>3
<1> QED
    BY <1>1, <1>2, <1>3 DEF DagNext, DagStep

\* _break_cycles demotes an edge that data needs only if such edges form a cycle by
\* themselves, whatever other edges there are.
THEOREM DataGivesWayLast == DagSpec => []DataDemotedLast
<1>1. DagInit => DataDemotedLast
    BY DEF DagInit, DataDemotedLast, DataEdges
<1> QED
    BY <1>1, DearStep, DagInductive, PTL DEF DagSpec

-----------------------------------------------------------------------------
(* Why a schedule is refused                                               *)

\* A set of actions each of which has a predecessor in it, and a least one of them.
Circle(pairs, S) == S \in SUBSET Action /\ S # {} /\ \A a \in S : Before(pairs, a) \cap S # {}
LeastCircle(pairs, S) == Circle(pairs, S) /\ \A T \in SUBSET S : Circle(pairs, T) => T = S

LEMMA LeastCircleExists ==
    ASSUME NEW pairs, Cyclic(pairs)
    PROVE  \E S : LeastCircle(pairs, S)
<1> DEFINE F == {S \in SUBSET Action : Circle(pairs, S)}
<1>1. F \subseteq FiniteSubsetsOf(Action) /\ F # {}
    BY SchedulerAssumption, FS_Subset DEF FiniteSubsetsOf, Cyclic, Circle
<1>2. PICK S \in F : \A T \in F : << T, S >> \notin StrictSubsetOrdering(Action)
    <2> HIDE DEF F
    <2> QED
        BY <1>1, FS_StrictSubsetOrderingWellFounded, WFMin, Zenon
<1>3. \A T \in F : T \subseteq S => T = S
    BY <1>2 DEF StrictSubsetOrdering
<1> QED
    BY <1>3 DEF LeastCircle, Circle

LEMMA ReachesMore ==
    ASSUME NEW pairs, NEW more, pairs \subseteq more, NEW a, NEW b, Reaches(pairs, a, b)
    PROVE  Reaches(more, a, b)
BY DEF Reaches

LEMMA EdgeFirst ==
    ASSUME NEW pairs, NEW a, NEW b, NEW c, << a, b >> \in pairs, Reaches(pairs, b, c)
    PROVE  Reaches(pairs, a, c)
BY DEF Reaches

\* The pairs that lie within S.
Inside(pairs, S) == {p \in pairs : p[1] \in S /\ p[2] \in S}

\* In a least circle every action is reached from every action, without leaving it:
\* those that reach an action are a circle by themselves.
LEMMA LeastIsConnected ==
    ASSUME NEW pairs, NEW S, LeastCircle(pairs, S), NEW a \in S, NEW b \in S
    PROVE  Reaches(Inside(pairs, S), b, a)
<1> DEFINE T == {y \in S : Reaches(Inside(pairs, S), y, a)}
<1>1. \A y \in S : \E z \in S : << z, y >> \in Inside(pairs, S)
    BY DEF LeastCircle, Circle, Before, Inside
<1>2. T # {}
    <2>1. PICK z \in S : << z, a >> \in Inside(pairs, S)
        BY <1>1
    <2>2. Reaches(Inside(pairs, S), z, a)
        BY <2>1, EdgeReaches
    <2> QED
        BY <2>2
<1>3. \A y \in T : Before(pairs, y) \cap T # {}
    <2> SUFFICES ASSUME NEW y \in T PROVE Before(pairs, y) \cap T # {}
        OBVIOUS
    <2>1. PICK z \in S : << z, y >> \in Inside(pairs, S)
        BY <1>1
    <2>2. Reaches(Inside(pairs, S), z, a)
        BY <2>1, EdgeFirst
    <2>3. z \in Before(pairs, y)
        BY <2>1 DEF Before, Inside, LeastCircle, Circle
    <2> QED
        BY <2>2, <2>3
<1>4. Circle(pairs, T) /\ T \in SUBSET S
    BY <1>2, <1>3 DEF LeastCircle, Circle
<1>5. T = S
    BY <1>4 DEF LeastCircle
<1> QED
    BY <1>5

\* After the first stage no edge that may move lies between actions of cycles.
NoneRemovable == dagStage \in {"cycles", "handed"} => Removable(edges) = {}

LEMMA RemovableStep == NoneRemovable /\ [DagNext]_<< dag, vars >> => NoneRemovable'
<1> SUFFICES ASSUME NoneRemovable, [DagNext]_<< dag, vars >> PROVE NoneRemovable'
    OBVIOUS
<1>1. CASE Collect \/ BreakActionCycle
    BY <1>1 DEF Collect, BreakActionCycle, Demote, NoneRemovable
<1>2. CASE ActionCyclesBroken
    BY <1>2 DEF ActionCyclesBroken, NoneRemovable
<1>3. CASE BreakCycle
    <2>1. edges' \subseteq edges /\ Removable(edges) = {} /\ dagStage = "cycles"
        BY <1>3 DEF BreakCycle, Demote, NoneRemovable
    <2>2. ActionPairs(edges') \subseteq ActionPairs(edges)
        BY <2>1 DEF ActionPairs
    <2>3. OnActionCycle(edges') \subseteq OnActionCycle(edges)
        BY <2>2, ReachesMore DEF OnActionCycle
    <2>4. Removable(edges') \subseteq Removable(edges)
        BY <2>1, <2>3 DEF Removable
    <2> QED
        BY <2>1, <2>4 DEF NoneRemovable
<1>4. CASE HandOver \/ (Stopped /\ UNCHANGED dag) \/ UNCHANGED << dag, vars >>
    BY <1>4 DEF HandOver, dag, NoneRemovable
<1>5. CASE ScheduleDag
    <2>1. dagStage' = dagStage /\ (edges' = edges \/ edges' = {})
        BY <1>5 DEF ScheduleDag
    <2>2. Removable({}) = {}
        BY DEF Removable
    <2> QED
        BY <2>1, <2>2 DEF NoneRemovable
<1> QED
    BY <1>1, <1>2, <1>3, <1>4, <1>5 DEF DagNext, DagStep

\* The cycle schedule finds is one of edges that may not move, or has an edge that
\* build did not keep.
LEMMA CycleHasReason ==
    ASSUME Removable(edges) = {}, Cyclic(Proper(given))
    PROVE  \/ Cyclic(ActionPairs({e \in edges : ~Movable(e)}))
           \/ \E d \in Proper(given) \ ActionPairs(edges) : Reaches(Proper(given), d[2], d[1])
<1>1. PICK S : LeastCircle(Proper(given), S)
    BY LeastCircleExists
<1> DEFINE inner == Inside(Proper(given), S)
<1>2. inner \subseteq Proper(given)
    BY DEF Inside
<1>3. CASE inner \subseteq ActionPairs(edges)
    <2>1. ASSUME NEW a \in S
          PROVE  a \in OnActionCycle(edges)
        <3>1. Reaches(inner, a, a)
            BY <1>1, LeastIsConnected
        <3>2. Reaches(ActionPairs(edges), a, a)
            BY <1>3, <3>1, ReachesMore
        <3> QED
            BY <1>1, <3>2 DEF OnActionCycle, LeastCircle, Circle
    <2>2. ASSUME NEW a \in S
          PROVE  Before(ActionPairs({e \in edges : ~Movable(e)}), a) \cap S # {}
        <3>1. PICK z \in S : << z, a >> \in Proper(given)
            BY <1>1 DEF LeastCircle, Circle, Before
        <3>2. << z, a >> \in ActionPairs(edges)
            BY <1>3, <3>1 DEF Inside
        <3>3. PICK e \in edges : << z, a >> \in Pairs(e)
            BY <3>2 DEF ActionPairs
        <3>4. z \in ActionsOf[e.src] /\ a \in ActionsOf[e.dst]
            BY <3>3 DEF Pairs
        <3>5. ~Movable(e)
            BY <2>1, <3>4 DEF Removable
        <3>6. << z, a >> \in ActionPairs({f \in edges : ~Movable(f)})
            BY <3>3, <3>5 DEF ActionPairs
        <3> QED
            BY <1>1, <3>6 DEF Before, LeastCircle, Circle
    <2> QED
        BY <1>1, <2>2 DEF Cyclic, LeastCircle, Circle
<1>4. CASE ~(inner \subseteq ActionPairs(edges))
    <2>1. PICK d \in inner : d \notin ActionPairs(edges)
        BY <1>4
    <2>2. d[1] \in S /\ d[2] \in S
        BY DEF Inside
    <2>3. Reaches(inner, d[2], d[1])
        BY <1>1, <2>2, LeastIsConnected
    <2>4. Reaches(Proper(given), d[2], d[1])
        BY <1>2, <2>3, ReachesMore
    <2> QED
        BY <1>2, <2>1, <2>4
<1> QED
    BY <1>3, <1>4

LEMMA RefusedStep ==
    NoneRemovable /\ NotBegun /\ RefusedForAReason /\ [DagNext]_<< dag, vars >> => RefusedForAReason'
<1> SUFFICES ASSUME NoneRemovable, NotBegun, RefusedForAReason, [DagNext]_<< dag, vars >>
             PROVE  RefusedForAReason'
    OBVIOUS
<1>1. CASE ScheduleDag /\ ProjectHardGraph
    <2>1. /\ dagStage = "handed" /\ given' = given
          /\ stage' = "rejected" => Cyclic(Proper(given)) /\ edges' = edges
        BY <1>1 DEF ScheduleDag, ProjectHardGraph
    <2>2. Removable(edges) = {}
        BY <2>1 DEF NoneRemovable
    <2> QED
        BY <2>1, <2>2, CycleHasReason DEF RefusedForAReason
<1>2. CASE ScheduleDag /\ ~ProjectHardGraph
    <2>1. stage' # "rejected"
        BY <1>2 DEF ScheduleDag, Schedule, TransitiveReduce, BeginBatches, Pick, ForcedPick,
                    CloseBatch, Close
    <2> QED
        BY <2>1 DEF RefusedForAReason
<1>3. CASE Collect \/ BreakActionCycle \/ ActionCyclesBroken \/ BreakCycle \/ HandOver
    <2>1. stage' = stage /\ dagStage # "handed"
        BY <1>3 DEF Collect, BreakActionCycle, ActionCyclesBroken, BreakCycle, HandOver, Demote, vars
    <2> QED
        BY <2>1 DEF NotBegun, RefusedForAReason
<1>4. CASE (Stopped /\ UNCHANGED dag) \/ UNCHANGED << dag, vars >>
    BY <1>4 DEF Stopped, dag, vars, graph, RefusedForAReason
<1> QED
    BY <1>1, <1>2, <1>3, <1>4 DEF DagNext, DagStep

\* For every set of MSSUs, edges and orders: schedule refuses a DAG only for a cycle of
\* edges that build may not demote, or for an order build did not keep hard.
THEOREM RefusalsHaveReasons == DagSpec => []RefusedForAReason
<1>1. DagInit => NoneRemovable /\ RefusedForAReason
    BY DEF DagInit, Init, NoneRemovable, RefusedForAReason
<1> QED
    BY <1>1, RemovableStep, RefusedStep, DagInductive, PTL DEF DagSpec

-----------------------------------------------------------------------------
(* The limits of a batch                                                   *)

\* Dividing with a rest.
LEMMA DivUnique ==
    ASSUME NEW n \in Nat, NEW s \in Nat \ {0}, NEW d \in Int, NEW r \in 0 .. s - 1, n = s * d + r
    PROVE  n \div s = d /\ n % s = r
<1> DEFINE d2 == n \div s
           r2 == n % s
<1>1. d2 \in Int /\ r2 \in 0 .. s - 1 /\ n = s * d2 + r2
    OBVIOUS
<1> HIDE DEF d2, r2
<1>2. ASSUME d2 <= d - 1 PROVE FALSE
    <2>1. s * d2 <= s * (d - 1) /\ s * (d - 1) = s * d - s
        BY <1>1, <1>2
    <2> QED
        BY <1>1, <2>1
<1>3. ASSUME d2 >= d + 1 PROVE FALSE
    <2>1. s * d2 >= s * (d + 1) /\ s * (d + 1) = s * d + s
        BY <1>1, <1>3
    <2> QED
        BY <1>1, <2>1
<1>4. d2 = d
    BY <1>1, <1>2, <1>3
<1> QED
    BY <1>1, <1>4 DEF d2, r2

\* One more in a bucket of n opens a request only if n fill their requests.
LEMMA OneMore ==
    ASSUME NEW n \in Nat \ {0}, NEW s \in Nat \ {0}
    PROVE  /\ n % s = 0 => n \div s = (n - 1) \div s + 1
           /\ n % s # 0 => n \div s = (n - 1) \div s
<1> DEFINE d == n \div s
           r == n % s
<1>1. d \in Int /\ r \in 0 .. s - 1 /\ n = s * d + r /\ n - 1 \in Nat
    OBVIOUS
<1> HIDE DEF d, r
<1>2. CASE r = 0
    <2>1. d - 1 \in Int /\ s - 1 \in 0 .. s - 1 /\ n - 1 = s * (d - 1) + (s - 1)
        BY <1>1, <1>2
    <2>2. (n - 1) \div s = d - 1
        BY <1>1, <2>1, DivUnique
    <2> QED
        BY <1>1, <1>2, <2>2 DEF d, r
<1>3. CASE r # 0
    <2>1. r - 1 \in 0 .. s - 1 /\ n - 1 = s * d + (r - 1)
        BY <1>1, <1>3
    <2>2. (n - 1) \div s = d
        BY <1>1, <2>1, DivUnique
    <2> QED
        BY <1>3, <2>2 DEF d, r
<1> QED
    BY <1>2, <1>3

LEMMA MaxOfOne == \A x \in Int : Max({x}) = x
BY DEF Max

\* The size of a bucket that holds an action is the size of its slot.
LEMMA BucketSize ==
    ASSUME SlotsAgree, NEW S \in SUBSET Action, NEW a \in Action, Resource[a] = "CLOUD",
           Members(S, Slot[a].bucket) # {}
    PROVE  SizeOf(S, Slot[a].bucket) = Slot[a].size /\ Slot[a].size \in Nat \ {0}
<1>1. Slot[a].size \in Nat \ {0}
    BY SchedulerAssumption
<1>2. {Slot[x].size : x \in Members(S, Slot[a].bucket)} = {Slot[a].size}
    BY DEF SlotsAgree, Members
<1> QED
    BY <1>1, <1>2, MaxOfOne DEF SizeOf

\* Membership in RequestsOf, without the union.
IsRequest(S, b, q) ==
    /\ \E a \in S : Resource[a] = "CLOUD" /\ Slot[a].bucket = b
    /\ q \in 0 .. (Cardinality(Members(S, b)) - 1) \div SizeOf(S, b)

LEMMA RequestFacts ==
    ASSUME NEW S
    PROVE  \A p : p \in RequestsOf(S) <=> \E b, q : IsRequest(S, b, q) /\ p = << b, q >>
<1> SUFFICES ASSUME NEW p
             PROVE  p \in RequestsOf(S) <=> \E b, q : IsRequest(S, b, q) /\ p = << b, q >>
    OBVIOUS
<1> DEFINE buckets == {Slot[a].bucket : a \in {x \in S : Resource[x] = "CLOUD"}}
           last(b) == 0 .. (Cardinality(Members(S, b)) - 1) \div SizeOf(S, b)
<1>1. \A b : b \in buckets <=> \E a \in S : Resource[a] = "CLOUD" /\ Slot[a].bucket = b
    OBVIOUS
<1>2. p \in RequestsOf(S) <=> \E b \in buckets : p \in {b} \X last(b)
    BY DEF RequestsOf
<1> HIDE DEF buckets, last
<1>3. (\E b \in buckets : p \in {b} \X last(b)) <=> \E b, q : b \in buckets /\ q \in last(b) /\ p = << b, q >>
    OBVIOUS
<1> QED
    BY <1>1, <1>2, <1>3 DEF IsRequest, last

LEMMA MembersFinite ==
    ASSUME NEW S \in SUBSET Action, NEW b
    PROVE  IsFiniteSet(Members(S, b)) /\ Cardinality(Members(S, b)) \in Nat
<1>1. Members(S, b) \in SUBSET Action
    BY DEF Members
<1> QED
    BY <1>1, SchedulerAssumption, FS_Subset, FS_CardinalityType

\* An action more in a bucket opens the request CloudIncrement counts, or none.
LEMMA RequestsGrow ==
    ASSUME SlotsAgree, NEW S \in SUBSET Action, NEW a \in Action \ S, Resource[a] = "CLOUD",
           NEW n, n = Cardinality(Members(S, Slot[a].bucket))
    PROVE  RequestsOf(S \cup {a}) \subseteq
               RequestsOf(S) \cup (IF n % Slot[a].size = 0
                                   THEN {<< Slot[a].bucket, n \div Slot[a].size >>} ELSE {})
<1> DEFINE T == S \cup {a}
           B == Slot[a].bucket
           s == Slot[a].size
<1>1. T \in SUBSET Action /\ s \in Nat \ {0} /\ n \in Nat
    BY SchedulerAssumption, MembersFinite
<1>2. ASSUME NEW b, b # B
      PROVE  Members(T, b) = Members(S, b)
    BY <1>2 DEF Members
<1>3. Cardinality(Members(T, B)) = n + 1
    <2>1. Members(T, B) = Members(S, B) \cup {a} /\ a \notin Members(S, B)
        BY DEF Members
    <2> QED
        BY <2>1, MembersFinite, FS_AddElement
<1>4. SizeOf(T, B) = s
    <2>1. a \in Members(T, B)
        BY DEF Members
    <2> QED
        BY <1>1, <2>1, BucketSize
<1>5. ASSUME NEW b, NEW q, IsRequest(T, b, q)
      PROVE  << b, q >> \in RequestsOf(S) \/ (n % s = 0 /\ b = B /\ q = n \div s)
    <2>1. CASE b # B
        <3>1. IsRequest(S, b, q)
            BY <1>2, <1>5, <2>1 DEF IsRequest, SizeOf
        <3> QED
            BY <3>1, RequestFacts
    <2>2. CASE b = B
        <3>1. q \in 0 .. n \div s
            <4>1. IsRequest(T, B, q)
                BY <1>5, <2>2
            <4>2. q \in 0 .. (Cardinality(Members(T, B)) - 1) \div SizeOf(T, B)
                BY <4>1 DEF IsRequest
            <4>3. Cardinality(Members(T, B)) - 1 = n
                BY <1>1, <1>3
            <4> HIDE DEF T, B, s
            <4> QED
                BY <1>4, <4>2, <4>3
        <3>2. CASE n = 0
            <4>1. n \div s = 0 /\ n % s = 0
                <5>1. n = s * 0 + 0 /\ 0 \in 0 .. s - 1
                    BY <1>1, <3>2
                <5> QED
                    BY <1>1, <5>1, DivUnique
            <4> QED
                BY <2>2, <3>1, <4>1
        <3>3. CASE n # 0
            <4>1. Members(S, B) # {} /\ SizeOf(S, B) = s
                BY <3>3, BucketSize, FS_EmptySet
            <4>2. \E x \in S : Resource[x] = "CLOUD" /\ Slot[x].bucket = b
                BY <2>2, <4>1 DEF Members
            <4>3. CASE q \in 0 .. (n - 1) \div s
                <5>1. IsRequest(S, b, q)
                    BY <2>2, <4>1, <4>2, <4>3 DEF IsRequest
                <5> QED
                    BY <5>1, RequestFacts
            <4>4. CASE q \notin 0 .. (n - 1) \div s
                <5>1. (n - 1) \div s \in Int /\ n \div s \in Int
                    BY <1>1
                <5>2. /\ n % s = 0 => n \div s = (n - 1) \div s + 1
                      /\ n % s # 0 => n \div s = (n - 1) \div s
                    BY <1>1, <3>3, OneMore
                <5> QED
                    BY <2>2, <3>1, <4>4, <5>1, <5>2
            <4> QED
                BY <4>3, <4>4
        <3> QED
            BY <3>2, <3>3
    <2> QED
        BY <2>1, <2>2
<1> HIDE DEF T, B, s
<1>6. \A p \in RequestsOf(T) : p \in RequestsOf(S) \/ (n % s = 0 /\ p = << B, n \div s >>)
    <2> SUFFICES ASSUME NEW p \in RequestsOf(T)
                 PROVE  p \in RequestsOf(S) \/ (n % s = 0 /\ p = << B, n \div s >>)
        OBVIOUS
    <2>1. PICK b, q : IsRequest(T, b, q) /\ p = << b, q >>
        BY RequestFacts
    <2>2. << b, q >> \in RequestsOf(S) \/ (n % s = 0 /\ b = B /\ q = n \div s)
        BY <1>5, <2>1
    <2> QED
        BY <2>1, <2>2
<1> QED
    BY <1>6 DEF T, B, s

\* The counters of the loop never fall behind what is measured on the whole batch.
LimitsInv ==
    /\ selected \subseteq Action /\ IsFiniteSet(RequestsOf(selected))
    /\ Requests(selected) <= cloudCount
    /\ Units(selected) <= occupancy

LEMMA PickCloud ==
    ASSUME SlotsAgree, LimitsInv, NEW a \in Action \ selected, Resource[a] = "CLOUD"
    PROVE  /\ IsFiniteSet(RequestsOf(selected \cup {a}))
           /\ Requests(selected) \in Nat /\ Requests(selected \cup {a}) \in Nat
           /\ Requests(selected \cup {a}) <= Requests(selected) + Increment(a)
<1> DEFINE n == Cardinality(Members(selected, Slot[a].bucket))
           new == IF n % Slot[a].size = 0 THEN {<< Slot[a].bucket, n \div Slot[a].size >>} ELSE {}
           old == RequestsOf(selected)
           now == RequestsOf(selected \cup {a})
<1>1. now \subseteq old \cup new
    BY RequestsGrow DEF LimitsInv
<1>2. Increment(a) = IF n % Slot[a].size = 0 THEN 1 ELSE 0
    <2>1. {x \in Of("CLOUD") : Slot[x].bucket = Slot[a].bucket} = Members(selected, Slot[a].bucket)
        BY DEF Of, Members
    <2> QED
        BY <2>1 DEF Increment, CloudIncrement
<1>3. IsFiniteSet(old) /\ Cardinality(old) \in Nat /\ Requests(selected) = Cardinality(old)
    BY FS_CardinalityType DEF LimitsInv, Requests
<1>4. IsFiniteSet(old \cup new) /\ Cardinality(old \cup new) <= Cardinality(old) + Increment(a)
      /\ Cardinality(old \cup new) \in Nat
    <2> HIDE DEF n, old
    <2>1. CASE n % Slot[a].size = 0
        <3>1. PICK x : new = {x}
            BY <2>1
        <3> HIDE DEF new
        <3>2. /\ IsFiniteSet(old \cup new)
              /\ Cardinality(old \cup new) \in {Cardinality(old), Cardinality(old) + 1}
            BY <1>3, <3>1, FS_AddElement
        <3>3. Increment(a) = 1
            BY <1>2, <2>1
        <3> QED
            BY <1>3, <3>2, <3>3
    <2>2. CASE n % Slot[a].size # 0
        <3>1. new = {} /\ Increment(a) = 0
            BY <1>2, <2>2
        <3>2. old \cup new = old
            BY <3>1
        <3> HIDE DEF new
        <3> QED
            BY <1>3, <3>1, <3>2
    <2> QED
        BY <2>1, <2>2
<1>5. Requests(selected \cup {a}) = Cardinality(now)
    BY DEF Requests
<1> HIDE DEF old, now, new, n
<1>6. IsFiniteSet(now) /\ Cardinality(now) <= Cardinality(old \cup new) /\ Cardinality(now) \in Nat
    BY <1>1, <1>4, FS_Subset, FS_CardinalityType
<1>7. Increment(a) \in {0, 1}
    BY IncrementRange
<1>8. Cardinality(now) <= Cardinality(old) + Increment(a)
    BY <1>3, <1>4, <1>6, <1>7
<1> QED
    BY <1>3, <1>5, <1>6, <1>8 DEF now

LEMMA OneMoreOrLess ==
    ASSUME NEW X \in SUBSET Action, NEW x
    PROVE  /\ IsFiniteSet(X) /\ Cardinality(X) \in Nat
           /\ IsFiniteSet(X \cup {x}) /\ Cardinality(X \cup {x}) \in Nat
           /\ Cardinality(X \cup {x}) <= Cardinality(X) + 1
<1>1. IsFiniteSet(X)
    BY SchedulerAssumption, FS_Subset
<1>2. Cardinality(X) \in Nat
    BY <1>1, FS_CardinalityType
<1>3. IsFiniteSet(X \cup {x}) /\ Cardinality(X \cup {x}) \in {Cardinality(X), Cardinality(X) + 1}
    BY <1>1, FS_AddElement
<1> QED
    BY <1>1, <1>2, <1>3

\* What is measured grows by no more than the counter does.
LEMMA PickUnits ==
    ASSUME SlotsAgree, LimitsInv, NEW a \in Action \ selected, Resource[a] \in {"CLOUD", "LOCAL", "BLE", "HA", "UNKNOWN"}
    PROVE  /\ IsFiniteSet(RequestsOf(selected \cup {a}))
           /\ Requests(selected) \in Nat /\ Requests(selected \cup {a}) \in Nat
           /\ Units(selected) \in Nat /\ Units(selected \cup {a}) \in Nat
           /\ Resource[a] # "CLOUD" => Requests(selected \cup {a}) = Requests(selected)
           /\ Units(selected \cup {a}) <= Units(selected) + Increment(a)
<1> DEFINE T == selected \cup {a}
           others(S) == {x \in S : Resource[x] \notin {"CLOUD", "LOCAL"}}
           local(S) == IF \E x \in S : Resource[x] = "LOCAL" THEN 1 ELSE 0
<1>0. Requests(selected) \in Nat /\ others(selected) \in SUBSET Action
    BY FS_CardinalityType DEF LimitsInv, Requests
<1>1. /\ Cardinality(others(selected)) \in Nat /\ local(selected) \in {0, 1} /\ local(T) \in {0, 1}
      /\ Increment(a) \in {0, 1}
    BY <1>0, OneMoreOrLess, IncrementRange
<1>2. /\ Units(selected) = Requests(selected) + Cardinality(others(selected)) + local(selected)
      /\ Units(T) = Requests(T) + Cardinality(others(T)) + local(T)
    BY DEF Units
<1>3. CASE Resource[a] = "CLOUD"
    <2>1. others(T) = others(selected) /\ local(T) = local(selected)
        BY <1>3
    <2>2. /\ IsFiniteSet(RequestsOf(T)) /\ Requests(T) \in Nat
          /\ Requests(T) <= Requests(selected) + Increment(a)
        BY <1>3, PickCloud
    <2> HIDE DEF T, others, local
    <2>3. /\ Units(selected) \in Nat /\ Units(T) \in Nat
          /\ Units(T) <= Units(selected) + Increment(a)
        BY <1>0, <1>1, <1>2, <2>1, <2>2
    <2> QED
        BY <1>0, <1>3, <2>2, <2>3 DEF T
<1>4. CASE Resource[a] # "CLOUD"
    <2>1. RequestsOf(T) = RequestsOf(selected)
        <3>1. \A b : Members(T, b) = Members(selected, b)
            BY <1>4 DEF Members
        <3>2. \A b, q : IsRequest(T, b, q) <=> IsRequest(selected, b, q)
            BY <1>4, <3>1 DEF IsRequest, SizeOf
        <3> HIDE DEF T
        <3>3. \A p : p \in RequestsOf(T) <=> p \in RequestsOf(selected)
            BY <3>2, RequestFacts
        <3>4. RequestsOf(T) \subseteq RequestsOf(selected) /\ RequestsOf(selected) \subseteq RequestsOf(T)
            BY <3>3
        <3> QED
            BY <3>4
    <2>2. Requests(T) = Requests(selected) /\ IsFiniteSet(RequestsOf(T))
        BY <2>1 DEF Requests, LimitsInv
    <2>3. /\ Cardinality(others(T)) + local(T)
                 <= Cardinality(others(selected)) + local(selected) + Increment(a)
          /\ Cardinality(others(T)) \in Nat
        <3>1. CASE Resource[a] = "LOCAL"
            <4>1. others(T) = others(selected) /\ local(T) = 1
                BY <3>1
            <4>2. local(selected) = 0 => Increment(a) = 1
                BY <3>1 DEF Increment, LocalIncrement, Of
            <4> HIDE DEF T, others, local
            <4> QED
                BY <1>1, <4>1, <4>2
        <3>2. CASE Resource[a] # "LOCAL"
            <4>1. others(T) = others(selected) \cup {a} /\ local(T) = local(selected) /\ Increment(a) = 1
                BY <1>4, <3>2 DEF Increment
            <4>2. /\ Cardinality(others(T)) <= Cardinality(others(selected)) + 1
                  /\ Cardinality(others(T)) \in Nat
                <5> HIDE DEF T, others, local
                <5> QED
                    BY <1>0, <4>1, OneMoreOrLess
            <4> HIDE DEF T, others, local
            <4> QED
                BY <1>1, <4>1, <4>2
        <3> QED
            BY <3>1, <3>2
    <2> HIDE DEF T, others, local
    <2>4. /\ Units(selected) \in Nat /\ Units(T) \in Nat
          /\ Units(T) <= Units(selected) + Increment(a)
        BY <1>0, <1>1, <1>2, <2>2, <2>3
    <2> QED
        BY <1>0, <2>2, <2>4 DEF T
<1> QED
    BY <1>3, <1>4

LEMMA EmptyMeasures ==
    Requests({}) = 0 /\ Units({}) = 0 /\ IsFiniteSet(RequestsOf({}))
<1>1. RequestsOf({}) = {}
    BY DEF RequestsOf
<1>2. {x \in {} : Resource[x] \notin {"CLOUD", "LOCAL"}} = {}
    OBVIOUS
<1> QED
    BY <1>1, <1>2, FS_EmptySet DEF Requests, Units

LEMMA LimitsStep ==
    SlotsAgree => (BooksKept /\ CountersKept /\ LimitsInv /\ [Next]_vars => LimitsInv')
<1> SUFFICES ASSUME SlotsAgree, BooksKept, CountersKept, LimitsInv, [Next]_vars PROVE LimitsInv'
    OBVIOUS
<1> occupancy \in Nat /\ cloudCount \in Nat
    BY SchedulerAssumption DEF CountersKept
<1>1. CASE \E a \in Action : Pick(a)
    <2>1. PICK a \in Action \ selected :
            /\ selected' = selected \cup {a}
            /\ occupancy' = occupancy + Increment(a)
            /\ cloudCount' = IF Resource[a] = "CLOUD" THEN cloudCount + Increment(a) ELSE cloudCount
        BY <1>1 DEF Pick
    <2>2. Increment(a) \in {0, 1}
        BY IncrementRange
    <2>3. Resource[a] \in {"CLOUD", "LOCAL", "BLE", "HA", "UNKNOWN"}
        BY SchedulerAssumption
    <2>4. /\ IsFiniteSet(RequestsOf(selected')) /\ selected' \subseteq Action
          /\ Requests(selected) \in Nat /\ Requests(selected') \in Nat
          /\ Units(selected) \in Nat /\ Units(selected') \in Nat
          /\ Resource[a] # "CLOUD" => Requests(selected') = Requests(selected)
          /\ Resource[a] = "CLOUD" => Requests(selected') <= Requests(selected) + Increment(a)
          /\ Units(selected') <= Units(selected) + Increment(a)
        BY <2>1, <2>3, PickCloud, PickUnits DEF LimitsInv
    <2>5. Requests(selected) <= cloudCount /\ Units(selected) <= occupancy
        BY DEF LimitsInv
    <2>6. Requests(selected') <= cloudCount' /\ Units(selected') <= occupancy'
        BY <2>1, <2>2, <2>4, <2>5
    <2> QED
        BY <2>4, <2>6 DEF LimitsInv, Requests, RequestsOf, Units, Members, SizeOf
<1>2. CASE CloseBatch \/ \E a \in Action : ForcedPick(a)
    <2>1. selected' = {} /\ occupancy' = 0 /\ cloudCount' = 0
        BY <1>2 DEF CloseBatch, ForcedPick, Close
    <2>2. Requests(selected') = 0 /\ Units(selected') = 0 /\ IsFiniteSet(RequestsOf(selected'))
        BY <2>1, EmptyMeasures
    <2> QED
        BY <2>1, <2>2 DEF LimitsInv, Requests, RequestsOf, Units, Members, SizeOf
<1>3. CASE ProjectHardGraph \/ TransitiveReduce \/ BeginBatches \/ Stopped \/ UNCHANGED vars
    <2>1. UNCHANGED batch
        BY <1>3 DEF ProjectHardGraph, TransitiveReduce, BeginBatches, Stopped, vars
    <2> QED
        BY <2>1 DEF batch, LimitsInv, Requests, RequestsOf, Units, Members, SizeOf
<1> QED
    BY <1>1, <1>2, <1>3 DEF Next, Schedule

LEMMA LimitsFollow == CountersKept /\ LimitsInv => LimitsKept
<1> SUFFICES ASSUME CountersKept, LimitsInv PROVE LimitsKept
    OBVIOUS
<1>1. cloudCount <= CloudLimit /\ occupancy <= TotalLimit /\ {cloudCount, occupancy, CloudLimit, TotalLimit} \subseteq Nat
    BY SchedulerAssumption DEF CountersKept
<1>2. Requests(selected) <= cloudCount /\ Units(selected) <= occupancy
    BY DEF LimitsInv
<1>3. Requests(selected) \in Nat
    BY FS_CardinalityType DEF LimitsInv, Requests
<1>4. Units(selected) \in Nat
    <2>1. {x \in selected : Resource[x] \notin {"CLOUD", "LOCAL"}} \in SUBSET Action
        BY DEF LimitsInv
    <2>2. Cardinality({x \in selected : Resource[x] \notin {"CLOUD", "LOCAL"}}) \in Nat
        BY <2>1, OneMoreOrLess
    <2> QED
        BY <1>3, <2>2 DEF Units
<1> QED
    BY <1>1, <1>2, <1>3, <1>4 DEF LimitsKept

\* For every input: as long as the actions of a bucket agree on its size, no batch sends
\* more cloud requests than cloud_limit or holds more units than total_limit, measured
\* on the whole batch.
THEOREM BatchesKeepLimits == SlotsAgree => (DagSpec => []LimitsKept)
<1> SUFFICES ASSUME SlotsAgree PROVE DagSpec => []LimitsKept
    OBVIOUS
<1>1. DagInit => LimitsInv
    BY EmptyMeasures DEF DagInit, Init, LimitsInv
<1>2. BooksKept /\ CountersKept /\ LimitsInv /\ [DagNext]_<< dag, vars >> => LimitsInv'
    <2> SUFFICES ASSUME BooksKept, CountersKept, LimitsInv, [DagNext]_<< dag, vars >> PROVE LimitsInv'
        OBVIOUS
    <2>1. [Next]_vars \/ UNCHANGED batch
        BY DEF DagNext, DagStep, Collect, BreakActionCycle, BreakCycle, ActionCyclesBroken, Demote, HandOver,
               ScheduleDag, Next, vars
    <2>2. CASE UNCHANGED batch
        BY <2>2 DEF batch, LimitsInv, Requests, RequestsOf, Units, Members, SizeOf
    <2> QED
        BY <2>1, <2>2, LimitsStep
<1>3. IInv => BooksKept /\ CountersKept
    BY DEF IInv
<1> QED
    BY <1>1, <1>2, <1>3, LimitsFollow, DagInductive, PTL DEF DagSpec
=============================================================================
