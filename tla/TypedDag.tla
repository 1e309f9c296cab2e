------------------------------- MODULE TypedDag -------------------------------
(***************************************************************************)
(* TypedDAGBuilder.build (src/optimizer/m4_typed_dag.py), and the schedule  *)
(* made from its graph.  The hard edges between MSSUs, the pieces of code   *)
(* that actions are made of, come from candidates, rule templates, data     *)
(* flow and the orders of the target.  Cycles are then broken, first those  *)
(* between actions, then those between MSSUs, by demoting one edge after    *)
(* the other to a soft order.  The scheduler projects what is left on the   *)
(* actions and adds the orders of the target by itself.                     *)
(*                                                                          *)
(* The edges that candidates, templates and data flow give are any subset   *)
(* of Rows.  Names decide between edges of one rank; here either may go.    *)
(***************************************************************************)
EXTENDS BatchScheduler

CONSTANTS
    Mssu,
    ActionsOf,      \* Mssu -> the actions it is part of
    Rows,           \* the edges other than those of the target, one per Key
    Dependencies,   \* the pairs (before, after) that may be hard_dependencies
    MustHappen,     \* the other orders of the target: must_happen_before, writebacks
    Representative, \* Action -> the sets of at most one MSSU that stands for it
    Writeback,      \* actions that write back
    Sink,           \* actions and MSSUs that aggregate
    Update          \* MSSUs of type UPDATE

Edge == [src : Mssu, dst : Mssu,
         kind : {"HARD_CONTROL", "HARD_LIFECYCLE", "HARD_DATA"},
         why : {"candidate", "rule_template", "io", "vdev_dep"},
         semantic : BOOLEAN,  \* a lifecycle edge that frees what was taken
         scoped : BOOLEAN]    \* its pair_key matches some of its actions

Key(e) == << e.src, e.dst, e.kind >>

ASSUME DagAssumption ==
    /\ IsFiniteSet(Mssu) /\ ActionsOf \in [Mssu -> SUBSET Action]
    /\ Rows \subseteq {e \in Edge : e.src # e.dst /\ e.why # "vdev_dep"}
    /\ \A e, f \in Rows : Key(e) = Key(f) => e = f
    /\ Dependencies \cup MustHappen \subseteq CandidateEdges
    /\ CandidateEdges = Action \X Action
    /\ \A a \in Action : \A m \in Representative[a] : Representative[a] = {m} /\ a \in ActionsOf[m]

VARIABLES
    dagStage,  \* "collect", "actions", "cycles" or "handed"
    declared,  \* the hard_dependencies of the target
    edges,     \* hard_edges
    demoted    \* the edges removed_hard_edges names, now soft orders

dag == << dagStage, declared, edges, demoted >>

-----------------------------------------------------------------------------
(* The hard edges                                                          *)

\* A dependency between writebacks is hard only if the later one aggregates.
StaysSoft(d) == {d[1], d[2]} \subseteq Writeback /\ d[2] \notin Sink

\* _skip_cross_action_update_hard_edge
SkippedUpdate(m, n) ==
    /\ {m, n} \subseteq Update /\ n \notin Sink
    /\ {} \notin {ActionsOf[m], ActionsOf[n]} /\ ActionsOf[m] \cap ActionsOf[n] = {}

\* _inject_vdev_dependencies, between the representatives of two actions.
Injected(deps) ==
    {[src |-> p[2], dst |-> p[3], kind |-> "HARD_CONTROL", why |-> "vdev_dep",
      semantic |-> FALSE, scoped |-> FALSE] :
        p \in {x \in deps \X Mssu \X Mssu :
                  /\ ~StaysSoft(x[1]) /\ x[2] # x[3] /\ ~SkippedUpdate(x[2], x[3])
                  /\ x[2] \in Representative[x[1][1]] /\ x[3] \in Representative[x[1][2]]}}

\* Of edges with one key the last stays, and those of the target come last.
Collect ==
    /\ dagStage = "collect"
    /\ \E found \in SUBSET Rows, deps \in SUBSET Dependencies :
        /\ declared' = deps
        /\ edges' = Injected(deps)
                    \cup {e \in found : \A f \in Injected(deps) : Key(e) # Key(f)}
    /\ dagStage' = "actions"
    /\ UNCHANGED << demoted, vars >>

-----------------------------------------------------------------------------
(* Breaking cycles                                                         *)

\* The pairs of actions an edge orders.
Pairs(e) == {p \in ActionsOf[e.src] \X ActionsOf[e.dst] : p[1] # p[2]}

ActionPairs(hard) == UNION {Pairs(e) : e \in hard}

\* The actions of the strongly connected components of _action_graph_sccs.
OnActionCycle(hard) == {a \in Action : Reaches(ActionPairs(hard), a, a)}

Cycle(hard) ==
    \E S \in (SUBSET Mssu) \ {{}} : \A m \in S : \E e \in hard : e.dst = m /\ e.src \in S

\* Templates and orders of the target may go, unless they say what data needs.
Movable(e) == e.why \in {"vdev_dep", "rule_template"} /\ e.kind # "HARD_DATA"

\* Mutant of Removable: only what starts at an action of a cycle and is a template.
RemovableTemplates(hard) ==
    {e \in hard : /\ e.why = "rule_template" /\ e.kind # "HARD_DATA"
                  /\ ActionsOf[e.src] \cap OnActionCycle(hard) # {}
                  /\ ActionsOf[e.dst] \cap OnActionCycle(hard) # {}}

Removable(hard) ==
    {e \in hard : /\ Movable(e)
                  /\ ActionsOf[e.src] \cap OnActionCycle(hard) # {}
                  /\ ActionsOf[e.dst] \cap OnActionCycle(hard) # {}}

Protected(e) == e.why \in {"io", "vdev_dep"} \/ e.semantic \/ e.kind = "HARD_DATA"

\* Mutant of Rank: the kind of the edge does not count.
RankByReason(e) ==
    << IF Protected(e) THEN 1 ELSE 0, 0,
       IF e.why = "candidate" THEN 0 ELSE IF e.why = "rule_template" THEN 1 ELSE 2 >>

\* _edge_removal_rank, up to the names of the MSSUs.
Rank(e) ==
    << IF Protected(e) THEN 1 ELSE 0,
       IF e.kind = "HARD_CONTROL" THEN 0 ELSE IF e.kind = "HARD_LIFECYCLE" THEN 1 ELSE 2,
       IF e.why = "candidate" THEN 0 ELSE IF e.why = "rule_template" THEN 1 ELSE 2 >>

Lower(r, s) ==
    \E i \in 1 .. 3 : r[i] < s[i] /\ \A j \in 1 .. i - 1 : r[j] = s[j]

Cheapest(hard) == {e \in hard : \A f \in hard : ~Lower(Rank(f), Rank(e))}

Demote(e) ==
    /\ edges' = edges \ {e} /\ demoted' = demoted \cup {e}
    /\ UNCHANGED << dagStage, declared, vars >>

\* One turn of _break_action_level_cycles.
BreakActionCycle == dagStage = "actions" /\ \E e \in Cheapest(Removable(edges)) : Demote(e)

\* No component is left, or none that an edge may leave.
ActionCyclesBroken ==
    /\ dagStage = "actions" /\ Removable(edges) = {}
    /\ dagStage' = "cycles"
    /\ UNCHANGED << declared, edges, demoted, vars >>

\* One turn of _break_cycles, which ranks all the edges there are.
BreakCycle == dagStage = "cycles" /\ Cycle(edges) /\ \E e \in Cheapest(edges) : Demote(e)

-----------------------------------------------------------------------------
(* The schedule                                                            *)

\* A graph of actions for the hard edges: all the pairs of an edge, or those of
\* them that its pair_key matches, if any do.
Projects(pairs) ==
    \A e \in edges : IF e.scoped THEN Pairs(e) # {} => Pairs(e) \cap pairs # {}
                                 ELSE Pairs(e) \subseteq pairs

\* The graph is built; schedule projects it and adds the orders of the target.
HandOver ==
    /\ dagStage = "cycles" /\ ~Cycle(edges)
    /\ \E pairs \in SUBSET ActionPairs(edges) :
        /\ Projects(pairs)
        /\ given' = pairs \cup declared \cup MustHappen
    /\ dagStage' = "handed"
    /\ UNCHANGED << declared, edges, demoted >>
    /\ UNCHANGED << stage, out, todo, indegree, ready, batch, plan >>

\* Once batches are filled no one reads the hard edges of the DAG.
ScheduleDag ==
    /\ dagStage = "handed" /\ Schedule
    /\ IF stage' \in {"batch", "done"}
       THEN declared' = {} /\ edges' = {} /\ demoted' = {}
       ELSE UNCHANGED << declared, edges, demoted >>
    /\ UNCHANGED dagStage

DagInit ==
    /\ given = {} /\ Init
    /\ dagStage = "collect" /\ declared = {} /\ edges = {} /\ demoted = {}

DagStep == Collect \/ BreakActionCycle \/ ActionCyclesBroken \/ BreakCycle \/ HandOver
           \/ ScheduleDag

DagNext == DagStep \/ (Stopped /\ UNCHANGED dag)

\* The two stages are one sequence of synchronous calls.
DagSpec == DagInit /\ [][DagNext]_<< dag, vars >> /\ WF_<< dag, vars >>(DagStep)

-----------------------------------------------------------------------------
(* Properties                                                              *)

DataEdges(hard) == {e \in hard : e.kind = "HARD_DATA"}

\* What data needs is demoted only when it contradicts itself: no template, candidate
\* or order of the target, however the cycles mix them, costs a data edge.
DataDemotedLast ==
    DataEdges(demoted) # {} => Cycle(DataEdges(edges \cup demoted))

\* schedule refuses what build made only because edges that build may not demote
\* contradict each other, or because of an order of the target that build did not
\* keep hard and that schedule adds again.
RefusedForAReason ==
    stage = "rejected" =>
        \/ Cyclic(ActionPairs({e \in edges : ~Movable(e)}))
        \/ \E d \in Proper(given) \ ActionPairs(edges) : Reaches(Proper(given), d[2], d[1])

\* "Hard cycle detected; demoted edge": what _break_cycles demotes lies on a cycle.
DemotedWasOnCycle ==
    [][dagStage = "cycles" => \A e \in edges \ edges' :
           \E S \in SUBSET edges : e \in S /\ Cycle(S) /\ ~Cycle(S \ {e})]_<< dag, vars >>
=============================================================================
