----------------------------- MODULE ActionLists -----------------------------
(***************************************************************************)
(* Sequences of actions, as the scheduler lays them out in groups and the  *)
(* runner cuts the groups again.                                           *)
(***************************************************************************)
EXTENDS Integers, Sequences, FiniteSets, SequencesExt

CONSTANT Action   \* action ids

\* The members of s that are in T, in their order: SelectSeq as a fold, whose
\* definition a proof can expand.
Only(s, T) == FoldLeft(LAMBDA acc, a : IF a \in T THEN Append(acc, a) ELSE acc, << >>, s)

\* Sequences of actions that list every action of S exactly once, none of them empty.
Lists(ss, S) ==
    /\ ss \in Seq(Seq(Action) \ {<< >>})
    /\ \A i \in DOMAIN ss : IsInjective(ss[i])
    /\ \A i, j \in DOMAIN ss : i # j => ToSet(ss[i]) \intersect ToSet(ss[j]) = {}
    /\ S = UNION {ToSet(ss[i]) : i \in DOMAIN ss}
\* The members of a finite S in a strict total order, given as a set of pairs.
Ranked(S, before) ==
    [n \in 1 .. Cardinality(S) |->
        CHOOSE x \in S : Cardinality({y \in S : << y, x >> \in before}) = n - 1]
=============================================================================
