----------------------------- MODULE PlanContract -----------------------------
(***************************************************************************)
(* What running an execution plan promises, whatever the runner does       *)
(* inside: an action begins at most once, and only when every action the   *)
(* plan puts before it has succeeded; the call ends "ok" only when every   *)
(* action succeeded, and, unless the call itself was cancelled, nothing it *)
(* started is still running when it ends.  A call whose own trace cannot   *)
(* be exported ends "unreported": by an exception that says nothing of the *)
(* actions, which may all have succeeded.                                  *)
(*                                                                         *)
(* This is the interface the generated service (PlanRunner.run in          *)
(* src/optimizer/m7_component_assembler.py) offers to Home Assistant and   *)
(* the one the trust layer's comparison of orders takes for granted.       *)
(***************************************************************************)
EXTENDS Integers

CONSTANT Action

VARIABLES
    before,     \* the plan's order: <<a, b>> when a must have succeeded before b begins
    started,    \* actions that began
    done,       \* actions that succeeded
    failed,     \* actions that raised
    dropped,    \* actions that were cancelled after they began
    verdict     \* how the call ended, or "running"; "cancelled" is a call that was
                \* cancelled, whichever exception it ended with

vars == << before, started, done, failed, dropped, verdict >>

Running == started \ (done \union failed \union dropped)

Init ==
    /\ before \in SUBSET (Action \X Action)
    /\ started = {} /\ done = {} /\ failed = {} /\ dropped = {}
    /\ verdict = "running"

\* Only a cancelled call may leave actions behind that go on after its end.
Open == {"running", "cancelled"}

Start(a) ==
    /\ verdict \in Open
    /\ a \notin started
    /\ \A b \in Action : << b, a >> \in before => b \in done
    /\ started' = started \union {a}
    /\ UNCHANGED << before, done, failed, dropped, verdict >>

Succeed(a) ==
    /\ verdict \in Open
    /\ a \in Running
    /\ done' = done \union {a}
    /\ UNCHANGED << before, started, failed, dropped, verdict >>

Fail(a) ==
    /\ verdict \in Open
    /\ a \in Running
    /\ failed' = failed \union {a}
    /\ UNCHANGED << before, started, done, dropped, verdict >>

Drop(a) ==
    /\ verdict \in Open
    /\ a \in Running
    /\ dropped' = dropped \union {a}
    /\ UNCHANGED << before, started, done, failed, verdict >>

End ==
    /\ verdict = "running"
    /\ \/ verdict' = "ok"         /\ done = Action
       \/ verdict' = "error"      /\ Running = {} /\ done # Action
       \/ verdict' = "unreported" /\ Running = {}
       \/ verdict' = "cancelled"
    /\ UNCHANGED << before, started, done, failed, dropped >>

Next == (\E a \in Action : Start(a) \/ Succeed(a) \/ Fail(a) \/ Drop(a)) \/ End

Spec == Init /\ [][Next]_vars

-----------------------------------------------------------------------------
(* Properties                                                              *)

TypeOK ==
    /\ before \subseteq Action \X Action
    /\ started \subseteq Action /\ done \subseteq started
    /\ failed \subseteq started /\ dropped \subseteq started
    /\ verdict \in {"running", "ok", "error", "unreported", "cancelled"}

\* An action has one outcome.
OneOutcome ==
    /\ done \intersect failed = {}
    /\ done \intersect dropped = {}
    /\ failed \intersect dropped = {}

\* What began had all its predecessors succeed, however the rest of the plan went.
PredecessorsDone ==
    \A a \in started : \A b \in Action : << b, a >> \in before => b \in done

\* Home Assistant is told "ok" only of a plan that succeeded as a whole, and an
\* ended call has left nothing running unless it was cancelled.
EndsClean ==
    /\ verdict = "ok" => done = Action
    /\ verdict \in {"ok", "error", "unreported"} => Running = {}
=============================================================================
