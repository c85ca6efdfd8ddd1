------------------------------ MODULE Scheduler ------------------------------
(***************************************************************************)
(* What one dispatch pass allocates: the pure Scheduler (internal/schedule/*)
(* scheduler.go, Next) followed by the Application's static batch judgment *)
(* (internal/app/dispatch.go, selectBatch).  Both are loops over the Nodes *)
(* in canonical order; here they are given by the sets they compute.  The  *)
(* module SchedulerLoop runs the loops themselves against these sets.      *)
(***************************************************************************)
EXTENDS ExecutionGraph

CONSTANT MaxConcurrency   \* DispatchPolicy.MaxConcurrency; 0 is no limit

ASSUME ConcurrencyAssumption == MaxConcurrency \in Nat

NodeTerminal == {"SUCCEEDED", "FAILED", "CANCELLED"}
NodeStatuses == NodeTerminal \cup {"PENDING", "READY", "RUNNING"}

RunningNodes(node) == {n \in Nodes : node[n] = "RUNNING"}

(* Mutant: a dependency that was started counts as satisfied.              *)
SchedulableOnStarted(node, gate) ==
    {n \in Nodes : /\ gate
                   /\ node[n] \in {"PENDING", "READY"}
                   /\ \A d \in Deps[n] : node[d] \notin {"PENDING", "READY"}}

(* schedulable: the gate is open, the Node waits, its dependencies are    *)
(* SUCCEEDED.                                                              *)
Schedulable(node, gate) ==
    {n \in Nodes : /\ gate
                   /\ node[n] \in {"PENDING", "READY"}
                   /\ \A d \in Deps[n] : node[d] = "SUCCEEDED"}

(* Next: the schedulable Nodes in canonical order while the RUNNING Nodes *)
(* and the Nodes already allocated stay below the concurrency cap.         *)
Eligible(node, gate) ==
    {n \in Schedulable(node, gate) :
        \/ MaxConcurrency = 0
        \/ Cardinality(RunningNodes(node))
             + Cardinality({m \in Schedulable(node, gate) : Rank[m] < Rank[n]})
               < MaxConcurrency}

(* Mutant: only the merges of this pass are serialised.                    *)
MergeAdmittedBesideRunning(n, node, eligible) ==
    \A m \in eligible \cap Merges : Rank[n] <= Rank[m]

(* A merge is admitted only when no merge runs and it is the first        *)
(* eligible merge of the pass.                                             *)
MergeAdmitted(n, node, eligible) ==
    /\ RunningNodes(node) \cap Merges = {}
    /\ \A m \in eligible \cap Merges : Rank[n] <= Rank[m]

(* selectBatch, as the fixed point its loop computes: `batch` is the      *)
(* batch exactly when every member, and no other eligible Node, passes the *)
(* judgment against the members before it.  `deferred` are the Nodes       *)
(* covered by an open blocking Finding, `exhausted` the total-run budget.  *)
SelectedFrom(batch, node, eligible, deferred, exhausted) ==
    {n \in eligible :
        /\ n \in Merges => MergeAdmitted(n, node, eligible)
        /\ n \notin deferred
        /\ ~exhausted
        /\ n \in Tasks =>
              /\ \A m \in batch : Rank[m] < Rank[n] => <<m, n>> \notin Conflicts
              /\ \A m \in RunningNodes(node) \cap Tasks : <<m, n>> \notin Conflicts}

IsBatch(batch, node, gate, deferred, exhausted) ==
    batch = SelectedFrom(batch, node, Eligible(node, gate), deferred, exhausted)

=============================================================================
