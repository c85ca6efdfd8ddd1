--------------------------- MODULE ExecutionGraph ---------------------------
(***************************************************************************)
(* The approved execution graph of one Workflow: what the Compiler's       *)
(* skeleton (internal/compile/skeleton.go) and the dispatch plan           *)
(* (internal/app/dispatch.go, executionPlan) fix before the first dispatch *)
(* pass.  Every Spec contributes an agent-task, a verify and a merge Node; *)
(* one final-verify Node depends on every merge.  The user's patch may add *)
(* checkpoints, each behind a Node and before that Node's successors.      *)
(***************************************************************************)
EXTENDS Naturals, FiniteSets

CONSTANTS
    Nodes,        \* the Node identities of the graph
    Kind,         \* [Nodes -> Kinds]
    Deps,         \* the dependency edges, [Nodes -> SUBSET Nodes]
    TaskOf,       \* the agent-task Node a verify or merge Node serves
    RetryBudget,  \* the approved budget of automatic retries per Node
    Rank,         \* the canonical (sorted) order of the Node identities
    Conflicts     \* pairs of Nodes sharing a resource lock or a write scope

Kinds == {"AGENT_TASK", "VERIFY", "MERGE", "FINAL_VERIFY", "CHECKPOINT"}

(* "none", "workflow" and "session" are the markers of no head and of a   *)
(* finding that is not about a Node, so no Node carries these names.       *)
ASSUME GraphAssumption ==
    /\ IsFiniteSet(Nodes)
    /\ Nodes \cap {"none", "workflow", "session"} = {}
    /\ Kind \in [Nodes -> Kinds]
    /\ Deps \in [Nodes -> SUBSET Nodes]
    /\ TaskOf \in [Nodes -> Nodes]
    /\ RetryBudget \in [Nodes -> Nat]
    /\ Rank \in [Nodes -> Nat]
    /\ \A m, n \in Nodes : Rank[m] = Rank[n] => m = n
    /\ Conflicts \subseteq Nodes \X Nodes

Tasks  == {n \in Nodes : Kind[n] = "AGENT_TASK"}
Merges == {n \in Nodes : Kind[n] = "MERGE"}
Checkpoints == {n \in Nodes : Kind[n] = "CHECKPOINT"}

(* runBudget: one Attempt per Node plus the budgeted retries of the tasks *)
(* (a verify, merge or final-verify Node has no retry budget, and a        *)
(* checkpoint has no Attempt).                                             *)
RunBudget ==
    Cardinality(UNION {{n} \X (0 .. IF n \in Tasks THEN RetryBudget[n] ELSE 0) :
                           n \in Nodes \ Checkpoints})

=============================================================================
