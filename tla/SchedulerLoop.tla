---------------------------- MODULE SchedulerLoop ----------------------------
(***************************************************************************)
(* The two allocation loops of a dispatch pass as they run: Scheduler.Next *)
(* walks the Nodes in canonical order and counts allocations against the   *)
(* concurrency cap; selectBatch then walks the eligible Nodes and admits   *)
(* each against the batch so far.  The module Scheduler states the sets    *)
(* these loops compute; this machine checks that they do, on every graph   *)
(* state a pass can start from.                                            *)
(***************************************************************************)
EXTENDS Scheduler, Sequences

VARIABLES
    node,       \* the persisted Node statuses of the snapshot
    gate,       \* the Dispatch Gate of the snapshot
    deferred,   \* Nodes covered by an open blocking Finding
    exhausted,  \* the total-run budget is spent
    todo,       \* the Nodes the current loop has not visited yet
    eligible,   \* DispatchDecision.Eligible so far
    merging,    \* mergeSelected
    selected,   \* the batch so far
    loop        \* "next", "select" or "done"

loopVars == <<node, gate, deferred, exhausted, todo, eligible, merging, selected, loop>>

(* A snapshot the protocols can leave: only a Node whose dependencies      *)
(* SUCCEEDED has started, and a Node scoped Finding sits on a FAILED Node. *)
Consistent(st) ==
    \A n \in Nodes : st[n] # "PENDING" => \A d \in Deps[n] : st[d] = "SUCCEEDED"

LoopInit ==
    /\ node \in {st \in [Nodes -> NodeStatuses \ {"CANCELLED"}] : Consistent(st)}
    /\ gate \in BOOLEAN
    /\ deferred \in {Nodes, {n \in Nodes : node[n] = "FAILED"}}
    /\ exhausted \in BOOLEAN
    /\ todo = Nodes
    /\ eligible = {}
    /\ merging = FALSE
    /\ selected = {}
    /\ loop = "next"

(* The Node the sorted iteration visits next.                              *)
Visited == CHOOSE n \in todo : \A m \in todo : Rank[n] <= Rank[m]

DepsSucceeded(n) == \A d \in Deps[n] : node[d] = "SUCCEEDED"

(* Mutant: the Node under judgment is counted as well, one Node too few.   *)
CapReachedEarly ==
    MaxConcurrency > 0 /\ Cardinality(RunningNodes(node)) + Cardinality(eligible) + 1 >= MaxConcurrency

CapReached ==
    MaxConcurrency > 0 /\ Cardinality(RunningNodes(node)) + Cardinality(eligible) >= MaxConcurrency

(* One iteration of the loop of Scheduler.Next.                            *)
NextIteration ==
    /\ loop = "next"
    /\ IF todo = {}
       THEN /\ loop' = "select"
            /\ todo' = eligible
            /\ UNCHANGED eligible
       ELSE /\ todo' = todo \ {Visited}
            /\ eligible' = IF /\ gate
                              /\ node[Visited] \in {"PENDING", "READY"}
                              /\ DepsSucceeded(Visited)
                              /\ ~CapReached
                           THEN eligible \cup {Visited} ELSE eligible
            /\ UNCHANGED loop
    /\ UNCHANGED <<node, gate, deferred, exhausted, merging, selected>>

(* tasksConflict against the batch so far and the RUNNING tasks.           *)
ConflictFree(n) ==
    /\ \A m \in selected : <<m, n>> \notin Conflicts
    /\ \A m \in RunningNodes(node) \cap Tasks : <<m, n>> \notin Conflicts

(* One iteration of the loop of selectBatch.                               *)
SelectIteration ==
    /\ loop = "select"
    /\ IF todo = {}
       THEN /\ loop' = "done"
            /\ UNCHANGED <<todo, merging, selected>>
       ELSE LET n == Visited
                refused == n \in Merges /\ (merging \/ RunningNodes(node) \cap Merges # {})
            IN  /\ todo' = todo \ {n}
                /\ merging' = (merging \/ (n \in Merges /\ ~refused))
                /\ selected' = IF /\ ~refused
                                  /\ n \notin deferred
                                  /\ ~exhausted
                                  /\ n \in Tasks => ConflictFree(n)
                               THEN selected \cup {n} ELSE selected
                /\ UNCHANGED loop
    /\ UNCHANGED <<node, gate, deferred, exhausted, eligible>>

LoopSpec == LoopInit /\ [][NextIteration \/ SelectIteration]_loopVars

(* When the loops end they have computed the eligible set and the batch    *)
(* that the module Scheduler defines (internal/schedule/scheduler.go, Next;*)
(* internal/app/dispatch.go, selectBatch).                                 *)
LoopsComputeBatch ==
    loop = "done" =>
        /\ eligible = Eligible(node, gate)
        /\ IsBatch(selected, node, gate, deferred, exhausted)

=============================================================================
