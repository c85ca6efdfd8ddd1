---------------------------- MODULE MCExecution ----------------------------
(***************************************************************************)
(* Small graphs for Execution: one Spec (four Nodes) and two independent   *)
(* Specs (seven Nodes), with the identities the Compiler gives the Nodes   *)
(* and their canonical order.  A patch may add "checkpoint-1" behind the   *)
(* merge of the first Spec and "checkpoint-2" behind the final-verify Node.*)
(***************************************************************************)
EXTENDS Execution

OneNodes == {"final", "merge-a", "task-a", "verify-a"}
TwoNodes == OneNodes \cup {"merge-b", "task-b", "verify-b"}
OneObserved == OneNodes \cup {"checkpoint-2"}
TwoObserved == TwoNodes \cup {"checkpoint-1"}
TwoObservedLast == TwoNodes \cup {"checkpoint-2"}

NodeKind(n) ==
    CASE n \in {"task-a", "task-b"}     -> "AGENT_TASK"
      [] n \in {"verify-a", "verify-b"} -> "VERIFY"
      [] n \in {"merge-a", "merge-b"}   -> "MERGE"
      [] n = "final"                    -> "FINAL_VERIFY"
      [] n \in {"checkpoint-1", "checkpoint-2"} -> "CHECKPOINT"

NodeTask(n) ==
    CASE n \in {"task-a", "verify-a", "merge-a"} -> "task-a"
      [] n \in {"task-b", "verify-b", "merge-b"} -> "task-b"
      [] OTHER -> n

NodeDeps(n) ==
    CASE n = "verify-a" -> {"task-a"}
      [] n = "verify-b" -> {"task-b"}
      [] n = "merge-a"  -> {"verify-a"}
      [] n = "merge-b"  -> {"verify-b"}
      [] n = "final"    -> Nodes \cap {"merge-a", "merge-b", "checkpoint-1"}
      [] n = "checkpoint-1" -> {"merge-a"}
      [] n = "checkpoint-2" -> {"final"}
      [] OTHER -> {}

NodeRank(n) ==
    CASE n = "checkpoint-1" -> 1
      [] n = "checkpoint-2" -> 2
      [] n = "final"    -> 3
      [] n = "merge-a"  -> 4
      [] n = "merge-b"  -> 5
      [] n = "task-a"   -> 6
      [] n = "task-b"   -> 7
      [] n = "verify-a" -> 8
      [] n = "verify-b" -> 9

MCKind == [n \in Nodes |-> NodeKind(n)]
MCTaskOf == [n \in Nodes |-> NodeTask(n)]
MCDeps == [n \in Nodes |-> NodeDeps(n)]
MCRank == [n \in Nodes |-> NodeRank(n)]

NoRetry  == [n \in Nodes |-> 0]
OneRetry == [n \in Nodes |-> IF NodeKind(n) = "AGENT_TASK" THEN 1 ELSE 0]
RetryA   == [n \in Nodes |-> IF n = "task-a" THEN 1 ELSE 0]
TwoRetries == [n \in Nodes |-> IF NodeKind(n) = "AGENT_TASK" THEN 2 ELSE 0]

NoConflicts == {}

=============================================================================
