---------------------------- MODULE MCScheduler ----------------------------
(***************************************************************************)
(* Three Specs, "c" waiting for "a"; tasks "a" and "b" share a write       *)
(* scope.  Verify Nodes are left out: they take no part in the batch       *)
(* judgment.                                                               *)
(***************************************************************************)
EXTENDS SchedulerLoop

GraphNodes == {"final", "merge-a", "merge-b", "task-a", "task-b", "task-c", "task-d"}

MCKind == [n \in Nodes |->
    CASE n \in {"task-a", "task-b", "task-c", "task-d"} -> "AGENT_TASK"
      [] n \in {"merge-a", "merge-b"} -> "MERGE"
      [] n = "final" -> "FINAL_VERIFY"]

MCDeps == [n \in Nodes |->
    CASE n = "merge-a" -> {"task-a"}
      [] n = "merge-b" -> {"task-b"}
      [] n = "task-c"  -> {"merge-a"}
      [] n = "final"   -> {"merge-a", "merge-b"}
      [] OTHER -> {}]

MCTaskOf == [n \in Nodes |->
    CASE n = "merge-a" -> "task-a" [] n = "merge-b" -> "task-b" [] OTHER -> n]

MCRank == [n \in Nodes |->
    CASE n = "final" -> 1 [] n = "merge-a" -> 2 [] n = "merge-b" -> 3 [] n = "task-a" -> 4
      [] n = "task-b" -> 5 [] n = "task-c" -> 6 [] n = "task-d" -> 7]

MCRetry == [n \in Nodes |-> 0]

Symmetric(pairs) == pairs \cup {<<p[2], p[1]>> : p \in pairs}
MCConflicts == Symmetric({<<"task-a", "task-b">>, <<"task-c", "task-d">>, <<"task-b", "task-d">>})

=============================================================================
