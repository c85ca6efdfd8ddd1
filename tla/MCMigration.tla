---------------------------- MODULE MCMigration ----------------------------
(* A Workflow with a planning snapshot, its integration worktree, one       *)
(* artifact directory and one task worktree.                                *)
EXTENDS Migration

MCKind == <<"planning", "integration", "artifact", "task">>
=============================================================================
