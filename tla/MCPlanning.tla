----------------------------- MODULE MCPlanning -----------------------------
(* Planning and adoption: two revisions of every Artifact, three commits in *)
(* the Workspace, three adoptions and two commands that die.                *)
EXTENDS Adoption

=============================================================================
