---------------------------- MODULE SerialStore ----------------------------
(***************************************************************************)
(* What the command pipeline promises of one Project's aggregate: mutations *)
(* happen one command at a time.  A command owns the aggregate from before  *)
(* its first commit to after its last, every commit bumps the version the   *)
(* owner last saw by one, and nobody else commits meanwhile.  An owner that *)
(* dies simply stops being one.                                             *)
(***************************************************************************)
EXTENDS Naturals

CONSTANTS
  Owners,  \* who may execute a command
  Nobody   \* no command is being executed

VARIABLES
  owner,   \* the command that may commit
  seen,    \* the version it last read or wrote
  version  \* the aggregate version

Begin ==
  /\ owner = Nobody /\ owner' \in Owners
  /\ seen' = version
  /\ UNCHANGED version

(* The owner's compare-and-swap succeeds: nobody committed behind its back. *)
Commit ==
  /\ owner \in Owners /\ seen = version
  /\ version' = version + 1 /\ seen' = version'
  /\ UNCHANGED owner

End ==
  /\ owner \in Owners /\ owner' = Nobody
  /\ seen' = version
  /\ UNCHANGED version

Spec ==
  /\ owner = Nobody /\ version \in Nat /\ seen = version
  /\ [][Begin \/ Commit \/ End]_<<owner, seen, version>>

=============================================================================
