----------------------------- MODULE MCCommands -----------------------------
(* A TUI with a second goroutine that pauses, beside another process: a     *)
(* second TUI or one CLI command.                                           *)
EXTENDS Commands

MCThreads == {"p1", "p2", "q1"}

MCProcesses == {"p", "q"}

MCProcessOf == [t \in MCThreads |-> IF t = "q1" THEN "q" ELSE "p"]

MCOffers == [t \in MCThreads |->
  CASE t = "p1" -> {"Prepare", "Continue", "Switch", "Return", "Finish", "Freeze"}
    [] t = "p2" -> {"Pause"}
    [] t = "q1" -> {"Finish", "Plan", "Discuss"}]

Fresh == [stage |-> "DISCUSSION", runtime |-> "PENDING", run |-> "none",
          sessions |-> <<>>, procs |-> <<>>]

(* A native Session that returned from its first turn.                      *)
Returned == [Fresh EXCEPT
  !.runtime = "RUNNING", !.run = "RUNNING",
  !.sessions = <<[provider |-> "claude", st |-> "INTERACTIVE_IDLE", bound |-> TRUE]>>,
  !.procs = <<[s |-> 1, st |-> "EXITED"]>>]

(* A second turn of it that ended and whose Return is due.                  *)
Over == [Returned EXCEPT !.sessions[1].st = "ACTIVE",
                         !.procs = Append(@, [s |-> 1, st |-> "RUNNING"])]

NoTurns == [p \in MCProcesses |-> NoTurn]

Old == [schema |-> "old", backup |-> "none"]

Current == [schema |-> "current", backup |-> "verified"]

Once(T) == [t \in MCThreads |-> IF t \in T THEN 1 ELSE 0]

MCStarted ==
  {[agg |-> Fresh, sets |-> 0, turn |-> NoTurns, db |-> Old,
    left |-> Once({"p1", "p2", "q1"})],
   [agg |-> Returned, sets |-> 1, turn |-> NoTurns, db |-> Current,
    left |-> Once({"p1", "q1"})],
   [agg |-> Over, sets |-> 0, db |-> Current, left |-> Once({"p1", "p2"}),
    turn |-> [NoTurns EXCEPT !["p"] = [s |-> 1, st |-> "over"]]]}

=============================================================================
