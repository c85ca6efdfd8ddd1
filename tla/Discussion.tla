----------------------------- MODULE Discussion -----------------------------
(***************************************************************************)
(* The Decisions of the requirement discussion (decision/workflow.go and    *)
(* decision/planning.go): native interactive Sessions, headless turns, the  *)
(* handoff that finishes a discussion, and the Plan generated from it.      *)
(*                                                                          *)
(* An aggregate holds the stage, the Runtime status, the active Run, the    *)
(* planning Sessions and the managed Process rows; a Session or a Process   *)
(* is named by its position.  A Decision is a set: empty when the Kernel    *)
(* refuses the Input, else the one record of the next aggregate and the     *)
(* Effect it requests.                                                      *)
(***************************************************************************)
EXTENDS Naturals, Sequences

CONSTANT Providers

ASSUME ProvidersAssumption == Providers # {}

NoEffect == [k |-> "none"]

SessionTerminal == {"COMPLETED", "FAILED"}

Resumable == {"STARTING", "INTERACTIVE_IDLE"}

PlanningRuntimes == {"PENDING", "RUNNING", "PAUSED"}

Sessions == [provider : Providers, st : SessionTerminal \union Resumable \union {"ACTIVE"},
             bound : BOOLEAN]

Procs == [s : Nat, st : {"RUNNING", "EXITED", "STOPPED"}]

Aggregates == [stage : {"DISCUSSION", "PLAN"}, runtime : PlanningRuntimes \union {"BLOCKED"},
               run : {"none", "RUNNING", "STOPPING"},
               sessions : Seq(Sessions), procs : Seq(Procs)]

(* A Process row names a Session that exists.                               *)
PointsBack(a) == \A p \in DOMAIN a.procs : a.procs[p].s \in DOMAIN a.sessions

Refused == {}

Decided(a, e) == {[agg |-> a, eff |-> e]}

DecidedIf(c, a, e) == IF c THEN Decided(a, e) ELSE Refused

Discussing(a) == a.stage = "DISCUSSION" /\ a.runtime \in PlanningRuntimes

StartIfNeeded(a) ==
  IF a.runtime = "RUNNING" THEN a
  ELSE [a EXCEPT !.runtime = "RUNNING", !.run = "RUNNING"]

(* A Session starts without the Provider's own identity: bound is set by    *)
(* the bootstrap, or when a headless run ends.                              *)
WithSession(a, provider) ==
  [a EXCEPT !.sessions = Append(@, [provider |-> provider, st |-> "STARTING",
                                    bound |-> FALSE])]

WithProcess(a, s) ==
  [a EXCEPT !.procs = Append(@, [s |-> s, st |-> "RUNNING"])]

NewSession(a) == Len(a.sessions) + 1

RunningProcs(a) == {p \in DOMAIN a.procs : a.procs[p].st = "RUNNING"}

First(S) == CHOOSE p \in S : \A q \in S : p <= q

HasNativeDiscussion(a) ==
  \E s \in DOMAIN a.sessions :
    a.sessions[s].bound /\ a.sessions[s].st \notin SessionTerminal

HasNativeLineage(a) ==
  \E s \in DOMAIN a.sessions :
    /\ a.sessions[s].bound
    /\ \/ a.sessions[s].st \notin SessionTerminal
       \/ \E p \in DOMAIN a.procs : a.procs[p].s = s

-----------------------------------------------------------------------------
(* Commands                                                                 *)

StartsNative(a, provider) ==
  LET s == NewSession(a)
  IN Decided(WithProcess(WithSession(StartIfNeeded(a), provider), s),
             [k |-> "bootstrap", s |-> s])

DecidePrepareNative(a, in) ==
  IF Discussing(a) THEN StartsNative(a, in.provider) ELSE Refused

DecideContinue(a, in) ==
  DecidedIf(
    /\ Discussing(a)
    /\ a.sessions[in.s].st \in Resumable /\ a.sessions[in.s].bound,
    WithProcess([StartIfNeeded(a) EXCEPT !.sessions[in.s].st = "ACTIVE"], in.s),
    NoEffect)

DecideSwitchAgent(a, in) ==
  IF /\ Discussing(a)
     /\ in.provider # a.sessions[in.s].provider /\ a.sessions[in.s].bound
  THEN StartsNative(a, in.provider) ELSE Refused

(* The turn's exit settles the Process row the Application found; a         *)
(* non-zero exit is no failure.                                             *)
DecideReturn(a, in) ==
  DecidedIf(
    /\ a.sessions[in.s].st \in {"STARTING", "ACTIVE"} /\ a.sessions[in.s].bound
    /\ a.procs[in.p].st = "RUNNING" /\ a.procs[in.p].s = in.s,
    [a EXCEPT !.procs[in.p].st = "EXITED",
              !.sessions[in.s].st = "INTERACTIVE_IDLE"],
    NoEffect)

(* Mutant: whoever prepared a Finish may finish, settled Session or not.    *)
FinishPrepared(a, in) ==
  DecidedIf(a.stage = "DISCUSSION" /\ a.sessions[in.s].bound,
            [a EXCEPT !.sessions[in.s].st = "COMPLETED"],
            [k |-> "write", what |-> "handoff", s |-> in.s, cs |-> in.cs])

DecideFinish(a, in) ==
  DecidedIf(
    /\ a.stage = "DISCUSSION"
    /\ a.sessions[in.s].st \in Resumable /\ a.sessions[in.s].bound,
    [a EXCEPT !.sessions[in.s].st = "COMPLETED"],
    [k |-> "write", what |-> "handoff", s |-> in.s, cs |-> in.cs])

DecideDiscuss(a, in) ==
  DecidedIf(Discussing(a), WithSession(StartIfNeeded(a), in.provider),
            [k |-> "run", s |-> NewSession(a)])

(* Mutant: the refs the Application resolved are trusted.                   *)
GenerateAsPrepared(a, in) ==
  DecidedIf(a.runtime \in PlanningRuntimes,
            WithSession([StartIfNeeded(a) EXCEPT !.stage = "PLAN"],
                        in.provider),
            [k |-> "run", s |-> NewSession(a)])

(* A Plan is generated from both the handoff and the frozen Change Set, or  *)
(* from the headless turns of a workflow that never had a native Session.   *)
DecideGeneratePlan(a, in) ==
  DecidedIf(
    /\ a.runtime \in PlanningRuntimes
    /\ IF in.h = 0 /\ in.c = 0 THEN ~HasNativeLineage(a)
       ELSE in.h # 0 /\ in.c # 0,
    WithSession([StartIfNeeded(a) EXCEPT !.stage = "PLAN"], in.provider),
    [k |-> "run", s |-> NewSession(a)])

StopNext(P) == IF P = {} THEN NoEffect ELSE [k |-> "stop", p |-> First(P)]

(* The Run is interrupted and the Workflow paused once no Process row runs. *)
Converged(a) ==
  IF a.run = "STOPPING" /\ RunningProcs(a) = {}
  THEN [a EXCEPT !.run = "none", !.runtime = "PAUSED"] ELSE a

DecidePause(a) ==
  DecidedIf(a.runtime = "RUNNING",
            Converged([a EXCEPT !.runtime = "PAUSED", !.run = "STOPPING"]),
            StopNext(RunningProcs(a)))

DecideReconcile(a) == Converged(a)

NeedsReconcile(a) == a.run = "STOPPING"

Decide(a, in) ==
  CASE in.c0 = "Prepare" -> DecidePrepareNative(a, in)
    [] in.c0 = "Continue" -> DecideContinue(a, in)
    [] in.c0 = "Switch" -> DecideSwitchAgent(a, in)
    [] in.c0 = "Return" -> DecideReturn(a, in)
    [] in.c0 = "Finish" -> DecideFinish(a, in)
    [] in.c0 = "Discuss" -> DecideDiscuss(a, in)
    [] in.c0 = "Plan" -> DecideGeneratePlan(a, in)
    [] in.c0 = "Pause" -> DecidePause(a)

-----------------------------------------------------------------------------
(* Results                                                                  *)

BootstrapEstablished(a, s) ==
  DecidedIf(a.sessions[s].st = "STARTING",
            [a EXCEPT !.sessions[s].bound = TRUE], NoEffect)

RunEnded(a, s, ok) ==
  IF ok
  THEN Decided([a EXCEPT !.sessions[s].st = "COMPLETED",
                         !.sessions[s].bound = TRUE],
               [k |-> "write", s |-> s, cs |-> 0,
                what |-> IF a.stage = "PLAN" THEN "plan" ELSE "turn"])
  ELSE Decided([a EXCEPT !.sessions[s].st = "FAILED"], NoEffect)

ProcessStopped(a, p) ==
  LET b == [a EXCEPT !.procs[p].st = "STOPPED"]
  IN DecidedIf(a.procs[p].st = "RUNNING", Converged(b),
               IF a.run = "STOPPING" THEN StopNext(RunningProcs(b))
               ELSE NoEffect)

ArtifactWritten(a) == Decided(a, NoEffect)

DecideResult(a, e, ok) ==
  CASE e.k = "bootstrap" -> BootstrapEstablished(a, e.s)
    [] e.k = "run" -> RunEnded(a, e.s, ok)
    [] e.k = "stop" -> ProcessStopped(a, e.p)
    [] e.k = "write" -> ArtifactWritten(a)

=============================================================================
