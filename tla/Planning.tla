------------------------------ MODULE Planning ------------------------------
(***************************************************************************)
(* From a requirement to the Execution gate: one CFlow process driving the  *)
(* planning commands of one Workflow (app/planning.go, app/execution.go,    *)
(* decision/planning.go, decision/workflow.go) over the immutable Artifact  *)
(* files (artifact/store.go).                                               *)
(*                                                                          *)
(* A command is a chain of separately durable steps: files written while    *)
(* the command is prepared, the Decision that records the intent, the       *)
(* Provider run, the Decision on its result, the Artifact write, and the    *)
(* Decision that records the written revision.  A command may die between   *)
(* any two of them (a crash, or an Effect that returns an error), and       *)
(* inside an Artifact write, where it leaves the revision directory without *)
(* a content file.  Nothing resumes a dead planning command.                *)
(*                                                                          *)
(* An Artifact body is abstracted to what it was derived from; its hash to  *)
(* its revision.                                                            *)
(***************************************************************************)
EXTENDS Naturals, Sequences, FiniteSets

CONSTANTS
  MaxRev,     \* bound: revisions written of one Artifact type
  MaxFaults   \* bound: commands that die

ASSUME PlanningBounds == MaxRev \in Nat /\ MaxFaults \in Nat

VARIABLES
  stage,      \* Workflow.Stage
  runtime,    \* Workflow.Runtime
  openRuns,   \* how many Runs are not terminal
  plan,       \* Plan: active revision (0: none) and status
  refs,       \* active revision of each other Artifact type (0: none)
  files,      \* Artifact Store: the bodies of revisions 1, 2, ... of a type
  torn,       \* types whose next revision directory exists without content
  approvals,  \* the append-only Approval rows
  cmd,        \* the command in progress
  faults      \* commands that died

vars == <<stage, runtime, openRuns, plan, refs, files, torn, approvals, cmd,
          faults>>

-----------------------------------------------------------------------------
(* Values                                                                   *)

Stages == {"REQUIREMENT_DISCUSSION", "PLAN_GENERATION", "PLAN_CHECK",
           "SPEC_GENERATION", "WORKFLOW_GENERATION", "EXECUTION"}

Runtimes == {"PENDING", "RUNNING", "PAUSED", "BLOCKED"}

PlanStatuses == {"NONE", "DRAFT", "CHECKING", "CHECKED", "APPROVED", "REJECTED"}

Verdicts == {"pass", "needs_discussion", "needs_revision", "reject"}

(* The types other than the Plan whose active revision the aggregate holds; *)
(* "policy" stands for the routing and budget policies, written together.   *)
RefTypes == {"check", "catalog", "spec", "workflow", "report", "policy"}

Types == RefTypes \union {"turn", "plan"}

Kinds == {"none", "discuss", "plan", "check", "spec", "compile", "workflow",
          "dryrun", "adopt"}

Idle == [kind |-> "none", at |-> "done", body |-> <<>>, rev |-> 0]

(* What Resolve finds for a type: the highest revision directory, and no    *)
(* revision at all when that directory holds no content file.               *)
Latest(t) == IF t \in torn THEN 0 ELSE Len(files[t])

(* A revision directory takes one content file, once.                       *)
Writable(t, r) == r = Len(files[t]) + 1 /\ r <= MaxRev

Put(t, body) ==
  /\ files' = [files EXCEPT ![t] = Append(@, body)]
  /\ torn' = torn \ {t}

-----------------------------------------------------------------------------
(* Guards shared by the commands                                            *)

(* Recovery blocks every mutation while the pinned Plan write of a dead     *)
(* command left a directory that holds no content.                          *)
RecoveryClear == "plan" \notin torn

CanIssue == cmd = Idle /\ RecoveryClear

planningRuntimeAllowed == runtime \in {"PENDING", "RUNNING", "PAUSED"}

(* A PENDING or PAUSED Workflow starts running; the fresh Run closes the    *)
(* earlier ones.                                                            *)
startIfNeeded ==
  /\ runtime' = "RUNNING"
  /\ openRuns' = IF runtime = "RUNNING" THEN openRuns ELSE 1

Run(kind) == cmd' = [Idle EXCEPT !.kind = kind, !.at = "provider"]

Finish == cmd' = Idle

-----------------------------------------------------------------------------
(* Commands: preparation and the Decision on the intent                     *)

(* Mutant: a Plan may also be regenerated after its Specs exist.            *)
GeneratePlanLate ==
  /\ CanIssue
  /\ stage # "EXECUTION" /\ planningRuntimeAllowed
  /\ startIfNeeded
  /\ stage' = "PLAN_GENERATION"
  /\ Run("plan")
  /\ UNCHANGED <<plan, refs, files, torn, approvals, faults>>

DiscussRequirement ==
  /\ CanIssue
  /\ stage = "REQUIREMENT_DISCUSSION" /\ planningRuntimeAllowed
  /\ startIfNeeded
  /\ Run("discuss")
  /\ UNCHANGED <<stage, plan, refs, files, torn, approvals, faults>>

GeneratePlan ==
  /\ CanIssue
  /\ stage \in {"REQUIREMENT_DISCUSSION", "PLAN_GENERATION", "PLAN_CHECK",
                "SPEC_GENERATION"}
  /\ planningRuntimeAllowed
  /\ startIfNeeded
  /\ stage' = "PLAN_GENERATION"
  /\ Run("plan")
  /\ UNCHANGED <<plan, refs, files, torn, approvals, faults>>

CheckPlan ==
  /\ CanIssue
  /\ stage = "PLAN_CHECK" /\ plan.status = "DRAFT" /\ planningRuntimeAllowed
  /\ plan' = [plan EXCEPT !.status = "CHECKING"]
  /\ startIfNeeded
  /\ Run("check")
  /\ UNCHANGED <<stage, refs, files, torn, approvals, faults>>

(* The catalog revision is assembled and written while the command is being *)
(* prepared, before the Kernel judges it.                                   *)
PrepareSpecs ==
  /\ CanIssue
  /\ Writable("catalog", Latest("catalog") + 1)
  /\ Put("catalog", <<>>)
  /\ cmd' = [kind |-> "spec", at |-> "judge", body |-> <<>>,
             rev |-> Latest("catalog") + 1]
  /\ UNCHANGED <<stage, runtime, openRuns, plan, refs, approvals, faults>>

decideSpecGeneration ==
  /\ cmd.kind = "spec" /\ cmd.at = "judge"
  /\ stage \in {"SPEC_GENERATION", "WORKFLOW_GENERATION"}
  /\ planningRuntimeAllowed
  /\ refs' = [refs EXCEPT !.catalog = cmd.rev]
  /\ startIfNeeded
  /\ Run("spec")
  /\ UNCHANGED <<stage, plan, files, torn, approvals, faults>>

CompileWorkflow ==
  /\ CanIssue
  /\ stage = "WORKFLOW_GENERATION" /\ planningRuntimeAllowed
  /\ Run("compile")
  /\ UNCHANGED <<stage, runtime, openRuns, plan, refs, files, torn, approvals,
                 faults>>

(* The Preflight report of the next revision, then the routing and budget   *)
(* policies, which need a Spec set to resolve the routes of; a failing      *)
(* policy leaves the report behind.                                         *)
PrepareDryRun ==
  /\ CanIssue
  /\ Writable("report", refs.report + 1)
  /\ IF Latest("spec") > 0 /\ Writable("policy", Latest("policy") + 1)
     THEN /\ files' = [files EXCEPT !.report = Append(@, <<>>),
                                    !.policy = Append(@, [spec |-> Latest("spec")])]
          /\ torn' = torn \ {"report", "policy"}
          /\ cmd' = [kind |-> "dryrun", at |-> "judge", body |-> <<>>,
                     rev |-> Latest("policy") + 1]
     ELSE Put("report", <<>>) /\ Finish
  /\ UNCHANGED <<stage, runtime, openRuns, plan, refs, approvals, faults>>

InputsComplete ==
  plan.rev > 0 /\ refs.spec > 0 /\ refs.catalog > 0 /\ refs.workflow > 0

(* The Dry Run records the Preflight revision, pauses at the gate and       *)
(* interrupts the open Run.                                                 *)
decideExecutionDryRun ==
  /\ cmd.kind = "dryrun" /\ cmd.at = "judge"
  /\ stage = "WORKFLOW_GENERATION" /\ runtime = "RUNNING" /\ InputsComplete
  /\ refs' = [refs EXCEPT !.report = @ + 1, !.policy = cmd.rev]
  /\ runtime' = "PAUSED" /\ openRuns' = 0
  /\ Finish
  /\ UNCHANGED <<stage, plan, files, torn, approvals, faults>>

(* The Kernel refuses a prepared command: what was written stays.  A Dry    *)
(* Run is also refused when its signing probe failed.                       *)
Refuse ==
  /\ cmd.at = "judge"
  /\ cmd.kind = "spec" => stage \notin {"SPEC_GENERATION", "WORKFLOW_GENERATION"}
  /\ Finish
  /\ UNCHANGED <<stage, runtime, openRuns, plan, refs, files, torn, approvals,
                 faults>>

-----------------------------------------------------------------------------
(* The Provider run ends                                                    *)

Write(kind, body, rev) ==
  cmd' = [kind |-> kind, at |-> "write", body |-> body, rev |-> rev]

(* A completed run with a valid body: the Session ends and the write of the *)
(* body is intended.  Only a Plan pins its revision; a check binds the      *)
(* active Plan and was made of the file the checker read.                   *)
decideDiscussionTurnResult ==
  /\ cmd.kind = "discuss" /\ cmd.at = "provider"
  /\ Write("discuss", <<>>, 0)
  /\ UNCHANGED <<stage, runtime, openRuns, plan, refs, files, torn, approvals,
                 faults>>

decidePlanGenerated ==
  /\ cmd.kind = "plan" /\ cmd.at = "provider"
  /\ Write("plan", [turn |-> Latest("turn")], plan.rev + 1)
  /\ UNCHANGED <<stage, runtime, openRuns, plan, refs, files, torn, approvals,
                 faults>>

decideCheckResult ==
  /\ cmd.kind = "check" /\ cmd.at = "provider"
  /\ Latest("plan") > 0
  /\ \E v \in Verdicts :
       Write("check", [plan |-> plan.rev, read |-> Latest("plan"), verdict |-> v], 0)
  /\ UNCHANGED <<stage, runtime, openRuns, plan, refs, files, torn, approvals,
                 faults>>

(* The agent read the latest Plan and catalog files.  Accepted command      *)
(* proposals become a further catalog revision first; its reference is      *)
(* committed with the result.                                               *)
decideSpecsGenerated ==
  /\ cmd.kind = "spec" /\ cmd.at = "provider"
  /\ Latest("plan") > 0 /\ Latest("catalog") > 0
  /\ Write("spec", [plan |-> Latest("plan"), catalog |-> Latest("catalog")], 0)
  /\ \/ UNCHANGED <<files, torn, refs>>
     \/ /\ Writable("catalog", Latest("catalog") + 1)
        /\ Put("catalog", <<>>)
        /\ refs' = [refs EXCEPT !.catalog = Latest("catalog") + 1]
  /\ UNCHANGED <<stage, runtime, openRuns, plan, approvals, faults>>

decidePatchProposed ==
  /\ cmd.kind = "compile" /\ cmd.at = "provider"
  /\ Latest("spec") > 0
  /\ cmd' = [cmd EXCEPT !.at = "compile"]
  /\ UNCHANGED <<stage, runtime, openRuns, plan, refs, files, torn, approvals,
                 faults>>

(* The Compiler runs over the latest files of the three types.              *)
workflowCompile ==
  /\ cmd.kind = "compile" /\ cmd.at = "compile"
  /\ \A t \in {"plan", "spec", "catalog"} : Latest(t) > 0
  /\ Write("workflow", [plan |-> Latest("plan"), spec |-> Latest("spec"),
                        catalog |-> Latest("catalog")], 0)
  /\ UNCHANGED <<stage, runtime, openRuns, plan, refs, files, torn, approvals,
                 faults>>

(* A run that failed, or completed with a body the Kernel cannot accept: a  *)
(* finding is recorded, a Plan under check goes back to DRAFT, and the      *)
(* catalog an invalid Spec output was promoted into stays uncommitted.      *)
settleSessionFinding ==
  /\ cmd.at = "provider"
  /\ plan' = IF cmd.kind = "check" THEN [plan EXCEPT !.status = "DRAFT"] ELSE plan
  /\ \/ UNCHANGED <<files, torn>>
     \/ /\ cmd.kind = "spec"
        /\ Latest("catalog") > 0 /\ Writable("catalog", Latest("catalog") + 1)
        /\ Put("catalog", <<>>)
  /\ Finish
  /\ UNCHANGED <<stage, runtime, openRuns, refs, approvals, faults>>

-----------------------------------------------------------------------------
(* The Artifact write and the Decision that records it                      *)

WriteType == CASE cmd.kind = "discuss" -> "turn"
               [] OTHER -> cmd.kind

(* The revision an intent asks for: the pinned one, or one past the latest. *)
WriteRev == IF cmd.rev > 0 THEN cmd.rev ELSE Latest(WriteType) + 1

(* A revision already assigned is refused and ends the command.             *)
artifactWrite ==
  /\ cmd.at = "write"
  /\ \/ /\ Writable(WriteType, WriteRev)
        /\ Put(WriteType, cmd.body)
        /\ cmd' = [cmd EXCEPT !.at = "record", !.rev = WriteRev]
     \/ /\ WriteRev <= Len(files[WriteType])
        /\ Finish
        /\ UNCHANGED <<files, torn>>
  /\ UNCHANGED <<stage, runtime, openRuns, plan, refs, approvals, faults>>

(* Mutant: a new Plan revision keeps the status of the one it replaces.     *)
planRevisionRecordedKept ==
  /\ cmd.kind = "plan" /\ cmd.at = "record"
  /\ plan' = [rev |-> cmd.rev,
              status |-> IF plan.rev = 0 THEN "DRAFT" ELSE plan.status]
  /\ stage' = "PLAN_CHECK"
  /\ Finish
  /\ UNCHANGED <<runtime, openRuns, refs, files, torn, approvals, faults>>

decideArtifactWrittenTurn ==
  /\ cmd.kind = "discuss" /\ cmd.at = "record"
  /\ Finish
  /\ UNCHANGED <<stage, runtime, openRuns, plan, refs, files, torn, approvals,
                 faults>>

planRevisionRecorded ==
  /\ cmd.kind = "plan" /\ cmd.at = "record"
  /\ plan' = [rev |-> cmd.rev, status |-> "DRAFT"]
  /\ stage' = "PLAN_CHECK"
  /\ Finish
  /\ UNCHANGED <<runtime, openRuns, refs, files, torn, approvals, faults>>

(* Only the Decision recording the check moves the Plan: a pass and a       *)
(* rejection pause without closing the Run.                                 *)
checkResultCommitted ==
  /\ cmd.kind = "check" /\ cmd.at = "record"
  /\ refs' = [refs EXCEPT !.check = cmd.rev]
  /\ CASE cmd.body.verdict = "pass" ->
            /\ plan' = [plan EXCEPT !.status = "CHECKED"]
            /\ runtime' = "PAUSED" /\ UNCHANGED stage
       [] cmd.body.verdict = "reject" ->
            /\ plan' = [plan EXCEPT !.status = "REJECTED"]
            /\ runtime' = "PAUSED" /\ UNCHANGED stage
       [] cmd.body.verdict = "needs_revision" ->
            /\ plan' = [plan EXCEPT !.status = "DRAFT"]
            /\ runtime' = "RUNNING" /\ stage' = "PLAN_GENERATION"
       [] OTHER ->
            /\ plan' = [plan EXCEPT !.status = "DRAFT"]
            /\ runtime' = "RUNNING" /\ stage' = "REQUIREMENT_DISCUSSION"
  /\ Finish
  /\ UNCHANGED <<openRuns, files, torn, approvals, faults>>

specRevisionRecorded ==
  /\ cmd.kind = "spec" /\ cmd.at = "record"
  /\ refs' = [refs EXCEPT !.spec = cmd.rev]
  /\ stage' = "WORKFLOW_GENERATION"
  /\ Finish
  /\ UNCHANGED <<runtime, openRuns, plan, files, torn, approvals, faults>>

workflowRevisionRecorded ==
  /\ cmd.kind = "workflow" /\ cmd.at = "record"
  /\ refs' = [refs EXCEPT !.workflow = cmd.rev]
  /\ Finish
  /\ UNCHANGED <<stage, runtime, openRuns, plan, files, torn, approvals,
                 faults>>

-----------------------------------------------------------------------------
(* The user's gates and controls                                            *)

(* Approval names the exact revision; a stale one is refused.               *)
decidePlanApproval(r) ==
  /\ CanIssue
  /\ plan.rev = r /\ plan.status = "CHECKED" /\ stage = "PLAN_CHECK"
  /\ plan' = [plan EXCEPT !.status = "APPROVED"]
  /\ approvals' = Append(approvals, [gate |-> "PLAN", plan |-> r])
  /\ stage' = "SPEC_GENERATION"
  /\ UNCHANGED <<runtime, openRuns, refs, files, torn, cmd, faults>>

(* ApproveExecutionCommand names the hash of every displayed fact and is    *)
(* refused unprepared when one is empty; the commit-policy hash is that of  *)
(* the Preflight row, so it exists from the first Dry Run on.               *)
HashesNamed == InputsComplete /\ refs.report > 0

(* The Kernel asks for the paused gate and compares the hashes: those that  *)
(* are not of the active facts are refused, so what is approved is active.  *)
decideExecutionApproval ==
  /\ CanIssue /\ HashesNamed
  /\ stage = "WORKFLOW_GENERATION" /\ runtime = "PAUSED"
  /\ approvals' = Append(approvals,
       [gate |-> "EXECUTION", plan |-> plan.rev, spec |-> refs.spec,
        catalog |-> refs.catalog, workflow |-> refs.workflow,
        preflight |-> refs.report])
  /\ stage' = "EXECUTION" /\ runtime' = "RUNNING" /\ openRuns' = 1
  /\ UNCHANGED <<plan, refs, files, torn, cmd, faults>>

Planning == stage # "EXECUTION"

StartWorkflow ==
  /\ CanIssue /\ Planning /\ runtime = "PENDING"
  /\ runtime' = "RUNNING" /\ openRuns' = 1
  /\ UNCHANGED <<stage, plan, refs, files, torn, approvals, cmd, faults>>

(* With no Attempt and no process running, the stop converges at once.      *)
PauseWorkflow ==
  /\ CanIssue /\ Planning /\ runtime = "RUNNING"
  /\ runtime' = "PAUSED" /\ openRuns' = 0
  /\ UNCHANGED <<stage, plan, refs, files, torn, approvals, cmd, faults>>

ResumeWorkflow ==
  /\ CanIssue /\ Planning /\ runtime = "PAUSED"
  /\ runtime' = "RUNNING" /\ openRuns' = 1
  /\ UNCHANGED <<stage, plan, refs, files, torn, approvals, cmd, faults>>

-----------------------------------------------------------------------------
(* A command dies: between two of its steps, or inside a write, after the   *)
(* revision directory was made and before the content was renamed into it.  *)
Die ==
  /\ cmd # Idle /\ faults < MaxFaults
  /\ faults' = faults + 1
  /\ \/ UNCHANGED torn
     \/ /\ cmd.at = "write" /\ Writable(WriteType, WriteRev)
        /\ torn' = torn \union {WriteType}
  /\ Finish
  /\ UNCHANGED <<stage, runtime, openRuns, plan, refs, files, approvals>>

(* The same while the command is still writing its prepared files.          *)
DiePreparing ==
  /\ CanIssue /\ faults < MaxFaults
  /\ faults' = faults + 1
  /\ \/ /\ Writable("catalog", Latest("catalog") + 1)
        /\ torn' = torn \union {"catalog"} /\ UNCHANGED files
     \/ /\ Writable("report", refs.report + 1)
        /\ torn' = torn \union {"report"} /\ UNCHANGED files
     \/ /\ Writable("report", refs.report + 1) /\ Latest("spec") > 0
        /\ Writable("policy", Latest("policy") + 1)
        /\ files' = [files EXCEPT !.report = Append(@, <<>>)]
        /\ torn' = (torn \ {"report"}) \union {"policy"}
  /\ UNCHANGED <<stage, runtime, openRuns, plan, refs, approvals, cmd>>

-----------------------------------------------------------------------------

Init ==
  /\ stage = "REQUIREMENT_DISCUSSION" /\ runtime = "PENDING" /\ openRuns = 0
  /\ plan = [rev |-> 0, status |-> "NONE"]
  /\ refs = [t \in RefTypes |-> 0]
  /\ files = [t \in Types |-> <<>>]
  /\ torn = {} /\ approvals = <<>>
  /\ cmd = Idle /\ faults = 0

(* The planning commands and controls, all but the Execution gate itself.   *)
PlanningStep ==
  \/ DiscussRequirement \/ GeneratePlan \/ CheckPlan
  \/ PrepareSpecs \/ decideSpecGeneration \/ CompileWorkflow
  \/ PrepareDryRun \/ decideExecutionDryRun \/ Refuse
  \/ decideDiscussionTurnResult \/ decidePlanGenerated \/ decideCheckResult
  \/ decideSpecsGenerated \/ decidePatchProposed \/ workflowCompile
  \/ settleSessionFinding \/ artifactWrite
  \/ decideArtifactWrittenTurn \/ planRevisionRecorded \/ checkResultCommitted
  \/ specRevisionRecorded \/ workflowRevisionRecorded
  \/ (\E r \in 1..MaxRev : decidePlanApproval(r))
  \/ StartWorkflow \/ PauseWorkflow \/ ResumeWorkflow \/ Die \/ DiePreparing

-----------------------------------------------------------------------------
(* Properties                                                               *)

TypeOK ==
  /\ stage \in Stages /\ runtime \in Runtimes /\ openRuns \in 0..1
  /\ plan \in [rev : 0..MaxRev, status : PlanStatuses]
  /\ refs \in [RefTypes -> 0..MaxRev]
  /\ DOMAIN files = Types /\ \A t \in Types : Len(files[t]) <= MaxRev
  /\ torn \subseteq Types
  /\ cmd.kind \in Kinds /\ faults \in 0..MaxFaults

PlanApproved(r) ==
  \E i \in 1..Len(approvals) : approvals[i].gate = "PLAN" /\ approvals[i].plan = r

(* A Plan the user could approve was passed by a check of that very         *)
(* revision, made by a checker that read that very file: however commands   *)
(* died in between, a verdict never carries over to another Plan, although  *)
(* the checker is handed the latest file and the verdict is bound to the    *)
(* active revision.                                                         *)
ApprovedWasChecked ==
  \A i \in 1..Len(approvals) : approvals[i].gate = "PLAN" =>
    \E c \in 1..Len(files.check) :
      /\ files.check[c].plan = approvals[i].plan
      /\ files.check[c].read = approvals[i].plan
      /\ files.check[c].verdict = "pass"

(* Past the Plan gate one approved Plan underlies everything: the active    *)
(* Specs and the compiled Workflow were derived from the Plan revision that *)
(* is active and approved, although the Spec agent and the Compiler read    *)
(* whatever Plan file is latest.                                            *)
OnePlanThroughout ==
  /\ stage \in {"SPEC_GENERATION", "WORKFLOW_GENERATION", "EXECUTION"} =>
       plan.status = "APPROVED" /\ PlanApproved(plan.rev)
  /\ refs.spec > 0 => files.spec[refs.spec].plan = plan.rev
  /\ refs.workflow > 0 => files.workflow[refs.workflow].plan = plan.rev

=============================================================================
