--------------------------- MODULE PlanningProofs ---------------------------
(***************************************************************************)
(* The gates of planning and adoption, for any number of revisions, dead    *)
(* commands, commits and adoptions: an approved Plan was passed by a check  *)
(* of that very revision, everything derived past the Plan gate comes from  *)
(* the one approved Plan, and only a head that passed the gate chain and a  *)
(* review is adopted.                                                       *)
(*                                                                          *)
(* A command carries values read several steps before they are recorded,    *)
(* and the Artifact files may be ahead of the aggregate when a command died *)
(* in between.  The proofs rest on what a command in progress may rely on   *)
(* (Owned, Adopter), and on the one place where files and aggregate may     *)
(* disagree about the Plan: while a Plan is being generated (PlanIsLatest). *)
(***************************************************************************)
EXTENDS Adoption, RowLemmas, SequenceTheorems, TLAPS

CheckBodies == [plan : Nat, read : Nat, verdict : Verdicts]
SpecBodies == [plan : Nat, catalog : Nat]
GraphBodies == [plan : Nat, spec : Nat, catalog : Nat]

Bodies == {<<>>} \union [turn : Nat] \union [spec : Nat]
          \union CheckBodies \union SpecBodies \union GraphBodies

Gates == [gate : {"PLAN"}, plan : Nat]
         \union [gate : {"EXECUTION"}, plan : Nat, spec : Nat, catalog : Nat,
                 workflow : Nat, preflight : Nat]

(* The part of the type invariant the argument needs.                       *)
Shape ==
    /\ stage \in Stages
    /\ plan \in [rev : Nat, status : PlanStatuses]
    /\ refs \in [RefTypes -> Nat]
    /\ files \in [Types -> Seq(Bodies)]
    /\ approvals \in Seq(Gates)
    /\ cmd = [kind |-> cmd.kind, at |-> cmd.at, body |-> cmd.body, rev |-> cmd.rev]
    /\ cmd.rev \in Nat

(* The latest Plan file is the active revision, except while the stage is   *)
(* PLAN_GENERATION: a command that died after its write left one more file. *)
PlanIsLatest == stage # "PLAN_GENERATION" => Len(files["plan"]) = plan.rev

(* Among these checks, one passed Plan revision r and had read it.          *)
Passed(checks, r) ==
    \E c \in 1..Len(checks) :
        checks[c].plan = r /\ checks[c].read = r /\ checks[c].verdict = "pass"

(* A Plan that counts as checked was passed.                                *)
CheckedWasPassed == plan.status \in {"CHECKED", "APPROVED"} => Passed(files["check"], plan.rev)

PastPlanGate == stage \in {"SPEC_GENERATION", "WORKFLOW_GENERATION", "EXECUTION"}

(* Specs and Workflows are recorded only behind the Plan gate, where no     *)
(* other Plan can become active, and point at files that exist.             *)
Recorded ==
    /\ PastPlanGate => plan.status = "APPROVED" /\ PlanApproved(plan.rev)
    /\ refs["spec"] <= Len(files["spec"]) /\ refs["workflow"] <= Len(files["workflow"])
    /\ refs["spec"] > 0 \/ refs["workflow"] > 0
         => stage \in {"WORKFLOW_GENERATION", "EXECUTION"}

Carries(kind, t, bodies) ==
    /\ cmd.kind = kind /\ cmd.at \in {"write", "record"} =>
         cmd.body \in bodies /\ cmd.body.plan = plan.rev
    /\ cmd.kind = kind /\ cmd.at = "record" =>
         cmd.rev = Len(files[t]) /\ cmd.rev > 0 /\ files[t][cmd.rev] = cmd.body

(* What the planning command in progress may rely on.                       *)
Owned ==
    /\ cmd.at = "write" =>
         /\ cmd.kind \in {"discuss", "plan", "check", "spec", "workflow"}
         /\ cmd.body \in Bodies
    /\ cmd.at = "provider" => cmd.kind \in {"discuss", "plan", "check", "spec", "compile"}
    /\ cmd.kind = "plan" => stage = "PLAN_GENERATION"
    /\ cmd.kind = "plan" /\ cmd.at = "record" => cmd.rev = Len(files["plan"])
    /\ cmd.kind = "check" => stage = "PLAN_CHECK"
    /\ cmd.kind = "check" /\ cmd.at # "provider" => cmd.body.read = plan.rev
    /\ cmd.kind = "spec" /\ cmd.at # "judge" =>
         stage \in {"SPEC_GENERATION", "WORKFLOW_GENERATION"}
    /\ cmd.kind \in {"compile", "workflow"} => stage = "WORKFLOW_GENERATION"
    /\ Carries("check", "check", CheckBodies)
    /\ Carries("spec", "spec", SpecBodies)
    /\ Carries("workflow", "workflow", GraphBodies)

PlanningInv ==
    /\ Shape /\ PlanIsLatest /\ CheckedWasPassed /\ Recorded /\ Owned
    /\ ApprovedWasChecked /\ OnePlanThroughout

(* What the adoption in progress may rely on: nothing was adopted before,   *)
(* a clean Workspace and a settled coding result passed the chain, a        *)
(* review judges a candidate that did, and its Session row exists.          *)
Adopter ==
    /\ cmd.kind = "adopt" => verified = 0
    /\ cmd.kind = "adopt" => cmd.at \in {"confirm", "coding", "settle", "review"}
    /\ cmd.kind = "adopt" /\ cmd.at = "confirm" =>
         cmd.body.dirty \/ cmd.body.head \in passed
    /\ cmd.kind = "adopt" /\ cmd.at \in {"coding", "settle"} =>
         \E i \in 1..Len(reviews) : reviews[i] = "STARTING"
    /\ cmd.kind = "adopt" /\ cmd.at = "settle" =>
         (cmd.body.ok /\ ~cmd.body.end.dirty /\ cmd.body.body => cmd.body.end.head \in passed)
    /\ cmd.kind = "adopt" /\ cmd.at = "review" =>
         candidate \in passed /\ cmd.body \in 1..Len(reviews)

ReviewStates == {"STARTING", "PASSED", "FAILED"}

AdoptionInv == reviews \in Seq(ReviewStates) /\ Adopter /\ AdoptedPassedGates

-----------------------------------------------------------------------------
(* The Artifact files                                                       *)

(* Every type has a sequence of bodies; its latest revision is a number.    *)
LEMMA FilesTyped ==
    ASSUME Shape, NEW t \in Types
    PROVE  /\ files[t] \in Seq(Bodies) /\ Len(files[t]) \in Nat
           /\ DOMAIN files[t] = 1..Len(files[t])
           /\ Latest(t) \in Nat
           /\ Latest(t) > 0 => Latest(t) = Len(files[t])
  <1>1. files[t] \in Seq(Bodies)
    BY DEF Shape
  <1>2. Len(files[t]) \in Nat /\ DOMAIN files[t] = 1..Len(files[t])
    BY <1>1, LenProperties
  <1> QED BY <1>1, <1>2 DEF Latest

(* The files only grow: what was written stays.                             *)
Grows ==
    /\ files' \in [Types -> Seq(Bodies)]
    /\ \A t \in Types :
         /\ Len(files[t]) \in Nat /\ Len(files'[t]) \in Nat
         /\ Len(files[t]) <= Len(files'[t])
         /\ \A i \in 1..Len(files[t]) : files'[t][i] = files[t][i]

(* A write appends one body to one type and leaves the others alone.        *)
LEMMA PutFile ==
    ASSUME Shape, NEW t \in Types, NEW body \in Bodies,
           files' = [files EXCEPT ![t] = Append(@, body)]
    PROVE  /\ Grows
           /\ Len(files'[t]) = Len(files[t]) + 1
           /\ files'[t][Len(files[t]) + 1] = body
           /\ \A u \in Types : u # t => files'[u] = files[u]
  <1>1. \A u \in Types : files[u] \in Seq(Bodies) /\ Len(files[u]) \in Nat
    BY FilesTyped
  <1>2. files'[t] = Append(files[t], body) /\ \A u \in Types : u # t => files'[u] = files[u]
    BY DEF Shape
  <1>3. /\ Append(files[t], body) \in Seq(Bodies)
        /\ Len(Append(files[t], body)) = Len(files[t]) + 1
        /\ \A j \in 1..Len(files[t]) : Append(files[t], body)[j] = files[t][j]
        /\ Append(files[t], body)[Len(files[t]) + 1] = body
    BY <1>1, AppendRow
  <1>4. files' \in [Types -> Seq(Bodies)]
    BY <1>3 DEF Shape
  <1>5. \A u \in Types :
          /\ Len(files[u]) \in Nat /\ Len(files'[u]) \in Nat
          /\ Len(files[u]) <= Len(files'[u])
          /\ \A i \in 1..Len(files[u]) : files'[u][i] = files[u][i]
    <2> TAKE u \in Types
    <2>1. CASE u = t
      BY <2>1, <1>1, <1>2, <1>3
    <2>2. CASE u # t
      BY <2>2, <1>1, <1>2
    <2> QED BY <2>1, <2>2
  <1> QED BY <1>2, <1>3, <1>4, <1>5 DEF Grows

(* Leaving the files alone is one way to grow.                              *)
LEMMA SameFiles ==
    ASSUME Shape, UNCHANGED files
    PROVE  Grows
  BY FilesTyped DEF Shape, Grows

(* A pass on file is never lost, nor is what an approved Plan rests on.     *)
LEMMA PassKept ==
    ASSUME Grows, NEW r, Passed(files["check"], r)
    PROVE  Passed(files'["check"], r)
  <1>1. "check" \in Types
    BY DEF Types, RefTypes
  <1>2. PICK c \in 1..Len(files["check"]) :
          /\ files["check"][c].plan = r /\ files["check"][c].read = r
          /\ files["check"][c].verdict = "pass"
    BY DEF Passed
  <1>3. c \in 1..Len(files'["check"]) /\ files'["check"][c] = files["check"][c]
    BY <1>1, <1>2 DEF Grows
  <1> QED BY <1>2, <1>3 DEF Passed

(* While no approval is added, a passed check of an approved plan stays:   *)
(* artifact revisions are never taken back.                                *)
LEMMA ChecksKept ==
    ASSUME Grows, ApprovedWasChecked, UNCHANGED approvals
    PROVE  ApprovedWasChecked'
  <1>1. \A i \in 1..Len(approvals) :
          approvals[i].gate = "PLAN" => Passed(files["check"], approvals[i].plan)
    BY DEF ApprovedWasChecked, Passed
  <1>2. \A i \in 1..Len(approvals) :
          approvals[i].gate = "PLAN" => Passed(files'["check"], approvals[i].plan)
    BY <1>1, PassKept
  <1> QED BY <1>2 DEF ApprovedWasChecked, Passed

(* No command in progress relies on nothing.                                *)
LEMMA IdleOwnsNothing ==
    ASSUME cmd' = Idle
    PROVE  Owned' /\ cmd'.rev \in Nat
           /\ cmd' = [kind |-> cmd'.kind, at |-> cmd'.at, body |-> cmd'.body, rev |-> cmd'.rev]
  BY DEF Owned, Carries, Idle

-----------------------------------------------------------------------------
(* Steps that leave the Plan, the Approvals, the stage and the files behind *)
(* them alone keep the invariant as soon as the command owns what it needs. *)
LEMMA QuietStep ==
    ASSUME PlanningInv, UNCHANGED <<stage, plan, approvals>>,
           refs' \in [RefTypes -> Nat],
           refs'["spec"] = refs["spec"], refs'["workflow"] = refs["workflow"],
           Grows,
           \A t \in {"plan", "check", "spec", "workflow"} : files'[t] = files[t],
           cmd' = [kind |-> cmd'.kind, at |-> cmd'.at, body |-> cmd'.body, rev |-> cmd'.rev],
           cmd'.rev \in Nat,
           Owned'
    PROVE  PlanningInv'
  <1>1. Shape'
    BY DEF PlanningInv, Shape, Grows
  <1>2. PlanIsLatest' /\ CheckedWasPassed'
    BY DEF PlanningInv, PlanIsLatest, CheckedWasPassed, Passed
  <1>3. Recorded'
    BY DEF PlanningInv, Recorded, PlanApproved, PastPlanGate
  <1>4. ApprovedWasChecked'
    BY ChecksKept DEF PlanningInv
  <1>5. OnePlanThroughout'
    BY DEF PlanningInv, OnePlanThroughout, PlanApproved
  <1> QED BY <1>1, <1>2, <1>3, <1>4, <1>5 DEF PlanningInv

(* The ways a command goes on without touching a file or a reference.       *)
LEMMA SameRefs ==
    ASSUME PlanningInv, UNCHANGED <<stage, plan, refs, files, approvals>>,
           cmd' = [kind |-> cmd'.kind, at |-> cmd'.at, body |-> cmd'.body, rev |-> cmd'.rev],
           cmd'.rev \in Nat,
           Owned'
    PROVE  PlanningInv'
  <1>1. Grows
    BY SameFiles DEF PlanningInv
  <1> QED BY <1>1, QuietStep DEF PlanningInv, Shape

(* A command ends, or dies, having written at most files that no recorded   *)
(* reference of the Plan, its checks, Specs or Workflows points into.       *)
LEMMA EndsQuietly ==
    ASSUME PlanningInv, UNCHANGED <<stage, plan, approvals>>, cmd' = Idle,
           refs' \in [RefTypes -> Nat],
           refs'["spec"] = refs["spec"], refs'["workflow"] = refs["workflow"],
           Grows,
           \A t \in {"plan", "check", "spec", "workflow"} : files'[t] = files[t]
    PROVE  PlanningInv'
  BY IdleOwnsNothing, QuietStep

(* A write of one of the types no gate reads back.                          *)
LEMMA SideFile ==
    ASSUME PlanningInv, NEW t \in {"catalog", "report", "policy"}, NEW body \in Bodies,
           files' = [files EXCEPT ![t] = Append(@, body)]
    PROVE  Grows /\ \A u \in {"plan", "check", "spec", "workflow"} : files'[u] = files[u]
  <1>1. t \in Types /\ {"plan", "check", "spec", "workflow"} \subseteq Types
    BY DEF Types, RefTypes
  <1> QED BY <1>1, PutFile DEF PlanningInv

(* Commands that begin with a Decision.                                     *)
LEMMA BeginSound ==
    ASSUME PlanningInv,
           DiscussRequirement \/ CompileWorkflow \/ GeneratePlan \/ CheckPlan
    PROVE  PlanningInv'
  <1>1. CASE DiscussRequirement
    <2>1. Owned'
      BY <1>1 DEF DiscussRequirement, Run, Idle, Owned, Carries
    <2> QED BY <1>1, <2>1, SameRefs DEF DiscussRequirement, Run, Idle
  <1>2. CASE CompileWorkflow
    <2>1. Owned'
      BY <1>2 DEF CompileWorkflow, Run, Idle, Owned, Carries
    <2> QED BY <1>2, <2>1, SameRefs DEF CompileWorkflow, Run, Idle
  <1>3. CASE GeneratePlan
    <2>1. Owned'
      BY <1>3 DEF GeneratePlan, Run, Idle, Owned, Carries
    <2>2. Shape' /\ PlanIsLatest' /\ CheckedWasPassed'
      BY <1>3 DEF GeneratePlan, Run, Idle, PlanningInv, Shape, PlanIsLatest,
                  CheckedWasPassed, Passed, Stages
    <2>3. refs["spec"] = 0 /\ refs["workflow"] = 0
      BY <1>3 DEF GeneratePlan, PlanningInv, Shape, Recorded, RefTypes
    <2>4. Recorded' /\ OnePlanThroughout' /\ ApprovedWasChecked'
      BY <1>3, <2>3 DEF GeneratePlan, PlanningInv, Recorded, OnePlanThroughout,
                        ApprovedWasChecked, PastPlanGate
    <2> QED BY <2>1, <2>2, <2>4 DEF PlanningInv
  <1>4. CASE CheckPlan
    <2>1. Owned'
      BY <1>4 DEF CheckPlan, Run, Idle, Owned, Carries
    <2>2. Shape' /\ PlanIsLatest' /\ CheckedWasPassed'
      BY <1>4 DEF CheckPlan, Run, Idle, PlanningInv, Shape, PlanIsLatest,
                  CheckedWasPassed, Passed, PlanStatuses
    <2>3. refs["spec"] = 0 /\ refs["workflow"] = 0
      BY <1>4 DEF CheckPlan, PlanningInv, Shape, Recorded, RefTypes
    <2>4. Recorded' /\ OnePlanThroughout' /\ ApprovedWasChecked'
      BY <1>4, <2>3 DEF CheckPlan, PlanningInv, Recorded, OnePlanThroughout,
                        ApprovedWasChecked, PastPlanGate
    <2> QED BY <2>1, <2>2, <2>4 DEF PlanningInv
  <1> QED BY <1>1, <1>2, <1>3, <1>4

(* Commands that write files while they are prepared, and their judgment.   *)
LEMMA PreparedSound ==
    ASSUME PlanningInv,
           PrepareSpecs \/ PrepareDryRun \/ decideSpecGeneration
             \/ decideExecutionDryRun \/ Refuse
    PROVE  PlanningInv'
  <1>0. /\ <<>> \in Bodies /\ refs \in [RefTypes -> Nat] /\ Shape
        /\ "catalog" \in RefTypes /\ "spec" \in RefTypes /\ "workflow" \in RefTypes
        /\ "report" \in RefTypes /\ "policy" \in RefTypes /\ RefTypes \subseteq Types
    BY DEF Bodies, PlanningInv, Shape, RefTypes, Types
  <1>1. CASE PrepareSpecs
    <2>1. Owned'
      BY <1>1 DEF PrepareSpecs, Idle, Owned, Carries
    <2>2. Latest("catalog") \in Nat
      BY <1>0, FilesTyped
    <2>3. Grows /\ \A u \in {"plan", "check", "spec", "workflow"} : files'[u] = files[u]
      BY <1>0, <1>1, SideFile DEF PrepareSpecs, Put
    <2> QED BY <1>0, <1>1, <2>1, <2>2, <2>3, QuietStep DEF PrepareSpecs
  <1>2. CASE PrepareDryRun
    <2>1. CASE Latest("spec") > 0 /\ Writable("policy", Latest("policy") + 1)
      <3>1. Owned'
        BY <1>2, <2>1 DEF PrepareDryRun, Idle, Owned, Carries
      <3>2. Latest("policy") \in Nat /\ Latest("spec") \in Nat
        BY <1>0, FilesTyped
      <3>3. [spec |-> Latest("spec")] \in Bodies
        BY <3>2 DEF Bodies
      <3>4. Grows /\ \A u \in {"plan", "check", "spec", "workflow"} : files'[u] = files[u]
        <4>1. /\ files["report"] \in Seq(Bodies) /\ files["policy"] \in Seq(Bodies)
              /\ \A u \in Types : files[u] \in Seq(Bodies) /\ Len(files[u]) \in Nat
          BY <1>0, FilesTyped
        <4>2. /\ files'["report"] = Append(files["report"], <<>>)
              /\ files'["policy"] = Append(files["policy"], [spec |-> Latest("spec")])
              /\ \A u \in Types \ {"report", "policy"} : files'[u] = files[u]
              /\ DOMAIN files' = Types
              /\ files' = [u \in Types |-> files'[u]]
          BY <1>0, <1>2, <2>1 DEF PrepareDryRun, Shape
        <4>3. /\ files'["report"] \in Seq(Bodies)
              /\ Len(files'["report"]) = Len(files["report"]) + 1
              /\ \A j \in 1..Len(files["report"]) : files'["report"][j] = files["report"][j]
          BY <1>0, <4>1, <4>2, AppendRow
        <4>4. /\ files'["policy"] \in Seq(Bodies)
              /\ Len(files'["policy"]) = Len(files["policy"]) + 1
              /\ \A j \in 1..Len(files["policy"]) : files'["policy"][j] = files["policy"][j]
          BY <1>0, <3>3, <4>1, <4>2, AppendRow
        <4>5. files' \in [Types -> Seq(Bodies)]
          BY <4>1, <4>2, <4>3, <4>4
        <4>6. \A u \in Types :
                /\ Len(files'[u]) \in Nat /\ Len(files[u]) <= Len(files'[u])
                /\ \A i \in 1..Len(files[u]) : files'[u][i] = files[u][i]
          <5> TAKE u \in Types
          <5>1. CASE u \in {"report", "policy"}
            BY <5>1, <4>1, <4>3, <4>4
          <5>2. CASE u \notin {"report", "policy"}
            BY <5>2, <4>1, <4>2
          <5> QED BY <5>1, <5>2
        <4>7. Grows
          BY <4>1, <4>5, <4>6 DEF Grows
        <4> QED BY <4>2, <4>7 DEF Types, RefTypes
      <3> QED BY <1>0, <1>2, <2>1, <3>1, <3>2, <3>4, QuietStep DEF PrepareDryRun
    <2>2. CASE ~(Latest("spec") > 0 /\ Writable("policy", Latest("policy") + 1))
      <3>1. Grows /\ \A u \in {"plan", "check", "spec", "workflow"} : files'[u] = files[u]
        BY <1>0, <1>2, <2>2, SideFile DEF PrepareDryRun, Put
      <3> QED BY <1>0, <1>2, <2>2, <3>1, EndsQuietly DEF PrepareDryRun, Finish
    <2> QED BY <2>1, <2>2
  <1>3. CASE decideSpecGeneration
    <2>1. Owned'
      BY <1>3 DEF decideSpecGeneration, Run, Idle, Owned, Carries
    <2>2. /\ refs' \in [RefTypes -> Nat]
          /\ refs'["spec"] = refs["spec"] /\ refs'["workflow"] = refs["workflow"]
      BY <1>0, <1>3 DEF decideSpecGeneration, Shape
    <2>3. Grows
      BY <1>0, <1>3, SameFiles DEF decideSpecGeneration
    <2> QED BY <1>3, <2>1, <2>2, <2>3, QuietStep DEF decideSpecGeneration, Run, Idle
  <1>4. CASE decideExecutionDryRun
    <2>1. /\ refs' \in [RefTypes -> Nat]
          /\ refs'["spec"] = refs["spec"] /\ refs'["workflow"] = refs["workflow"]
      <3>1. cmd.rev \in Nat /\ refs["report"] + 1 \in Nat
        BY <1>0 DEF Shape
      <3>2. refs' = [[refs EXCEPT !["report"] = refs["report"] + 1] EXCEPT !["policy"] = cmd.rev]
        BY <1>0, <1>4 DEF decideExecutionDryRun
      <3> QED BY <1>0, <3>1, <3>2
    <2>2. Grows
      BY <1>0, <1>4, SameFiles DEF decideExecutionDryRun
    <2> QED BY <1>4, <2>1, <2>2, EndsQuietly DEF decideExecutionDryRun, Finish
  <1>5. CASE Refuse
    <2>1. Grows
      BY <1>0, <1>5, SameFiles DEF Refuse
    <2> QED BY <1>0, <1>5, <2>1, EndsQuietly DEF Refuse, Finish
  <1> QED BY <1>1, <1>2, <1>3, <1>4, <1>5

(* The Plan a Spec agent, a Compiler or a checker read is the active one:   *)
(* outside PLAN_GENERATION a Plan file that can be read is that revision.   *)
LEMMA ReadPlanIsActive ==
    ASSUME PlanningInv, stage # "PLAN_GENERATION", Latest("plan") > 0
    PROVE  Latest("plan") = plan.rev /\ plan.rev \in Nat
  <1>1. "plan" \in Types
    BY DEF Types
  <1> QED BY <1>1, FilesTyped DEF PlanningInv, PlanIsLatest, Shape

(* A Provider run that completed with a valid body.                         *)
LEMMA ResultSound ==
    ASSUME PlanningInv,
           decideDiscussionTurnResult \/ decidePlanGenerated \/ decideCheckResult
             \/ decidePatchProposed \/ workflowCompile
    PROVE  PlanningInv'
  <1>0. Shape /\ plan.rev \in Nat /\ \A t \in Types : Latest(t) \in Nat
    BY FilesTyped DEF PlanningInv, Shape
  <1>a. {"turn", "plan", "spec", "catalog"} \subseteq Types
    BY DEF Types, RefTypes
  <1>1. CASE decideDiscussionTurnResult
    <2>1. Owned'
      BY <1>1 DEF decideDiscussionTurnResult, Write, Owned, Carries, Bodies
    <2> QED BY <1>1, <2>1, SameRefs DEF decideDiscussionTurnResult, Write
  <1>2. CASE decidePlanGenerated
    <2>1. [turn |-> Latest("turn")] \in Bodies
      BY <1>0, <1>a DEF Bodies
    <2>2. Owned'
      BY <1>2, <2>1 DEF decidePlanGenerated, Write, PlanningInv, Owned, Carries
    <2> QED BY <1>0, <1>2, <2>2, SameRefs DEF decidePlanGenerated, Write
  <1>3. CASE decideCheckResult
    <2>1. PICK v \in Verdicts :
            Write("check", [plan |-> plan.rev, read |-> Latest("plan"), verdict |-> v], 0)
      BY <1>3 DEF decideCheckResult
    <2>2. stage = "PLAN_CHECK" /\ Latest("plan") = plan.rev
      BY <1>3, ReadPlanIsActive DEF decideCheckResult, PlanningInv, Owned
    <2>3. cmd'.body \in CheckBodies /\ cmd'.body.plan = plan.rev /\ cmd'.body.read = plan.rev
      BY <1>0, <2>1, <2>2 DEF Write, CheckBodies
    <2>4. Owned'
      BY <1>3, <2>1, <2>2, <2>3 DEF decideCheckResult, Write, Owned, Carries, Bodies
    <2> QED BY <1>3, <2>1, <2>4, SameRefs DEF decideCheckResult, Write
  <1>4. CASE decidePatchProposed
    <2>1. /\ cmd' = [kind |-> "compile", at |-> "compile", body |-> cmd.body, rev |-> cmd.rev]
          /\ cmd.rev \in Nat
      BY <1>0, <1>4 DEF decidePatchProposed, Shape
    <2>2. Owned'
      BY <1>4, <2>1 DEF decidePatchProposed, PlanningInv, Owned, Carries
    <2> QED BY <1>4, <2>1, <2>2, SameRefs DEF decidePatchProposed
  <1>5. CASE workflowCompile
    <2>1. stage = "WORKFLOW_GENERATION" /\ Latest("plan") = plan.rev
      BY <1>5, ReadPlanIsActive DEF workflowCompile, PlanningInv, Owned
    <2>2. cmd'.body \in GraphBodies /\ cmd'.body.plan = plan.rev
      BY <1>0, <1>a, <1>5, <2>1 DEF workflowCompile, Write, GraphBodies
    <2>3. Owned'
      BY <1>5, <2>1, <2>2 DEF workflowCompile, Write, Owned, Carries, Bodies
    <2> QED BY <1>5, <2>3, SameRefs DEF workflowCompile, Write
  <1> QED BY <1>1, <1>2, <1>3, <1>4, <1>5

(* Specs derived from the approved Plan; the catalog may have grown first.  *)
LEMMA SpecResultSound ==
    ASSUME PlanningInv, decideSpecsGenerated
    PROVE  PlanningInv'
  <1>0. Shape /\ refs \in [RefTypes -> Nat] /\ <<>> \in Bodies
        /\ {"catalog", "spec", "workflow"} \subseteq RefTypes
        /\ Latest("catalog") \in Nat
    BY FilesTyped DEF PlanningInv, Shape, Bodies, Types, RefTypes
  <1>1. /\ stage \in {"SPEC_GENERATION", "WORKFLOW_GENERATION"}
        /\ Latest("plan") = plan.rev /\ plan.rev \in Nat
    BY ReadPlanIsActive DEF decideSpecsGenerated, PlanningInv, Owned
  <1>2. cmd'.body \in SpecBodies /\ cmd'.body.plan = plan.rev
    BY <1>0, <1>1 DEF decideSpecsGenerated, Write, SpecBodies
  <1>3. Owned'
    BY <1>1, <1>2 DEF decideSpecsGenerated, Write, Owned, Carries, Bodies
  <1>4. CASE UNCHANGED <<files, torn, refs>>
    BY <1>3, <1>4, SameRefs DEF decideSpecsGenerated, Write
  <1>5. CASE /\ Put("catalog", <<>>)
             /\ refs' = [refs EXCEPT !.catalog = Latest("catalog") + 1]
    <2>1. Grows /\ \A u \in {"plan", "check", "spec", "workflow"} : files'[u] = files[u]
      BY <1>0, <1>5, SideFile DEF Put
    <2>2. /\ refs' \in [RefTypes -> Nat]
          /\ refs'["spec"] = refs["spec"] /\ refs'["workflow"] = refs["workflow"]
      BY <1>0, <1>5
    <2> QED BY <1>3, <2>1, <2>2, QuietStep DEF decideSpecsGenerated, Write
  <1> QED BY <1>4, <1>5 DEF decideSpecsGenerated

(* A run that failed: a Plan under check is a draft again.                  *)
LEMMA FindingSound ==
    ASSUME PlanningInv, settleSessionFinding
    PROVE  PlanningInv'
  <1>0. Shape /\ refs \in [RefTypes -> Nat] /\ <<>> \in Bodies
    BY DEF PlanningInv, Shape, Bodies
  <1>1. Grows /\ \A u \in {"plan", "check", "spec", "workflow"} : files'[u] = files[u]
    <2>1. CASE UNCHANGED files
      BY <1>0, <2>1, SameFiles
    <2>2. CASE Put("catalog", <<>>)
      BY <1>0, <2>2, SideFile DEF Put
    <2> QED BY <2>1, <2>2 DEF settleSessionFinding
  <1>2. CASE cmd.kind # "check"
    BY <1>0, <1>1, <1>2, EndsQuietly DEF settleSessionFinding, Finish
  <1>3. CASE cmd.kind = "check"
    <2>1. stage = "PLAN_CHECK" /\ UNCHANGED <<stage, refs, approvals>> /\ cmd' = Idle
          /\ plan' = [plan EXCEPT !.status = "DRAFT"]
      BY <1>3 DEF settleSessionFinding, Finish, PlanningInv, Owned
    <2>2. plan' \in [rev : Nat, status : PlanStatuses] /\ plan'.rev = plan.rev
          /\ plan'.status = "DRAFT"
      BY <1>0, <2>1 DEF Shape, PlanStatuses
    <2>3. Owned' /\ cmd'.rev \in Nat
           /\ cmd' = [kind |-> cmd'.kind, at |-> cmd'.at, body |-> cmd'.body, rev |-> cmd'.rev]
      BY <2>1, IdleOwnsNothing
    <2>4. Shape'
      BY <1>0, <1>1, <2>1, <2>2, <2>3 DEF Shape, Grows
    <2>5. PlanIsLatest' /\ CheckedWasPassed'
      BY <1>1, <2>1, <2>2 DEF PlanningInv, PlanIsLatest, CheckedWasPassed
    <2>6. Recorded' /\ OnePlanThroughout'
      BY <1>0, <1>1, <2>1, <2>2 DEF PlanningInv, Recorded, PastPlanGate, OnePlanThroughout
    <2>7. ApprovedWasChecked'
      BY <1>1, <2>1, ChecksKept DEF PlanningInv
    <2> QED BY <2>3, <2>4, <2>5, <2>6, <2>7 DEF PlanningInv
  <1> QED BY <1>2, <1>3

(* The write of the body a command carries.  A Plan file that the aggregate *)
(* does not name yet can only appear in PLAN_GENERATION.                    *)
LEMMA WriteSound ==
    ASSUME PlanningInv, artifactWrite
    PROVE  PlanningInv'
  <1>0. Shape /\ refs \in [RefTypes -> Nat] /\ UNCHANGED <<stage, plan, refs, approvals>>
    BY DEF PlanningInv, Shape, artifactWrite
  <1>1. /\ cmd.at = "write" /\ cmd.body \in Bodies
        /\ cmd.kind \in {"discuss", "plan", "check", "spec", "workflow"}
    BY DEF PlanningInv, Owned, artifactWrite
  <1>2. WriteType \in {"turn", "plan", "check", "spec", "workflow"} /\ WriteType \in Types
        /\ (cmd.kind # "discuss" => WriteType = cmd.kind)
        /\ (cmd.kind = "discuss" => WriteType = "turn")
    BY <1>1 DEF WriteType, Types, RefTypes
  <1>3. CASE /\ Writable(WriteType, WriteRev)
             /\ Put(WriteType, cmd.body)
             /\ cmd' = [cmd EXCEPT !.at = "record", !.rev = WriteRev]
    <2>1. /\ Grows
          /\ Len(files'[WriteType]) = Len(files[WriteType]) + 1
          /\ files'[WriteType][Len(files[WriteType]) + 1] = cmd.body
          /\ \A u \in Types : u # WriteType => files'[u] = files[u]
      BY <1>0, <1>1, <1>2, <1>3, PutFile DEF Put
    <2>2. /\ cmd' = [kind |-> cmd.kind, at |-> "record", body |-> cmd.body, rev |-> WriteRev]
          /\ WriteRev = Len(files'[WriteType]) /\ WriteRev \in Nat /\ WriteRev > 0
          /\ files'[WriteType][WriteRev] = cmd.body
      <3>1. Len(files[WriteType]) \in Nat
        BY <1>0, <1>2, FilesTyped
      <3>2. WriteRev = Len(files[WriteType]) + 1
        BY <1>3 DEF Writable
      <3>3. cmd' = [kind |-> cmd.kind, at |-> "record", body |-> cmd.body, rev |-> WriteRev]
        <4>1. cmd = [kind |-> cmd.kind, at |-> cmd.at, body |-> cmd.body, rev |-> cmd.rev]
          BY <1>0 DEF Shape
        <4> QED BY <1>3, <4>1
      <3> QED BY <2>1, <3>1, <3>2, <3>3
    <2>3. Shape'
      BY <1>0, <2>1, <2>2 DEF Shape, Grows
    <2>4. PlanIsLatest'
      <3>1. "plan" \in Types
        BY DEF Types
      <3> QED BY <1>0, <1>2, <2>1, <3>1 DEF PlanningInv, PlanIsLatest, Owned
    <2>5. CheckedWasPassed'
      BY <1>0, <2>1, PassKept DEF PlanningInv, CheckedWasPassed
    <2>6. Recorded'
      <3>1. "spec" \in Types /\ "workflow" \in Types
        BY DEF Types, RefTypes
      <3>2. /\ Len(files["spec"]) <= Len(files'["spec"])
            /\ Len(files["workflow"]) <= Len(files'["workflow"])
            /\ Len(files["spec"]) \in Nat /\ Len(files'["spec"]) \in Nat
            /\ Len(files["workflow"]) \in Nat /\ Len(files'["workflow"]) \in Nat
            /\ refs["spec"] \in Nat /\ refs["workflow"] \in Nat
        BY <1>0, <2>1, <3>1 DEF Grows, RefTypes
      <3>3. refs'["spec"] <= Len(files'["spec"]) /\ refs'["workflow"] <= Len(files'["workflow"])
        BY <1>0, <3>2 DEF PlanningInv, Recorded
      <3> QED BY <1>0, <3>3 DEF PlanningInv, Recorded, PastPlanGate, PlanApproved
    <2>7. ApprovedWasChecked'
      BY <1>0, <2>1, ChecksKept DEF PlanningInv
    <2>8. OnePlanThroughout'
      <3>1. "spec" \in Types /\ "workflow" \in Types
        BY DEF Types, RefTypes
      <3>2. refs["spec"] > 0 => refs["spec"] \in 1..Len(files["spec"])
        BY <1>0, <2>1, <3>1 DEF PlanningInv, Recorded, Grows, RefTypes
      <3>3. refs["workflow"] > 0 => refs["workflow"] \in 1..Len(files["workflow"])
        BY <1>0, <2>1, <3>1 DEF PlanningInv, Recorded, Grows, RefTypes
      <3>4. /\ refs["spec"] > 0 => files'["spec"][refs["spec"]] = files["spec"][refs["spec"]]
            /\ refs["workflow"] > 0 =>
                 files'["workflow"][refs["workflow"]] = files["workflow"][refs["workflow"]]
        BY <2>1, <3>1, <3>2, <3>3 DEF Grows
      <3> QED BY <1>0, <3>4 DEF PlanningInv, OnePlanThroughout, PlanApproved
    <2>9. Owned'
      BY <1>0, <1>1, <1>2, <2>2 DEF PlanningInv, Owned, Carries
    <2> QED BY <2>3, <2>4, <2>5, <2>6, <2>7, <2>8, <2>9 DEF PlanningInv
  <1>4. CASE Finish /\ UNCHANGED <<files, torn>>
    <2>1. Grows
      BY <1>0, <1>4, SameFiles
    <2> QED BY <1>0, <1>4, <2>1, EndsQuietly DEF Finish
  <1> QED BY <1>3, <1>4 DEF artifactWrite

(* A new Plan revision: nothing derived from the old one is recorded.       *)
LEMMA PlanRecordedSound ==
    ASSUME PlanningInv, planRevisionRecorded
    PROVE  PlanningInv'
  <1>1. /\ stage = "PLAN_GENERATION" /\ cmd.rev = Len(files["plan"]) /\ cmd.rev \in Nat
        /\ refs["spec"] = 0 /\ refs["workflow"] = 0
    BY DEF planRevisionRecorded, PlanningInv, Owned, Recorded, Shape, RefTypes
  <1>2. /\ plan' = [rev |-> cmd.rev, status |-> "DRAFT"] /\ stage' = "PLAN_CHECK"
        /\ cmd' = Idle /\ UNCHANGED <<refs, files, approvals>>
    BY DEF planRevisionRecorded, Finish
  <1>3. Owned' /\ cmd'.rev \in Nat
        /\ cmd' = [kind |-> cmd'.kind, at |-> cmd'.at, body |-> cmd'.body, rev |-> cmd'.rev]
    BY <1>2, IdleOwnsNothing
  <1>4. Shape'
    BY <1>1, <1>2, <1>3 DEF PlanningInv, Shape, Stages, PlanStatuses
  <1>5. PlanIsLatest' /\ CheckedWasPassed'
    BY <1>1, <1>2 DEF PlanIsLatest, CheckedWasPassed
  <1>6. Recorded' /\ OnePlanThroughout' /\ ApprovedWasChecked'
    BY <1>1, <1>2 DEF PlanningInv, Recorded, PastPlanGate, OnePlanThroughout, ApprovedWasChecked
  <1> QED BY <1>3, <1>4, <1>5, <1>6 DEF PlanningInv

(* The verdict moves the Plan: a pass is on file for the active revision.   *)
LEMMA CheckRecordedSound ==
    ASSUME PlanningInv, checkResultCommitted
    PROVE  PlanningInv'
  <1>0. Shape /\ refs \in [RefTypes -> Nat] /\ "check" \in RefTypes /\ "check" \in Types
        /\ UNCHANGED <<files, approvals>> /\ cmd' = Idle
    BY DEF PlanningInv, Shape, RefTypes, Types, checkResultCommitted, Finish
  <1>1. /\ stage = "PLAN_CHECK" /\ cmd.body \in CheckBodies
        /\ cmd.body.plan = plan.rev /\ cmd.body.read = plan.rev
        /\ cmd.rev = Len(files["check"]) /\ cmd.rev > 0 /\ cmd.rev \in Nat
        /\ files["check"][cmd.rev] = cmd.body
    BY DEF checkResultCommitted, PlanningInv, Owned, Carries, Shape
  <1>2. cmd.body.verdict \in Verdicts
    BY <1>1 DEF CheckBodies
  <1>3. refs["spec"] = 0 /\ refs["workflow"] = 0
    BY <1>0, <1>1 DEF PlanningInv, Recorded, RefTypes
  <1>4. /\ refs' \in [RefTypes -> Nat]
        /\ refs'["spec"] = refs["spec"] /\ refs'["workflow"] = refs["workflow"]
    BY <1>0, <1>1 DEF checkResultCommitted, RefTypes
  <1>5. \E st \in {"CHECKED", "REJECTED", "DRAFT"} :
          /\ plan' = [plan EXCEPT !.status = st]
          /\ st = "CHECKED" => cmd.body.verdict = "pass"
    <2>1. CASE cmd.body.verdict = "pass"
      BY <2>1 DEF checkResultCommitted
    <2>2. CASE cmd.body.verdict = "reject"
      BY <2>2 DEF checkResultCommitted
    <2>3. CASE cmd.body.verdict = "needs_revision"
      BY <2>3 DEF checkResultCommitted
    <2>4. CASE cmd.body.verdict = "needs_discussion"
      BY <2>4 DEF checkResultCommitted
    <2> QED BY <1>2, <2>1, <2>2, <2>3, <2>4 DEF Verdicts
  <1>6. stage' \in {"PLAN_CHECK", "PLAN_GENERATION", "REQUIREMENT_DISCUSSION"}
    <2>1. CASE cmd.body.verdict = "pass"
      BY <1>1, <2>1 DEF checkResultCommitted
    <2>2. CASE cmd.body.verdict = "reject"
      BY <1>1, <2>2 DEF checkResultCommitted
    <2>3. CASE cmd.body.verdict = "needs_revision"
      BY <2>3 DEF checkResultCommitted
    <2>4. CASE cmd.body.verdict = "needs_discussion"
      BY <2>4 DEF checkResultCommitted
    <2> QED BY <1>2, <2>1, <2>2, <2>3, <2>4 DEF Verdicts
  <1>7. /\ plan' \in [rev : Nat, status : PlanStatuses] /\ plan'.rev = plan.rev
        /\ plan'.status \in {"CHECKED", "REJECTED", "DRAFT"}
        /\ plan'.status = "CHECKED" => cmd.body.verdict = "pass"
    BY <1>0, <1>5 DEF Shape, PlanStatuses
  <1>8. Owned' /\ cmd'.rev \in Nat
        /\ cmd' = [kind |-> cmd'.kind, at |-> cmd'.at, body |-> cmd'.body, rev |-> cmd'.rev]
    BY <1>0, IdleOwnsNothing
  <1>9. Shape'
    BY <1>0, <1>4, <1>6, <1>7, <1>8 DEF Shape, Stages
  <1>10. PlanIsLatest'
    BY <1>0, <1>1, <1>7 DEF PlanningInv, PlanIsLatest
  <1>11. CheckedWasPassed'
    <2>1. cmd.body.verdict = "pass" => Passed(files["check"], plan.rev)
      BY <1>1 DEF Passed
    <2>2. cmd.body.verdict = "pass" => Passed(files'["check"], plan'.rev)
      BY <1>0, <1>7, <2>1 DEF Passed
    <2> QED BY <1>7, <2>2 DEF CheckedWasPassed
  <1>12. Recorded' /\ OnePlanThroughout' /\ ApprovedWasChecked'
    BY <1>0, <1>3, <1>4, <1>6 DEF PlanningInv, Recorded, PastPlanGate, OnePlanThroughout,
                                   ApprovedWasChecked
  <1> QED BY <1>8, <1>9, <1>10, <1>11, <1>12 DEF PlanningInv

(* Specs and Workflows: the file the reference points at is the body.       *)
LEMMA DerivedRecordedSound ==
    ASSUME PlanningInv, specRevisionRecorded \/ workflowRevisionRecorded
    PROVE  PlanningInv'
  <1>0. /\ Shape /\ refs \in [RefTypes -> Nat] /\ "spec" \in RefTypes /\ "workflow" \in RefTypes
        /\ UNCHANGED <<plan, files, approvals>> /\ cmd' = Idle /\ cmd.rev \in Nat
    BY DEF PlanningInv, Shape, RefTypes, specRevisionRecorded, workflowRevisionRecorded, Finish
  <1>1. Owned' /\ cmd'.rev \in Nat
        /\ cmd' = [kind |-> cmd'.kind, at |-> cmd'.at, body |-> cmd'.body, rev |-> cmd'.rev]
    BY <1>0, IdleOwnsNothing
  <1>2. ApprovedWasChecked' /\ CheckedWasPassed'
    BY <1>0 DEF PlanningInv, ApprovedWasChecked, CheckedWasPassed
  <1>3. CASE specRevisionRecorded
    <2>1. /\ stage \in {"SPEC_GENERATION", "WORKFLOW_GENERATION"}
          /\ cmd.rev = Len(files["spec"]) /\ cmd.rev > 0
          /\ files["spec"][cmd.rev].plan = plan.rev
      BY <1>3 DEF specRevisionRecorded, PlanningInv, Owned, Carries
    <2>2. stage' = "WORKFLOW_GENERATION" /\ refs' = [refs EXCEPT !["spec"] = cmd.rev]
      BY <1>3 DEF specRevisionRecorded
    <2>3. refs' \in [RefTypes -> Nat] /\ refs'["spec"] = cmd.rev
          /\ refs'["workflow"] = refs["workflow"]
      BY <1>0, <2>2
    <2>4. Shape' /\ PlanIsLatest'
      BY <1>0, <1>1, <2>1, <2>2, <2>3 DEF Shape, Stages, PlanIsLatest, PlanningInv
    <2>5. Recorded'
      BY <1>0, <2>1, <2>2, <2>3 DEF PlanningInv, Recorded, PastPlanGate, PlanApproved
    <2>6. OnePlanThroughout'
      BY <1>0, <2>1, <2>2, <2>3 DEF PlanningInv, OnePlanThroughout, PlanApproved
    <2> QED BY <1>1, <1>2, <2>4, <2>5, <2>6 DEF PlanningInv
  <1>4. CASE workflowRevisionRecorded
    <2>1. /\ stage = "WORKFLOW_GENERATION"
          /\ cmd.rev = Len(files["workflow"]) /\ cmd.rev > 0
          /\ files["workflow"][cmd.rev].plan = plan.rev
      BY <1>4 DEF workflowRevisionRecorded, PlanningInv, Owned, Carries
    <2>2. stage' = stage /\ refs' = [refs EXCEPT !["workflow"] = cmd.rev]
      BY <1>4 DEF workflowRevisionRecorded
    <2>3. refs' \in [RefTypes -> Nat] /\ refs'["workflow"] = cmd.rev
          /\ refs'["spec"] = refs["spec"]
      BY <1>0, <2>2
    <2>4. Shape' /\ PlanIsLatest'
      BY <1>0, <1>1, <2>1, <2>2, <2>3 DEF Shape, Stages, PlanIsLatest, PlanningInv
    <2>5. Recorded'
      BY <1>0, <2>1, <2>2, <2>3 DEF PlanningInv, Recorded, PastPlanGate, PlanApproved
    <2>6. OnePlanThroughout'
      BY <1>0, <2>1, <2>2, <2>3 DEF PlanningInv, OnePlanThroughout, PlanApproved
    <2> QED BY <1>1, <1>2, <2>4, <2>5, <2>6 DEF PlanningInv
  <1> QED BY <1>3, <1>4

(* The Plan gate approves exactly the active, checked revision.             *)
LEMMA PlanGateSound ==
    ASSUME PlanningInv, NEW r \in 1..MaxRev, decidePlanApproval(r)
    PROVE  PlanningInv'
  <1> DEFINE row == [gate |-> "PLAN", plan |-> r]
  <1>1. /\ plan.rev = r /\ plan.status = "CHECKED" /\ stage = "PLAN_CHECK" /\ cmd = Idle
        /\ plan' = [plan EXCEPT !.status = "APPROVED"]
        /\ approvals' = Append(approvals, row) /\ stage' = "SPEC_GENERATION"
        /\ UNCHANGED <<refs, files, cmd>>
    BY DEF decidePlanApproval, CanIssue
  <1>2. Shape /\ approvals \in Seq(Gates) /\ row \in Gates
    BY PlanningBounds DEF PlanningInv, Shape, Gates
  <1>3. /\ approvals' \in Seq(Gates) /\ Len(approvals') = Len(approvals) + 1
        /\ Len(approvals) \in Nat
        /\ \A j \in 1..Len(approvals) : approvals'[j] = approvals[j]
        /\ approvals'[Len(approvals) + 1] = row
    BY <1>1, <1>2, AppendRow
  <1>4. plan' \in [rev : Nat, status : PlanStatuses] /\ plan'.rev = plan.rev
        /\ plan'.status = "APPROVED"
    BY <1>1, <1>2 DEF Shape, PlanStatuses
  <1>5. refs["spec"] = 0 /\ refs["workflow"] = 0
    BY <1>1 DEF PlanningInv, Recorded, Shape, RefTypes
  <1>6. Shape'
    BY <1>1, <1>2, <1>3, <1>4 DEF Shape, Stages
  <1>7. PlanIsLatest' /\ CheckedWasPassed'
    BY <1>1, <1>4 DEF PlanningInv, PlanIsLatest, CheckedWasPassed
  <1>8. PlanApproved(plan.rev)'
    <2>1. Len(approvals) + 1 \in 1..Len(approvals')
      BY <1>3
    <2> QED BY <1>1, <1>3, <1>4, <2>1 DEF PlanApproved
  <1>9. Recorded' /\ OnePlanThroughout'
    BY <1>1, <1>4, <1>5, <1>8 DEF PlanningInv, Recorded, OnePlanThroughout
  <1>10. ApprovedWasChecked'
    <2>1. Passed(files["check"], r)
      BY <1>1 DEF PlanningInv, CheckedWasPassed
    <2>2. \A i \in 1..Len(approvals) :
            approvals[i].gate = "PLAN" => Passed(files["check"], approvals[i].plan)
      BY DEF PlanningInv, ApprovedWasChecked, Passed
    <2>3. \A i \in 1..Len(approvals') :
            approvals'[i].gate = "PLAN" => Passed(files["check"], approvals'[i].plan)
      BY <1>3, <2>1, <2>2
    <2> QED BY <1>1, <2>3 DEF ApprovedWasChecked, Passed
  <1>11. Owned'
    BY <1>1, IdleOwnsNothing
  <1> QED BY <1>6, <1>7, <1>9, <1>10, <1>11 DEF PlanningInv

(* The Execution gate: the stage moves on, on the same Plan.                *)
LEMMA ExecutionGateSound ==
    ASSUME PlanningInv, decideExecutionApproval
    PROVE  PlanningInv'
  <1> DEFINE row == [gate |-> "EXECUTION", plan |-> plan.rev, spec |-> refs.spec,
                     catalog |-> refs.catalog, workflow |-> refs.workflow,
                     preflight |-> refs.report]
  <1>1. /\ stage = "WORKFLOW_GENERATION" /\ cmd = Idle /\ stage' = "EXECUTION"
        /\ approvals' = Append(approvals, row)
        /\ UNCHANGED <<plan, refs, files, cmd>>
    BY DEF decideExecutionApproval, CanIssue
  <1>2. Shape /\ approvals \in Seq(Gates) /\ row \in Gates
    BY DEF PlanningInv, Shape, Gates, RefTypes
  <1>3. /\ approvals' \in Seq(Gates) /\ Len(approvals') = Len(approvals) + 1
        /\ Len(approvals) \in Nat
        /\ \A j \in 1..Len(approvals) : approvals'[j] = approvals[j]
        /\ approvals'[Len(approvals) + 1] = row
    BY <1>1, <1>2, AppendRow
  <1>4. Shape' /\ PlanIsLatest' /\ CheckedWasPassed'
    BY <1>1, <1>2, <1>3 DEF PlanningInv, Shape, Stages, PlanIsLatest, CheckedWasPassed
  <1>5. PlanApproved(plan.rev)'
    <2>1. PICK i \in 1..Len(approvals) :
            approvals[i].gate = "PLAN" /\ approvals[i].plan = plan.rev
      BY <1>1 DEF PlanningInv, OnePlanThroughout, PlanApproved
    <2>2. i \in 1..Len(approvals') /\ approvals'[i] = approvals[i]
      BY <1>3, <2>1
    <2> QED BY <1>1, <2>1, <2>2 DEF PlanApproved
  <1>6. Recorded' /\ OnePlanThroughout'
    BY <1>1, <1>5 DEF PlanningInv, Recorded, OnePlanThroughout, PastPlanGate
  <1>7. ApprovedWasChecked'
    <2>1. row.gate # "PLAN"
      OBVIOUS
    <2>2. \A i \in 1..Len(approvals) :
            approvals[i].gate = "PLAN" => Passed(files["check"], approvals[i].plan)
      BY DEF PlanningInv, ApprovedWasChecked, Passed
    <2>3. \A i \in 1..Len(approvals') :
            approvals'[i].gate = "PLAN" => Passed(files["check"], approvals'[i].plan)
      BY <1>3, <2>1, <2>2
    <2> QED BY <1>1, <2>3 DEF ApprovedWasChecked, Passed
  <1>8. Owned'
    BY <1>1, IdleOwnsNothing
  <1> QED BY <1>4, <1>6, <1>7, <1>8 DEF PlanningInv

(* The controls move only the runtime and its Run; a command that dies      *)
(* leaves at most a file that no gate reads back.                           *)
LEMMA ControlSound ==
    ASSUME PlanningInv,
           StartWorkflow \/ PauseWorkflow \/ ResumeWorkflow \/ Die \/ DiePreparing
             \/ decideArtifactWrittenTurn
    PROVE  PlanningInv'
  <1>0. Shape /\ refs \in [RefTypes -> Nat] /\ <<>> \in Bodies
    BY DEF PlanningInv, Shape, Bodies
  <1>1. CASE StartWorkflow \/ PauseWorkflow \/ ResumeWorkflow
    <2>1. UNCHANGED <<stage, plan, refs, files, approvals>> /\ cmd' = Idle
      BY <1>1 DEF StartWorkflow, PauseWorkflow, ResumeWorkflow, CanIssue
    <2>2. Grows
      BY <1>0, <2>1, SameFiles
    <2> QED BY <1>0, <2>1, <2>2, EndsQuietly
  <1>2. CASE Die \/ decideArtifactWrittenTurn
    <2>1. UNCHANGED <<stage, plan, refs, files, approvals>> /\ cmd' = Idle
      BY <1>2 DEF Die, decideArtifactWrittenTurn, Finish
    <2>2. Grows
      BY <1>0, <2>1, SameFiles
    <2> QED BY <1>0, <2>1, <2>2, EndsQuietly
  <1>3. CASE DiePreparing
    <2>1. UNCHANGED <<stage, plan, refs, approvals>> /\ cmd' = Idle
      BY <1>3 DEF DiePreparing, CanIssue
    <2>2. Grows /\ \A u \in {"plan", "check", "spec", "workflow"} : files'[u] = files[u]
      <3>1. CASE UNCHANGED files
        BY <1>0, <3>1, SameFiles
      <3>2. CASE files' = [files EXCEPT !["report"] = Append(@, <<>>)]
        BY <1>0, <3>2, SideFile
      <3> QED BY <1>3, <3>1, <3>2 DEF DiePreparing
    <2> QED BY <1>0, <2>1, <2>2, EndsQuietly
  <1> QED BY <1>1, <1>2, <1>3

(* Every planning step keeps the invariant.                                 *)
LEMMA PlanningStepSound ==
    ASSUME PlanningInv, PlanningStep
    PROVE  PlanningInv'
  <1>1. CASE DiscussRequirement \/ CompileWorkflow \/ GeneratePlan \/ CheckPlan
    BY <1>1, BeginSound
  <1>2. CASE PrepareSpecs \/ PrepareDryRun \/ decideSpecGeneration
               \/ decideExecutionDryRun \/ Refuse
    BY <1>2, PreparedSound
  <1>3. CASE decideDiscussionTurnResult \/ decidePlanGenerated \/ decideCheckResult
               \/ decidePatchProposed \/ workflowCompile
    BY <1>3, ResultSound
  <1>4. CASE decideSpecsGenerated
    BY <1>4, SpecResultSound
  <1>5. CASE settleSessionFinding
    BY <1>5, FindingSound
  <1>6. CASE artifactWrite
    BY <1>6, WriteSound
  <1>7. CASE planRevisionRecorded
    BY <1>7, PlanRecordedSound
  <1>8. CASE checkResultCommitted
    BY <1>8, CheckRecordedSound
  <1>9. CASE specRevisionRecorded \/ workflowRevisionRecorded
    BY <1>9, DerivedRecordedSound
  <1>10. CASE \E r \in 1..MaxRev : decidePlanApproval(r)
    BY <1>10, PlanGateSound
  <1>11. CASE StartWorkflow \/ PauseWorkflow \/ ResumeWorkflow \/ Die \/ DiePreparing
                \/ decideArtifactWrittenTurn
    BY <1>11, ControlSound
  <1> QED BY <1>1, <1>2, <1>3, <1>4, <1>5, <1>6, <1>7, <1>8, <1>9, <1>10, <1>11
          DEF PlanningStep

(* Init: nothing was written, approved or adopted.                          *)
LEMMA PlanningInitSound ==
    ASSUME AdoptionInit
    PROVE  PlanningInv /\ AdoptionInv
  <1>1. /\ files = [t \in Types |-> <<>>] /\ approvals = <<>> /\ cmd = Idle
        /\ refs = [t \in RefTypes |-> 0] /\ stage = "REQUIREMENT_DISCUSSION"
        /\ plan = [rev |-> 0, status |-> "NONE"]
    BY DEF AdoptionInit, Init
  <1>2. {"plan", "check", "spec", "workflow"} \subseteq Types
        /\ {"check", "spec", "workflow"} \subseteq RefTypes
    BY DEF Types, RefTypes
  <1>3. Shape
    BY <1>1 DEF Shape, Stages, PlanStatuses, Idle
  <1>4. PlanIsLatest /\ CheckedWasPassed /\ Recorded
    BY <1>1, <1>2 DEF PlanIsLatest, CheckedWasPassed, Recorded, PastPlanGate
  <1>5. Owned
    BY <1>1 DEF Owned, Carries, Idle
  <1>6. ApprovedWasChecked /\ OnePlanThroughout
    BY <1>1, <1>2 DEF ApprovedWasChecked, OnePlanThroughout
  <1>7. AdoptionInv
    BY <1>1 DEF AdoptionInit, AdoptionInv, Adopter, AdoptedPassedGates, Idle
  <1> QED BY <1>3, <1>4, <1>5, <1>6, <1>7 DEF PlanningInv

-----------------------------------------------------------------------------
(* Adoption                                                                 *)

(* An adoption leaves everything planning recorded as it is.                *)
LEMMA AdoptionLeavesPlanning ==
    ASSUME PlanningInv, Unplanned, cmd'.kind \in {"none", "adopt"},
           cmd' = [kind |-> cmd'.kind, at |-> cmd'.at, body |-> cmd'.body, rev |-> 0],
           cmd'.at \notin {"write", "provider", "record"}
    PROVE  PlanningInv'
  <1>1. Owned'
    BY DEF Owned, Carries
  <1> QED BY <1>1, SameRefs DEF Unplanned

AdoptionStep ==
    \/ prepareAdoption \/ decideAdoptWorkspace
    \/ adoptionCodingProviderStart \/ decideAdoptionCodingRunEnded
    \/ decideAdoptionReviewRunEnded \/ adoptionReviewFailed
    \/ adoptionReviewInvalid \/ DieCoding

(* A step of the adoption keeps the invariant of planning.                 *)
LEMMA AdoptionStepKeepsPlanning ==
    ASSUME PlanningInv, AdoptionStep
    PROVE  PlanningInv'
  <1>1. Unplanned
    BY DEF AdoptionStep, prepareAdoption, decideAdoptWorkspace, adoptionCodingProviderStart,
           decideAdoptionCodingRunEnded, decideAdoptionReviewRunEnded, adoptionReviewFailed,
           adoptionReviewInvalid,
           DieCoding
  <1>2. \/ cmd' = Idle
        \/ \E at \in {"confirm", "coding", "settle", "review"} : \E b : cmd' = Adopting(at, b)
    BY DEF AdoptionStep, prepareAdoption, decideAdoptWorkspace, adoptionCodingProviderStart,
           decideAdoptionCodingRunEnded, decideAdoptionReviewRunEnded, adoptionReviewFailed,
           adoptionReviewInvalid,
           DieCoding, adoptionFailure
  <1>3. /\ cmd'.kind \in {"none", "adopt"}
        /\ cmd' = [kind |-> cmd'.kind, at |-> cmd'.at, body |-> cmd'.body, rev |-> 0]
        /\ cmd'.at \notin {"write", "provider", "record"}
    BY <1>2 DEF Idle, Adopting
  <1> QED BY <1>1, <1>3, AdoptionLeavesPlanning

(* The review Session an ended coding run goes on with is one of the rows.  *)
LEMMA ReviewSessionExists ==
    ASSUME \E i \in 1..Len(reviews) : reviews[i] = "STARTING",
           reviews \in Seq(ReviewStates)
    PROVE  adoptionReviewSessionOf \in 1..Len(reviews)
  <1> DEFINE T == {i \in 1..Len(reviews) : reviews[i] = "STARTING"}
  <1>1. Len(reviews) \in Nat
    BY LenProperties
  <1>2. T \subseteq Nat /\ T # {}
    BY <1>1
  <1>3. PICK x \in T : \A y \in T : x <= y
    BY <1>2, FirstRow
  <1>4. /\ x \in 1..Len(reviews) /\ reviews[x] = "STARTING"
        /\ \A j \in 1..(x - 1) : reviews[j] # "STARTING"
    BY <1>1, <1>3
  <1> QED BY <1>4 DEF adoptionReviewSessionOf

(* A planning step never continues an adoption, it can only end it.         *)
LEMMA PlanningEndsAdoption ==
    ASSUME PlanningInv, PlanningStep
    PROVE  cmd' = cmd \/ cmd'.kind # "adopt"
  <1>1. CASE artifactWrite
    <2>1. cmd.kind # "adopt" /\ cmd = [kind |-> cmd.kind, at |-> cmd.at, body |-> cmd.body,
                                       rev |-> cmd.rev]
      BY <1>1 DEF artifactWrite, PlanningInv, Owned, Shape
    <2>2. CASE cmd' = [cmd EXCEPT !.at = "record", !.rev = WriteRev]
      BY <2>1, <2>2
    <2>3. CASE cmd' = Idle
      BY <2>3 DEF Idle
    <2> QED BY <1>1, <2>2, <2>3 DEF artifactWrite, Finish
  <1>2. CASE decidePatchProposed
    <2>1. cmd.kind = "compile" /\ cmd' = [cmd EXCEPT !.at = "compile"]
          /\ cmd = [kind |-> cmd.kind, at |-> cmd.at, body |-> cmd.body, rev |-> cmd.rev]
      BY <1>2 DEF decidePatchProposed, PlanningInv, Shape
    <2> QED BY <2>1
  <1>3. CASE DiscussRequirement \/ CompileWorkflow \/ GeneratePlan \/ CheckPlan
               \/ decideSpecGeneration
    BY <1>3 DEF DiscussRequirement, CompileWorkflow, GeneratePlan, CheckPlan,
                decideSpecGeneration, Run, Idle
  <1>4. CASE PrepareSpecs \/ PrepareDryRun
    BY <1>4 DEF PrepareSpecs, PrepareDryRun, Finish, Idle
  <1>5. CASE decideDiscussionTurnResult \/ decidePlanGenerated \/ decideCheckResult
               \/ decideSpecsGenerated \/ workflowCompile
    BY <1>5 DEF decideDiscussionTurnResult, decidePlanGenerated, decideCheckResult,
                decideSpecsGenerated, workflowCompile, Write
  <1>6. CASE decideExecutionDryRun \/ Refuse \/ settleSessionFinding
               \/ decideArtifactWrittenTurn \/ planRevisionRecorded \/ checkResultCommitted
               \/ specRevisionRecorded \/ workflowRevisionRecorded \/ Die
    BY <1>6 DEF decideExecutionDryRun, Refuse, settleSessionFinding,
                decideArtifactWrittenTurn, planRevisionRecorded, checkResultCommitted,
                specRevisionRecorded, workflowRevisionRecorded, Die, Finish, Idle
  <1>7. CASE (\E r \in 1..MaxRev : decidePlanApproval(r)) \/ StartWorkflow \/ PauseWorkflow
               \/ ResumeWorkflow \/ DiePreparing
    BY <1>7 DEF decidePlanApproval, StartWorkflow, PauseWorkflow, ResumeWorkflow, DiePreparing
  <1> QED BY <1>1, <1>2, <1>3, <1>4, <1>5, <1>6, <1>7 DEF PlanningStep

(* Nothing the adoption relies on was touched.                              *)
LEMMA AdoptionUntouched ==
    ASSUME AdoptionInv, UNCHANGED <<candidate, verified, reviews, passed>>,
           cmd' = cmd \/ cmd'.kind # "adopt"
    PROVE  AdoptionInv'
  BY DEF AdoptionInv, Adopter, AdoptedPassedGates

(* A command that ends without a verdict leaves nothing to rely on.         *)
LEMMA AdoptionEnds ==
    ASSUME AdoptionInv, UNCHANGED <<verified, reviews, passed>>, cmd' = Idle
    PROVE  AdoptionInv'
  BY DEF AdoptionInv, Adopter, AdoptedPassedGates, Idle

(* One step per action of the adoption.                                     *)
LEMMA AdoptionStepSound ==
    ASSUME AdoptionInv, AdoptionStep
    PROVE  AdoptionInv'
  <1>0. reviews \in Seq(ReviewStates) /\ Len(reviews) \in Nat /\ Adopter /\ AdoptedPassedGates
    BY LenProperties DEF AdoptionInv
  <1>1. CASE prepareAdoption
    <2>1. /\ verified = 0 /\ cmd' = Adopting("confirm", ws)
          /\ UNCHANGED <<verified, reviews>>
          /\ ws.dirty \/ ws.head \in passed'
      BY <1>1 DEF prepareAdoption, adoptionAllowed, gateChain
    <2>2. Adopter' /\ AdoptedPassedGates'
      BY <2>1 DEF Adopter, Adopting, AdoptedPassedGates
    <2> QED BY <1>0, <2>1, <2>2 DEF AdoptionInv
  <1>2. CASE decideAdoptWorkspace
    <2>1. /\ verified = 0 /\ candidate' = cmd.body.head /\ reviews' = Append(reviews, "STARTING")
          /\ cmd' = IF cmd.body.dirty THEN Adopting("coding", <<>>)
                                      ELSE Adopting("review", Len(reviews) + 1)
          /\ UNCHANGED <<verified, passed>>
          /\ cmd.body.dirty \/ cmd.body.head \in passed
      BY <1>0, <1>2 DEF decideAdoptWorkspace, adoptionAllowed, Adopter
    <2>2. /\ reviews' \in Seq(ReviewStates) /\ Len(reviews') = Len(reviews) + 1
          /\ reviews'[Len(reviews) + 1] = "STARTING"
      BY <1>0, <2>1, AppendRow DEF ReviewStates
    <2>3. Len(reviews) + 1 \in 1..Len(reviews')
      BY <1>0, <2>2
    <2>4. Adopter'
      BY <2>1, <2>2, <2>3 DEF Adopter, Adopting
    <2>5. AdoptedPassedGates'
      BY <2>1 DEF AdoptedPassedGates
    <2> QED BY <2>2, <2>4, <2>5 DEF AdoptionInv
  <1>3. CASE adoptionCodingProviderStart
    <2>1. PICK done \in BOOLEAN, gates \in BOOLEAN, post \in Workspaces :
            /\ passed' = gateChain(post.head, Advanced(done, post) /\ gates)
            /\ cmd' = Adopting("settle",
                 [ok |-> done /\ (Advanced(done, post) => gates)
                         /\ (~post.dirty /\ post.head # ws.head => post.head > ws.head),
                  end |-> post, body |-> Advanced(done, post)])
      BY <1>3 DEF adoptionCodingProviderStart
    <2>2. Advanced(done, post) \in BOOLEAN
      BY DEF Advanced
    <2>3. cmd'.body.ok /\ cmd'.body.body => cmd'.body.end.head \in passed'
      BY <2>1, <2>2 DEF Adopting, gateChain
    <2>4. /\ cmd'.kind = "adopt" /\ cmd'.at = "settle"
          /\ verified = 0 /\ UNCHANGED <<candidate, verified, reviews>>
          /\ \E i \in 1..Len(reviews) : reviews[i] = "STARTING"
      BY <1>0, <1>3, <2>1 DEF adoptionCodingProviderStart, Adopter, Adopting
    <2>5. Adopter'
      BY <2>3, <2>4 DEF Adopter
    <2>6. AdoptedPassedGates'
      BY <2>4 DEF AdoptedPassedGates
    <2> QED BY <1>0, <2>4, <2>5, <2>6 DEF AdoptionInv
  <1>4. CASE decideAdoptionCodingRunEnded
    <2>1. /\ verified = 0 /\ UNCHANGED <<verified, reviews, passed>>
          /\ \E i \in 1..Len(reviews) : reviews[i] = "STARTING"
      BY <1>0, <1>4 DEF decideAdoptionCodingRunEnded, Adopter
    <2>2. CASE cmd' = Idle
      BY <2>1, <2>2, AdoptionEnds
    <2>3. CASE /\ cmd.body.ok /\ ~cmd.body.end.dirty /\ cmd.body.body
               /\ candidate' = cmd.body.end.head
               /\ cmd' = Adopting("review", adoptionReviewSessionOf)
      <3>1. candidate' \in passed
        BY <1>0, <1>4, <2>3 DEF decideAdoptionCodingRunEnded, Adopter
      <3>2. adoptionReviewSessionOf \in 1..Len(reviews)
        BY <1>0, <2>1, ReviewSessionExists
      <3>3. /\ cmd'.kind = "adopt" /\ cmd'.at = "review"
            /\ cmd'.body \in 1..Len(reviews)
        BY <2>3, <3>2 DEF Adopting
      <3>4. Adopter'
        BY <2>1, <3>1, <3>3 DEF Adopter
      <3>5. AdoptedPassedGates'
        BY <2>1 DEF AdoptedPassedGates
      <3> QED BY <1>0, <2>1, <3>4, <3>5 DEF AdoptionInv
    <2> QED BY <1>4, <2>2, <2>3 DEF decideAdoptionCodingRunEnded, adoptionFailure
  <1>5. CASE decideAdoptionReviewRunEnded
    <2>1. /\ verified = 0 /\ candidate \in passed /\ cmd.body \in 1..Len(reviews)
          /\ UNCHANGED passed /\ cmd' = Idle
      BY <1>0, <1>5 DEF decideAdoptionReviewRunEnded, Adopter, adoptionFailure
    <2>2. Adopter'
      BY <2>1 DEF Adopter, Idle
    <2>3. CASE verified' = candidate /\ reviews' = [reviews EXCEPT ![cmd.body] = "PASSED"]
      <3>1. /\ reviews' \in Seq(ReviewStates) /\ Len(reviews') = Len(reviews)
            /\ reviews'[cmd.body] = "PASSED"
        BY <1>0, <2>1, <2>3, ReplaceRow DEF ReviewStates
      <3>2. AdoptedPassedGates'
        BY <2>1, <2>3, <3>1 DEF AdoptedPassedGates
      <3> QED BY <2>2, <3>1, <3>2 DEF AdoptionInv
    <2>4. CASE UNCHANGED verified /\ reviews' = [reviews EXCEPT ![cmd.body] = "FAILED"]
      <3>1. reviews' \in Seq(ReviewStates)
        BY <1>0, <2>4, ReplaceRow DEF ReviewStates
      <3>2. AdoptedPassedGates'
        BY <2>1, <2>4 DEF AdoptedPassedGates
      <3> QED BY <2>2, <3>1, <3>2 DEF AdoptionInv
    <2> QED BY <1>5, <2>3, <2>4 DEF decideAdoptionReviewRunEnded
  <1>6. CASE adoptionReviewFailed
    <2>1. /\ verified = 0 /\ cmd.body \in 1..Len(reviews) /\ cmd' = Idle
          /\ UNCHANGED <<verified, passed>>
          /\ reviews' = [reviews EXCEPT ![cmd.body] = "FAILED"]
      BY <1>0, <1>6 DEF adoptionReviewFailed, Adopter
    <2>2. reviews' \in Seq(ReviewStates)
      BY <1>0, <2>1, ReplaceRow DEF ReviewStates
    <2>3. Adopter' /\ AdoptedPassedGates'
      BY <2>1 DEF Adopter, Idle, AdoptedPassedGates
    <2> QED BY <2>2, <2>3 DEF AdoptionInv
  <1>7. CASE adoptionReviewInvalid \/ DieCoding
    BY <1>7, AdoptionEnds DEF adoptionReviewInvalid, DieCoding
  <1> QED BY <1>1, <1>2, <1>3, <1>4, <1>5, <1>6, <1>7 DEF AdoptionStep

-----------------------------------------------------------------------------
(* Every step of the composition keeps both invariants.                     *)
LEMMA AdoptionNextSound ==
    ASSUME PlanningInv, AdoptionInv, [AdoptionNext]_<<vars, adoptionVars>>
    PROVE  PlanningInv' /\ AdoptionInv'
  <1>1. CASE PlanningStep /\ UNCHANGED adoptionVars
    BY <1>1, PlanningStepSound, PlanningEndsAdoption, AdoptionUntouched DEF adoptionVars
  <1>2. CASE ApproveExecution
    <2>1. cmd' = cmd
      BY <1>2 DEF ApproveExecution, decideExecutionApproval
    <2> QED BY <1>2, <2>1, ExecutionGateSound, AdoptionUntouched DEF ApproveExecution
  <1>3. CASE AdoptionStep
    BY <1>3, AdoptionStepKeepsPlanning, AdoptionStepSound
  <1>4. CASE ResumeBlocked \/ UserEdits \/ UNCHANGED <<vars, adoptionVars>>
    <2>1. /\ UNCHANGED <<stage, plan, refs, files, approvals, cmd>>
          /\ UNCHANGED <<candidate, verified, reviews, passed>>
      BY <1>4 DEF ResumeBlocked, UserEdits, Unplanned, vars, adoptionVars
    <2>2. Owned'
      BY <2>1 DEF PlanningInv, Owned, Carries
    <2>3. PlanningInv'
      BY <2>1, <2>2, SameRefs DEF PlanningInv, Shape
    <2> QED BY <2>1, <2>3, AdoptionUntouched
  <1> QED BY <1>1, <1>2, <1>3, <1>4 DEF AdoptionNext, AdoptionStep

(* Planning and adoption keep their invariants.                             *)
LEMMA PlanningInvariant == AdoptionSpec => [](PlanningInv /\ AdoptionInv)
  <1>1. AdoptionInit => PlanningInv /\ AdoptionInv
    BY PlanningInitSound
  <1>2. (PlanningInv /\ AdoptionInv) /\ [AdoptionNext]_<<vars, adoptionVars>>
          => (PlanningInv /\ AdoptionInv)'
    BY AdoptionNextSound
  <1> QED BY <1>1, <1>2, PTL DEF AdoptionSpec

(* A Plan the user approved (decidePlanApproval) was passed by a check of   *)
(* that very revision whose checker had read that very file, for any number *)
(* of revisions and of commands that died in between.                       *)
THEOREM PlansAreChecked == AdoptionSpec => []ApprovedWasChecked
  <1>1. PlanningInv => ApprovedWasChecked
    BY DEF PlanningInv
  <1> QED BY <1>1, PlanningInvariant, PTL

(* Past the Plan gate the recorded Specs and Workflow were derived from the *)
(* one active and approved Plan, although the Spec agent and the Compiler   *)
(* read whatever Plan file is latest.                                       *)
THEOREM OnePlanUnderlies == AdoptionSpec => []OnePlanThroughout
  <1>1. PlanningInv => OnePlanThroughout
    BY DEF PlanningInv
  <1> QED BY <1>1, PlanningInvariant, PTL

(* The Workspace head an adoption verified passed the gate chain and a      *)
(* review, whatever died, failed or was edited meanwhile.                   *)
THEOREM AdoptionIsGated == AdoptionSpec => []AdoptedPassedGates
  <1>1. AdoptionInv => AdoptedPassedGates
    BY DEF AdoptionInv
  <1> QED BY <1>1, PlanningInvariant, PTL

=============================================================================
