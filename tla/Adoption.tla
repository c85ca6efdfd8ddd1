------------------------------ MODULE Adoption ------------------------------
(***************************************************************************)
(* The Workspace Adoption Gate (app/adoption.go, decision/verify.go): after *)
(* an Execution approval that bound a frozen Change Set, the changes the    *)
(* user made in a native discussion become the verified Workspace head.     *)
(*                                                                          *)
(* A clean Workspace runs the gate chain while the command is prepared and  *)
(* goes straight to an independent review.  A dirty one first runs a        *)
(* managed coding Session that commits the changes; its result is re-frozen *)
(* and runs the chain itself.  The user edits and commits in the Workspace  *)
(* between any two steps, the coding Session may leave it in any state, and *)
(* the command may die between two steps or inside the coding effect.       *)
(*                                                                          *)
(* A commit is its distance from the base; a Change Set is the Workspace it *)
(* froze.  The gate chain (branch, commit policy, scope, catalog) has one   *)
(* outcome.  A refused preparation changes nothing and is no step.          *)
(***************************************************************************)
EXTENDS Planning

CONSTANTS
  MaxHead,    \* bound: commits in the Workspace
  MaxReviews  \* bound: adoptions started

ASSUME AdoptionBounds == MaxHead \in Nat \ {0} /\ MaxReviews \in Nat

VARIABLES
  ws,         \* the Workspace: its head and whether it is dirty
  frozen,     \* the Change Set files; the approval bound the first
  candidate,  \* Workflow.CandidateWorkspaceHead (0: none)
  verified,   \* Workflow.VerifiedWorkspaceHead (0: not adopted)
  reviews,    \* the review Session rows, in order
  passed      \* ghost: the heads the gate chain accepted

adoptionVars == <<ws, frozen, candidate, verified, reviews, passed>>

Workspaces == [head : 1..MaxHead, dirty : BOOLEAN]

(* Bound: adoptions are explored after a planning that wrote every Artifact *)
(* once and never died; what planning did otherwise does not reach them.    *)
Direct ==
  /\ stage = "EXECUTION" /\ torn = {}
  /\ \A t \in Types \ {"turn"} : Len(files[t]) = 1
  /\ Len(files["turn"]) = 0

-----------------------------------------------------------------------------
(* The Execution gate binds the active Change Set, if there is one.         *)
ApproveExecution ==
  /\ decideExecutionApproval
  /\ \E d \in BOOLEAN, bind \in BOOLEAN :
       /\ ws' = [head |-> 1, dirty |-> d]
       /\ frozen' = IF bind THEN <<ws'>> ELSE <<>>
  /\ UNCHANGED <<candidate, verified, reviews, passed>>

-----------------------------------------------------------------------------
(* The command                                                              *)

Adopting(at, body) == [kind |-> "adopt", at |-> at, body |-> body, rev |-> 0]

adoptionAllowed ==
  stage = "EXECUTION" /\ runtime = "RUNNING" /\ verified = 0 /\ Len(frozen) > 0

Unplanned ==
  UNCHANGED <<stage, plan, refs, files, torn, approvals>>

(* The commit policy, the write scope and the catalog over base..head: the  *)
(* heads that passed afterwards.                                            *)
gateChain(h, ok) == IF ok THEN passed \union {h} ELSE passed

(* The Change Set files once the Workspace w has been frozen.               *)
freezeChangeSet(w) == Append(frozen, w)

(* Preparation, before the locks: a clean Workspace must be the frozen one  *)
(* and pass the gate chain, a dirty one only needs the frozen base.         *)
prepareAdoption ==
  /\ CanIssue /\ Direct /\ adoptionAllowed /\ Len(reviews) < MaxReviews
  /\ \/ /\ ~ws.dirty /\ ws = frozen[1]
        /\ passed' = gateChain(ws.head, TRUE)
     \/ ws.dirty /\ UNCHANGED passed
  /\ cmd' = Adopting("confirm", ws)
  /\ Unplanned
  /\ UNCHANGED <<runtime, openRuns, faults, ws, frozen, candidate, verified, reviews>>

(* The Kernel records the observed head and the independent review Session; *)
(* the managed path runs its coding Session first.                          *)
decideAdoptWorkspace ==
  /\ cmd.kind = "adopt" /\ cmd.at = "confirm" /\ adoptionAllowed
  /\ candidate' = cmd.body.head
  /\ reviews' = Append(reviews, "STARTING")
  /\ cmd' = IF cmd.body.dirty THEN Adopting("coding", <<>>)
                              ELSE Adopting("review", Len(reviews) + 1)
  /\ Unplanned
  /\ UNCHANGED <<runtime, openRuns, faults, ws, frozen, verified, passed>>

(* What the coding Session left is worth judging: it completed, clean, at a *)
(* head that descends from the one it started at.                           *)
Advanced(done, post) == done /\ ~post.dirty /\ post.head > ws.head

(* The effect of the coding Session: the result is re-frozen and runs the   *)
(* gate chain; any failure is reported with the Session.                    *)
adoptionCodingProviderStart ==
  /\ cmd.kind = "adopt" /\ cmd.at = "coding"
  /\ \E done \in BOOLEAN, gates \in BOOLEAN, post \in Workspaces :
       /\ ws' = post
       /\ frozen' = IF Advanced(done, post) THEN freezeChangeSet(post) ELSE frozen
       /\ passed' = gateChain(post.head, Advanced(done, post) /\ gates)
       /\ cmd' = Adopting("settle",
                   [ok |-> done /\ (Advanced(done, post) => gates)
                           /\ (~post.dirty /\ post.head # ws.head => post.head > ws.head),
                    end |-> post, body |-> Advanced(done, post)])
  /\ Unplanned
  /\ UNCHANGED <<runtime, openRuns, faults, candidate, verified, reviews>>

(* The first review Session still STARTING, whichever adoption recorded it. *)
adoptionReviewSessionOf ==
  CHOOSE i \in 1..Len(reviews) :
    /\ reviews[i] = "STARTING"
    /\ \A j \in 1..(i - 1) : reviews[j] # "STARTING"

(* A blocking Finding; the Run stays as it is.                              *)
adoptionFailure == runtime' = "BLOCKED" /\ cmd' = Idle

(* Mutant: the reviewed candidate stays the head observed before the        *)
(* coding Session.                                                          *)
decideAdoptionCodingRunEndedStale ==
  /\ cmd.kind = "adopt" /\ cmd.at = "settle"
  /\ \/ /\ cmd.body.ok /\ ~cmd.body.end.dirty /\ cmd.body.body
        /\ cmd' = Adopting("review", adoptionReviewSessionOf)
        /\ UNCHANGED runtime
     \/ /\ ~(cmd.body.ok /\ ~cmd.body.end.dirty /\ cmd.body.body)
        /\ adoptionFailure
  /\ Unplanned
  /\ UNCHANGED <<openRuns, faults, ws, frozen, candidate, verified, reviews, passed>>

(* The Kernel judges the evidence again: a clean Workspace, a head that is  *)
(* not the recorded candidate, a re-frozen body with a commit.              *)
decideAdoptionCodingRunEnded ==
  /\ cmd.kind = "adopt" /\ cmd.at = "settle"
  /\ LET end == cmd.body.end
         evidence == cmd.body.ok /\ ~end.dirty /\ end.head # candidate /\ cmd.body.body
     IN \/ /\ evidence
           /\ candidate' = end.head
           /\ cmd' = Adopting("review", adoptionReviewSessionOf)
           /\ UNCHANGED runtime
        \/ ~evidence /\ adoptionFailure /\ UNCHANGED candidate
  /\ Unplanned
  /\ UNCHANGED <<openRuns, faults, ws, frozen, verified, reviews, passed>>

(* The independent review completed, and the Kernel judges its verdict: a   *)
(* PASS verifies the recorded candidate, anything else blocks.              *)
decideAdoptionReviewRunEnded ==
  /\ cmd.kind = "adopt" /\ cmd.at = "review"
  /\ \/ /\ reviews' = [reviews EXCEPT ![cmd.body] = "PASSED"]
        /\ verified' = candidate
        /\ cmd' = Idle /\ UNCHANGED runtime
     \/ /\ reviews' = [reviews EXCEPT ![cmd.body] = "FAILED"]
        /\ adoptionFailure /\ UNCHANGED verified
  /\ Unplanned
  /\ UNCHANGED <<openRuns, faults, ws, frozen, candidate, passed>>

(* The review failed or was cancelled: a Session without an Attempt settles *)
(* with a Finding that does not block, and the Workflow stays RUNNING.      *)
adoptionReviewFailed ==
  /\ cmd.kind = "adopt" /\ cmd.at = "review"
  /\ reviews' = [reviews EXCEPT ![cmd.body] = "FAILED"]
  /\ cmd' = Idle /\ UNCHANGED <<runtime, verified>>
  /\ Unplanned
  /\ UNCHANGED <<openRuns, faults, ws, frozen, candidate, passed>>

(* The Workspace changed while the review ran: the effect fails, and with   *)
(* it the command; the Session row stays as it is.                          *)
adoptionReviewInvalid ==
  /\ cmd.kind = "adopt" /\ cmd.at = "review"
  /\ ws' \in Workspaces \ {ws}
  /\ cmd' = Idle
  /\ Unplanned
  /\ UNCHANGED <<runtime, openRuns, faults, frozen, candidate, verified, reviews, passed>>

(* The command dies inside the coding effect, before or after the re-freeze.*)
DieCoding ==
  /\ cmd.kind = "adopt" /\ cmd.at = "coding" /\ faults < MaxFaults
  /\ faults' = faults + 1
  /\ ws' \in Workspaces
  /\ frozen' \in {frozen} \union
       (IF Advanced(TRUE, ws') THEN {freezeChangeSet(ws')} ELSE {})
  /\ cmd' = Idle
  /\ Unplanned
  /\ UNCHANGED <<runtime, openRuns, candidate, verified, reviews, passed>>

-----------------------------------------------------------------------------
(* The user                                                                 *)

ResumeBlocked ==
  /\ CanIssue /\ Direct /\ runtime = "BLOCKED"
  /\ runtime' = "RUNNING" /\ openRuns' = 1
  /\ Unplanned
  /\ UNCHANGED <<cmd, faults, adoptionVars>>

UserEdits ==
  /\ Direct /\ verified = 0
  /\ \/ ~ws.dirty /\ ws' = [ws EXCEPT !.dirty = TRUE]
     \/ ws.head < MaxHead /\ ws' = [head |-> ws.head + 1, dirty |-> FALSE]
  /\ Unplanned
  /\ UNCHANGED <<runtime, openRuns, cmd, faults, frozen, candidate, verified, reviews,
                 passed>>

-----------------------------------------------------------------------------

AdoptionInit ==
  /\ Init
  /\ ws = [head |-> 1, dirty |-> FALSE] /\ frozen = <<>>
  /\ candidate = 0 /\ verified = 0 /\ reviews = <<>> /\ passed = {}

AdoptionNext ==
  \/ PlanningStep /\ UNCHANGED adoptionVars
  \/ ApproveExecution \/ prepareAdoption \/ decideAdoptWorkspace
  \/ adoptionCodingProviderStart \/ decideAdoptionCodingRunEnded
  \/ decideAdoptionReviewRunEnded \/ adoptionReviewFailed
  \/ adoptionReviewInvalid \/ DieCoding
  \/ ResumeBlocked \/ UserEdits

AdoptionSpec == AdoptionInit /\ [][AdoptionNext]_<<vars, adoptionVars>>

-----------------------------------------------------------------------------
(* Properties                                                               *)

AdoptionTypeOK ==
  /\ TypeOK /\ ws \in Workspaces /\ \A i \in 1..Len(frozen) : frozen[i] \in Workspaces
  /\ candidate \in 0..MaxHead /\ verified \in 0..MaxHead /\ passed \subseteq 1..MaxHead
  /\ \A i \in 1..Len(reviews) : reviews[i] \in {"STARTING", "PASSED", "FAILED"}

(* Only an adopted head opens the dispatch, and only a gated one is         *)
(* adopted: the verified Workspace head passed the whole gate chain and an  *)
(* independent review said PASS, however often adoptions died, failed and   *)
(* were resumed and whatever the user did in the Workspace meanwhile.       *)
AdoptedPassedGates ==
  verified # 0 =>
    /\ verified \in passed
    /\ \E i \in 1..Len(reviews) : reviews[i] = "PASSED"

=============================================================================
