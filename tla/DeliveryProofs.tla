--------------------------- MODULE DeliveryProofs ---------------------------
(***************************************************************************)
(* The promises of Apply and Cleanup, for any number of Attempts,          *)
(* stagings, Cleanups and user commits and any environment: nothing gets   *)
(* past its staging under an unconfirmed commit policy, Cleanup spares the *)
(* worktree of a staged Attempt, the Target moves only forward, by the     *)
(* delivery of a confirmed Attempt, what it moves to was verified and      *)
(* reviewed, and a SUCCEEDED Attempt really was delivered.                 *)
(*                                                                         *)
(* Effects carry an Attempt number and come back steps later.  DeliveryInv *)
(* says what an effect in flight still owns when its result is decided,    *)
(* ReleaseInv what it knows of the head it judges or delivers.             *)
(***************************************************************************)
EXTENDS Delivery, RowLemmas, SequenceTheorems, TLAPS

AnyHead == SUBSET (Commits \cup {"base", "work", "stray", "none"})

Rows == [status : ApplyStatuses, target : AnyHead, fingerprint : {"approved", "changed"},
         confirmed : BOOLEAN, staging : AnyHead]
Trees == [present : BOOLEAN, head : AnyHead, conflict : BOOLEAN, resolved : BOOLEAN]

(* The part of the type invariant the argument needs.                      *)
Shape ==
    /\ att \in Seq(Rows) /\ Len(att) <= MaxApplies
    /\ tree \in [Numbers -> Trees]
    /\ target \in AnyHead
    /\ policy \in {"approved", "changed"}

(* An Attempt that is not BLOCKED passed the policy gate.                  *)
Gated ==
    \A n \in DOMAIN att :
        att[n].status # "BLOCKED" => att[n].fingerprint = "approved" \/ att[n].confirmed

IsEffect == op = Effect(op.kind, op.of, op.item, op.step)

(* What the effect in flight may rely on.                                  *)
Owned ==
    /\ IsEffect
    /\ Staging => op.of \in DOMAIN att /\ att[op.of].status = "STAGING"
    /\ op.kind = "review" =>
          /\ \E n \in DOMAIN att : att[n].status = "STAGING"
          /\ op.step # "run" => tree[FirstStaging].present
    /\ op.kind = "delivery" => op.of \in DOMAIN att /\ att[op.of].status = "RUNNING"
    /\ op.kind = "removal" => ~HasActiveApply

DeliveryInv == Shape /\ Gated /\ Owned /\ InFlightKeepsTree

-----------------------------------------------------------------------------
(* The Attempt a review is about exists and is STAGING.                    *)
LEMMA FirstStagingIsStaging ==
    ASSUME Shape, \E n \in DOMAIN att : att[n].status = "STAGING"
    PROVE  FirstStaging \in DOMAIN att /\ att[FirstStaging].status = "STAGING"
  <1> DEFINE T == {n \in DOMAIN att : att[n].status = "STAGING"}
  <1>1. DOMAIN att = 1 .. Len(att) /\ Len(att) \in Nat
    BY LenProperties DEF Shape
  <1>2. T \subseteq Nat /\ T # {}
    BY <1>1
  <1>3. PICK x \in T : \A y \in T : x <= y
    BY <1>2, FirstRow
  <1>4. /\ x \in DOMAIN att /\ att[x].status = "STAGING"
        /\ \A m \in 1..(x - 1) : att[m].status # "STAGING"
    BY <1>1, <1>3
  <1> QED BY <1>4 DEF FirstStaging

(* The table of Attempts is a sequence.                                    *)
LEMMA ShapeFacts ==
    ASSUME Shape
    PROVE  /\ DOMAIN att = 1 .. Len(att) /\ Len(att) \in Nat
           /\ DOMAIN att \subseteq Numbers
           /\ \A n \in DOMAIN att : att[n] \in Rows
           /\ \A n \in DOMAIN att : tree[n] \in Trees
  <1>1. DOMAIN att = 1 .. Len(att) /\ Len(att) \in Nat /\ att \in [1 .. Len(att) -> Rows]
    BY LenProperties DEF Shape
  <1>2. DOMAIN att \subseteq Numbers
    BY <1>1, DeliveryAssumption DEF Shape, Numbers
  <1> QED BY <1>1, <1>2 DEF Shape

(* Init: no Attempt exists.                                                *)
LEMMA InitSound == Init => DeliveryInv
  <1> SUFFICES ASSUME Init PROVE DeliveryInv
    OBVIOUS
  <1>1. att = <<>> /\ att \in Seq(Rows) /\ Len(att) = 0 /\ DOMAIN att = {}
    BY DEF Init
  <1>2. Shape
    BY <1>1, DeliveryAssumption DEF Init, Shape, Numbers, Trees, AnyHead, NoHead, BaseHead
  <1>3. Gated /\ InFlightKeepsTree
    BY <1>1 DEF Gated, InFlightKeepsTree
  <1>4. Owned
    BY DEF Init, Owned, Staging, Idle, Effect, IsEffect
  <1> QED BY <1>2, <1>3, <1>4 DEF DeliveryInv

(* Replacing one Attempt row by one that passed the gate or is BLOCKED.    *)
LEMMA RowReplaced ==
    ASSUME DeliveryInv, NEW n \in DOMAIN att, NEW a \in Rows, att' = [att EXCEPT ![n] = a],
           a.status # "BLOCKED" => a.fingerprint = "approved" \/ a.confirmed,
           a.status \in {"AWAITING_CONFIRMATION", "RUNNING"} => tree[n].present,
           UNCHANGED <<tree, target, policy>>
    PROVE  /\ Shape' /\ Gated' /\ InFlightKeepsTree'
           /\ DOMAIN att' = DOMAIN att /\ att'[n] = a
           /\ \A m \in DOMAIN att : m # n => att'[m] = att[m]
  <1>1. /\ att' \in Seq(Rows) /\ Len(att') = Len(att) /\ DOMAIN att' = DOMAIN att
        /\ \A j \in DOMAIN att : att'[j] = IF j = n THEN a ELSE att[j]
    BY ReplaceRow DEF DeliveryInv, Shape
  <1>2. Shape'
    BY <1>1 DEF DeliveryInv, Shape
  <1>3. Gated'
    BY <1>1 DEF DeliveryInv, Gated
  <1>4. InFlightKeepsTree'
    BY <1>1 DEF DeliveryInv, InFlightKeepsTree
  <1> QED BY <1>1, <1>2, <1>3, <1>4

(* Appending one such row.                                                 *)
LEMMA RowAppended ==
    ASSUME DeliveryInv, NEW a \in Rows, att' = Append(att, a), Len(att) < MaxApplies,
           a.status # "BLOCKED" => a.fingerprint = "approved" \/ a.confirmed,
           a.status \notin {"AWAITING_CONFIRMATION", "RUNNING"},
           UNCHANGED <<tree, target, policy>>
    PROVE  /\ Shape' /\ Gated' /\ InFlightKeepsTree'
           /\ Len(att) + 1 \in DOMAIN att' /\ att'[Len(att) + 1] = a
  <1>1. /\ att' \in Seq(Rows) /\ Len(att') = Len(att) + 1 /\ Len(att) \in Nat
        /\ DOMAIN att = 1 .. Len(att) /\ DOMAIN att' = 1 .. Len(att) + 1
        /\ \A j \in DOMAIN att : att'[j] = att[j]
        /\ att'[Len(att) + 1] = a
    BY AppendRow DEF DeliveryInv, Shape
  <1>2. Shape'
    BY <1>1, DeliveryAssumption DEF DeliveryInv, Shape
  <1>3. Gated'
    BY <1>1 DEF DeliveryInv, Gated
  <1>4. InFlightKeepsTree'
    BY <1>1 DEF DeliveryInv, InFlightKeepsTree
  <1> QED BY <1>1, <1>2, <1>3, <1>4

(* A step that leaves the Attempts and their worktrees alone.              *)
LEMMA AttemptsKept ==
    ASSUME DeliveryInv, UNCHANGED <<att, tree>>,
           target' \in AnyHead, policy' \in {"approved", "changed"}
    PROVE  /\ Shape' /\ Gated' /\ InFlightKeepsTree'
           /\ FirstStaging' = FirstStaging /\ HasActiveApply' = HasActiveApply
  <1>1. Shape' /\ Gated' /\ InFlightKeepsTree'
    BY DEF DeliveryInv, Shape, Gated, InFlightKeepsTree
  <1>2. FirstStaging' = FirstStaging
    BY DEF FirstStaging
  <1>3. HasActiveApply' = HasActiveApply
    BY DEF HasActiveApply
  <1> QED BY <1>1, <1>2, <1>3

(* An idle loop, or one that stops a review's Process, owns nothing.       *)
LEMMA OwnsNothing ==
    ASSUME IsEffect', op'.kind \in {"idle", "stop"}
    PROVE  Owned'
  BY DEF Owned, Staging

-----------------------------------------------------------------------------
(* The commands.                                                           *)

(* Opening an Attempt, new or again, for a staging that will run.          *)
LEMMA StartStagingSound ==
    ASSUME DeliveryInv, NEW n, NEW a \in Rows, StartStaging(n, a),
           n \in DOMAIN att \/ (n = Len(att) + 1 /\ Len(att) < MaxApplies),
           a.status = "STAGING", a.fingerprint = "approved" \/ a.confirmed
    PROVE  DeliveryInv'
  <1>1. UNCHANGED <<tree, target, policy>>
    BY DEF StartStaging, git, user
  <1>2. DOMAIN att = 1 .. Len(att) /\ Len(att) \in Nat
    BY ShapeFacts DEF DeliveryInv
  <1>3. /\ Shape' /\ Gated' /\ InFlightKeepsTree'
        /\ n \in DOMAIN att' /\ att'[n] = a
    <2>1. CASE n \in DOMAIN att
      <3>0. ~(n > Len(att))
        BY <1>2, <2>1
      <3>1. att' = [att EXCEPT ![n] = a]
        BY <3>0, Zenon DEF StartStaging, Last
      <3> QED BY <1>1, <2>1, <3>1, RowReplaced
    <2>2. CASE n = Len(att) + 1 /\ Len(att) < MaxApplies
      <3>0. n > Len(att)
        BY <1>2, <2>2
      <3>1. att' = Append(att, a)
        BY <3>0, Zenon DEF StartStaging, Last
      <3> QED BY <1>1, <2>2, <3>1, RowAppended
    <2> QED BY <2>1, <2>2
  <1>4. op'.kind \in {"staging", "resolution"} /\ op'.of = n /\ IsEffect'
    BY DEF StartStaging, Effect, IsEffect
  <1>5. Owned'
    BY <1>3, <1>4 DEF Owned, Staging
  <1> QED BY <1>3, <1>5 DEF DeliveryInv

(* The policy gate blocks the Attempt or lets the staging run.             *)
LEMMA OpenAttemptSound ==
    ASSUME DeliveryInv, NEW n, NEW a \in Rows, OpenAttempt(n, a), op = Idle,
           n \in DOMAIN att \/ (n = Len(att) + 1 /\ Len(att) < MaxApplies),
           a.status = "STAGING"
    PROVE  DeliveryInv'
  <1> DEFINE blocked == [a EXCEPT !.status = "BLOCKED"]
  <1>1. CASE PolicyBlocks(a)
    <2>1. /\ att' = IF n > Last THEN Append(att, blocked) ELSE [att EXCEPT ![n] = blocked]
          /\ UNCHANGED <<op, tree, target, policy>>
      BY <1>1 DEF OpenAttempt, git, user
    <2>2. blocked \in Rows /\ blocked.status = "BLOCKED"
      BY DEF Rows, ApplyStatuses
    <2>3. DOMAIN att = 1 .. Len(att) /\ Len(att) \in Nat
      BY ShapeFacts DEF DeliveryInv
    <2> HIDE DEF blocked
    <2>4. Shape' /\ Gated' /\ InFlightKeepsTree'
      <3>1. CASE n \in DOMAIN att
        <4>0. ~(n > Len(att))
          BY <2>3, <3>1
        <4>1. att' = [att EXCEPT ![n] = blocked]
          BY <2>1, <4>0, Zenon DEF Last
        <4> QED BY <2>1, <2>2, <3>1, <4>1, RowReplaced
      <3>2. CASE n = Len(att) + 1 /\ Len(att) < MaxApplies
        <4>0. n > Len(att)
          BY <2>3, <3>2
        <4>1. att' = Append(att, blocked)
          BY <2>1, <4>0, Zenon DEF Last
        <4> QED BY <2>1, <2>2, <3>2, <4>1, RowAppended
      <3> QED BY <3>1, <3>2
    <2>5. Owned'
      BY <2>1, OwnsNothing DEF Idle, Effect, IsEffect
    <2> QED BY <2>4, <2>5 DEF DeliveryInv
  <1>2. CASE ~PolicyBlocks(a)
    <2>1. StartStaging(n, a)
      BY <1>2 DEF OpenAttempt
    <2>2. a.fingerprint = "approved" \/ a.confirmed
      BY <1>2 DEF PolicyBlocks
    <2> QED BY <2>1, <2>2, StartStagingSound
  <1> QED BY <1>1, <1>2

(* A new Apply Attempt, or a blocked one that is staged again.             *)
LEMMA PrepareApplySound ==
    ASSUME DeliveryInv, PrepareApply
    PROVE  DeliveryInv'
  <1>1. op = Idle /\ DOMAIN att = 1 .. Len(att) /\ Len(att) \in Nat
    BY ShapeFacts DEF PrepareApply, Command, DeliveryInv
  <1>2. \A n \in DOMAIN att : att[n] \in Rows
    BY ShapeFacts DEF DeliveryInv
  <1> DEFINE again == [att[Last] EXCEPT !.status = "STAGING"]
             new == [status |-> "STAGING", target |-> target, fingerprint |-> policy,
                     confirmed |-> FALSE, staging |-> NoHead]
  <1>3. CASE SameAttempt /\ OpenAttempt(Last, again)
    <2>1. Last \in DOMAIN att
      BY <1>1, <1>3 DEF SameAttempt, Last
    <2>2. again \in Rows /\ again.status = "STAGING"
      BY <1>2, <2>1 DEF Rows, ApplyStatuses
    <2> QED BY <1>1, <1>3, <2>1, <2>2, OpenAttemptSound
  <1>4. CASE Last < MaxApplies /\ OpenAttempt(Last + 1, new)
    <2>1. new \in Rows /\ new.status = "STAGING"
      BY DEF DeliveryInv, Shape, Rows, ApplyStatuses, AnyHead, NoHead
    <2> HIDE DEF new
    <2> QED BY <1>1, <1>4, <2>1, OpenAttemptSound DEF Last
  <1> QED BY <1>3, <1>4 DEF PrepareApply

(* The confirmation opens the gate for the Attempt it names.               *)
LEMMA ConfirmApplyPolicySound ==
    ASSUME DeliveryInv, ConfirmApplyPolicy
    PROVE  DeliveryInv'
  <1>1. DOMAIN att = 1 .. Len(att) /\ Len(att) \in Nat /\ \A n \in DOMAIN att : att[n] \in Rows
    BY ShapeFacts DEF DeliveryInv
  <1>2. Last \in DOMAIN att
    BY <1>1 DEF ConfirmApplyPolicy, SameAttempt, Last
  <1> DEFINE a == [att[Last] EXCEPT !.status = "STAGING", !.confirmed = TRUE]
  <1>3. a \in Rows /\ a.status = "STAGING" /\ a.confirmed
    BY <1>1, <1>2 DEF Rows, ApplyStatuses
  <1>4. StartStaging(Last, a)
    BY DEF ConfirmApplyPolicy
  <1> QED BY <1>2, <1>3, <1>4, StartStagingSound

(* Execution starts the delivery of one Attempt, which becomes RUNNING.    *)
LEMMA ExecuteApplySound ==
    ASSUME DeliveryInv, NEW n \in DOMAIN att, ExecuteApply(n)
    PROVE  DeliveryInv'
  <1> DEFINE a == [att[n] EXCEPT !.status = "RUNNING"]
  <1>1. att[n] \in Rows
    BY ShapeFacts DEF DeliveryInv
  <1>2. a \in Rows /\ a.status = "RUNNING" /\ a.fingerprint = att[n].fingerprint
        /\ a.confirmed = att[n].confirmed
    BY <1>1 DEF Rows, ApplyStatuses
  <1>3. att[n].status \in {"AWAITING_CONFIRMATION", "RUNNING"}
    BY DEF ExecuteApply
  <1>4. tree[n].present /\ (a.fingerprint = "approved" \/ a.confirmed)
    BY <1>2, <1>3 DEF DeliveryInv, InFlightKeepsTree, Gated
  <1>5. att' = [att EXCEPT ![n] = a] /\ UNCHANGED <<tree, target, policy>>
    BY <1>1 DEF ExecuteApply, git, user
  <1>6. /\ Shape' /\ Gated' /\ InFlightKeepsTree'
        /\ DOMAIN att' = DOMAIN att /\ att'[n] = a
    BY <1>2, <1>4, <1>5, RowReplaced
  <1>7. op'.kind = "delivery" /\ op'.of = n /\ IsEffect'
    BY DEF ExecuteApply, Effect, IsEffect
  <1>8. Owned'
    BY <1>2, <1>6, <1>7 DEF Owned, Staging
  <1> QED BY <1>6, <1>8 DEF DeliveryInv

(* A Cleanup starts only while no Apply is active.                         *)
LEMMA CleanupCommandSound ==
    ASSUME DeliveryInv, CleanupDryRun \/ CleanupExecute
    PROVE  DeliveryInv'
  <1>1. UNCHANGED <<att, tree, target, policy>>
    BY DEF CleanupDryRun, CleanupExecute, git, user
  <1>2. /\ Shape' /\ Gated' /\ InFlightKeepsTree'
        /\ FirstStaging' = FirstStaging /\ HasActiveApply' = HasActiveApply
    BY <1>1, AttemptsKept DEF DeliveryInv, Shape
  <1>3. CASE CleanupDryRun
    <2>1. op' = Idle
      BY <1>3 DEF CleanupDryRun, Command
    <2>2. Owned'
      BY <2>1, OwnsNothing DEF Idle, Effect, IsEffect
    <2> QED BY <1>2, <2>2 DEF DeliveryInv
  <1>4. CASE CleanupExecute
    <2>1. ~HasActiveApply /\ op'.kind = "removal" /\ IsEffect'
      BY <1>4 DEF CleanupExecute, CleanupAllowed, RequestItem, Effect, IsEffect
    <2>2. Owned'
      BY <1>2, <2>1 DEF Owned, Staging
    <2> QED BY <1>2, <2>2 DEF DeliveryInv
  <1> QED BY <1>3, <1>4

-----------------------------------------------------------------------------
(* The effects.                                                            *)

(* The next step of an effect belongs to the same Attempt.                 *)
LEMMA GoKeepsOwner ==
    ASSUME IsEffect, NEW x, Go(x)
    PROVE  op'.kind = op.kind /\ op'.of = op.of /\ op'.step = x /\ IsEffect'
  BY DEF IsEffect, Go, Effect

(* The worktree a staging works in stays, or comes, present.               *)
LEMMA MergeIntoKeeps ==
    ASSUME Shape, NEW n \in DOMAIN att, MergeInto(n, Staged(n)), IsEffect
    PROVE  /\ tree' \in [Numbers -> Trees]
           /\ \A m \in DOMAIN att : tree[m].present => tree'[m].present
           /\ op'.kind = op.kind /\ op'.of = op.of /\ IsEffect'
  <1> DEFINE t == Staged(n)
  <1>1. n \in Numbers /\ att[n] \in Rows /\ tree[n] \in Trees /\ DOMAIN att \subseteq Numbers
    BY ShapeFacts
  <1>2. t \in Trees /\ t.present
    BY <1>1 DEF Staged, Trees, Rows
  <1>3. DeliveryBranch \in AnyHead
    BY DEF DeliveryBranch, DeliveryHead, AnyHead
  <1> HIDE DEF t
  <1>4. /\ [t EXCEPT !.resolved = TRUE, !.conflict = FALSE, !.head = @ \cup DeliveryBranch] \in Trees
        /\ [t EXCEPT !.resolved = TRUE] \in Trees
        /\ [t EXCEPT !.head = @ \cup DeliveryBranch] \in Trees
        /\ [t EXCEPT !.conflict = TRUE] \in Trees
    BY <1>2, <1>3 DEF Trees, AnyHead
  <1>5. /\ [t EXCEPT !.resolved = TRUE, !.conflict = FALSE, !.head = @ \cup DeliveryBranch].present
        /\ [t EXCEPT !.resolved = TRUE].present
        /\ [t EXCEPT !.head = @ \cup DeliveryBranch].present
        /\ [t EXCEPT !.conflict = TRUE].present
    BY <1>2 DEF Trees
  <1>6. \E u \in Trees : u.present /\ tree' = [tree EXCEPT ![n] = u]
    BY <1>2, <1>4, <1>5, Zenon DEF MergeInto, t
  <1>7. /\ tree' \in [Numbers -> Trees]
        /\ \A m \in DOMAIN att : tree[m].present => tree'[m].present
    BY <1>1, <1>6 DEF Shape
  <1>8. \E x : Go(x)
    BY Zenon DEF MergeInto
  <1> QED BY <1>7, <1>8, GoKeepsOwner

(* The merge in the Apply worktree moves that worktree alone.              *)
LEMMA StageMergeSound ==
    ASSUME DeliveryInv, StageMerge
    PROVE  DeliveryInv'
  <1> DEFINE n == op.of
  <1>1. Shape /\ IsEffect /\ n \in DOMAIN att /\ att[n].status = "STAGING" /\ Staging
    BY DEF DeliveryInv, Owned, StageMerge
  <1>2. n \in Numbers /\ att[n] \in Rows /\ tree[n] \in Trees /\ DOMAIN att \subseteq Numbers
    BY <1>1, ShapeFacts
  <1>3. UNCHANGED <<att, target, policy>>
    BY DEF StageMerge, Fails, rows, user
  <1>4. /\ tree' \in [Numbers -> Trees]
        /\ \A m \in DOMAIN att : tree[m].present => tree'[m].present
        /\ op'.kind = op.kind /\ op'.of = op.of /\ IsEffect'
    <2>1. CASE Fails
      BY <1>1, <2>1, GoKeepsOwner DEF Fails, git, Shape
    <2>2. CASE tree' = [tree EXCEPT ![n] = Staged(n)] /\ Go("failed")
      <3>1. Staged(n) \in Trees /\ Staged(n).present
        BY <1>2 DEF Staged, Trees, Rows
      <3> QED BY <1>1, <1>2, <2>2, <3>1, GoKeepsOwner DEF Shape
    <2>3. CASE MergeInto(n, Staged(n))
      BY <1>1, <2>3, MergeIntoKeeps
    <2> QED BY <2>1, <2>2, <2>3 DEF StageMerge
  <1>5. Shape' /\ Gated' /\ InFlightKeepsTree'
    BY <1>3, <1>4 DEF DeliveryInv, Shape, Gated, InFlightKeepsTree
  <1>6. Owned'
    BY <1>1, <1>3, <1>4 DEF Owned, Staging
  <1> QED BY <1>5, <1>6 DEF DeliveryInv

(* The verification of the staged tree.                                    *)
LEMMA StageVerifySound ==
    ASSUME DeliveryInv, StageVerify
    PROVE  DeliveryInv'
  <1>1. UNCHANGED <<att, tree, target, policy>> /\ Staging /\ \E x : Go(x)
    BY Zenon DEF StageVerify, Fails, rows, user, git
  <1>2. Shape' /\ Gated' /\ InFlightKeepsTree'
    BY <1>1, AttemptsKept DEF DeliveryInv, Shape
  <1>3. op'.kind = op.kind /\ op'.of = op.of /\ IsEffect'
    BY <1>1, GoKeepsOwner DEF DeliveryInv, Owned
  <1>4. Owned'
    BY <1>1, <1>3 DEF DeliveryInv, Owned, Staging
  <1> QED BY <1>2, <1>4 DEF DeliveryInv

(* The staging result is recorded on the row, which is still STAGING.      *)
LEMMA StagingSettlesSound ==
    ASSUME DeliveryInv, StagingSettles
    PROVE  DeliveryInv'
  <1> DEFINE n == op.of
  <1>1. Shape /\ n \in DOMAIN att /\ att[n].status = "STAGING"
    BY DEF DeliveryInv, Owned, StagingSettles
  <1>2. att[n] \in Rows /\ tree[n] \in Trees
    BY <1>1, ShapeFacts
  <1>3. UNCHANGED <<tree, target, policy>>
    BY DEF StagingSettles, user, git
  <1>4. CASE op.step = "passed"
    <2> DEFINE a == [att[n] EXCEPT !.staging = tree[n].head]
    <2>1. a \in Rows /\ a.status = "STAGING" /\ a.fingerprint = att[n].fingerprint
          /\ a.confirmed = att[n].confirmed
      BY <1>1, <1>2 DEF Rows, Trees
    <2>2. att' = [att EXCEPT ![n] = a] /\ op'.kind = "review" /\ op'.step = "run" /\ IsEffect'
      BY <1>4 DEF StagingSettles, Effect, IsEffect
    <2>3. a.fingerprint = "approved" \/ a.confirmed
      BY <1>1, <2>1 DEF DeliveryInv, Gated
    <2> HIDE DEF a
    <2>4. Shape' /\ Gated' /\ InFlightKeepsTree' /\ DOMAIN att' = DOMAIN att /\ att'[n] = a
      BY <1>1, <1>3, <2>1, <2>2, <2>3, RowReplaced
    <2>5. Owned'
      BY <1>1, <2>1, <2>2, <2>4 DEF Owned, Staging
    <2> QED BY <2>4, <2>5 DEF DeliveryInv
  <1>5. CASE op.step = "failed"
    <2> DEFINE a == [att[n] EXCEPT !.status = "BLOCKED"]
    <2>1. a \in Rows /\ a.status = "BLOCKED"
      BY <1>2 DEF Rows, ApplyStatuses
    <2>2. att' = [att EXCEPT ![n] = a] /\ op' = Idle
      BY <1>5 DEF StagingSettles
    <2> HIDE DEF a
    <2>3. Shape' /\ Gated' /\ InFlightKeepsTree'
      BY <1>1, <1>3, <2>1, <2>2, RowReplaced
    <2>4. Owned'
      BY <2>2, OwnsNothing DEF Idle, Effect, IsEffect
    <2> QED BY <2>3, <2>4 DEF DeliveryInv
  <1> QED BY <1>4, <1>5 DEF StagingSettles

(* The review of the staged tree.                                          *)
LEMMA ReviewRunsSound ==
    ASSUME DeliveryInv, ReviewRuns
    PROVE  DeliveryInv'
  <1>1. /\ UNCHANGED <<att, tree, target, policy>> /\ op.kind = "review"
        /\ tree[FirstStaging].present /\ \E x : Go(x)
    BY DEF ReviewRuns, CanReview, rows, user, git
  <1>2. Shape' /\ Gated' /\ InFlightKeepsTree' /\ FirstStaging' = FirstStaging
    BY <1>1, AttemptsKept DEF DeliveryInv, Shape
  <1>3. op'.kind = op.kind /\ IsEffect'
    BY <1>1, GoKeepsOwner DEF DeliveryInv, Owned
  <1>4. Owned'
    BY <1>1, <1>2, <1>3 DEF DeliveryInv, Owned, Staging
  <1> QED BY <1>2, <1>4 DEF DeliveryInv

(* The review's verdict settles the Attempt it was about.                  *)
LEMMA ReviewSettlesSound ==
    ASSUME DeliveryInv, ReviewSettles
    PROVE  DeliveryInv'
  <1> DEFINE n == FirstStaging
             a == [att[n] EXCEPT !.status = Verdict(op.step)]
  <1>1. Shape /\ tree[n].present /\ \E m \in DOMAIN att : att[m].status = "STAGING"
    BY DEF DeliveryInv, Owned, ReviewSettles
  <1>2. n \in DOMAIN att /\ att[n].status = "STAGING"
    BY <1>1, FirstStagingIsStaging
  <1>3. att[n] \in Rows
    BY <1>1, <1>2, ShapeFacts
  <1>4. att' = [att EXCEPT ![n] = a] /\ UNCHANGED <<tree, target, policy>>
    BY DEF ReviewSettles, user, git
  <1>5. a \in Rows /\ a.fingerprint = att[n].fingerprint /\ a.confirmed = att[n].confirmed
    BY <1>3 DEF Rows, ApplyStatuses, Verdict
  <1>6. a.fingerprint = "approved" \/ a.confirmed
    BY <1>2, <1>5 DEF DeliveryInv, Gated
  <1>7. op'.kind \in {"idle", "stop"} /\ IsEffect'
    BY DEF ReviewSettles, Idle, Effect, IsEffect
  <1> HIDE DEF a, n
  <1>8. Shape' /\ Gated' /\ InFlightKeepsTree'
    BY <1>1, <1>2, <1>4, <1>5, <1>6, RowReplaced
  <1> QED BY <1>7, <1>8, OwnsNothing DEF DeliveryInv

(* The stop of the review's Process ends the effect.                       *)
LEMMA ReviewStoppedSound ==
    ASSUME DeliveryInv, ReviewStopped
    PROVE  DeliveryInv'
  <1>1. UNCHANGED <<att, tree, target, policy>> /\ op' = Idle
    BY DEF ReviewStopped, user, git
  <1>2. Shape' /\ Gated' /\ InFlightKeepsTree'
    BY <1>1, AttemptsKept DEF DeliveryInv, Shape
  <1>3. Owned'
    BY <1>1, OwnsNothing DEF Idle, Effect, IsEffect
  <1> QED BY <1>2, <1>3 DEF DeliveryInv

(* The checks and the fast-forward of a delivery.                          *)
LEMMA DeliveryStepSound ==
    ASSUME DeliveryInv, DeliveryChecks \/ FastForward
    PROVE  DeliveryInv'
  <1> DEFINE n == op.of
  <1>1. Shape /\ IsEffect /\ op.kind = "delivery" /\ n \in DOMAIN att /\ att[n].status = "RUNNING"
    BY DEF DeliveryInv, Owned, DeliveryChecks, FastForward
  <1>2. UNCHANGED <<att, tree, policy>> /\ \E x : Go(x)
    BY Zenon DEF DeliveryChecks, FastForward, Fails, rows, user, git
  <1>3. target' \in {target, tree[n].head}
    BY DEF DeliveryChecks, FastForward, Fails, user
  <1>4. target' \in AnyHead
    BY <1>1, <1>3, ShapeFacts DEF Shape, Trees
  <1>5. Shape' /\ Gated' /\ InFlightKeepsTree'
    BY <1>1, <1>2, <1>4, AttemptsKept DEF Shape
  <1>6. op'.kind = op.kind /\ op'.of = op.of /\ IsEffect'
    BY <1>1, <1>2, GoKeepsOwner
  <1>7. Owned'
    BY <1>1, <1>2, <1>6 DEF Owned, Staging
  <1> QED BY <1>5, <1>7 DEF DeliveryInv

(* The delivery's result settles the RUNNING Attempt.                      *)
LEMMA DeliverySettlesSound ==
    ASSUME DeliveryInv, DeliverySettles
    PROVE  DeliveryInv'
  <1> DEFINE n == op.of
             a == IF op.step = "failed" THEN [att[n] EXCEPT !.status = "BLOCKED"]
                  ELSE [att[n] EXCEPT !.status = "SUCCEEDED", !.staging = tree[n].head]
  <1>1. Shape /\ n \in DOMAIN att /\ att[n].status = "RUNNING"
    BY DEF DeliveryInv, Owned, DeliverySettles
  <1>2. att[n] \in Rows /\ tree[n] \in Trees
    BY <1>1, ShapeFacts
  <1>3. att' = [att EXCEPT ![n] = a] /\ op' = Idle /\ UNCHANGED <<tree, target, policy>>
    BY Zenon DEF DeliverySettles, user, git
  <1>4. /\ a \in Rows /\ a.status \in {"BLOCKED", "SUCCEEDED"}
        /\ a.fingerprint = att[n].fingerprint /\ a.confirmed = att[n].confirmed
    BY <1>2 DEF Rows, ApplyStatuses, Trees
  <1>5. a.fingerprint = "approved" \/ a.confirmed
    BY <1>1, <1>4 DEF DeliveryInv, Gated
  <1> HIDE DEF a
  <1>6. Shape' /\ Gated' /\ InFlightKeepsTree'
    BY <1>1, <1>3, <1>4, <1>5, RowReplaced
  <1>7. Owned'
    BY <1>3, OwnsNothing DEF Idle, Effect, IsEffect
  <1> QED BY <1>6, <1>7 DEF DeliveryInv

(* A removal runs while no Attempt is in flight, so no staged one loses    *)
(* its worktree.                                                           *)
LEMMA RemoveItemSound ==
    ASSUME DeliveryInv, RemoveItem
    PROVE  DeliveryInv'
  <1>1. Shape /\ IsEffect /\ op.kind = "removal" /\ ~HasActiveApply
    BY DEF DeliveryInv, Owned, RemoveItem
  <1>2. UNCHANGED <<att, target, policy>> /\ \E x : Go(x)
    BY Zenon DEF RemoveItem, rows, user
  <1>3. tree' \in [Numbers -> Trees]
    <2>1. tree' = tree \/ \E t : tree' = [tree EXCEPT ![t].present = FALSE]
      BY Zenon DEF RemoveItem
    <2>2. ASSUME NEW t PROVE [tree EXCEPT ![t].present = FALSE] \in [Numbers -> Trees]
      BY <1>1 DEF Shape, Trees
    <2> QED BY <1>1, <2>1, <2>2 DEF Shape
  <1>4. \A m \in DOMAIN att : att[m].status \notin InFlight
    BY <1>1 DEF HasActiveApply
  <1>5. Shape' /\ Gated' /\ InFlightKeepsTree' /\ ~HasActiveApply'
    BY <1>2, <1>3, <1>4
       DEF DeliveryInv, Shape, Gated, InFlightKeepsTree, InFlight, HasActiveApply
  <1>6. op'.kind = op.kind /\ IsEffect'
    BY <1>1, <1>2, GoKeepsOwner
  <1>7. Owned'
    BY <1>1, <1>5, <1>6 DEF Owned, Staging
  <1> QED BY <1>5, <1>7 DEF DeliveryInv

(* The result of one removal, and the next item.                           *)
LEMMA ItemSettlesSound ==
    ASSUME DeliveryInv, ItemSettles
    PROVE  DeliveryInv'
  <1>1. ~HasActiveApply /\ UNCHANGED <<att, tree, target, policy>>
    BY DEF DeliveryInv, Owned, ItemSettles, user, git
  <1>2. /\ Shape' /\ Gated' /\ InFlightKeepsTree' /\ HasActiveApply' = HasActiveApply
    BY <1>1, AttemptsKept DEF DeliveryInv, Shape
  <1>3. op'.kind \in {"idle", "removal"} /\ IsEffect'
    <2>1. op' = Idle \/ \E i : op' = Effect("removal", op.of, i, "check")
      BY DEF ItemSettles
    <2> QED BY <2>1 DEF Idle, Effect, IsEffect
  <1>4. Owned'
    BY <1>1, <1>2, <1>3 DEF Owned, Staging
  <1> QED BY <1>2, <1>4 DEF DeliveryInv

-----------------------------------------------------------------------------
(* Everything else that happens: a command dies, or the user works.        *)
LEMMA OutsideSound ==
    ASSUME DeliveryInv, Abandoned \/ UserStep \/ UNCHANGED vars
    PROVE  DeliveryInv'
  <1>1. UNCHANGED <<att, tree>>
    BY DEF Abandoned, UserStep, UserCommits, UserEdits, PolicyChanges, BranchMoves, vars, rows, git
  <1>2. target' \in AnyHead
    BY DEF DeliveryInv, Shape, AnyHead, Abandoned, UserStep, UserCommits, UserEdits,
           PolicyChanges, BranchMoves, vars, user
  <1>3. policy' \in {"approved", "changed"}
    BY DEF DeliveryInv, Shape, Abandoned, UserStep, UserCommits, UserEdits,
           PolicyChanges, BranchMoves, vars, user
  <1>4. /\ Shape' /\ Gated' /\ InFlightKeepsTree'
        /\ FirstStaging' = FirstStaging /\ HasActiveApply' = HasActiveApply
    BY <1>1, <1>2, <1>3, AttemptsKept
  <1>5. op' = Idle \/ op' = op
    BY DEF Abandoned, UserStep, UserCommits, UserEdits, PolicyChanges, BranchMoves, vars
  <1>6. Owned'
    <2>1. CASE op' = Idle
      BY <2>1, OwnsNothing DEF Idle, Effect, IsEffect
    <2>2. CASE op' = op
      BY <1>1, <1>4, <2>2 DEF DeliveryInv, Owned, Staging, IsEffect
    <2> QED BY <1>5, <2>1, <2>2
  <1> QED BY <1>4, <1>6 DEF DeliveryInv

(* Every step keeps the invariant.                                         *)
LEMMA NextSound == DeliveryInv /\ [Next]_vars => DeliveryInv'
  <1> SUFFICES ASSUME DeliveryInv, [Next]_vars PROVE DeliveryInv'
    OBVIOUS
  <1>1. CASE Commands
    BY <1>1, PrepareApplySound, ConfirmApplyPolicySound, CleanupCommandSound, ExecuteApplySound
       DEF Commands
  <1>2. CASE EffectStep
    BY <1>2, StageMergeSound, StageVerifySound, StagingSettlesSound, ReviewRunsSound,
       ReviewSettlesSound, ReviewStoppedSound, DeliveryStepSound, DeliverySettlesSound,
       RemoveItemSound, ItemSettlesSound DEF EffectStep
  <1>3. CASE Abandoned \/ UserStep \/ UNCHANGED vars
    BY <1>3, OutsideSound
  <1> QED BY <1>1, <1>2, <1>3 DEF Next

(* The invariant holds throughout.                                         *)
LEMMA DeliveryInvariant == Spec => []DeliveryInv
  BY InitSound, NextSound, PTL DEF Spec

-----------------------------------------------------------------------------
(* What a delivery puts on the Target.  The Target only gains changes      *)
(* while the user only adds commits, so an Attempt whose recorded Target   *)
(* was left behind can never deliver again; the others are the last one,   *)
(* and its staged head is still the one that was verified and reviewed.    *)

Grown ==
    /\ "base" \in target /\ "stray" \notin target
    /\ \A n \in DOMAIN att : "base" \in att[n].target /\ att[n].target \subseteq target

(* Every Attempt but the last is settled for good or left behind.          *)
Superseded ==
    \A n \in DOMAIN att : n # Last /\ att[n].status # "SUCCEEDED" => att[n].target # target

(* A staged head is the Attempt's Target with the work merged into it.     *)
HeadOf(n, head) ==
    /\ n \in DOMAIN att
    /\ att[n].target \subseteq head
    /\ head \subseteq att[n].target \cup {"base", "work", "stray"}
    /\ "stray" \in head => moved

StagedHeads ==
    \A n \in Numbers : /\ tree[n].present => tree[n].head # NoHead
                       /\ tree[n].head # NoHead => HeadOf(n, tree[n].head)

HeadJudged(n) == tree[n].head \in passed.verified /\ tree[n].head \in passed.reviewed

(* A released Attempt that can still deliver passed both judgements.       *)
Judged ==
    \A n \in DOMAIN att :
        att[n].status \in {"AWAITING_CONFIRMATION", "RUNNING"} /\ att[n].target = target
            => HeadJudged(n)

(* Work on the Target came by a delivery, and every Attempt opened before  *)
(* it was opened from a Target that this delivery contains.                *)
FirstDelivery ==
    "work" \in target => \E d \in delivered :
        /\ d \subseteq target /\ "work" \in d
        /\ \A n \in DOMAIN att : "work" \notin att[n].target => att[n].target \subseteq d

Judgements == passed \in [verified : SUBSET AnyHead, reviewed : SUBSET AnyHead]

Ledger ==
    /\ Judgements /\ Grown /\ Superseded /\ StagedHeads /\ Judged /\ FirstDelivery
    /\ DeliversVerified /\ SucceededWasDelivered

(* What the effect in flight already knows of the head it works on.        *)
Judging ==
    /\ Staging => op.of = Last
    /\ Staging /\ op.step = "passed" => tree[Last].head \in passed.verified
    /\ op.kind = "review" =>
          /\ FirstStaging = Last => tree[Last].head \in passed.verified
          /\ op.step = "pass" => tree[FirstStaging].head \in passed.reviewed

Delivering ==
    op.kind = "delivery" =>
        /\ op.step = "fast-forward" => "stray" \notin tree[op.of].head
        /\ op.step = "succeeded" => tree[op.of].head \in delivered \cup {att[op.of].target}

ReleaseInv == Ledger /\ Judging /\ Delivering

-----------------------------------------------------------------------------
(* A record of what passed only grows.                                     *)
PassedGrows ==
    /\ passed' \in [verified : SUBSET AnyHead, reviewed : SUBSET AnyHead]
    /\ passed.verified \subseteq passed'.verified
    /\ passed.reviewed \subseteq passed'.reviewed

(* Steps that touch neither the Attempts nor their heads nor the Target.   *)
LEMMA LedgerKept ==
    ASSUME Ledger, UNCHANGED <<att, tree, target, delivered>>, moved => moved', PassedGrows
    PROVE  Ledger'
  <1>1. Judgements' /\ Grown' /\ Superseded' /\ FirstDelivery' /\ SucceededWasDelivered'
    BY DEF Ledger, PassedGrows, Judgements, Grown, Superseded, FirstDelivery,
           SucceededWasDelivered, Last
  <1>2. StagedHeads'
    BY DEF Ledger, StagedHeads, HeadOf
  <1>3. Judged'
    BY DEF Ledger, Judged, HeadJudged, PassedGrows
  <1>4. DeliversVerified'
    BY DEF Ledger, DeliversVerified, PassedGrows
  <1> QED BY <1>1, <1>2, <1>3, <1>4 DEF Ledger

(* An Attempt's row changes, but not the Target it was opened from: it may *)
(* be released once its head is judged, and succeed once it was delivered. *)
LEMMA LedgerRow ==
    ASSUME Shape, Ledger, NEW n \in DOMAIN att, NEW a \in Rows, att' = [att EXCEPT ![n] = a],
           UNCHANGED <<tree, target, delivered, passed, moved>>,
           att[n].status # "SUCCEEDED", a.target = att[n].target,
           a.status \in {"AWAITING_CONFIRMATION", "RUNNING"} /\ a.target = target => HeadJudged(n),
           a.status = "SUCCEEDED" => a.staging \in delivered \cup {a.target}
    PROVE  Ledger'
  <1>1. /\ Len(att') = Len(att) /\ DOMAIN att' = DOMAIN att
        /\ \A j \in DOMAIN att : att'[j] = IF j = n THEN a ELSE att[j]
    BY ReplaceRow DEF Shape
  <1>2. \A j \in DOMAIN att : att'[j].target = att[j].target
    BY <1>1
  <1>3. Judgements' /\ Grown' /\ FirstDelivery' /\ DeliversVerified'
    BY <1>1, <1>2 DEF Ledger, Judgements, Grown, FirstDelivery, DeliversVerified
  <1>4. Superseded'
    BY <1>1, <1>2 DEF Ledger, Superseded, Last
  <1>5. StagedHeads'
    BY <1>1, <1>2 DEF Ledger, StagedHeads, HeadOf
  <1>6. Judged'
    BY <1>1 DEF Ledger, Judged, HeadJudged
  <1>7. SucceededWasDelivered'
    BY <1>1 DEF Ledger, SucceededWasDelivered
  <1> QED BY <1>3, <1>4, <1>5, <1>6, <1>7 DEF Ledger

(* A new Attempt starts from the present Target, and the one before it is  *)
(* left behind.                                                            *)
LEMMA LedgerAppended ==
    ASSUME Shape, Ledger, NEW a \in Rows, att' = Append(att, a),
           UNCHANGED <<tree, target, delivered, passed, moved>>,
           Last \in DOMAIN att /\ att[Last].target = target => att[Last].status = "SUCCEEDED",
           a.target = target,
           a.status \notin {"AWAITING_CONFIRMATION", "RUNNING", "SUCCEEDED"}
    PROVE  Ledger'
  <1>1. /\ Len(att') = Last + 1 /\ Last \in Nat
        /\ DOMAIN att = 1 .. Last /\ DOMAIN att' = 1 .. Last + 1
        /\ \A j \in DOMAIN att : att'[j] = att[j]
        /\ att'[Last + 1] = a
    BY AppendRow DEF Shape, Last
  <1>2. DOMAIN att' = DOMAIN att \cup {Last + 1} /\ Last + 1 \notin DOMAIN att
    BY <1>1
  <1>3. Judgements' /\ Grown' /\ DeliversVerified'
    BY <1>1, <1>2 DEF Ledger, Judgements, Grown, DeliversVerified
  <1>4. FirstDelivery'
    BY <1>1, <1>2 DEF Ledger, FirstDelivery
  <1>5. Superseded'
    BY <1>1, <1>2 DEF Ledger, Superseded, Last
  <1>6. StagedHeads'
    BY <1>1, <1>2 DEF Ledger, StagedHeads, HeadOf
  <1>7. Judged'
    BY <1>1, <1>2 DEF Ledger, Judged, HeadJudged
  <1>8. SucceededWasDelivered'
    BY <1>1, <1>2 DEF Ledger, SucceededWasDelivered
  <1> QED BY <1>3, <1>4, <1>5, <1>6, <1>7, <1>8 DEF Ledger

(* The worktree of an Attempt that is not released changes, or a worktree  *)
(* goes and leaves its branch.                                             *)
LEMMA LedgerTree ==
    ASSUME Shape, Ledger, NEW n, NEW t \in Trees, tree' = [tree EXCEPT ![n] = t],
           UNCHANGED <<att, target, delivered, passed, moved>>,
           \/ n \notin Numbers
           \/ n \in Numbers /\ t.head = tree[n].head
           \/ n \in DOMAIN att /\ att[n].status \notin {"AWAITING_CONFIRMATION", "RUNNING"},
           n \in Numbers /\ t.present => t.head # NoHead,
           n \in Numbers /\ t.head # NoHead => HeadOf(n, t.head)
    PROVE  Ledger'
  <1>1. \A m \in Numbers : tree'[m] = IF m = n THEN t ELSE tree[m]
    BY DEF Shape
  <1>2. Judgements' /\ Grown' /\ Superseded' /\ FirstDelivery' /\ SucceededWasDelivered'
        /\ DeliversVerified'
    BY DEF Ledger, Judgements, Grown, Superseded, FirstDelivery,
           SucceededWasDelivered, Last, DeliversVerified
  <1>3. StagedHeads'
    BY <1>1 DEF Ledger, StagedHeads, HeadOf
  <1>4. Judged'
    BY <1>1, ShapeFacts DEF Ledger, Judged, HeadJudged
  <1> QED BY <1>2, <1>3, <1>4 DEF Ledger

(* The Target gains changes: no Attempt that was left behind comes back.   *)
LEMMA TargetGrows ==
    ASSUME Ledger, UNCHANGED <<att, tree, passed, moved>>,
           target \subseteq target', target' # target, "stray" \notin target',
           delivered \subseteq delivered', DeliversVerified',
           "work" \in target' => "work" \in target \/ target' \in delivered'
    PROVE  Ledger'
  <1>1. Judgements' /\ Grown'
    BY DEF Ledger, Judgements, Grown
  <1>2. \A n \in DOMAIN att : att[n].target # target'
    BY DEF Ledger, Grown
  <1>3. Superseded' /\ Judged'
    BY <1>2 DEF Superseded, Judged
  <1>4. StagedHeads'
    BY DEF Ledger, StagedHeads, HeadOf
  <1>5. FirstDelivery'
    <2> SUFFICES ASSUME "work" \in target'
                 PROVE  \E d \in delivered' :
                            /\ d \subseteq target' /\ "work" \in d
                            /\ \A n \in DOMAIN att : "work" \notin att[n].target
                                                        => att[n].target \subseteq d
      BY DEF FirstDelivery
    <2>1. CASE "work" \in target
      BY <2>1 DEF Ledger, FirstDelivery
    <2>2. CASE target' \in delivered'
      BY <2>2 DEF Ledger, Grown
    <2> QED BY <2>1, <2>2
  <1>6. SucceededWasDelivered'
    BY DEF Ledger, SucceededWasDelivered
  <1> QED BY <1>1, <1>3, <1>4, <1>5, <1>6 DEF Ledger

-----------------------------------------------------------------------------
(* Init: nothing was delivered and no head is judged.                      *)
LEMMA InitReleases == Init => ReleaseInv
  <1> SUFFICES ASSUME Init PROVE ReleaseInv
    OBVIOUS
  <1>1. att = <<>> /\ DOMAIN att = {}
    BY DEF Init
  <1>2. Judgements /\ target = {"base"} /\ delivered = {}
    BY DEF Init, Judgements, BaseHead
  <1>3. Grown /\ Superseded /\ Judged /\ FirstDelivery /\ DeliversVerified /\ SucceededWasDelivered
    BY <1>1, <1>2 DEF Grown, Superseded, Judged, FirstDelivery, DeliversVerified,
                      SucceededWasDelivered
  <1>4. StagedHeads
    BY DEF Init, StagedHeads, NoHead
  <1>5. Judging /\ Delivering
    BY DEF Init, Judging, Delivering, Staging, Idle, Effect
  <1> QED BY <1>2, <1>3, <1>4, <1>5 DEF ReleaseInv, Ledger

(* An effect that neither judges nor delivers knows nothing of a head.     *)
LEMMA KnowsNothing ==
    ASSUME op'.kind \in {"idle", "stop", "removal"}
    PROVE  Judging' /\ Delivering'
  BY DEF Judging, Delivering, Staging

(* No judgement is made.                                                   *)
LEMMA NothingPassed ==
    ASSUME Ledger, UNCHANGED passed
    PROVE  PassedGrows
  BY DEF Ledger, Judgements, PassedGrows

-----------------------------------------------------------------------------
(* The commands.                                                           *)

(* A staging that starts works on the last Attempt.                        *)
LEMMA StartStagingJudges ==
    ASSUME NEW n, NEW a, StartStaging(n, a), n = Last'
    PROVE  Judging' /\ Delivering'
  <1>1. op'.kind \in {"staging", "resolution"} /\ op'.of = n /\ op'.step = "merge"
    BY DEF StartStaging, Effect
  <1> QED BY <1>1 DEF Judging, Delivering, Staging

(* What opening an Attempt does to the table and to the effect.            *)
LEMMA OpenedAttempt ==
    ASSUME NEW n, NEW a \in Rows, OpenAttempt(n, a) \/ StartStaging(n, a), op = Idle,
           a.status = "STAGING"
    PROVE  \E b \in Rows :
              /\ b.status \in {"STAGING", "BLOCKED"} /\ b.target = a.target
              /\ att' = IF n > Last THEN Append(att, b) ELSE [att EXCEPT ![n] = b]
              /\ UNCHANGED <<tree, target, delivered, passed, moved>>
              /\ op' = Idle \/ StartStaging(n, a)
  <1> DEFINE blocked == [a EXCEPT !.status = "BLOCKED"]
  <1>1. blocked \in Rows /\ blocked.status = "BLOCKED" /\ blocked.target = a.target
    BY DEF Rows, ApplyStatuses
  <1>2. CASE StartStaging(n, a)
    BY <1>2, Zenon DEF StartStaging, git, user, history
  <1>3. CASE OpenAttempt(n, a) /\ ~StartStaging(n, a)
    <2>1. /\ att' = IF n > Last THEN Append(att, blocked) ELSE [att EXCEPT ![n] = blocked]
          /\ UNCHANGED <<op, git, user, history>>
      BY <1>3, Zenon DEF OpenAttempt
    <2>2. UNCHANGED <<tree, target, delivered, passed, moved>> /\ op' = Idle
      BY <2>1 DEF git, user, history
    <2> HIDE DEF blocked
    <2> QED BY <1>1, <2>1, <2>2, Zenon
  <1> QED BY <1>2, <1>3

(* The last Attempt is opened again.                                       *)
LEMMA OpenedAgain ==
    ASSUME Shape, ReleaseInv, NEW a \in Rows, Last \in DOMAIN att, op = Idle,
           OpenAttempt(Last, a) \/ StartStaging(Last, a),
           a.status = "STAGING", a.target = att[Last].target, att[Last].status # "SUCCEEDED"
    PROVE  ReleaseInv'
  <1>1. Last \in Nat /\ ~(Last > Last)
    BY LenProperties DEF Shape, Last
  <1>2. PICK b \in Rows :
            /\ b.status \in {"STAGING", "BLOCKED"} /\ b.target = a.target
            /\ att' = IF Last > Last THEN Append(att, b) ELSE [att EXCEPT ![Last] = b]
            /\ UNCHANGED <<tree, target, delivered, passed, moved>>
            /\ op' = Idle \/ StartStaging(Last, a)
    BY OpenedAttempt
  <1>3. att' = [att EXCEPT ![Last] = b]
    BY <1>1, <1>2, Zenon
  <1>4. Ledger'
    BY <1>2, <1>3, LedgerRow DEF ReleaseInv
  <1>5. Last' = Last
    BY <1>3, ReplaceRow DEF Last, Shape
  <1>6. Judging' /\ Delivering'
    BY <1>2, <1>5, StartStagingJudges, KnowsNothing DEF Idle, Effect
  <1> QED BY <1>4, <1>6 DEF ReleaseInv

(* A new Attempt, once the one before it is left behind or SUCCEEDED; a    *)
(* blocked or released one is opened again instead.                        *)
LEMMA PrepareReleases ==
    ASSUME DeliveryInv, ReleaseInv, PrepareApply
    PROVE  ReleaseInv'
  <1>0. op = Idle /\ Shape /\ DOMAIN att = 1 .. Last /\ Last \in Nat
        /\ \A n \in DOMAIN att : att[n] \in Rows
    BY ShapeFacts DEF PrepareApply, Command, DeliveryInv, Last
  <1> DEFINE again == [att[Last] EXCEPT !.status = "STAGING"]
             new == [status |-> "STAGING", target |-> target, fingerprint |-> policy,
                     confirmed |-> FALSE, staging |-> NoHead]
  <1>1. CASE /\ SameAttempt /\ att[Last].status \in {"STAGING", "BLOCKED"}
             /\ OpenAttempt(Last, again)
    <2>1. Last \in DOMAIN att
      BY <1>0, <1>1 DEF SameAttempt
    <2>2. again \in Rows /\ again.status = "STAGING" /\ again.target = att[Last].target
      BY <1>0, <2>1 DEF Rows, ApplyStatuses
    <2> HIDE DEF again
    <2> QED BY <1>0, <1>1, <2>1, <2>2, OpenedAgain
  <1>2. CASE /\ ~(SameAttempt /\ att[Last].status \in InFlight \cup {"BLOCKED"})
             /\ OpenAttempt(Last + 1, new)
    <2>1. new \in Rows /\ new.status = "STAGING" /\ new.target = target
      BY <1>0 DEF Shape, Rows, ApplyStatuses, AnyHead, NoHead
    <2> HIDE DEF new
    <2>2. PICK b \in Rows :
              /\ b.status \in {"STAGING", "BLOCKED"} /\ b.target = new.target
              /\ att' = IF Last + 1 > Last THEN Append(att, b) ELSE [att EXCEPT ![Last + 1] = b]
              /\ UNCHANGED <<tree, target, delivered, passed, moved>>
              /\ op' = Idle \/ StartStaging(Last + 1, new)
      BY <1>0, <1>2, <2>1, OpenedAttempt
    <2>3. Last + 1 > Last
      BY <1>0
    <2>4. att' = Append(att, b)
      BY <2>2, <2>3, Zenon
    <2>5. Last \in DOMAIN att /\ att[Last].target = target => att[Last].status = "SUCCEEDED"
      BY <1>0, <1>2 DEF SameAttempt, InFlight, Rows, ApplyStatuses
    <2>6. Ledger'
      BY <1>0, <2>1, <2>2, <2>4, <2>5, LedgerAppended DEF ReleaseInv
    <2>7. Last' = Last + 1
      BY <1>0, <2>4, AppendRow DEF Last, Shape
    <2>8. Judging' /\ Delivering'
      BY <2>2, <2>7, StartStagingJudges, KnowsNothing DEF Idle, Effect
    <2> QED BY <2>6, <2>8 DEF ReleaseInv
  <1> QED BY <1>1, <1>2 DEF PrepareApply

(* A confirmed commit policy opens the last Attempt again.                 *)
LEMMA ConfirmReleases ==
    ASSUME DeliveryInv, ReleaseInv, ConfirmApplyPolicy
    PROVE  ReleaseInv'
  <1>0. op = Idle /\ Shape /\ DOMAIN att = 1 .. Last /\ Last \in Nat
        /\ \A n \in DOMAIN att : att[n] \in Rows
    BY ShapeFacts DEF ConfirmApplyPolicy, Command, DeliveryInv, Last
  <1> DEFINE a == [att[Last] EXCEPT !.status = "STAGING", !.confirmed = TRUE]
  <1>1. Last \in DOMAIN att /\ att[Last].status = "BLOCKED" /\ StartStaging(Last, a)
    BY <1>0 DEF ConfirmApplyPolicy, SameAttempt
  <1>2. a \in Rows /\ a.status = "STAGING" /\ a.target = att[Last].target
    BY <1>0, <1>1 DEF Rows, ApplyStatuses
  <1> HIDE DEF a
  <1> QED BY <1>0, <1>1, <1>2, OpenedAgain

(* Execution re-opens the delivery of an Attempt that was released.        *)
LEMMA ExecuteReleases ==
    ASSUME DeliveryInv, ReleaseInv, NEW n \in DOMAIN att, ExecuteApply(n)
    PROVE  ReleaseInv'
  <1> DEFINE a == [att[n] EXCEPT !.status = "RUNNING"]
  <1>1. Shape /\ att[n] \in Rows
    BY ShapeFacts DEF DeliveryInv
  <1>2. a \in Rows /\ a.status = "RUNNING" /\ a.target = att[n].target
    BY <1>1 DEF Rows, ApplyStatuses
  <1>3. att' = [att EXCEPT ![n] = a] /\ UNCHANGED <<tree, target, delivered, passed, moved>>
    BY <1>1 DEF ExecuteApply, git, user, history
  <1>4. att[n].status \in {"AWAITING_CONFIRMATION", "RUNNING"}
    BY DEF ExecuteApply
  <1> HIDE DEF a
  <1>5. a.target = target => HeadJudged(n)
    BY <1>2, <1>4 DEF ReleaseInv, Ledger, Judged
  <1>6. Ledger'
    BY <1>1, <1>2, <1>3, <1>4, <1>5, LedgerRow DEF ReleaseInv
  <1>7. op'.kind = "delivery" /\ op'.step = "check"
    BY DEF ExecuteApply, Effect
  <1>8. Judging' /\ Delivering'
    BY <1>7 DEF Judging, Delivering, Staging
  <1> QED BY <1>6, <1>8 DEF ReleaseInv

(* A Cleanup command decides nothing about Attempts.                       *)
LEMMA CleanupReleases ==
    ASSUME ReleaseInv, CleanupDryRun \/ CleanupExecute
    PROVE  ReleaseInv'
  <1>1. UNCHANGED <<att, tree, target, delivered, passed, moved>>
    BY DEF CleanupDryRun, CleanupExecute, git, user, history
  <1>2. Ledger'
    BY <1>1, NothingPassed, LedgerKept DEF ReleaseInv
  <1>3. op'.kind \in {"idle", "removal"}
    BY DEF CleanupDryRun, CleanupExecute, Command, RequestItem, Idle, Effect
  <1> QED BY <1>2, <1>3, KnowsNothing DEF ReleaseInv

-----------------------------------------------------------------------------
(* The effects.                                                            *)

(* The head a merge may leave in the Apply worktree.                       *)
LEMMA MergedHead ==
    ASSUME Shape, Ledger, NEW n \in DOMAIN att, CanStage(n)
    PROVE  LET t == Staged(n) IN
           /\ t \in Trees /\ t.head # NoHead /\ HeadOf(n, t.head)
           /\ t.head \cup DeliveryBranch # NoHead /\ HeadOf(n, t.head \cup DeliveryBranch)
  <1> DEFINE t == Staged(n)
  <1>1. n \in Numbers /\ att[n] \in Rows /\ tree[n] \in Trees
    BY ShapeFacts
  <1>2. "base" \in att[n].target /\ att[n].target \subseteq target /\ "stray" \notin target
    BY DEF Ledger, Grown
  <1>3. t \in Trees
    BY <1>1 DEF Staged, Trees, Rows
  <1>4. t.head # NoHead /\ HeadOf(n, t.head)
    <2>1. CASE tree[n].present
      BY <1>1, <2>1 DEF Staged, Ledger, StagedHeads
    <2>2. CASE ~tree[n].present
      <3>1. t.head = att[n].target
        BY <1>1, <2>2 DEF Staged, Trees
      <3> QED BY <1>2, <3>1 DEF HeadOf, NoHead
    <2> QED BY <2>1, <2>2
  <1>5. "base" \in DeliveryBranch /\ DeliveryBranch \subseteq {"base", "work", "stray"}
        /\ ("stray" \in DeliveryBranch => moved)
    BY DEF DeliveryBranch, DeliveryHead
  <1>6. t.head \cup DeliveryBranch # NoHead /\ HeadOf(n, t.head \cup DeliveryBranch)
    BY <1>4, <1>5 DEF HeadOf, NoHead
  <1> QED BY <1>3, <1>4, <1>6

(* Staging works on the last Attempt, which is not released yet.           *)
LEMMA StageMergeReleases ==
    ASSUME DeliveryInv, ReleaseInv, StageMerge
    PROVE  ReleaseInv'
  <1> DEFINE n == op.of
             t == Staged(n)
  <1>1. /\ Shape /\ Ledger /\ IsEffect /\ n \in DOMAIN att /\ att[n].status = "STAGING" /\ Staging
        /\ n = Last
    BY DEF DeliveryInv, Owned, StageMerge, ReleaseInv, Judging
  <1>2. UNCHANGED <<att, target, delivered, passed, moved>>
    BY Zenon DEF StageMerge, Fails, rows, user, history
  <1>3. /\ \E x \in {"failed", "verify"} : Go(x)
        /\ tree' = tree \/ (CanStage(n) /\ ~Fails)
    <2>1. Go("failed") \/ Go("verify")
      BY Zenon DEF StageMerge, MergeInto, Fails
    <2>2. tree' = tree \/ (CanStage(n) /\ ~Fails)
      BY DEF StageMerge, Fails, git
    <2> QED BY <2>1, <2>2
  <1>4. ASSUME tree' = tree PROVE Ledger'
    BY <1>1, <1>2, <1>4, NothingPassed, LedgerKept
  <1>5. ASSUME CanStage(n), ~Fails PROVE Ledger'
    <2>1. /\ t \in Trees /\ t.head # NoHead /\ HeadOf(n, t.head)
          /\ t.head \cup DeliveryBranch # NoHead /\ HeadOf(n, t.head \cup DeliveryBranch)
      BY <1>1, <1>5, MergedHead
    <2> HIDE DEF t
    <2> DEFINE Ready(u) == u \in Trees /\ u.head # NoHead /\ HeadOf(n, u.head)
    <2>2. DeliveryBranch \in AnyHead
      BY DEF DeliveryBranch, DeliveryHead, AnyHead
    <2>3. /\ Ready([t EXCEPT !.resolved = TRUE, !.conflict = FALSE, !.head = @ \cup DeliveryBranch])
          /\ Ready([t EXCEPT !.resolved = TRUE])
          /\ Ready([t EXCEPT !.head = @ \cup DeliveryBranch])
          /\ Ready([t EXCEPT !.conflict = TRUE])
          /\ Ready(t)
      BY <2>1, <2>2 DEF Trees, AnyHead
    <2> HIDE DEF Ready
    <2>4. \E u : Ready(u) /\ tree' = [tree EXCEPT ![n] = u]
      BY <1>5, <2>3, Zenon DEF StageMerge, MergeInto, t
    <2>5. PICK u : Ready(u) /\ tree' = [tree EXCEPT ![n] = u]
      BY <2>4
    <2>6. u \in Trees /\ u.head # NoHead /\ HeadOf(n, u.head)
      BY <2>5 DEF Ready
    <2> QED BY <1>1, <1>2, <2>5, <2>6, LedgerTree
  <1>6. Ledger'
    BY <1>3, <1>4, <1>5
  <1>7. op'.kind = op.kind /\ op'.of = op.of /\ op'.step # "passed"
    BY <1>1, <1>3, GoKeepsOwner
  <1>8. Judging' /\ Delivering'
    BY <1>1, <1>2, <1>7 DEF Judging, Delivering, Staging, Last
  <1> QED BY <1>6, <1>8 DEF ReleaseInv

(* A staged tree passes its verification: the head is the last Attempt's.  *)
LEMMA StageVerifyReleases ==
    ASSUME DeliveryInv, ReleaseInv, StageVerify
    PROVE  ReleaseInv'
  <1> DEFINE n == op.of
  <1>1. /\ Shape /\ Ledger /\ IsEffect /\ n \in DOMAIN att /\ Staging /\ n = Last
        /\ tree[n] \in Trees
    BY ShapeFacts DEF DeliveryInv, Owned, StageVerify, ReleaseInv, Judging
  <1>2. UNCHANGED <<att, tree, target, delivered, moved>>
    BY DEF StageVerify, Fails, rows, user, history, git
  <1>3. CASE Go("failed") /\ UNCHANGED passed
    <2>1. Ledger'
      BY <1>1, <1>2, <1>3, NothingPassed, LedgerKept
    <2>2. op'.kind = op.kind /\ op'.of = op.of /\ op'.step = "failed"
      BY <1>1, <1>3, GoKeepsOwner
    <2>3. Judging' /\ Delivering'
      BY <1>1, <1>2, <2>2 DEF Judging, Delivering, Staging, Last
    <2> QED BY <2>1, <2>3 DEF ReleaseInv
  <1>4. CASE Go("passed") /\ passed' = [passed EXCEPT !.verified = @ \cup {tree[n].head}]
    <2>1. PassedGrows /\ tree[n].head \in passed'.verified
      BY <1>1, <1>4 DEF PassedGrows, Ledger, Judgements, Trees
    <2>2. Ledger'
      BY <1>1, <1>2, <2>1, LedgerKept
    <2>3. op'.kind = op.kind /\ op'.of = op.of /\ op'.step = "passed"
      BY <1>1, <1>4, GoKeepsOwner
    <2>4. Judging' /\ Delivering'
      BY <1>1, <1>2, <2>1, <2>3 DEF Judging, Delivering, Staging, Last
    <2> QED BY <2>2, <2>4 DEF ReleaseInv
  <1> QED BY <1>3, <1>4 DEF StageVerify, Fails, history

(* The review is asked of the Attempt whose staging just passed.           *)
LEMMA StagingSettlesReleases ==
    ASSUME DeliveryInv, ReleaseInv, StagingSettles
    PROVE  ReleaseInv'
  <1> DEFINE n == op.of
  <1>1. /\ Shape /\ Ledger /\ n \in DOMAIN att /\ att[n].status = "STAGING" /\ Staging /\ n = Last
    BY DEF DeliveryInv, Owned, StagingSettles, ReleaseInv, Judging
  <1>2. att[n] \in Rows /\ tree[n] \in Trees
    BY <1>1, ShapeFacts
  <1>3. UNCHANGED <<tree, target, delivered, passed, moved>>
    BY DEF StagingSettles, user, git, history
  <1>4. CASE op.step = "passed"
    <2> DEFINE a == [att[n] EXCEPT !.staging = tree[n].head]
    <2>1. a \in Rows /\ a.status = "STAGING" /\ a.target = att[n].target
      BY <1>1, <1>2 DEF Rows, Trees
    <2>2. att' = [att EXCEPT ![n] = a] /\ op'.kind = "review" /\ op'.step = "run"
      BY <1>4 DEF StagingSettles, Effect
    <2> HIDE DEF a
    <2>3. Ledger'
      BY <1>1, <1>3, <2>1, <2>2, LedgerRow
    <2>4. Last' = Last
      BY <1>1, <2>1, <2>2, ReplaceRow DEF Last, Shape
    <2>5. tree[Last].head \in passed.verified
      BY <1>1, <1>4 DEF ReleaseInv, Judging
    <2>6. Judging' /\ Delivering'
      BY <1>3, <2>2, <2>4, <2>5 DEF Judging, Delivering, Staging
    <2> QED BY <2>3, <2>6 DEF ReleaseInv
  <1>5. CASE op.step = "failed"
    <2> DEFINE a == [att[n] EXCEPT !.status = "BLOCKED"]
    <2>1. a \in Rows /\ a.status = "BLOCKED" /\ a.target = att[n].target
      BY <1>2 DEF Rows, ApplyStatuses
    <2>2. att' = [att EXCEPT ![n] = a] /\ op'.kind = "idle"
      BY <1>5 DEF StagingSettles, Idle, Effect
    <2> HIDE DEF a
    <2>3. Ledger'
      BY <1>1, <1>3, <2>1, <2>2, LedgerRow
    <2> QED BY <2>2, <2>3, KnowsNothing DEF ReleaseInv
  <1> QED BY <1>4, <1>5 DEF StagingSettles

(* The review judges the head it runs on.                                  *)
LEMMA ReviewRunsReleases ==
    ASSUME DeliveryInv, ReleaseInv, ReviewRuns
    PROVE  ReleaseInv'
  <1> DEFINE n == FirstStaging
  <1>1. /\ Shape /\ Ledger /\ IsEffect /\ op.kind = "review"
        /\ \E m \in DOMAIN att : att[m].status = "STAGING"
    BY DEF DeliveryInv, Owned, ReviewRuns, ReleaseInv
  <1>2. tree[n] \in Trees
    BY <1>1, FirstStagingIsStaging, ShapeFacts
  <1>3. UNCHANGED <<att, tree, target, delivered, moved>>
    BY DEF ReviewRuns, rows, user, git
  <1>4. PICK verdict : /\ Go(verdict)
                       /\ passed' = IF verdict = "pass"
                            THEN [passed EXCEPT !.reviewed = @ \cup {tree[n].head}] ELSE passed
    BY Zenon DEF ReviewRuns
  <1>5. PassedGrows /\ (verdict = "pass" => tree[n].head \in passed'.reviewed)
    BY <1>1, <1>2, <1>4 DEF PassedGrows, Ledger, Judgements, Trees
  <1>6. Ledger'
    BY <1>1, <1>3, <1>5, LedgerKept
  <1>7. op'.kind = "review" /\ op'.step = verdict
    BY <1>1, <1>4, GoKeepsOwner
  <1>8. FirstStaging' = FirstStaging /\ Last' = Last
    BY <1>3 DEF FirstStaging, Last
  <1>9. FirstStaging = Last => tree[Last].head \in passed'.verified
    BY <1>1, <1>5 DEF ReleaseInv, Judging, PassedGrows
  <1>10. Judging' /\ Delivering'
    BY <1>3, <1>5, <1>7, <1>8, <1>9 DEF Judging, Delivering, Staging
  <1> QED BY <1>6, <1>10 DEF ReleaseInv

(* A passed review releases its Attempt: it is the last one, whose head is *)
(* the verified one, or its Target was left behind.                        *)
LEMMA ReviewSettlesReleases ==
    ASSUME DeliveryInv, ReleaseInv, ReviewSettles
    PROVE  ReleaseInv'
  <1> DEFINE n == FirstStaging
             a == [att[n] EXCEPT !.status = Verdict(op.step)]
  <1>1. Shape /\ Ledger /\ op.kind = "review" /\ \E m \in DOMAIN att : att[m].status = "STAGING"
    BY DEF DeliveryInv, Owned, ReviewSettles, ReleaseInv
  <1>2. n \in DOMAIN att /\ att[n].status = "STAGING"
    BY <1>1, FirstStagingIsStaging
  <1>3. att[n] \in Rows
    BY <1>1, <1>2, ShapeFacts
  <1>4. att' = [att EXCEPT ![n] = a] /\ UNCHANGED <<tree, target, delivered, passed, moved>>
    BY DEF ReviewSettles, user, git, history
  <1>5. a \in Rows /\ a.target = att[n].target /\ a.status = Verdict(op.step)
    BY <1>3 DEF Rows, ApplyStatuses, Verdict
  <1>6. op'.kind \in {"idle", "stop"}
    BY DEF ReviewSettles, Idle, Effect
  <1>7. ASSUME a.status \in {"AWAITING_CONFIRMATION", "RUNNING"}, a.target = target
        PROVE  HeadJudged(n)
    <2>1. op.step = "pass"
      BY <1>5, <1>7 DEF Verdict
    <2>2. n = Last
      BY <1>1, <1>2, <1>5, <1>7 DEF Ledger, Superseded
    <2> QED BY <1>1, <2>1, <2>2 DEF ReleaseInv, Judging, HeadJudged
  <1>8. a.status # "SUCCEEDED"
    BY <1>5 DEF Verdict
  <1> HIDE DEF a, n
  <1>9. Ledger'
    BY <1>1, <1>2, <1>4, <1>5, <1>7, <1>8, LedgerRow
  <1> QED BY <1>6, <1>9, KnowsNothing DEF ReleaseInv

(* A delivery that finds the Target at its staged head, without having     *)
(* left its own Target, finds a delivery of exactly that head.             *)
LEMMA FoundDelivered ==
    ASSUME Shape, Ledger, NEW n \in DOMAIN att, AlreadyDelivered(n)
    PROVE  tree[n].head \in delivered \cup {att[n].target}
  <1>1. n \in Numbers /\ tree[n].head # NoHead /\ target = tree[n].head
    BY ShapeFacts DEF AlreadyDelivered, Reviewed
  <1>2. HeadOf(n, target) /\ "stray" \notin target /\ "base" \in att[n].target
    BY <1>1 DEF Ledger, StagedHeads, Grown
  <1>3. target \subseteq att[n].target \cup {"work"} /\ att[n].target \subseteq target
    BY <1>2 DEF HeadOf
  <1>4. CASE "work" \in target /\ "work" \notin att[n].target
    <2>1. PICK d \in delivered :
              /\ d \subseteq target /\ "work" \in d
              /\ \A m \in DOMAIN att : "work" \notin att[m].target => att[m].target \subseteq d
      BY <1>4 DEF Ledger, FirstDelivery
    <2>2. att[n].target \subseteq d
      BY <1>4, <2>1
    <2>3. d = target
      BY <1>3, <2>1, <2>2
    <2> QED BY <1>1, <2>1, <2>3
  <1>5. CASE ~("work" \in target /\ "work" \notin att[n].target)
    BY <1>1, <1>3, <1>5
  <1> QED BY <1>4, <1>5

(* The checks before a delivery.                                           *)
LEMMA DeliveryChecksReleases ==
    ASSUME DeliveryInv, ReleaseInv, DeliveryChecks
    PROVE  ReleaseInv'
  <1> DEFINE n == op.of
  <1>1. Shape /\ Ledger /\ IsEffect /\ op.kind = "delivery" /\ n \in DOMAIN att
    BY DEF DeliveryInv, Owned, DeliveryChecks, ReleaseInv
  <1>2. UNCHANGED <<att, tree, target, delivered, passed, moved>>
    BY DEF DeliveryChecks, rows, user, git, history
  <1>3. Ledger'
    BY <1>1, <1>2, NothingPassed, LedgerKept
  <1>4. CASE Go("failed")
    <2>1. op'.kind = "delivery" /\ op'.step = "failed"
      BY <1>1, <1>4, GoKeepsOwner
    <2> QED BY <1>3, <2>1 DEF Judging, Delivering, Staging, ReleaseInv
  <1>5. CASE AlreadyDelivered(n) /\ Go("succeeded")
    <2>1. op'.kind = "delivery" /\ op'.of = n /\ op'.step = "succeeded"
      BY <1>1, <1>5, GoKeepsOwner
    <2>2. tree[n].head \in delivered \cup {att[n].target}
      BY <1>1, <1>5, FoundDelivered
    <2> QED BY <1>2, <1>3, <2>1, <2>2 DEF Judging, Delivering, Staging, ReleaseInv
  <1>6. CASE Deliverable(n) /\ Go("fast-forward")
    <2>1. op'.kind = "delivery" /\ op'.of = n /\ op'.step = "fast-forward"
      BY <1>1, <1>6, GoKeepsOwner
    <2>2. "stray" \notin tree[n].head
      BY <1>1, <1>6, ShapeFacts DEF Deliverable, Reviewed, Ledger, StagedHeads, HeadOf
    <2> QED BY <1>2, <1>3, <2>1, <2>2 DEF Judging, Delivering, Staging, ReleaseInv
  <1> QED BY <1>4, <1>5, <1>6 DEF DeliveryChecks, Fails

(* The fast-forward puts a head on the Target that passed both judgements. *)
LEMMA FastForwardReleases ==
    ASSUME DeliveryInv, ReleaseInv, FastForward
    PROVE  ReleaseInv'
  <1> DEFINE n == op.of
  <1>1. /\ Shape /\ Ledger /\ IsEffect /\ op.kind = "delivery" /\ op.step = "fast-forward"
        /\ n \in DOMAIN att /\ att[n].status = "RUNNING"
    BY DEF DeliveryInv, Owned, FastForward, ReleaseInv
  <1>2. UNCHANGED <<att, tree, passed, moved>>
    BY DEF FastForward, Fails, rows, user, git, history
  <1>3. CASE Fails
    <2>1. Ledger'
      BY <1>1, <1>2, <1>3, NothingPassed, LedgerKept DEF Fails, user, history
    <2>2. op'.kind = "delivery" /\ op'.step = "failed"
      BY <1>1, <1>3, GoKeepsOwner DEF Fails
    <2> QED BY <2>1, <2>2 DEF Judging, Delivering, Staging, ReleaseInv
  <1>4. CASE /\ CanFastForward(n) /\ target' = tree[n].head
             /\ delivered' = delivered \cup {tree[n].head} /\ Go("succeeded")
    <2>1. op'.kind = "delivery" /\ op'.of = n /\ op'.step = "succeeded"
      BY <1>1, <1>4, GoKeepsOwner
    <2>2. HeadJudged(n)
      BY <1>1, <1>4 DEF CanFastForward, Ledger, Judged
    <2>3. DeliversVerified'
      BY <1>1, <1>2, <1>4, <2>2 DEF DeliversVerified, Ledger, HeadJudged
    <2>4. "stray" \notin tree[n].head
      BY <1>1 DEF ReleaseInv, Delivering
    <2>5. ASSUME target' = target PROVE Ledger'
      <3>1. SucceededWasDelivered' /\ FirstDelivery'
        BY <1>1, <1>2, <1>4, <2>5 DEF Ledger, SucceededWasDelivered, FirstDelivery
      <3>2. Judgements' /\ Grown' /\ Superseded' /\ StagedHeads' /\ Judged'
        BY <1>1, <1>2, <2>5 DEF Ledger, Judgements, Grown, Superseded, StagedHeads, HeadOf,
                                Judged, HeadJudged, Last
      <3> QED BY <2>3, <3>1, <3>2 DEF Ledger
    <2>6. ASSUME target' # target PROVE Ledger'
      BY <1>1, <1>2, <1>4, <2>3, <2>4, <2>6, TargetGrows DEF CanFastForward
    <2>7. Judging' /\ Delivering'
      BY <1>2, <1>4, <2>1 DEF Judging, Delivering, Staging
    <2> QED BY <2>5, <2>6, <2>7 DEF ReleaseInv
  <1> QED BY <1>3, <1>4 DEF FastForward

(* The delivery's result names the head that was delivered.                *)
LEMMA DeliverySettlesReleases ==
    ASSUME DeliveryInv, ReleaseInv, DeliverySettles
    PROVE  ReleaseInv'
  <1> DEFINE n == op.of
             a == IF op.step = "failed" THEN [att[n] EXCEPT !.status = "BLOCKED"]
                  ELSE [att[n] EXCEPT !.status = "SUCCEEDED", !.staging = tree[n].head]
  <1>1. /\ Shape /\ Ledger /\ n \in DOMAIN att /\ att[n].status = "RUNNING"
        /\ op.kind = "delivery" /\ op.step \in {"failed", "succeeded"}
    BY DEF DeliveryInv, Owned, DeliverySettles, ReleaseInv
  <1>2. att[n] \in Rows /\ tree[n] \in Trees
    BY <1>1, ShapeFacts
  <1>3. /\ att' = [att EXCEPT ![n] = a] /\ op' = Idle
        /\ UNCHANGED <<tree, target, delivered, passed, moved>>
    BY Zenon DEF DeliverySettles, user, git, history
  <1>4. /\ a \in Rows /\ a.status \in {"BLOCKED", "SUCCEEDED"} /\ a.target = att[n].target
        /\ a.status = "SUCCEEDED" => op.step = "succeeded" /\ a.staging = tree[n].head
    BY <1>1, <1>2 DEF Rows, ApplyStatuses, Trees
  <1> HIDE DEF a
  <1>5. a.status = "SUCCEEDED" => a.staging \in delivered \cup {a.target}
    BY <1>1, <1>4 DEF ReleaseInv, Delivering
  <1>6. Ledger'
    BY <1>1, <1>3, <1>4, <1>5, LedgerRow
  <1> QED BY <1>3, <1>6, KnowsNothing DEF ReleaseInv, Idle, Effect

(* A removed worktree leaves its branch, and with it the staged head.      *)
LEMMA RemoveItemReleases ==
    ASSUME DeliveryInv, ReleaseInv, RemoveItem
    PROVE  ReleaseInv'
  <1>1. Shape /\ Ledger /\ IsEffect /\ op.kind = "removal"
    BY DEF DeliveryInv, Owned, RemoveItem, ReleaseInv
  <1>2. UNCHANGED <<att, target, delivered, passed, moved>> /\ \E x : Go(x)
    BY Zenon DEF RemoveItem, rows, user, history
  <1>3. tree' = tree \/ \E m : tree' = [tree EXCEPT ![m].present = FALSE]
    BY Zenon DEF RemoveItem
  <1>4. ASSUME tree' = tree PROVE Ledger'
    BY <1>1, <1>2, <1>4, NothingPassed, LedgerKept
  <1>5. ASSUME NEW m \in Numbers, tree' = [tree EXCEPT ![m].present = FALSE]
        PROVE  Ledger'
    <2> DEFINE t == [tree[m] EXCEPT !.present = FALSE]
    <2>1. t \in Trees /\ t.head = tree[m].head /\ ~t.present
      BY <1>1 DEF Shape, Trees
    <2>2. tree' = [tree EXCEPT ![m] = t]
      BY <1>5
    <2>3. t.head # NoHead => HeadOf(m, t.head)
      BY <1>1, <2>1 DEF Ledger, StagedHeads
    <2> HIDE DEF t
    <2> QED BY <1>1, <1>2, <2>1, <2>2, <2>3, LedgerTree
  <1>6. ASSUME NEW m, m \notin Numbers, tree' = [tree EXCEPT ![m].present = FALSE]
        PROVE  tree' = tree
    BY <1>1, <1>6 DEF Shape
  <1>7. Ledger'
    BY <1>3, <1>4, <1>5, <1>6
  <1>8. op'.kind = "removal"
    BY <1>1, <1>2, GoKeepsOwner
  <1> QED BY <1>7, <1>8, KnowsNothing DEF ReleaseInv

(* A stopped review Process and a settled removal leave the Attempts be.   *)
LEMMA SettlesReleases ==
    ASSUME ReleaseInv, ReviewStopped \/ ItemSettles
    PROVE  ReleaseInv'
  <1>1. UNCHANGED <<att, tree, target, delivered, passed, moved>>
    BY DEF ReviewStopped, ItemSettles, user, git, history
  <1>2. op'.kind \in {"idle", "removal"}
    <2>1. op' = Idle \/ \E i : op' = Effect("removal", op.of, i, "check")
      BY DEF ReviewStopped, ItemSettles
    <2> QED BY <2>1 DEF Idle, Effect
  <1>3. Ledger'
    BY <1>1, NothingPassed, LedgerKept DEF ReleaseInv
  <1> QED BY <1>2, <1>3, KnowsNothing DEF ReleaseInv

-----------------------------------------------------------------------------
(* A command dies, or the user works; a user's commit moves the Target.    *)
LEMMA OutsideReleases ==
    ASSUME ReleaseInv, Abandoned \/ UserStep \/ UNCHANGED vars
    PROVE  ReleaseInv'
  <1>1. UNCHANGED <<att, tree, passed, delivered>> /\ (moved => moved')
    BY DEF Abandoned, UserStep, UserCommits, UserEdits, PolicyChanges, BranchMoves, vars, rows,
           git, user, history
  <1>2. Ledger'
    <2>1. CASE target' = target
      BY <1>1, <2>1, NothingPassed, LedgerKept DEF ReleaseInv
    <2>2. CASE target' # target
      <3>1. UserCommits
        BY <2>2 DEF Abandoned, UserStep, UserEdits, PolicyChanges, BranchMoves, vars, user
      <3>2. PICK c \in Commits : target' = target \cup {c} /\ UNCHANGED moved
        BY <3>1, Zenon DEF UserCommits
      <3>3. c # "work" /\ c # "stray"
        BY DeliveryAssumption
      <3>4. "stray" \notin target' /\ ("work" \in target' => "work" \in target)
        BY <3>2, <3>3 DEF ReleaseInv, Ledger, Grown
      <3>5. DeliversVerified'
        BY <1>1 DEF ReleaseInv, Ledger, DeliversVerified
      <3> QED BY <1>1, <2>2, <3>2, <3>4, <3>5, TargetGrows DEF ReleaseInv
    <2> QED BY <2>1, <2>2
  <1>3. op' = Idle \/ op' = op
    BY DEF Abandoned, UserStep, UserCommits, UserEdits, PolicyChanges, BranchMoves, vars
  <1>4. Judging' /\ Delivering'
    <2>1. CASE op' = Idle
      BY <2>1, KnowsNothing DEF Idle, Effect
    <2>2. CASE op' = op
      <3>1. FirstStaging' = FirstStaging /\ Last' = Last
        BY <1>1 DEF FirstStaging, Last
      <3> QED BY <1>1, <2>2, <3>1 DEF ReleaseInv, Judging, Delivering, Staging
    <2> QED BY <1>3, <2>1, <2>2
  <1> QED BY <1>2, <1>4 DEF ReleaseInv

(* Every step keeps what a delivery relies on.                             *)
LEMMA NextReleases == DeliveryInv /\ ReleaseInv /\ [Next]_vars => ReleaseInv'
  <1> SUFFICES ASSUME DeliveryInv, ReleaseInv, [Next]_vars PROVE ReleaseInv'
    OBVIOUS
  <1>1. CASE Commands
    BY <1>1, PrepareReleases, ConfirmReleases, CleanupReleases, ExecuteReleases DEF Commands
  <1>2. CASE EffectStep
    BY <1>2, StageMergeReleases, StageVerifyReleases, StagingSettlesReleases,
       ReviewRunsReleases, ReviewSettlesReleases, DeliveryChecksReleases, FastForwardReleases,
       DeliverySettlesReleases, RemoveItemReleases, SettlesReleases DEF EffectStep
  <1>3. CASE Abandoned \/ UserStep \/ UNCHANGED vars
    BY <1>3, OutsideReleases
  <1> QED BY <1>1, <1>2, <1>3 DEF Next

(* The invariant holds throughout.                                         *)
LEMMA ReleaseInvariant == Spec => []ReleaseInv
  BY InitReleases, NextReleases, DeliveryInvariant, PTL DEF Spec

-----------------------------------------------------------------------------
(* No Apply Attempt is released, delivered or SUCCEEDED under a commit     *)
(* policy that differs from the approved one unless the user confirmed     *)
(* that Attempt (applyRequest's gate), through any number of retries,      *)
(* drifts and abandoned commands.                                          *)
THEOREM PolicyIsConfirmed == Spec => []PolicyConfirmed
  <1>1. DeliveryInv => PolicyConfirmed
    BY DEF DeliveryInv, Gated, PolicyConfirmed
  <1> QED BY <1>1, DeliveryInvariant, PTL

(* A Cleanup never takes the worktree of an Attempt that awaits or runs    *)
(* its delivery, also when it is continued after a crash (the gate of      *)
(* cleanupExecute suffices for the whole chain of removals).               *)
THEOREM CleanupSparesApply == Spec => []InFlightKeepsTree
  <1>1. DeliveryInv => InFlightKeepsTree
    BY DEF DeliveryInv
  <1> QED BY <1>1, DeliveryInvariant, PTL

(* Apart from the user's own commits the Target Branch moves only forward, *)
(* and only from the head recorded by an Attempt that is RUNNING           *)
(* (applyFastForward and fastForwardWorkingTree).                          *)
THEOREM TargetIsSafe == Spec => TargetMovesExplicitly
  <1> DEFINE moves == target' # target =>
                \/ UserCommits
                \/ /\ target \subseteq target'
                   /\ \E n \in DOMAIN att : att[n].status = "RUNNING" /\ att[n].target = target
  <1>1. ASSUME DeliveryInv, [Next]_vars PROVE [moves]_vars
    <2> SUFFICES ASSUME target' # target PROVE moves
      OBVIOUS
    <2>1. CASE FastForward
      <3>1. op.of \in DOMAIN att /\ att[op.of].status = "RUNNING"
        BY <1>1, <2>1 DEF DeliveryInv, Owned, FastForward
      <3>2. CanFastForward(op.of) /\ target' = tree[op.of].head
        BY <2>1 DEF FastForward, Fails, user
      <3> QED BY <3>1, <3>2 DEF CanFastForward
    <2>2. CASE UserCommits
      BY <2>2
    <2>3. FastForward \/ UserCommits
      BY <1>1 DEF Next, Commands, EffectStep, UserStep, PrepareApply, ConfirmApplyPolicy,
         OpenAttempt, StartStaging, CleanupDryRun, CleanupExecute, ExecuteApply, StageMerge,
         StageVerify, StagingSettles, ReviewRuns, ReviewSettles, ReviewStopped, DeliveryChecks,
         DeliverySettles, RemoveItem, ItemSettles, Abandoned, UserEdits, PolicyChanges,
         BranchMoves, Fails, vars, user
    <2> QED BY <2>1, <2>2, <2>3
  <1> QED BY <1>1, DeliveryInvariant, PTL DEF Spec, TargetMovesExplicitly

(* Every head that CFlow puts on the Target Branch passed the              *)
(* deterministic verification and an independent review, over any number   *)
(* of Attempts, user commits, crashes and confirmations (applyFastForward, *)
(* decideApplyReviewRunEnded).                                             *)
THEOREM VerifiedDelivery == Spec => []DeliversVerified
  <1>1. ReleaseInv => DeliversVerified
    BY DEF ReleaseInv, Ledger
  <1> QED BY <1>1, ReleaseInvariant, PTL

(* A SUCCEEDED Attempt was delivered, also when its record was written by  *)
(* a retry that found the Target already moved (applyFastForward's first   *)
(* check), unless the Target contained the work from the start.            *)
THEOREM SuccessIsDelivered == Spec => []SucceededWasDelivered
  <1>1. ReleaseInv => SucceededWasDelivered
    BY DEF ReleaseInv, Ledger
  <1> QED BY <1>1, ReleaseInvariant, PTL

=============================================================================
