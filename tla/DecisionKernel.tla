--------------------------- MODULE DecisionKernel ---------------------------
(***************************************************************************)
(* The execution decisions of the Decision Kernel (internal/decision):     *)
(* pure functions of the Workflow aggregate.  A Decision is an ordered     *)
(* list of mutations the State Store applies in one transaction, and most  *)
(* mutations replace a row wholesale with values read from the aggregate   *)
(* BEFORE the Decision.  Operators that add mutations to a Decision begun  *)
(* by their caller therefore take two aggregates: `s`, the input state     *)
(* every guard and every carried-over field is read from, and `d`, the     *)
(* aggregate as the mutations emitted so far leave it.                     *)
(*                                                                         *)
(* The aggregate is a record                                               *)
(*   stage, runtime, cancel, head  the Workflow row (Layout 2: head is the *)
(*                                 VerifiedWorkspaceHead)                  *)
(*   runs                          the Run rows, in order of creation      *)
(*   node, charged, base           per Node: status, retries charged, the  *)
(*                                 immutable Task Base                     *)
(*   att                           per Node: its Attempts, by number, each *)
(*                                 with the managed process it started     *)
(*   finds                         the subjects of blocking Findings       *)
(* A commit is the set of the tasks whose work its history contains.       *)
(***************************************************************************)
EXTENDS Scheduler, Sequences

Heads == SUBSET (Nodes \cup {"none"})
NoHead == {"none"}

RunTerminal == {"INTERRUPTED", "BLOCKED", "SUCCEEDED", "CANCELLED"}
RunStatuses == RunTerminal \cup {"RUNNING", "STOPPING", "QUIESCING"}
RuntimeTerminal == {"SUCCEEDED", "CANCELLED"}
Runtimes == RuntimeTerminal \cup {"RUNNING", "PAUSED", "BLOCKED"}
AttemptTerminal == {"SUCCEEDED", "FAILED", "INTERRUPTED", "CANCELLED"}
AttemptStatuses == AttemptTerminal \cup {"READY", "RUNNING"}
ProcessStatuses == {"none", "RUNNING", "STOPPED"}

Runs == [status : RunStatuses, gate : BOOLEAN]
Attempts == [status : AttemptStatuses, start : Heads, process : ProcessStatuses]

Aggregates ==
    [stage : {"EXECUTION", "FINAL_VERIFICATION", "COMPLETED"},
     runtime : Runtimes,
     cancel : BOOLEAN,
     head : Heads,
     runs : Seq(Runs),
     node : [Nodes -> NodeStatuses],
     charged : [Nodes -> Nat],
     base : [Nodes -> Heads],
     att : [Nodes -> Seq(Attempts)],
     finds : SUBSET (Nodes \cup {"workflow", "session"})]

(* The failure codes the execution chains settle with, one per distinct    *)
(* policy (internal/model/fault.go): may a successor Attempt follow, and   *)
(* what does the Finding cover.                                            *)
TaskCodes   == {"AGENT_PROCESS_CRASHED", "SCOPE_VIOLATION", "PROVIDER_PROTOCOL_VIOLATION"}
VerifyCodes == {"COMMAND_FAILED"}
ReviewCodes == {"SEMANTIC_REVIEW_FAILED", "PROVIDER_PROTOCOL_VIOLATION"}
MergeCodes  == {"MERGE_CONFLICT", "STATE_INVARIANT_VIOLATION"}
FinalCodes  == {"INTEGRATION_VERIFICATION_FAILED"}
Codes == TaskCodes \cup VerifyCodes \cup ReviewCodes \cup MergeCodes \cup FinalCodes

AllowsSuccessor(code) ==
    code \in {"AGENT_PROCESS_CRASHED", "COMMAND_FAILED", "SEMANTIC_REVIEW_FAILED",
              "MERGE_CONFLICT"}

(* Mutant: every other failure is filed under the Attempt, not the Node.   *)
FindingSubjectOfAttempt(code, n) ==
    CASE code \in {"STATE_INVARIANT_VIOLATION", "INTEGRATION_VERIFICATION_FAILED"} -> "workflow"
      [] code = "PROVIDER_PROTOCOL_VIOLATION" -> "session"
      [] OTHER -> "attempt"

FindingSubject(code, n) ==
    CASE code \in {"STATE_INVARIANT_VIOLATION", "INTEGRATION_VERIFICATION_FAILED"} -> "workflow"
      [] code = "PROVIDER_PROTOCOL_VIOLATION" -> "session"
      [] OTHER -> n

-----------------------------------------------------------------------------
(* Reading the aggregate.                                                  *)

NoKey == <<"none", 0>>

HasActiveRun(s) == \E i \in DOMAIN s.runs : s.runs[i].status \notin RunTerminal

(* activeRun: the FIRST Run that is not terminal.                          *)
ActiveRun(s) ==
    CHOOSE i \in DOMAIN s.runs :
        /\ s.runs[i].status \notin RunTerminal
        /\ \A j \in DOMAIN s.runs : j < i => s.runs[j].status \in RunTerminal

ActiveStatus(s) == IF HasActiveRun(s) THEN s.runs[ActiveRun(s)].status ELSE "none"

GateOpen(s) ==
    /\ ActiveStatus(s) = "RUNNING"
    /\ s.runs[ActiveRun(s)].gate

Cancelling(s) == s.cancel /\ s.runtime \notin RuntimeTerminal

IsRunning(s, n, k) == k \in DOMAIN s.att[n] /\ s.att[n][k].status = "RUNNING"

HasRunningAttemptExcept(s, key) ==
    \E n \in Nodes : \E k \in DOMAIN s.att[n] : <<n, k>> # key /\ s.att[n][k].status = "RUNNING"

HasRunningAttempt(s) == HasRunningAttemptExcept(s, NoKey)

(* The keys of the Attempts whose managed process row is RUNNING.          *)
RunningProcesses(s) ==
    UNION {{<<n, k>> : k \in {j \in DOMAIN s.att[n] : s.att[n][j].process = "RUNNING"}} : n \in Nodes}

HasRunningProcessExcept(s, key) == RunningProcesses(s) \ {key} # {}
HasRunningProcess(s) == RunningProcesses(s) # {}

HasBlockingFinding(s) == s.finds # {}
AnyFailedNode(s) == \E n \in Nodes : s.node[n] = "FAILED"
Succeeded(s, n) == \E k \in DOMAIN s.att[n] : s.att[n][k].status = "SUCCEEDED"

AttemptCount(s) == Cardinality(UNION {{n} \X DOMAIN s.att[n] : n \in Nodes})

(* stopRunningProcesses: the process the next ManagedProcessStop Effect   *)
(* names, if any is left.  The rows are in order of creation, which the    *)
(* model does not keep: any of them may be the first.                      *)
NextStop(s, exclude) ==
    IF HasRunningProcessExcept(s, exclude) THEN RunningProcesses(s) \ {exclude} ELSE {NoKey}

-----------------------------------------------------------------------------
(* Mutations.                                                              *)

(* wfMut: the Workflow row replaced wholesale from the input state.        *)
WfMut(s, d, stage, runtime, cancel) ==
    [d EXCEPT !.stage = stage, !.runtime = runtime, !.cancel = cancel, !.head = s.head]

WfMutStatus(s, d, runtime) == WfMut(s, d, s.stage, runtime, s.cancel)

(* Mutant: the Run leaves RUNNING with its Dispatch Gate as it was.        *)
RunMutKeepingGate(s, d, status) ==
    IF HasActiveRun(s)
    THEN [d EXCEPT !.runs[ActiveRun(s)] = [status |-> status, gate |-> s.runs[ActiveRun(s)].gate]]
    ELSE d

(* RunMutation on the active Run of the input state.                       *)
RunMut(s, d, status) ==
    IF HasActiveRun(s)
    THEN [d EXCEPT !.runs[ActiveRun(s)] = [status |-> status, gate |-> FALSE]]
    ELSE d

EndAttempt(d, n, k, status) == [d EXCEPT !.att[n][k].status = status]

ClosePriorRuns(s, d) ==
    [d EXCEPT !.runs = [i \in DOMAIN s.runs |->
        IF s.runs[i].status \in RunTerminal
        THEN s.runs[i]
        ELSE [status |-> "INTERRUPTED", gate |-> FALSE]]]

OpenRun(d) == [d EXCEPT !.runs = Append(@, [status |-> "RUNNING", gate |-> TRUE])]

-----------------------------------------------------------------------------
(* Settlement protocols.                                                   *)

FinishCancel(s, d) ==
    [RunMut(s, WfMut(s, d, s.stage, "CANCELLED", TRUE), "CANCELLED") EXCEPT
        !.node = [n \in Nodes |-> IF s.node[n] \in NodeTerminal THEN d.node[n] ELSE "CANCELLED"],
        !.charged = [n \in Nodes |-> IF s.node[n] \in NodeTerminal THEN d.charged[n] ELSE s.charged[n]],
        !.att = [n \in Nodes |-> [k \in DOMAIN d.att[n] |->
            IF k \in DOMAIN s.att[n] /\ s.att[n][k].status = "READY"
            THEN [d.att[n][k] EXCEPT !.status = "CANCELLED"]
            ELSE d.att[n][k]]]]

(* Mutant: the stop forgets the blocking Findings.                         *)
ConvergeStoppingToPaused(s, d, exceptAttempt, exceptProcess, transitioning) ==
    IF \/ ~HasActiveRun(s)
       \/ ~transitioning /\ ActiveStatus(s) # "STOPPING"
       \/ HasRunningProcessExcept(s, exceptProcess)
       \/ HasRunningAttemptExcept(s, exceptAttempt)
    THEN d
    ELSE IF Cancelling(s)
    THEN FinishCancel(s, d)
    ELSE WfMutStatus(s, RunMut(s, d, "INTERRUPTED"), "PAUSED")

ConvergeStopping(s, d, exceptAttempt, exceptProcess, transitioning) ==
    IF \/ ~HasActiveRun(s)
       \/ ~transitioning /\ ActiveStatus(s) # "STOPPING"
       \/ HasRunningProcessExcept(s, exceptProcess)
       \/ HasRunningAttemptExcept(s, exceptAttempt)
    THEN d
    ELSE IF Cancelling(s)
    THEN FinishCancel(s, d)
    ELSE WfMutStatus(s, RunMut(s, d, "INTERRUPTED"),
                     IF HasBlockingFinding(s) THEN "BLOCKED" ELSE "PAUSED")

ConvergeQuiescing(s, d) == WfMutStatus(s, RunMut(s, d, "BLOCKED"), "BLOCKED")

SettleAfterAttemptEnd(s, d, ended) ==
    IF Cancelling(s) /\ ~HasRunningAttemptExcept(s, ended) /\ ~HasRunningProcess(s)
    THEN FinishCancel(s, d)
    ELSE IF ActiveStatus(s) = "QUIESCING" /\ ~HasRunningAttemptExcept(s, ended)
    THEN ConvergeQuiescing(s, d)
    ELSE ConvergeStopping(s, d, ended, NoKey, FALSE)

(* Mutant: the Workflow blocks and its Run stays open.                     *)
CloseDispatchLeavingRun(s, d, ended) ==
    IF HasActiveRun(s) /\ HasRunningAttemptExcept(s, ended)
    THEN RunMut(s, d, "QUIESCING")
    ELSE WfMutStatus(s, d, "BLOCKED")

CloseDispatchForFailure(s, d, ended) ==
    IF HasActiveRun(s) /\ HasRunningAttemptExcept(s, ended)
    THEN RunMut(s, d, "QUIESCING")
    ELSE WfMutStatus(s, RunMut(s, d, "BLOCKED"), "BLOCKED")

-----------------------------------------------------------------------------
(* The Decisions that end an Attempt.                                      *)

(* Mutant: off by one in the retry budget.                                 *)
DecideAttemptFailureOverBudget(s, n, k, code) ==
    LET retryable == AllowsSuccessor(code) /\ s.charged[n] <= RetryBudget[n]
        held == ActiveStatus(s) = "QUIESCING" \/ Cancelling(s)
        ended == EndAttempt(s, n, k, "FAILED")
    IN  IF retryable /\ ~held
        THEN [ended EXCEPT
                !.node[n] = "READY",
                !.charged[n] = @ + 1,
                !.att[n] = Append(@, [status |-> "READY", start |-> s.base[n], process |-> "none"])]
        ELSE IF retryable
        THEN SettleAfterAttemptEnd(s, [ended EXCEPT !.node[n] = "READY"], <<n, k>>)
        ELSE CloseDispatchForFailure(s,
                [ended EXCEPT !.node[n] = "FAILED", !.finds = @ \cup {FindingSubject(code, n)}],
                <<n, k>>)

(* decideAttemptFailure: a budgeted retry, a deferred retry (quiescing or *)
(* cancelling), or a blocking failure.                                     *)
DecideAttemptFailure(s, n, k, code) ==
    LET retryable == AllowsSuccessor(code) /\ s.charged[n] < RetryBudget[n]
        held == ActiveStatus(s) = "QUIESCING" \/ Cancelling(s)
        ended == EndAttempt(s, n, k, "FAILED")
    IN  IF retryable /\ ~held
        THEN [ended EXCEPT
                !.node[n] = "READY",
                !.charged[n] = @ + 1,
                !.att[n] = Append(@, [status |-> "READY", start |-> s.base[n], process |-> "none"])]
        ELSE IF retryable
        THEN SettleAfterAttemptEnd(s, [ended EXCEPT !.node[n] = "READY"], <<n, k>>)
        ELSE CloseDispatchForFailure(s,
                [ended EXCEPT !.node[n] = "FAILED", !.finds = @ \cup {FindingSubject(code, n)}],
                <<n, k>>)

(* settleNodeSucceeded, with the caller's Workflow mutation already in d.  *)
SettleNodeSucceeded(s, d, n, k) ==
    SettleAfterAttemptEnd(s,
        [EndAttempt(d, n, k, "SUCCEEDED") EXCEPT !.node[n] = "SUCCEEDED"], <<n, k>>)

DecideAttemptSucceeded(s, n, k) == SettleNodeSucceeded(s, s, n, k)

(* Mutant: the merge succeeds and the verified head stays behind.          *)
DecideWorkspaceMergedKeepingHead(s, n, k, endHead) == SettleNodeSucceeded(s, s, n, k)

(* decideWorkspaceMerged: the verified head advances to the Merge Commit. *)
DecideWorkspaceMerged(s, n, k, endHead) ==
    SettleNodeSucceeded(s, [s EXCEPT !.head = endHead], n, k)

(* settleInterrupted; it emits a stop Effect when it opens the stop.       *)
OpensStop(s) == ~Cancelling(s) /\ HasActiveRun(s) /\ ActiveStatus(s) # "STOPPING"

(* Mutant: the Node is settled and its Attempt is left running.            *)
SettleInterruptedNodeOnly(s, n, k) ==
    LET ready == [s EXCEPT !.node[n] = "READY"]
    IN  IF Cancelling(s)
        THEN IF HasRunningAttemptExcept(s, <<n, k>>) \/ HasRunningProcess(s)
             THEN s
             ELSE FinishCancel(s, s)
        ELSE ConvergeStopping(s, IF OpensStop(s) THEN RunMut(s, ready, "STOPPING") ELSE ready,
                              <<n, k>>, NoKey, OpensStop(s))

SettleInterrupted(s, n, k) ==
    LET ended == EndAttempt(s, n, k, "INTERRUPTED")
        ready == [ended EXCEPT !.node[n] = "READY"]
    IN  IF Cancelling(s)
        THEN IF HasRunningAttemptExcept(s, <<n, k>>) \/ HasRunningProcess(s)
             THEN ended
             ELSE FinishCancel(s, ended)
        ELSE ConvergeStopping(s, IF OpensStop(s) THEN RunMut(s, ready, "STOPPING") ELSE ready,
                              <<n, k>>, NoKey, OpensStop(s))

-----------------------------------------------------------------------------
(* The managed process stop.                                               *)

EndProcess(d, key) == [d EXCEPT !.att[key[1]][key[2]].process = "STOPPED"]

ContinuesStop(s, orphan) == ~orphan /\ (s.cancel \/ ActiveStatus(s) = "STOPPING")

(* Mutant: the process that just stopped still counts as running.          *)
DecideProcessStoppedCountingSelf(s, key, orphan) ==
    LET stopped == EndProcess(s, key)
    IN  IF orphan
        THEN WfMutStatus(s,
                RunMut(s, [stopped EXCEPT !.finds = @ \cup {"workflow"}], "INTERRUPTED"),
                "BLOCKED")
        ELSE ConvergeStopping(s, stopped, NoKey, NoKey, FALSE)

(* decideProcessStopped and settleOrphanProcess.                           *)
DecideProcessStopped(s, key, orphan) ==
    LET stopped == EndProcess(s, key)
    IN  IF orphan
        THEN WfMutStatus(s,
                RunMut(s, [stopped EXCEPT !.finds = @ \cup {"workflow"}], "INTERRUPTED"),
                "BLOCKED")
        ELSE ConvergeStopping(s, stopped, NoKey, key, FALSE)

-----------------------------------------------------------------------------
(* Commands and the Recovery sweep.                                        *)

(* decidePause; the caller requires runtime RUNNING.                       *)
DecidePause(s) ==
    LET wf == WfMutStatus(s, s,
                  IF HasBlockingFinding(s) \/ ActiveStatus(s) = "QUIESCING" THEN "BLOCKED" ELSE "PAUSED")
        transitioned == HasActiveRun(s) /\ ActiveStatus(s) # "STOPPING"
    IN  ConvergeStopping(s, IF transitioned THEN RunMut(s, wf, "STOPPING") ELSE wf,
                         NoKey, NoKey, transitioned)

PauseStops(s) == HasActiveRun(s) /\ ActiveStatus(s) # "STOPPING"

CanResume(s) ==
    /\ s.runtime \in {"PAUSED", "BLOCKED"}
    /\ ActiveStatus(s) \notin {"STOPPING", "QUIESCING"}

DecideResume(s) == OpenRun(ClosePriorRuns(s, WfMutStatus(s, s, "RUNNING")))

(* Mutants: running processes are not waited for; the Run is not closed.   *)
DecideCancelBesideProcesses(s) ==
    LET intended == RunMut(s, WfMut(s, s, s.stage, s.runtime, TRUE), "STOPPING")
    IN  IF HasRunningAttempt(s) THEN intended ELSE FinishCancel(s, intended)

DecideCancelLeavingRun(s) ==
    LET intended == WfMut(s, s, s.stage, s.runtime, TRUE)
    IN  IF HasRunningAttempt(s) \/ HasRunningProcess(s)
        THEN intended
        ELSE FinishCancel(s, intended)

DecideCancel(s) ==
    LET intended == RunMut(s, WfMut(s, s, s.stage, s.runtime, TRUE), "STOPPING")
    IN  IF HasRunningAttempt(s) \/ HasRunningProcess(s)
        THEN intended
        ELSE FinishCancel(s, intended)

FinalVerify(n) == Kind[n] = "FINAL_VERIFY"

(* decideComplete: the head the Final Verify bound is still the head.      *)
CanComplete(s) ==
    /\ s.stage = "FINAL_VERIFICATION"
    /\ s.runtime = "RUNNING"
    /\ ~HasBlockingFinding(s)
    /\ \A n \in Nodes : s.node[n] = "SUCCEEDED"
    /\ \E n \in Nodes : \E k \in DOMAIN s.att[n] :
          /\ FinalVerify(n)
          /\ s.att[n][k].status = "SUCCEEDED"
          /\ s.att[n][k].start = s.head
    /\ s.head # NoHead
    /\ \A n \in Merges : Succeeded(s, n)

DecideComplete(s) ==
    [RunMut(s, WfMut(s, s, "COMPLETED", "SUCCEEDED", FALSE), "SUCCEEDED") EXCEPT
        !.att = [n \in Nodes |-> [k \in DOMAIN s.att[n] |->
            IF s.att[n][k].process = "RUNNING"
            THEN [s.att[n][k] EXCEPT !.process = "STOPPED"]
            ELSE s.att[n][k]]]]

(* Mutant: the sweep does not block a RUNNING Workflow with a FAILED Node. *)
DecideReconcileIgnoringFailed(s) ==
    IF Cancelling(s) /\ ~HasRunningAttempt(s) /\ ~HasRunningProcess(s)
    THEN FinishCancel(s, s)
    ELSE IF ActiveStatus(s) = "QUIESCING" /\ ~HasRunningAttempt(s)
    THEN ConvergeQuiescing(s, s)
    ELSE ConvergeStopping(s, s, NoKey, NoKey, FALSE)

(* decideReconcile: the sweep that finishes what an earlier process left.  *)
DecideReconcile(s) ==
    IF Cancelling(s) /\ ~HasRunningAttempt(s) /\ ~HasRunningProcess(s)
    THEN FinishCancel(s, s)
    ELSE IF ActiveStatus(s) = "QUIESCING" /\ ~HasRunningAttempt(s)
    THEN ConvergeQuiescing(s, s)
    ELSE LET converged == ConvergeStopping(s, s, NoKey, NoKey, FALSE)
         IN  IF s.runtime = "RUNNING" /\ AnyFailedNode(s) /\ ~HasRunningAttempt(s)
             THEN RunMut(s, WfMutStatus(s, converged, "BLOCKED"), "BLOCKED")
             ELSE converged

NeedsReconcile(s) ==
    \/ Cancelling(s)
    \/ ActiveStatus(s) \in {"QUIESCING", "STOPPING"}
    \/ s.runtime = "RUNNING" /\ AnyFailedNode(s)

Sweep(s) == IF NeedsReconcile(s) THEN DecideReconcile(s) ELSE s

-----------------------------------------------------------------------------
(* Allocation.                                                             *)

(* The guards the dispatch Decisions share and the ones of each kind.      *)
CanAllocate(s, n) ==
    /\ GateOpen(s)
    /\ s.node[n] \in {"PENDING", "READY"}
    /\ \/ s.stage = "EXECUTION"
       \/ Kind[n] \in {"FINAL_VERIFY", "CHECKPOINT"} /\ s.stage = "FINAL_VERIFICATION"
    /\ Kind[n] \in {"VERIFY", "MERGE"} =>
          s.node[TaskOf[n]] # "FAILED" /\ Succeeded(s, TaskOf[n])
    /\ FinalVerify(n) => s.head # NoHead

(* The commit a Node's Attempt starts from: the immutable Task Base (fixed *)
(* by the first allocation), the task's verified commit, the merge base    *)
(* (the observed head only while no head is verified), the verified head.  *)
StartHead(s, n, observed) ==
    CASE Kind[n] = "AGENT_TASK"   -> IF s.node[n] = "PENDING" THEN observed ELSE s.base[n]
      [] Kind[n] = "VERIFY"       -> s.base[TaskOf[n]] \cup {TaskOf[n]}
      [] Kind[n] = "MERGE"        -> IF s.head = NoHead THEN observed ELSE s.head
      [] Kind[n] = "FINAL_VERIFY" -> s.head

(* decideDispatch for every kind that allocates an Attempt.                *)
DecideDispatch(s, n, observed) ==
    LET start == StartHead(s, n, observed)
    IN  [s EXCEPT
            !.node[n] = "RUNNING",
            !.base[n] = IF n \in Tasks THEN start ELSE @,
            !.stage = IF FinalVerify(n) THEN "FINAL_VERIFICATION" ELSE @,
            !.att[n] = Append(@, [status  |-> "RUNNING",
                                  start   |-> start,
                                  process |-> IF n \in Merges THEN "none" ELSE "RUNNING"])]


(* decideCheckpointDispatch: the checkpoint is reached; it has no Attempt, *)
(* and its Finding does not block.                                         *)
DecideCheckpoint(s, n) == [s EXCEPT !.node[n] = "SUCCEEDED"]

=============================================================================
