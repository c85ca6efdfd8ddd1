------------------------------ MODULE Execution ------------------------------
(***************************************************************************)
(* The execution of an approved Workflow: the Application's commands and   *)
(* dispatch passes (internal/app) driving the Decision Kernel, the node    *)
(* chains of a pass running concurrently, the serial merges into the       *)
(* managed Workspace (internal/gitflow), the two-phase process stop, and   *)
(* the Recovery Engine's verdict on the intents an earlier process left    *)
(* unfinished (internal/recovery).                                         *)
(*                                                                         *)
(* The project and workflow locks make commands and passes exclude each    *)
(* other, so a command runs only when no chain and no stop is in flight;   *)
(* within a pass the aggregate transactions of the chains interleave.      *)
(* A git effect and the transaction that records its result are separate   *)
(* steps: an interruption, an error or a crash can fall between them.      *)
(***************************************************************************)
EXTENDS DecisionKernel

CONSTANTS
    MaxRuns,     \* bound on the Run rows (each resume opens one)
    Faults,      \* which of AllFaults may happen
    Adopted      \* the initial choices: is the Workspace head verified already

AllFaults == {"interrupt", "chain_error", "crash", "orphan"}

ASSUME ExecutionAssumption == 
    /\ MaxRuns \in Nat
    /\ Faults \subseteq AllFaults
    /\ Adopted \subseteq BOOLEAN

(* The Compiler's skeleton (internal/compile/skeleton.go): every task has  *)
(* a merge Node, which depends on every verify Node of the task.           *)
ASSUME SkeletonAssumption ==
    /\ \A t \in Tasks : \E m \in Merges : TaskOf[m] = t
    /\ \A m \in Merges, v \in Nodes :
          Kind[v] = "VERIFY" /\ TaskOf[v] = TaskOf[m] => v \in Deps[m]

VARIABLES
    agg,          \* the persisted Workflow aggregate
    chain,        \* per Node: phase of its chain in the current pass, code it fails with
    interrupted,  \* the pass context was cancelled (first Ctrl+C)
    stop,         \* the process the live stop loop is stopping, or NoKey
    ledger,       \* the persisted effect intents without a recorded result
    ws,           \* the commit the managed Workspace actually is at
    dirty,        \* the Workspace carries an unfinished conflicted merge
    observed      \* the Workspace commit the current pass observed

vars == <<agg, chain, interrupted, stop, ledger, ws, dirty, observed>>

Phases == {"off", "queued", "working", "reviewing", "merged", "mergefailed",
           "rollback", "rolledback", "completing"}
Chains == [phase : Phases, code : Codes \cup {"none"}]
Off == [phase |-> "off", code |-> "none"]
At(phase) == [phase |-> phase, code |-> "none"]

Intents == [kind : {"merge", "rollback"}, node : Nodes, number : {0}, head : Heads]
             \cup [kind : {"stop"}, node : Nodes, number : Nat, head : {{}}]
MergeIntent(n, head)    == [kind |-> "merge", node |-> n, number |-> 0, head |-> head]
RollbackIntent(n, head) == [kind |-> "rollback", node |-> n, number |-> 0, head |-> head]
StopIntents(key) ==
    IF key = NoKey THEN {} ELSE {[kind |-> "stop", node |-> key[1], number |-> key[2], head |-> {}]}

(* A pass or a command's stop loop is live exactly when this is false.    *)
Idle == stop = NoKey /\ \A n \in Nodes : chain[n].phase = "off"

(* The aggregate when dispatch begins: the Execution Approval opened the  *)
(* first Run and the graph is installed; the Workspace was adopted, or no  *)
(* Change Set was bound and no head is verified yet.                       *)
Init ==
    /\ \E adopted \in Adopted :
         agg = [stage |-> "EXECUTION", runtime |-> "RUNNING", cancel |-> FALSE,
                head |-> IF adopted THEN {} ELSE NoHead,
                runs |-> <<[status |-> "RUNNING", gate |-> TRUE]>>,
                node |-> [n \in Nodes |-> "PENDING"],
                charged |-> [n \in Nodes |-> 0],
                base |-> [n \in Nodes |-> NoHead],
                att |-> [n \in Nodes |-> <<>>],
                finds |-> {}]
    /\ chain = [n \in Nodes |-> Off]
    /\ interrupted = FALSE
    /\ stop = NoKey
    /\ ledger = {}
    /\ ws = {}
    /\ dirty = FALSE
    /\ observed = {}

-----------------------------------------------------------------------------
(* The Recovery Engine's verdict, before every command.                    *)

(* classifyWorkspaceMerge, classifyWorkspaceRollback, classifyProcessStop: *)
(* any other pending intent lets the command proceed.                      *)
Accepted(i) ==
    CASE i.kind = "merge" ->
           /\ ~dirty
           /\ ws = i.head \/ (i.head \subseteq ws /\ TaskOf[i.node] \in ws)
      [] i.kind = "rollback" -> ws = i.head /\ ~dirty
      [] i.kind = "stop" -> agg.att[i.node][i.number].process # "RUNNING"

RecoveryAccepts == \A i \in ledger : Accepted(i)

Command == Idle /\ RecoveryAccepts

-----------------------------------------------------------------------------
(* Commands.  Every command sweeps first; one the Kernel refuses leaves    *)
(* just the sweep, which DispatchCommand with an empty batch covers.       *)

(* A Decision that may request a stop: its Effect names the process.       *)
Stopping(emits, s, exclude, settled) ==
    /\ stop' \in IF emits THEN NextStop(s, exclude) ELSE {NoKey}
    /\ ledger' = (ledger \ settled) \cup StopIntents(stop')

PauseCommand ==
    LET s == Sweep(agg) IN
    /\ Command
    /\ s.runtime = "RUNNING"
    /\ agg' = DecidePause(s)
    /\ Stopping(PauseStops(s), s, NoKey, {})
    /\ UNCHANGED <<chain, interrupted, ws, dirty, observed>>

ResumeCommand ==
    LET s == Sweep(agg) IN
    /\ Command
    /\ CanResume(s)
    /\ Len(s.runs) < MaxRuns
    /\ agg' = DecideResume(s)
    /\ UNCHANGED <<chain, interrupted, stop, ledger, ws, dirty, observed>>

CancelCommand ==
    LET s == Sweep(agg) IN
    /\ Command
    /\ s.runtime \notin RuntimeTerminal
    /\ agg' = DecideCancel(s)
    /\ Stopping(TRUE, s, NoKey, {})
    /\ UNCHANGED <<chain, interrupted, ws, dirty, observed>>

CompleteCommand ==
    LET s == Sweep(agg) IN
    /\ Command
    /\ CanComplete(s)
    /\ agg' = DecideComplete(s)
    /\ UNCHANGED <<chain, interrupted, stop, ledger, ws, dirty, observed>>

(* dispatchPass: observe the Workspace once, select the batch, start one   *)
(* chain per selected Node.                                                *)
Deferred(s) == {n \in Nodes : "workflow" \in s.finds \/ n \in s.finds}

DispatchCommand ==
    LET s == Sweep(agg) IN
    /\ Command
    /\ agg' = s
    /\ observed' = ws
    /\ interrupted' = FALSE
    /\ \E batch \in SUBSET Nodes :
         /\ IsBatch(batch, s.node, GateOpen(s), Deferred(s), AttemptCount(s) >= RunBudget)
         /\ chain' = [n \in Nodes |-> IF n \in batch THEN At("queued") ELSE Off]
    /\ UNCHANGED <<stop, ledger, ws, dirty>>

-----------------------------------------------------------------------------
(* The node chains of a pass.                                              *)

Live(n, phase) == chain[n].phase = phase /\ ~interrupted

(* The chain's transaction settles its RUNNING Attempt with state t.       *)
Settles(n, t, then, settled) ==
    /\ agg' = t
    /\ chain' = [chain EXCEPT ![n] = then]
    /\ ledger' = ledger \ settled
    /\ UNCHANGED <<interrupted, stop, ws, dirty, observed>>

(* The first transaction of a chain: allocate, or end on a closed gate.    *)
Dispatch(n) ==
    /\ Live(n, "queued") /\ n \notin Checkpoints
    /\ IF CanAllocate(agg, n)
       THEN /\ agg' = DecideDispatch(agg, n, observed)
            /\ chain' = [chain EXCEPT ![n] = At("working")]
            /\ ledger' = IF n \in Merges
                         THEN ledger \cup {MergeIntent(n, StartHead(agg, n, observed))}
                         ELSE ledger
       ELSE /\ chain' = [chain EXCEPT ![n] = Off]
            /\ UNCHANGED <<agg, ledger>>
    /\ UNCHANGED <<interrupted, stop, ws, dirty, observed>>

(* The chain of a checkpoint is one transaction; nobody asks for the       *)
(* completion of the Workflow behind it.                                   *)
ReachCheckpoint(n) ==
    /\ Live(n, "queued") /\ n \in Checkpoints
    /\ Settles(n, IF CanAllocate(agg, n) THEN DecideCheckpoint(agg, n) ELSE agg, Off, {})

(* Coding Session and Task gate.                                           *)
TaskSucceeds(n) ==
    /\ Live(n, "working") /\ n \in Tasks
    /\ \E k \in DOMAIN agg.att[n] :
         IsRunning(agg, n, k) /\ Settles(n, DecideAttemptSucceeded(agg, n, k), Off, {})

TaskFails(n) ==
    /\ Live(n, "working") /\ n \in Tasks
    /\ \E k \in DOMAIN agg.att[n], code \in TaskCodes :
         IsRunning(agg, n, k) /\ Settles(n, DecideAttemptFailure(agg, n, k, code), Off, {})

(* Deterministic verification, then the independent Reviewer.              *)
Verifying(n) == Kind[n] \in {"VERIFY", "FINAL_VERIFY"}

VerificationPasses(n) ==
    /\ Live(n, "working") /\ Verifying(n)
    /\ \E k \in DOMAIN agg.att[n] : IsRunning(agg, n, k)
    /\ Settles(n, agg, At("reviewing"), {})

VerificationFails(n) ==
    /\ Live(n, "working") /\ Verifying(n)
    /\ \E k \in DOMAIN agg.att[n], code \in (IF FinalVerify(n) THEN FinalCodes ELSE VerifyCodes) :
         IsRunning(agg, n, k) /\ Settles(n, DecideAttemptFailure(agg, n, k, code), Off, {})

ReviewPasses(n) ==
    /\ Live(n, "reviewing")
    /\ \E k \in DOMAIN agg.att[n] :
         LET t == DecideAttemptSucceeded(agg, n, k) IN
         /\ IsRunning(agg, n, k)
         /\ Settles(n, t,
                IF FinalVerify(n) /\ t.stage = "FINAL_VERIFICATION" /\ t.runtime = "RUNNING"
                THEN At("completing") ELSE Off, {})

ReviewFails(n) ==
    /\ Live(n, "reviewing")
    /\ \E k \in DOMAIN agg.att[n], code \in ReviewCodes :
         IsRunning(agg, n, k) /\ Settles(n, DecideAttemptFailure(agg, n, k, code), Off, {})

(* The Final Verify chain feeds the completion Decision; a refusal ends    *)
(* the chain.                                                              *)
Complete(n) ==
    /\ Live(n, "completing")
    /\ Settles(n, IF CanComplete(agg) THEN DecideComplete(agg) ELSE agg, Off, {})

-----------------------------------------------------------------------------
(* The serial merge into the Workspace.  The git effects may finish after  *)
(* the pass was interrupted; their results are recorded only before.       *)

GitStep(n, to, head, unmerged) ==
    /\ chain' = [chain EXCEPT ![n] = to]
    /\ ws' = head
    /\ dirty' = unmerged
    /\ UNCHANGED <<agg, interrupted, stop, ledger, observed>>

MergeCommit(n) == ws \cup agg.base[TaskOf[n]] \cup {TaskOf[n]}
FailedMerge(code) == [phase |-> "mergefailed", code |-> code]

(* workspaceMerge: refused unless the Workspace is clean at the expected   *)
(* head; a merge that commits may still fail its post-merge checks.        *)
GitMerge(n) ==
    /\ chain[n].phase = "working" /\ n \in Merges
    /\ \E k \in DOMAIN agg.att[n] :
         /\ IsRunning(agg, n, k)
         /\ IF ws = agg.att[n][k].start /\ ~dirty
            THEN \/ GitStep(n, At("merged"), MergeCommit(n), FALSE)
                 \/ GitStep(n, FailedMerge("MERGE_CONFLICT"), MergeCommit(n), FALSE)
                 \/ GitStep(n, FailedMerge("MERGE_CONFLICT"), ws, TRUE)
            ELSE GitStep(n, FailedMerge("STATE_INVARIANT_VIOLATION"), ws, dirty)

(* decideWorkspaceMerged; a result that does not advance the verified head *)
(* is an invariant fault and ends the chain.                               *)
MergeSettles(n) ==
    /\ Live(n, "merged")
    /\ \E k \in DOMAIN agg.att[n] :
         /\ IsRunning(agg, n, k)
         /\ IF ws # agg.head
            THEN Settles(n, DecideWorkspaceMerged(agg, n, k, ws), Off,
                         {MergeIntent(n, agg.att[n][k].start)})
            ELSE Settles(n, agg, Off, {})

(* decideWorkspaceMergeFailed: the rollback intent replaces the merge's.   *)
MergeFails(n) ==
    /\ Live(n, "mergefailed")
    /\ \E k \in DOMAIN agg.att[n] :
         LET head == agg.att[n][k].start IN
         /\ IsRunning(agg, n, k)
         /\ chain' = [chain EXCEPT ![n].phase = "rollback"]
         /\ ledger' = (ledger \ {MergeIntent(n, head)}) \cup {RollbackIntent(n, head)}
    /\ UNCHANGED <<agg, interrupted, stop, ws, dirty, observed>>

(* rollbackMerge: never destroys a history that does not descend from the  *)
(* recorded head.                                                          *)
GitRollback(n) ==
    /\ chain[n].phase = "rollback"
    /\ \E k \in DOMAIN agg.att[n] :
         /\ IsRunning(agg, n, k)
         /\ IF agg.att[n][k].start \subseteq ws
            THEN GitStep(n, [chain[n] EXCEPT !.phase = "rolledback"], agg.att[n][k].start, FALSE)
            ELSE GitStep(n, Off, ws, dirty)

(* decideWorkspaceRollbacked: the Attempt fails with the merge's code.     *)
RollbackSettles(n) ==
    /\ Live(n, "rolledback")
    /\ \E k \in DOMAIN agg.att[n] :
         /\ IsRunning(agg, n, k)
         /\ Settles(n, DecideAttemptFailure(agg, n, k, chain[n].code), Off,
                    {RollbackIntent(n, agg.att[n][k].start)})

-----------------------------------------------------------------------------
(* Interruption, process stop, failures of the program itself.             *)

(* First Ctrl+C: the pass context is cancelled.                            *)
Interrupt ==
    /\ "interrupt" \in Faults
    /\ \E n \in Nodes : chain[n].phase # "off"
    /\ ~interrupted
    /\ interrupted' = TRUE
    /\ UNCHANGED <<agg, chain, stop, ledger, ws, dirty, observed>>

(* interruptChain: a chain of a cancelled pass settles its own Attempt; a *)
(* queued or already settled chain just ends.  Pending intents stay.       *)
ChainInterrupted(n) ==
    /\ interrupted
    /\ chain[n].phase # "off"
    /\ chain' = [chain EXCEPT ![n] = Off]
    /\ \/ /\ \A k \in DOMAIN agg.att[n] : ~IsRunning(agg, n, k)
          /\ UNCHANGED <<agg, stop, ledger>>
       \/ /\ \E k \in DOMAIN agg.att[n] :
               IsRunning(agg, n, k) /\ agg' = SettleInterrupted(agg, n, k)
          /\ IF OpensStop(agg)
             THEN Stopping(TRUE, agg, NoKey, {})
             ELSE UNCHANGED <<stop, ledger>>
    /\ UNCHANGED <<interrupted, ws, dirty, observed>>

(* The stop loop's next result; the process may survive as an orphan.      *)
ProcessStopped ==
    /\ stop # NoKey
    /\ \E orphan \in (IF "orphan" \in Faults THEN BOOLEAN ELSE {FALSE}) :
         /\ agg' = DecideProcessStopped(agg, stop, orphan)
         /\ Stopping(ContinuesStop(agg, orphan), agg, stop, StopIntents(stop))
    /\ UNCHANGED <<chain, interrupted, ws, dirty, observed>>

(* An effect error that is no interruption ends one chain where it is.     *)
ChainError(n) ==
    /\ "chain_error" \in Faults
    /\ ~interrupted
    /\ chain[n].phase # "off"
    /\ chain' = [chain EXCEPT ![n] = Off]
    /\ UNCHANGED <<agg, interrupted, stop, ledger, ws, dirty, observed>>

(* The process dies: only the persisted state and the Workspace remain.    *)
Crash ==
    /\ "crash" \in Faults
    /\ ~Idle
    /\ chain' = [n \in Nodes |-> Off]
    /\ stop' = NoKey
    /\ interrupted' = FALSE
    /\ UNCHANGED <<agg, ledger, ws, dirty, observed>>

-----------------------------------------------------------------------------
ChainStep(n) ==
    \/ Dispatch(n) \/ ReachCheckpoint(n)
    \/ TaskSucceeds(n) \/ TaskFails(n)
    \/ VerificationPasses(n) \/ VerificationFails(n)
    \/ ReviewPasses(n) \/ ReviewFails(n) \/ Complete(n)
    \/ GitMerge(n) \/ MergeSettles(n) \/ MergeFails(n)
    \/ GitRollback(n) \/ RollbackSettles(n)
    \/ ChainInterrupted(n)

Next ==
    \/ PauseCommand \/ ResumeCommand \/ CancelCommand \/ CompleteCommand
    \/ DispatchCommand
    \/ \E n \in Nodes : ChainStep(n) \/ ChainError(n)
    \/ ProcessStopped
    \/ Interrupt
    \/ Crash

Spec == Init /\ [][Next]_vars

(* Goroutines of a pass and the stop loop always proceed, and the driver   *)
(* (internal/app/drive.go) issues dispatch passes as long as the Workflow  *)
(* is RUNNING; nothing is assumed of the user's commands.                  *)
Fairness ==
    /\ \A n \in Nodes : WF_vars(ChainStep(n))
    /\ WF_vars(ProcessStopped)
    /\ WF_vars(agg.runtime = "RUNNING" /\ DispatchCommand)

FairSpec == Spec /\ Fairness

-----------------------------------------------------------------------------
(* Properties.                                                             *)

(* The aggregate, the chains, the ledger and the Workspace keep their      *)
(* types: every Decision writes legal rows (internal/model/state.go,       *)
(* ValidateState).                                                         *)
TypeOK ==
    /\ agg \in Aggregates
    /\ chain \in [Nodes -> Chains]
    /\ interrupted \in BOOLEAN
    /\ stop \in (Nodes \X Nat) \cup {NoKey}
    /\ ledger \subseteq Intents
    /\ ws \in Heads
    /\ dirty \in BOOLEAN
    /\ observed \in Heads

(* At most one Run is active, it is the newest one, and a Dispatch Gate is *)
(* open only on a Run that is RUNNING: every decision that opens a Run     *)
(* closes the earlier ones and every decision that leaves RUNNING closes   *)
(* the gate, so the Scheduler and the Kernel read the same gate            *)
(* (internal/decision/kernel.go, closePriorRuns and activeRun).            *)
OneActiveRun ==
    \A i \in DOMAIN agg.runs :
        /\ agg.runs[i].status \notin RunTerminal => i = Len(agg.runs)
        /\ agg.runs[i].gate = (agg.runs[i].status = "RUNNING")

(* A RUNNING Attempt is the newest Attempt of its Node and the Node is     *)
(* RUNNING: no Node ever has two Attempts in flight, a retry never reuses a*)
(* number, and no settlement leaves an Attempt running behind a settled    *)
(* Node (internal/decision/execution.go, dispatch.go nextAttemptNumber).   *)
RunningAttemptIsNewest ==
    \A n \in Nodes : \A k \in DOMAIN agg.att[n] :
        IsRunning(agg, n, k) => k = Len(agg.att[n]) /\ agg.node[n] = "RUNNING"

(* A CANCELLED Workflow is quiet: no Attempt waits or runs, no managed     *)
(* process row is RUNNING, every Node is terminal, no Run is active        *)
(* (internal/decision/execution.go, finishCancel).                         *)
CancelledIsQuiet ==
    agg.runtime = "CANCELLED" =>
        /\ \A n \in Nodes : /\ agg.node[n] \in NodeTerminal
                            /\ \A k \in DOMAIN agg.att[n] :
                                   /\ agg.att[n][k].status \in AttemptTerminal
                                   /\ agg.att[n][k].process # "RUNNING"
        /\ ~HasActiveRun(agg)

(* A Workflow at rest cannot dispatch: unless its runtime is RUNNING no    *)
(* Run is RUNNING or QUIESCING, whichever of pause, failure, interruption  *)
(* and orphan came first (internal/decision/execution.go, workflow.go).    *)
ClosedAtRest ==
    agg.runtime # "RUNNING" => ActiveStatus(agg) \notin {"RUNNING", "QUIESCING"}

(* A blocking Finding outranks every stop: a Workflow that carries one is  *)
(* never PAUSED nor SUCCEEDED, and a QUIESCING Run always carries the one  *)
(* that closed its gate; Ctrl+C in the middle of quiescing blocks          *)
(* (internal/decision/execution.go, convergeStopping; decidePause).        *)
FindingOutranksStop ==
    /\ HasBlockingFinding(agg) => agg.runtime \notin {"PAUSED", "SUCCEEDED"}
    /\ ActiveStatus(agg) = "QUIESCING" => HasBlockingFinding(agg)

(* The retry accounting: what a task was charged is the number of          *)
(* successor rows its failures created, and never exceeds the budget, over *)
(* deferred retries, interruptions, crashes and resumes (internal/decision/*)
(* execution.go, decideAttemptFailure).                                    *)
RetriesWithinBudget ==
    \A n \in Nodes :
        /\ agg.charged[n] <= RetryBudget[n]
        /\ n \in Tasks => agg.charged[n] =
              Cardinality({k \in DOMAIN agg.att[n] : agg.att[n][k].process = "none"})

(* A workflow that SUCCEEDED delivers everything: every task's work is in  *)
(* the verified head, the managed Workspace is at exactly that head, and   *)
(* nothing is left running (internal/decision/workflow.go, decideComplete).*)
SucceededDeliversAll ==
    agg.runtime = "SUCCEEDED" =>
        /\ Tasks \subseteq agg.head
        /\ ws = agg.head
        /\ ~dirty
        /\ ~HasRunningAttempt(agg) /\ ~HasRunningProcess(agg)

(* Nothing unverified reaches a commit that others build on: the verified  *)
(* head, the managed Workspace and every Task Base contain only the work   *)
(* of tasks that succeeded and whose verify Nodes all succeeded, whatever  *)
(* merge was interrupted, rolled back or left behind by a crash (internal/ *)
(* decision/verify.go, decideWorkspaceMerged; dispatch.go, decideDispatch).*)
VerifiedTask(s, t) ==
    /\ Succeeded(s, t)
    /\ \A v \in Nodes : Kind[v] = "VERIFY" /\ TaskOf[v] = t => s.node[v] = "SUCCEEDED"

OnlyVerified(s, head) == \A t \in head \ NoHead : VerifiedTask(s, t)

HeadIsVerified ==
    /\ OnlyVerified(agg, agg.head)
    /\ OnlyVerified(agg, ws)
    /\ \A n \in Nodes : OnlyVerified(agg, agg.base[n])

(* Merges are serial: at most one merge Attempt is RUNNING, whatever an    *)
(* earlier pass or an earlier process left RUNNING (internal/app/          *)
(* dispatch.go, selectBatch).                                              *)
MergesAreSerial ==
    \A m, n \in Merges :
        (\E i \in DOMAIN agg.att[m] : IsRunning(agg, m, i))
        /\ (\E j \in DOMAIN agg.att[n] : IsRunning(agg, n, j)) => m = n

(* A stop or a quiesce that began always ends, in every order in which the *)
(* chains settle and the processes stop: the settlement that comes last    *)
(* converges the Run (internal/decision/execution.go, convergeStopping,    *)
(* settleAfterAttemptEnd).  Holds as long as no process crashes.           *)
StopsConverge ==
    (ActiveStatus(agg) \in {"STOPPING", "QUIESCING"})
        ~> (ActiveStatus(agg) \notin {"STOPPING", "QUIESCING"})

(* A checkpoint behind the final-verify Node is still waiting when the     *)
(* Final Verify chain asks for the completion, and is reached in a later   *)
(* pass: every Node has succeeded then, and nobody asks again.             *)
CompletionMissed ==
    /\ \E c \in Checkpoints : \E n \in Deps[c] : FinalVerify(n)
    /\ \A n \in Nodes : agg.node[n] = "SUCCEEDED"


(* A persisted cancel intent allocates nothing any more: no step creates   *)
(* an Attempt or charges a retry (internal/decision/apply_cleanup.go,      *)
(* decideCancel).                                                          *)
CancelAllocatesNothing ==
    [][agg.cancel => AttemptCount(agg') = AttemptCount(agg) /\ agg'.charged = agg.charged]_vars

-----------------------------------------------------------------------------
(* A statement of the repository that the code does not keep.              *)

(* "the VERIFIED Workspace Head advances to the Merge Commit" (internal/   *)
(* decision/verify.go, decideWorkspaceMerged): the work of every merge     *)
(* that succeeded is in the verified head.                                 *)
MergedIsInHead ==
    \A m \in Merges :
        agg.node[m] = "SUCCEEDED" => agg.head # NoHead /\ TaskOf[m] \in agg.head

=============================================================================
