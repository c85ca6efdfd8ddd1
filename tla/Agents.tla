------------------------------- MODULE Agents -------------------------------
(***************************************************************************)
(* The clients of a supervised process: a Provider run of the Agent Runtime *)
(* (agent/runtime.go, agent/drain.go and the claude and codex adapters) and *)
(* a verification command (verify/engine.go).                               *)
(*                                                                          *)
(* The Runtime keeps its Sessions in memory and rebuilds them from the      *)
(* Store's rows for every command, so a crash forgets what no row holds.    *)
(* A run's evidence (Session manifest, context bundle) is written before    *)
(* the Decision that records its outcome in the row.  A run that ends in an *)
(* error records no row: its chain returns the error.  Resume is offered    *)
(* for every live bound Session, as the Runtime does.                       *)
(*                                                                          *)
(* A claimed Provider Session id is a member of ProviderIds; a frame that   *)
(* does not decode is "bad", one that carries no Session id or another      *)
(* Session's is "alien".  A process whose client has returned is not        *)
(* followed further.                                                        *)
(***************************************************************************)
EXTENDS Supervisor

CONSTANTS
  ProviderIds,  \* the Session ids Providers claim
  Bindings,     \* the length of the purpose's routing policy
  MaxRuns       \* bound: processes launched

ASSUME AgentsBounds ==
  /\ Bindings \in Nat \ {0} /\ MaxRuns \in Nat
  /\ ProviderIds \cap {"none", "msg", "alien", "done", "fail", "bad",
                       "started", "overflow", "eof"} = {}

VARIABLES
  rows,     \* Session rows of the Store
  mem,      \* the Runtime's Sessions (byCFlow and byProvider)
  files,    \* evidence: statuses of the manifests written, context bundles
  cl,       \* the client of the process
  verdict,  \* what the last run returned
  touched,  \* the worktree under verification has changed
  runs      \* processes launched

agentVars == <<rows, mem, files, cl, verdict, touched, runs>>

vars == <<child, orphan, wrote, nread, pump, over, chan, fin, fact, timer, ctx,
          watch, signalled, rows, mem, files, cl, verdict, touched, runs>>

Sessions == 1 .. MaxRuns

NoSession == [st |-> "none", pid |-> "none", prov |-> 1, sup |-> 0]

Ended == {"COMPLETED", "FAILED", "LOST"}

Frames == ProviderIds \union {"msg", "alien", "done", "fail", "bad"}

Terminals == {"done", "fail"}

Followed == cl.at = "drain"

(* Lines the process may write: only a Provider speaks the protocol.        *)
Spoken == IF cl.op = "verify" THEN {"msg"} ELSE Frames

IdleClient == [op |-> "none", at |-> "idle", sess |-> 0, est |-> "none",
               started |-> FALSE, term |-> "none"]

Init ==
  /\ SupInit
  /\ rows = [s \in Sessions |-> NoSession]
  /\ mem = rows
  /\ files = [s \in Sessions |-> {}]
  /\ cl = IdleClient /\ verdict = "none" /\ touched = FALSE /\ runs = 0

-----------------------------------------------------------------------------
(* Starting a run                                                           *)

Idle == cl.at = "idle" /\ runs < MaxRuns

Begin(op, s) ==
  /\ cl' = [IdleClient EXCEPT !.op = op, !.at = "drain", !.sess = s]
  /\ verdict' = "none" /\ touched' = FALSE /\ runs' = runs + 1

(* The dispatch Decision has recorded the STARTING row, or takes the one a  *)
(* lost Session's successor already has; a bootstrap is of the discussion,  *)
(* which has no successors.                                                 *)
StartRun(op) ==
  /\ Idle
  /\ op = "bootstrap" => rows[runs + 1].sup = 0
  /\ rows' = [rows EXCEPT ![runs + 1].st = "STARTING"]
  /\ Begin(op, runs + 1)
  /\ Launch(FALSE)
  /\ UNCHANGED <<mem, files>>

(* The installed Provider is not the approved one, lacks a capability or    *)
(* cannot be launched: an error, and the row stays as it is.                *)
StartRefused ==
  /\ Idle
  /\ rows' = [rows EXCEPT ![runs + 1].st = "STARTING"]
  /\ cl' = IdleClient /\ verdict' = "error" /\ runs' = runs + 1
  /\ Forget
  /\ UNCHANGED <<mem, files, touched>>

(* The worktree is clean and at the commit under verification.              *)
StartVerification ==
  /\ Idle /\ Begin("verify", 0) /\ Launch(TRUE)
  /\ UNCHANGED <<rows, mem, files>>

Resumable(s) == mem[s].pid # "none" /\ mem[s].st \notin Ended

ResumeRun(s) ==
  /\ Idle /\ Resumable(s)
  /\ Begin("resume", s)
  /\ Launch(FALSE)
  /\ UNCHANGED <<rows, mem, files>>

(* Mutant: the lost Session's result is reported before its bundle exists.  *)
FallbackUnbundled(s) ==
  /\ cl.at = "idle" /\ Resumable(s) /\ mem[s].prov < Bindings
  /\ mem' = [mem EXCEPT ![s].st = "LOST"]
  /\ files' = files
  /\ cl' = [IdleClient EXCEPT !.op = "resume", !.at = "lost", !.sess = s]
  /\ verdict' = "none"
  /\ Forget
  /\ UNCHANGED <<rows, touched, runs>>

(* The Provider cannot resume: the Session is lost and its successor gets   *)
(* the next binding of the policy, when there is one.                       *)
ResumeFallback(s) ==
  /\ cl.at = "idle" /\ Resumable(s) /\ mem[s].prov < Bindings
  /\ mem' = [mem EXCEPT ![s].st = "LOST"]
  /\ files' = [files EXCEPT ![s] = @ \union {"bundle"}]
  /\ cl' = [IdleClient EXCEPT !.op = "resume", !.at = "lost", !.sess = s]
  /\ verdict' = "none"
  /\ Forget
  /\ UNCHANGED <<rows, touched, runs>>

PersistLostManifest ==
  /\ cl.at = "lost"
  /\ files' = [files EXCEPT ![cl.sess] = @ \union {"LOST"}]
  /\ cl' = [cl EXCEPT !.at = "record"] /\ verdict' = "lost"
  /\ UNCHANGED <<supVars, rows, mem, touched, runs>>

-----------------------------------------------------------------------------
(* Draining a Provider run                                                  *)

Draining == cl.at = "drain" /\ cl.op # "verify"

Return(v) == cl' = [cl EXCEPT !.at = "idle"] /\ verdict' = v

(* settleWith: the manifest of an established Session, then its status.     *)
Settle(status) ==
  IF cl.est = "none" \/ cl.op = "bootstrap"
    THEN UNCHANGED <<mem, files>>
    ELSE /\ mem' = [mem EXCEPT ![cl.sess].st = status]
         /\ files' = [files EXCEPT ![cl.sess] = @ \union {status}]

(* failProtocol: a cancelled context returns before anything is settled.    *)
FailProtocol ==
  /\ Return(IF ctx = "cancelled" THEN "interrupted" ELSE "protocol")
  /\ IF ctx = "cancelled" THEN UNCHANGED <<mem, files>> ELSE Settle("FAILED")

HeadIs(s, fs) == chan # <<>> /\ Head(chan).stream = s /\ Head(chan).frame \in fs

SkipEvent ==
  /\ Draining
  /\ \/ HeadIs("err", {"msg", "overflow", "eof"})
     \/ HeadIs("out", {"started", "eof"})
  /\ Receive
  /\ UNCHANGED <<signalled, agentVars>>

(* A stream over budget or a frame that does not decode stops the process.  *)
BrokenStream ==
  /\ Draining /\ HeadIs("out", {"bad", "overflow"})
  /\ Receive /\ Terminate /\ FailProtocol
  /\ UNCHANGED <<rows, touched, runs>>

(* accept: a frame that decodes but breaks the protocol ends the run and    *)
(* leaves the process alone.                                                *)
Violates(f) ==
  \/ cl.term # "none" \/ f = "alien"
  \/ IF f \in ProviderIds
       THEN cl.started \/ (cl.op = "resume" /\ f # mem[cl.sess].pid)
       ELSE ~cl.started

ProtocolViolation ==
  /\ Draining /\ HeadIs("out", Frames \ {"bad"}) /\ Violates(Head(chan).frame)
  /\ Receive /\ FailProtocol
  /\ UNCHANGED <<signalled, rows, touched, runs>>

Claimed(id) == \E s \in Sessions : mem[s].pid = id

(* session_started: a new Session is built from its row's route and bound   *)
(* to an id no Session holds, unless the context is cancelled by then.  A   *)
(* bootstrap ends here; its process is signalled, not awaited.              *)
Establish ==
  /\ Draining /\ HeadIs("out", ProviderIds) /\ ~Violates(Head(chan).frame)
  /\ cl.op = "resume" \/ (ctx = "live" /\ ~Claimed(Head(chan).frame))
  /\ Receive
  /\ cl' = [cl EXCEPT !.started = TRUE, !.est = Head(chan).frame,
              !.at = IF cl.op = "bootstrap" THEN "record" ELSE @]
  /\ verdict' = (IF cl.op = "bootstrap" THEN "bound" ELSE verdict)
  /\ mem' = [mem EXCEPT ![cl.sess] =
               IF cl.op = "resume" THEN [@ EXCEPT !.st = "ACTIVE"]
               ELSE [rows[cl.sess] EXCEPT !.st = "ACTIVE", !.pid = Head(chan).frame]]
  /\ IF cl.op = "bootstrap" THEN Terminate ELSE signalled' = signalled
  /\ UNCHANGED <<rows, files, touched, runs>>

EstablishRefused ==
  /\ Draining /\ HeadIs("out", ProviderIds) /\ ~Violates(Head(chan).frame)
  /\ cl.op # "resume" /\ ctx = "live" /\ Claimed(Head(chan).frame)
  /\ Receive /\ Return("error")
  /\ UNCHANGED <<signalled, rows, mem, files, touched, runs>>

BodyFrame ==
  /\ Draining /\ HeadIs("out", {"msg"} \union Terminals)
  /\ ~Violates(Head(chan).frame)
  /\ Receive
  /\ cl' = (IF Head(chan).frame = "msg" THEN cl
            ELSE [cl EXCEPT !.term = Head(chan).frame])
  /\ UNCHANGED <<signalled, rows, mem, files, verdict, touched, runs>>

(* A frame that cannot be redacted settles the Session; one whose evidence  *)
(* cannot be written does not.  Either way the run returns at once.         *)
LocalFailure(settled) ==
  /\ Draining /\ cl.started
  /\ HeadIs("out", {"msg"} \union Terminals) /\ ~Violates(Head(chan).frame)
  /\ Receive /\ Return("error")
  /\ IF settled THEN Settle("FAILED") ELSE UNCHANGED <<mem, files>>
  /\ UNCHANGED <<signalled, rows, touched, runs>>

(* afterReap and the end of drain: the terminal frame decides, never the    *)
(* exit code; a stream without one is a crash.                              *)
StreamEnded ==
  /\ Draining /\ ChannelClosed
  /\ IF cl.term = "none" \/ cl.op = "bootstrap"
       THEN Return("crashed") /\ Settle("FAILED")
       ELSE LET status == IF cl.term = "done" THEN "COMPLETED" ELSE "FAILED" IN
            /\ Settle(status)
            /\ cl' = [cl EXCEPT !.at = "record"] /\ verdict' = status
  /\ UNCHANGED <<supVars, rows, touched, runs>>

(* A cancelled context returns without waiting for the process.             *)
Interrupted ==
  /\ Draining /\ ctx = "cancelled"
  /\ Return("interrupted")
  /\ UNCHANGED <<supVars, rows, mem, files, touched, runs>>

(* The Decision on the result of a run that ended.                          *)
RecordRow ==
  /\ cl.at = "record" /\ verdict \in {"COMPLETED", "FAILED"}
  /\ rows' = [rows EXCEPT ![cl.sess].pid = mem[cl.sess].pid,
                          ![cl.sess].st = verdict]
  /\ cl' = [cl EXCEPT !.at = "idle"]
  /\ UNCHANGED <<supVars, mem, files, verdict, touched, runs>>

(* The Decision on a bootstrap binds the row, which stays STARTING.         *)
BindRow ==
  /\ cl.at = "record" /\ verdict = "bound"
  /\ rows' = [rows EXCEPT ![cl.sess].pid = mem[cl.sess].pid]
  /\ cl' = [cl EXCEPT !.at = "idle"]
  /\ UNCHANGED <<supVars, mem, files, verdict, touched, runs>>

(* The Decision on a lost Session ends its row and, in the Execution stage, *)
(* appends the successor's.  Bound: one successor waits at a time.          *)
RecordLost(succeeded) ==
  /\ cl.at = "record" /\ verdict = "lost"
  /\ LET lost == [rows EXCEPT ![cl.sess].st = "LOST"] IN
     IF succeeded /\ runs < MaxRuns /\ rows[runs + 1].st = "none"
       THEN rows' = [lost EXCEPT ![runs + 1] =
                       [st |-> "STARTING", pid |-> "none",
                        prov |-> mem[cl.sess].prov + 1, sup |-> cl.sess]]
       ELSE rows' = lost
  /\ cl' = [cl EXCEPT !.at = "idle"]
  /\ UNCHANGED <<supVars, mem, files, verdict, touched, runs>>

-----------------------------------------------------------------------------
(* A verification command                                                   *)

Touch ==
  /\ Followed /\ cl.op = "verify" /\ ~touched
  /\ child = "alive" \/ orphan
  /\ touched' = TRUE
  /\ UNCHANGED <<supVars, rows, mem, files, cl, verdict, runs>>

(* Mutant: the exit is awaited before the output is read.                   *)
WaitThenRead ==
  /\ cl.at = "drain" /\ cl.op = "verify" /\ fin = "closed"
  /\ Receive
  /\ UNCHANGED <<signalled, agentVars>>

VerifyEvent ==
  /\ cl.at = "drain" /\ cl.op = "verify"
  /\ Receive
  /\ UNCHANGED <<signalled, agentVars>>

VerifyUnredactable ==
  /\ cl.at = "drain" /\ cl.op = "verify" /\ HeadIs("out", Frames)
  /\ Receive /\ Return("error")
  /\ UNCHANGED <<signalled, rows, mem, files, touched, runs>>

(* Wait, then the worktree is observed again.                               *)
VerifyEnded ==
  /\ cl.at = "drain" /\ cl.op = "verify" /\ ChannelClosed
  /\ \/ Return(IF fact = "ok" /\ ~touched THEN "passed" ELSE "rejected")
     \/ ctx = "cancelled" /\ Return("error")
  /\ UNCHANGED <<supVars, rows, mem, files, touched, runs>>

-----------------------------------------------------------------------------
(* Restarting                                                               *)

(* A new command, or a new CFlow process after a crash, rebuilds the        *)
(* Runtime from the rows.                                                   *)
Hydrate ==
  /\ mem' = [s \in Sessions |-> IF rows[s].st = "none" THEN NoSession
                                ELSE rows[s]]
  /\ mem' # mem \/ cl.at # "idle"
  /\ cl' = IdleClient /\ verdict' = "none" /\ touched' = FALSE
  /\ Forget
  /\ UNCHANGED <<rows, files, runs>>

ClientStep ==
  \/ PersistLostManifest
  \/ SkipEvent
  \/ BrokenStream
  \/ ProtocolViolation
  \/ Establish
  \/ EstablishRefused
  \/ BodyFrame
  \/ StreamEnded
  \/ Interrupted
  \/ RecordRow
  \/ BindRow
  \/ \E succeeded \in BOOLEAN : RecordLost(succeeded)
  \/ VerifyEvent
  \/ VerifyEnded

Next ==
  \/ Followed /\ (Environment(Spoken) \/ Goroutines \/ TimerFire) /\ UNCHANGED agentVars
  \/ \E op \in {"start", "bootstrap"} : StartRun(op)
  \/ StartRefused
  \/ StartVerification
  \/ \E s \in Sessions : ResumeRun(s) \/ ResumeFallback(s)
  \/ ClientStep
  \/ \E settled \in BOOLEAN : LocalFailure(settled)
  \/ VerifyUnredactable
  \/ Touch
  \/ Hydrate

(* The scheduler runs every goroutine that can run.  Nothing is assumed of  *)
(* the child, its descendants, the timer or the context.                    *)
Spec ==
  /\ Init /\ [][Next]_vars
  /\ WF_vars(Followed /\ Goroutines /\ UNCHANGED agentVars)
  /\ WF_vars(ClientStep)

-----------------------------------------------------------------------------
(* Properties                                                               *)

(* A Provider run is judged on everything its process wrote: COMPLETED is   *)
(* returned only when the completion frame is the last line of stdout, and  *)
(* a crash only when no line of it was a terminal frame (claude/run.go      *)
(* afterReap reads the channel to its close, and supervisor.finalize closes *)
(* it only after both pumps).                                               *)
JudgedOnWholeOutput ==
  (cl.op \in {"start", "resume"} /\ cl.at # "drain") =>
    /\ verdict = "COMPLETED" => Last(wrote["out"]) = "done"
    /\ verdict = "crashed" => Range(wrote["out"]) \cap Terminals = {}

(* A verification passes only on a command that ran to its own end: nobody  *)
(* signalled it, all its output was read, and no process that holds its     *)
(* streams is left to change the worktree that was found unchanged          *)
(* (verify/engine.go Run).                                                  *)
PassedIsCurrent ==
  verdict = "passed" =>
    /\ child = "ok" /\ ~signalled
    /\ Gone /\ ~touched
    /\ nread = [s \in Streams |-> Len(wrote[s])]

(* A Session row that ended has the manifest of that end on disk, and a     *)
(* successor's row supersedes a lost Session whose context bundle is there  *)
(* to start from, under a later binding of the policy, whatever the crash   *)
(* between the writes and the Decision (drain.go settleWith, runtime.go     *)
(* resumeFallback, effects.go successorHandoff).                            *)
EndedHasEvidence ==
  \A s \in Sessions :
    /\ rows[s].st \in Ended => rows[s].st \in files[s]
    /\ rows[s].sup # 0 =>
         /\ rows[rows[s].sup].st = "LOST" /\ "bundle" \in files[rows[s].sup]
         /\ rows[s].prov = rows[rows[s].sup].prov + 1

(* A run returns once its process and the descendants that hold its streams *)
(* are gone, however full the event channel was, and a Provider run returns *)
(* when its context is cancelled (supervisor.finalize, drain, engine.Run).  *)
RunSettles ==
  (Gone \/ (ctx = "cancelled" /\ cl.op # "verify")) ~> cl.at = "idle"

=============================================================================
