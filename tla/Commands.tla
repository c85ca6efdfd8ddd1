------------------------------ MODULE Commands ------------------------------
(***************************************************************************)
(* One command of the Application from its unlocked preparation to its      *)
(* outcome (app/application.go Execute), executed by several goroutines of  *)
(* several processes on one Workflow: the read before the locks, Recovery,  *)
(* the migration of a Store opened for the first time, the fixed lock       *)
(* order, the sweep, and the loop of Decisions and Effects.  The commands   *)
(* are those of the requirement discussion (Discussion).                    *)
(*                                                                          *)
(* The locks are platform.LockSet: one descriptor per lock file and         *)
(* process, shared by reference count inside the process and excluded by    *)
(* flock between processes.  A conflict inside the process fails at once, a *)
(* conflict with another process polls.                                     *)
(***************************************************************************)
EXTENDS Discussion, FiniteSets, SequencesExt

CONSTANTS
  Threads,      \* goroutines that execute commands
  Processes,    \* cflow processes
  ProcessOf,    \* the process of a thread
  Offers,       \* the commands a thread may issue
  Headless,     \* commands issued from the CLI, where Ctrl+C pauses
  NoThread,
  Started,      \* the initial states: [agg, sets, turn, db, left]
  MaxCrashes    \* processes killed

CommandNames == {"Prepare", "Continue", "Switch", "Return", "Finish", "Freeze",
                 "Discuss", "Plan", "Pause"}

Turns == [s : Nat, st : {"none", "open", "over"}]

ASSUME ThreadsAssumption ==
  /\ ProcessOf \in [Threads -> Processes]
  /\ Offers \in [Threads -> SUBSET CommandNames]
  /\ NoThread \notin Threads

(* A database that starts on the current schema was upgraded earlier, with  *)
(* its verified backup beside it.                                           *)
ASSUME StartedAssumption ==
  \A i \in Started :
    /\ i.agg \in Aggregates /\ PointsBack(i.agg)
    /\ i.sets \in Nat /\ i.turn \in [Processes -> Turns]
    /\ i.db \in [schema : {"old", "current"}, backup : {"none", "copy", "verified"}]
    /\ i.db.schema = "current" => i.db.backup = "verified"

VARIABLES
  agg,       \* the aggregate in the Store
  version,   \* its version
  ledger,    \* the pending Effect Intents
  db,        \* the database file: its schema, and the backup beside it
  sets,      \* frozen Change Set Revisions
  handoffs,  \* the written handoffs: [s, cs]
  plans,     \* the written Plans: [s, h, c]
  files,     \* the lock files of each process: [mode, refs]
  opened,    \* processes whose write Store is open
  turn,      \* the native turn of each process: [s, st]
  th,        \* the command of each thread
  left,      \* commands each thread still issues
  crashed    \* processes that died

disk == <<sets, handoffs, plans>>
store == <<agg, version, ledger, db>>
locks == <<files, opened>>
bounds == <<left, crashed>>
vars == <<store, disk, locks, turn, th, bounds>>

Kinds == {"schema", "writer", "owner"}

LockOrder == <<"schema", "writer", "owner">>

Free == [mode |-> "S", refs |-> 0]

NoTurn == [s |-> 0, st |-> "none"]

NoInput == [c0 |-> "none", provider |-> CHOOSE p \in Providers : TRUE,
            s |-> 0, p |-> 0, cs |-> 0, h |-> 0, c |-> 0]

Idle == [pc |-> "idle", in |-> NoInput, held |-> <<>>, polls |-> FALSE,
         restricted |-> FALSE, ver |-> 0, eff |-> NoEffect, ok |-> FALSE]

Init ==
  /\ \E i \in Started : agg = i.agg /\ sets = i.sets /\ turn = i.turn
                         /\ db = i.db /\ left = i.left
  /\ version = 0 /\ ledger = {}
  /\ handoffs = <<>> /\ plans = <<>>
  /\ files = [p \in Processes |-> [k \in Kinds |-> Free]]
  /\ opened = {}
  /\ th = [t \in Threads |-> Idle]
  /\ crashed = 0

-----------------------------------------------------------------------------
(* Locks                                                                    *)

Shares(f, mode) == f.refs = 0 \/ (f.mode = "S" /\ mode = "S")

(* flock: no other process holds the file in a conflicting mode.            *)
Compatible(t, k, mode) ==
  \A p \in Processes \ {ProcessOf[t]} : Shares(files[p][k], mode)

Dropped(f, held) ==
  IF ~held THEN f
  ELSE IF f.refs = 1 THEN Free ELSE [f EXCEPT !.refs = @ - 1]

(* releaseHolds, or the end of the hold a defer releases.                   *)
Released(t) ==
  [files EXCEPT ![ProcessOf[t]] =
     [k \in Kinds |-> Dropped(@[k], k \in Range(th[t].held))]]

(* The command returns an error; whatever it holds is released.             *)
Return(t) ==
  /\ th' = [th EXCEPT ![t] = Idle]
  /\ files' = Released(t)
  /\ UNCHANGED opened

Goes(t, pc) == th' = [th EXCEPT ![t].pc = pc]

(* First the process's own entry, once; then flock, polled.                 *)
Takes(t, k, mode, new) ==
  LET p == ProcessOf[t] IN
  /\ Shares(files[p][k], mode) /\ Compatible(t, k, mode)
  /\ files' = [files EXCEPT ![p][k] = [mode |-> mode, refs |-> @.refs + 1]]
  /\ th' = [th EXCEPT ![t] = [new EXCEPT !.held = Append(@, k),
                                         !.polls = FALSE]]
  /\ UNCHANGED opened

(* Mutant: the earlier holds of the batch are forgotten.                    *)
BusyLeaks(t, k, mode) ==
  /\ ~th[t].polls /\ ~Shares(files[ProcessOf[t]][k], mode)
  /\ th' = [th EXCEPT ![t] = Idle]
  /\ UNCHANGED locks

Busy(t, k, mode) ==
  /\ ~th[t].polls /\ ~Shares(files[ProcessOf[t]][k], mode)
  /\ Return(t)

Polls(t, k, mode) ==
  /\ ~th[t].polls /\ Shares(files[ProcessOf[t]][k], mode)
  /\ ~Compatible(t, k, mode)
  /\ th' = [th EXCEPT ![t].polls = TRUE]
  /\ UNCHANGED locks

Acquire(t, k, mode, new) ==
  Takes(t, k, mode, new) \/ Busy(t, k, mode) \/ Polls(t, k, mode)

-----------------------------------------------------------------------------
(* Before the mutation locks                                                *)

Input(c, s, v) == [NoInput EXCEPT !.c0 = c, !.s = s, !.provider = v]

To(c, ss, ps) == {Input(c, s, v) : s \in ss, v \in ps}

(* The Inputs of one command: a Session the Workflow has, or the turn that  *)
(* is over.                                                                 *)
RequestsOf(t, c) ==
  LET Only == {NoInput.provider}
      Known == DOMAIN agg.sessions
      last == turn[ProcessOf[t]]
  IN CASE c = "Switch" -> To(c, Known, Providers)
       [] c \in {"Continue", "Finish"} -> To(c, Known, Only)
       [] c = "Return" -> To(c, IF last.st = "over" THEN {last.s} ELSE {}, Only)
       [] OTHER -> To(c, {0}, Only)

Requests(t) == UNION {RequestsOf(t, c) : c \in Offers[t]}

(* The TUI hands its terminal to an open turn and issues nothing meanwhile; *)
(* the turn's Return is issued once.                                        *)
Issue(t) ==
  LET p == ProcessOf[t] IN
  /\ th[t].pc = "idle" /\ left[t] > 0 /\ turn[p].st # "open"
  /\ \E in \in Requests(t) :
       /\ th' = [th EXCEPT ![t].pc = "prepare", ![t].in = in]
       /\ turn' = IF in.c0 = "Return" THEN [turn EXCEPT ![p] = NoTurn] ELSE turn
  /\ left' = [left EXCEPT ![t] = @ - 1]
  /\ UNCHANGED <<store, disk, locks, crashed>>

(* What each command is refused on, and what it captures, from a read made  *)
(* before any lock is held: the set of its Kernel Inputs, empty on refusal. *)
If(c, in) == IF c THEN {in} ELSE {}

Bound(s) == s # 0 /\ agg.sessions[s].bound

PrepareNativeDiscussion(in) == If(agg.stage = "DISCUSSION", in)

PrepareContinue(in) == If(Bound(in.s), in)

PrepareSwitchAgent(in) ==
  If(Bound(in.s) /\ in.provider # agg.sessions[in.s].provider, in)

(* The turn's row is the first RUNNING one of its Session.                  *)
PrepareReturn(in) ==
  LET rows == {p \in RunningProcs(agg) : agg.procs[p].s = in.s}
  IN IF Bound(in.s) /\ rows # {} THEN {[in EXCEPT !.p = First(rows)]} ELSE {}

PrepareFinish(in) ==
  If(Bound(in.s) /\ agg.sessions[in.s].st \in Resumable /\ sets # 0,
     [in EXCEPT !.cs = sets])

PlanInputs(in) ==
  LET h == Len(handoffs)
      native == HasNativeDiscussion(agg)
  IN If(~((native \/ h # 0) /\ (h = 0 \/ sets = 0)),
        [in EXCEPT !.h = h, !.c = IF h = 0 THEN 0 ELSE sets])

Prepared(in) ==
  CASE in.c0 = "Prepare" -> PrepareNativeDiscussion(in)
    [] in.c0 = "Continue" -> PrepareContinue(in)
    [] in.c0 = "Switch" -> PrepareSwitchAgent(in)
    [] in.c0 = "Return" -> PrepareReturn(in)
    [] in.c0 = "Finish" -> PrepareFinish(in)
    [] in.c0 = "Plan" -> PlanInputs(in)
    [] OTHER -> {in}

(* The read itself is made under the shared DB Schema Lock; a Finish then   *)
(* resumes the Provider Session for its structured answer.                  *)
Prepare(t) ==
  LET k == files[ProcessOf[t]]["schema"] IN
  /\ th[t].pc = "prepare"
  /\ \/ /\ ~Shares(k, "S") \/ Prepared(th[t].in) = {}
        /\ Return(t)
     \/ /\ Shares(k, "S") /\ Compatible(t, "schema", "S")
        /\ \E in \in Prepared(th[t].in) :
             th' = [th EXCEPT ![t].in = in,
                              ![t].pc = IF in.c0 = "Finish" THEN "resume"
                                        ELSE "recover"]
        /\ UNCHANGED locks
  /\ UNCHANGED <<store, disk, turn, bounds>>

Resume(t) ==
  /\ th[t].pc = "resume"
  /\ Goes(t, "recover")
  /\ UNCHANGED <<store, disk, locks, turn, bounds>>

Recover(t) ==
  /\ th[t].pc = "recover"
  /\ Acquire(t, "schema", "S", [th[t] EXCEPT !.pc = "recovering"])
  /\ UNCHANGED <<store, disk, turn, bounds>>

(* The OS identity of a Process is not persisted: a row that still runs     *)
(* cannot be confirmed stopped.                                             *)
StopDrifts(p) == agg.procs[p].st = "RUNNING"

(* Such a stop Intent is drift no command gets past; every other pending    *)
(* Intent of a discussion is completed or safe to retry.                    *)
BlockedDrift == \E e \in ledger : e.k = "stop" /\ StopDrifts(e.p)

(* The hook's verdict.  A posture fault lets only a stop command through,   *)
(* restricted to stop Effects.                                              *)
Recovered(t) ==
  /\ th[t].pc = "recovering"
  /\ \/ BlockedDrift /\ Return(t)
     \/ /\ ~BlockedDrift
        /\ \E r \in IF th[t].in.c0 = "Pause" THEN BOOLEAN ELSE {FALSE} :
             th' = [th EXCEPT ![t].held = <<>>, ![t].restricted = r,
                              ![t].pc = IF ProcessOf[t] \in opened THEN "lock"
                                        ELSE "open"]
        /\ files' = Released(t)
        /\ UNCHANGED opened
  /\ UNCHANGED <<store, disk, turn, bounds>>

OpenStore(t) ==
  /\ th[t].pc = "open"
  /\ Acquire(t, "schema", "X", [th[t] EXCEPT !.pc = "migrate"])
  /\ UNCHANGED <<store, disk, turn, bounds>>

(* The Store is served once nothing is pending.                             *)
Serve(t) ==
  /\ opened' = opened \union {ProcessOf[t]}
  /\ files' = Released(t)
  /\ th' = [th EXCEPT ![t].pc = "lock", ![t].held = <<>>]

(* Mutant: whatever lies in the backup directory is taken for the backup.   *)
MigrateOverCopy(t) ==
  /\ th[t].pc = "migrate"
  /\ \/ db.schema = "current" /\ Serve(t) /\ UNCHANGED db
     \/ /\ db.schema = "old" /\ db.backup = "none"
        /\ db' = [db EXCEPT !.backup = "copy"]
        /\ Goes(t, "manifest") /\ UNCHANGED locks
     \/ /\ db.schema = "old" /\ db.backup # "none"
        /\ Goes(t, "apply") /\ UNCHANGED <<db, locks>>
  /\ UNCHANGED <<agg, version, ledger, disk, turn, bounds>>

(* An upgrade starts from a verified backup, its own or one an earlier      *)
(* migration left; a copy without its manifest is never written over.       *)
Migrate(t) ==
  /\ th[t].pc = "migrate"
  /\ \/ db.schema = "current" /\ Serve(t) /\ UNCHANGED db
     \/ /\ db.schema = "old" /\ db.backup = "none"
        /\ db' = [db EXCEPT !.backup = "copy"]
        /\ Goes(t, "manifest") /\ UNCHANGED locks
     \/ /\ db.schema = "old" /\ db.backup = "verified"
        /\ Goes(t, "apply") /\ UNCHANGED <<db, locks>>
     \/ /\ db.schema = "old" /\ db.backup = "copy"
        /\ Return(t) /\ UNCHANGED db
  /\ UNCHANGED <<agg, version, ledger, disk, turn, bounds>>

WriteManifest(t) ==
  /\ th[t].pc = "manifest"
  /\ db' = [db EXCEPT !.backup = "verified"]
  /\ Goes(t, "apply")
  /\ UNCHANGED <<agg, version, ledger, disk, locks, turn, bounds>>

(* The whole pending chain commits in one transaction.                      *)
ApplyMigrations(t) ==
  /\ th[t].pc = "apply"
  /\ db' = [db EXCEPT !.schema = "current"]
  /\ Serve(t)
  /\ UNCHANGED <<agg, version, ledger, disk, turn, bounds>>

-----------------------------------------------------------------------------
(* Under the mutation locks                                                 *)

(* Mutant: the Project Writer and the Workflow Owner admit readers.         *)
SharedMode(k) == "S"

LockMode(k) == IF k = "schema" THEN "S" ELSE "X"

LockBatch(t) ==
  LET k == LockOrder[Len(th[t].held) + 1] IN
  /\ th[t].pc = "lock"
  /\ Acquire(t, k, LockMode(k),
             IF k = "owner" THEN [th[t] EXCEPT !.ver = version, !.pc = "sweep"]
             ELSE th[t])
  /\ UNCHANGED <<store, disk, turn, bounds>>

(* An unfinished stop protocol is completed before any other mutation.      *)
Sweep(t) ==
  LET swept == NeedsReconcile(agg)
      v == IF swept THEN version + 1 ELSE version
  IN
  /\ th[t].pc = "sweep"
  /\ agg' = IF swept THEN DecideReconcile(agg) ELSE agg
  /\ version' = v
  /\ th' = [th EXCEPT ![t].pc = "decide", ![t].ver = v]
  /\ UNCHANGED <<ledger, db, disk, locks, turn, bounds>>

(* One transaction: the compare-and-swap, the Decision, and the Intents it  *)
(* settles and requests.                                                    *)
Transact(t, decisions, settled) ==
  \/ /\ th[t].ver # version \/ decisions = Refused
     /\ Return(t)
     /\ UNCHANGED store
  \/ /\ th[t].ver = version
     /\ \E d \in decisions :
          /\ agg' = d.agg /\ version' = version + 1
          /\ ledger' = (ledger \ settled) \union ({d.eff} \ {NoEffect})
          /\ th' = [th EXCEPT ![t].ver = version + 1, ![t].eff = d.eff,
                              ![t].ok = FALSE,
                              ![t].pc = IF d.eff = NoEffect THEN "done"
                                        ELSE "effect"]
     /\ UNCHANGED <<db, locks>>

DecideCommand(t) ==
  /\ th[t].pc = "decide" /\ th[t].in.c0 # "Freeze"
  /\ Transact(t, Decide(agg, th[t].in), {})
  /\ UNCHANGED <<disk, turn, bounds>>

(* Freezing writes the next Change Set Revision and decides nothing.        *)
Freeze(t) ==
  /\ th[t].pc = "decide" /\ th[t].in.c0 = "Freeze"
  /\ sets' = sets + 1
  /\ Goes(t, "done")
  /\ UNCHANGED <<store, handoffs, plans, locks, turn, bounds>>

(* The Effects, each up to the Result of its own Intent.                    *)
ResultIs(t, ok) == th' = [th EXCEPT ![t].pc = "result", ![t].ok = ok]

NativeBootstrap(t) ==
  /\ th[t].eff.k = "bootstrap"
  /\ ResultIs(t, TRUE)
  /\ UNCHANGED disk

(* A run that fails or is cancelled is a Result too.                        *)
ProviderStart(t) ==
  /\ th[t].eff.k = "run"
  /\ \E ok \in BOOLEAN : ResultIs(t, ok)
  /\ UNCHANGED disk

(* No Process of a discussion has a supervised handle: it is reported gone. *)
StopManagedProcess(t) ==
  /\ th[t].eff.k = "stop"
  /\ ResultIs(t, TRUE)
  /\ UNCHANGED disk

ArtifactWrite(t) ==
  LET e == th[t].eff
      Put(seq, what, x) == IF e.what = what THEN Append(seq, x) ELSE seq
  IN
  /\ e.k = "write"
  /\ handoffs' = Put(handoffs, "handoff", [s |-> e.s, cs |-> e.cs])
  /\ plans' = Put(plans, "plan", [s |-> e.s, h |-> th[t].in.h, c |-> th[t].in.c])
  /\ ResultIs(t, TRUE)
  /\ UNCHANGED sets

(* The restricted path of a posture fault runs nothing but stops.           *)
RunEffect(t) ==
  /\ th[t].pc = "effect"
  /\ \/ /\ ~th[t].restricted
        /\ NativeBootstrap(t) \/ ProviderStart(t) \/ ArtifactWrite(t)
     \/ StopManagedProcess(t)
  /\ UNCHANGED <<store, locks, turn, bounds>>

CommitResult(t) ==
  /\ th[t].pc = "result"
  /\ Transact(t, DecideResult(agg, th[t].eff, th[t].ok), {th[t].eff})
  /\ UNCHANGED <<disk, turn, bounds>>

(* The Session of the Outcome: a native one, once bound, carries the Bridge *)
(* request the TUI runs.                                                    *)
BridgeOf(t) ==
  LET in == th[t].in
      s == IF in.c0 = "Continue" THEN in.s ELSE Len(agg.sessions)
  IN IF in.c0 \in {"Prepare", "Continue", "Switch"} /\ agg.sessions[s].bound
     THEN [s |-> s, st |-> "open"] ELSE turn[ProcessOf[t]]

Complete(t) ==
  /\ th[t].pc = "done"
  /\ turn' = [turn EXCEPT ![ProcessOf[t]] = BridgeOf(t)]
  /\ Return(t)
  /\ UNCHANGED <<store, disk, bounds>>

-----------------------------------------------------------------------------
(* Faults and the Bridge                                                    *)

(* A call may fail, and the context may be cancelled while the command      *)
(* polls: what is committed stays, an Intent without its Result stays       *)
(* pending.  An error before the first Decision is otherwise the command    *)
(* refused by it.                                                           *)
Aborts(t) ==
  th[t].polls \/ th[t].pc \in {"migrate", "manifest", "apply", "effect", "result"}

Fail(t) ==
  /\ Aborts(t)
  /\ Return(t)
  /\ UNCHANGED <<store, disk, turn, bounds>>

(* Ctrl+C at a CLI command aborts it, and the CLI then pauses the Workflow. *)
Interrupt(t) ==
  /\ th[t].in.c0 \in Headless /\ Aborts(t)
  /\ th' = [th EXCEPT ![t] = [Idle EXCEPT !.pc = "prepare", !.in.c0 = "Pause"]]
  /\ files' = Released(t)
  /\ UNCHANGED <<store, disk, opened, turn, bounds>>

(* A process dies holding locks, which the OS drops.  Without a lock its    *)
(* commands are as good as not issued.                                      *)
Crash(p) ==
  /\ \E t \in Threads : ProcessOf[t] = p /\ th[t].held # <<>>
  /\ crashed < MaxCrashes /\ crashed' = crashed + 1
  /\ th' = [t \in Threads |-> IF ProcessOf[t] = p THEN Idle ELSE th[t]]
  /\ files' = [files EXCEPT ![p] = [k \in Kinds |-> Free]]
  /\ opened' = opened \ {p}
  /\ turn' = [turn EXCEPT ![p] = NoTurn]
  /\ UNCHANGED <<store, disk, left>>

(* The interactive process exits, or the Bridge gives up on it.             *)
TurnEnds(p) ==
  /\ turn[p].st = "open"
  /\ \E e \in {NoTurn, [turn[p] EXCEPT !.st = "over"]} :
       turn' = [turn EXCEPT ![p] = e]
  /\ UNCHANGED <<store, disk, locks, th, bounds>>

Step(t) ==
  \/ Prepare(t) \/ Resume(t) \/ Recover(t) \/ Recovered(t)
  \/ OpenStore(t) \/ Migrate(t) \/ WriteManifest(t) \/ ApplyMigrations(t)
  \/ LockBatch(t) \/ Sweep(t)
  \/ DecideCommand(t) \/ Freeze(t) \/ RunEffect(t) \/ CommitResult(t)
  \/ Complete(t)

Next ==
  \/ \E t \in Threads : Issue(t) \/ Step(t) \/ Fail(t) \/ Interrupt(t)
  \/ \E p \in Processes : Crash(p) \/ TurnEnds(p)

(* Some goroutine that can take a step of its command takes one: a call     *)
(* returns, and a polled flock is tried again.                              *)
Spec == Init /\ [][Next]_vars /\ WF_vars(\E t \in Threads : Step(t))

-----------------------------------------------------------------------------
(* Properties                                                               *)

Mutating ==
  {t \in Threads :
     th[t].pc \in {"sweep", "decide", "effect", "result", "done"}}

Owner == IF Mutating = {} THEN NoThread ELSE CHOOSE t \in Mutating : TRUE

Serial == INSTANCE SerialStore
  WITH Owners <- Threads, Nobody <- NoThread, owner <- Owner,
       seen <- IF Owner = NoThread THEN version ELSE th[Owner].ver

(* Commands mutate a Workflow one at a time: from the sweep to the last     *)
(* Result the version a command read is the version it writes over, in      *)
(* whatever process the others run (acquireMutationLocks, transact).        *)
MutationsAreSerial == Serial!Spec

(* A Store is served on the current schema, and an upgraded database has a  *)
(* verified backup beside it, whichever process crashed or failed in an     *)
(* earlier migration (Store.migrate, verifyBackup).                         *)
UpgradeHasBackup ==
  /\ opened # {} => db.schema = "current"
  /\ db.schema = "current" => db.backup = "verified"

(* A Session is finished by one handoff, however many commands prepared a   *)
(* Finish of it before the locks (prepareFinish, decideFinishDiscussion).   *)
HandoffOnce ==
  \A i, j \in DOMAIN handoffs : handoffs[i].s = handoffs[j].s => i = j

(* A Plan written without a handoff comes from a Workflow that had no       *)
(* native Session when it was generated, even when the native Session was   *)
(* started after the inputs of the Plan were resolved                       *)
(* (resolvePlanGenerationInputs, hasNativeDiscussionLineage).               *)
NativeNeverFallsBack ==
  \A i \in DOMAIN plans : plans[i].h = 0 =>
    \A p \in DOMAIN agg.procs :
      ~ (agg.procs[p].s < plans[i].s /\ agg.sessions[agg.procs[p].s].bound)

(* Every command ends, whichever process holds or loses which lock.         *)
CommandsEnd == \A t \in Threads : th[t].pc # "idle" ~> th[t].pc = "idle"

=============================================================================
