----------------------------- MODULE Workbench -----------------------------
(***************************************************************************)
(* The TUI (tui/app.go, navigation.go, workflow_menu.go and the Foreground  *)
(* Runner it starts).  A Bubble Tea Model is updated by one message at a    *)
(* time, while commands, queries, the Runner and the native terminal run in *)
(* goroutines of their own: their results arrive in any order, after any    *)
(* number of keys.                                                          *)
(*                                                                          *)
(* Every mutating command takes a generation and locks the keyboard until a *)
(* projection asked for that generation acknowledges it.  The state of that *)
(* lock (cs) is behind a pointer and shared by all copies of the Model, so  *)
(* what executeCmd does to the Model itself is lost and not modelled.       *)
(*                                                                          *)
(* What an execution preview shows is a pair, the Workflow and the version  *)
(* of its facts: the compiled workflow names its Workflow, so no two have   *)
(* the same hashes.  The menu may offer every entry of Offered: what the    *)
(* stage of the Workflow permits is not followed here.  The plan and        *)
(* terminal pages have no menu entry and cannot be reached; nothing sets    *)
(* resumeThenRun.                                                           *)
(***************************************************************************)
EXTENDS Naturals, Sequences, FiniteSets

CONSTANTS
  Existing,    \* the Workflows of the project when the TUI opens
  Created,     \* the ids CreateWorkflow may hand out
  Offered,     \* the entries a Workflow menu may offer
  AckRetries,  \* acknowledgement queries repeated before giving up (3)
  MaxKeys,     \* bound: keys pressed after the first projection
  MaxFacts     \* bound: versions of a Workflow's execution facts

None == "none"

Workflows == Existing \union Created

(* What an entry of the Workflow menu leads to.                             *)
MenuItems ==
  {"Resume", "Pause", "StartRunner", "Discussion", "Cancel", "Migrate",
   "InspectBlocked", "ReviewExecution", "View"}

ASSUME WorkbenchBounds ==
  /\ None \notin Workflows /\ Existing \cap Created = {}
  /\ Offered \subseteq MenuItems
  /\ AckRetries \in Nat /\ MaxKeys \in Nat /\ MaxFacts \in Nat

VARIABLES
  m,         \* the Bubble Tea Model
  cs,        \* commandState
  inbox,     \* queries, commands and results under way
  runs,      \* the Foreground Runners started, by runnerID
  terminal,  \* a native Session owns the terminal
  ctxDone,   \* the program's context is cancelled
  known,     \* the Workflows the Application knows
  facts,     \* the version of each Workflow's execution facts
  approved,  \* the facts approved: pairs of Workflow and version
  seen,      \* the facts a first Enter has previewed, likewise
  forced,    \* a second Ctrl+C was pressed
  keys       \* keys pressed

vars == <<m, cs, inbox, runs, terminal, ctxDone, known, facts, approved, seen,
          forced, keys>>

Queried == {"Discussion", "ExecutionApproval", "Cancel", "Migration"}

NoPreview == <<None, 0>>

StagePages == Queried \union {"Execution", "Blocked"}

HomeFrame == [page |-> "Workspace", wf |-> None]

NewModel ==
  [page |-> "Workspace", nav |-> <<HomeFrame>>, sel |-> None, rows |-> {},
   menu |-> None, item |-> None, armed |-> {}, mig |-> "none", prev |-> NoPreview,
   loaded |-> FALSE, editing |-> FALSE, handoff |-> FALSE,
   confirm |-> FALSE, dirty |-> FALSE, awaiting |-> FALSE, specs |-> FALSE,
   last |-> 0, blocked |-> FALSE, blockedPage |-> "Workspace",
   blockedWf |-> None, running |-> FALSE, rid |-> 0, rwf |-> None,
   stop |-> "idle", prevPage |-> "Workspace", quitAfter |-> FALSE,
   pausePending |-> FALSE, decision |-> FALSE, quit |-> FALSE]

-----------------------------------------------------------------------------
(* A handler maps u, the Model with what it shares, to the next one; out    *)
(* are the goroutines it starts.                                            *)

Unit == [m |-> m, cs |-> cs, out |-> {}, runs |-> runs]

AskIf(c, u, page, wf, cg) ==
  IF ~c THEN u
  ELSE [u EXCEPT
         !.cs.proj = @ + 1,
         !.out = @ \union {[k |-> "projection", page |-> page, wf |-> wf,
                            gen |-> u.cs.proj + 1, cg |-> cg,
                            since |-> IF wf = None THEN 0 ELSE facts[wf]]}]

Ask(u, page, wf, cg) == AskIf(TRUE, u, page, wf, cg)

CommandAckPage(page) ==
  IF page \in {"Create", "PauseExit", "ActionPreview", "Execution", "Blocked"}
  THEN "Workspace" ELSE page

Execute(u, c, wf, arg) ==
  [u EXCEPT
    !.cs = [@ EXCEPT !.ackPage = CommandAckPage(u.m.page), !.wf = u.m.sel,
                     !.gen = u.cs.gen + 1, !.inFlight = TRUE, !.retries = 0],
    !.out = @ \union {[k |-> "command", c |-> c, wf |-> wf, arg |-> arg,
                       gen |-> u.cs.gen + 1, st |-> "running"]}]

(* The workspace, the page and, when the user left it, the page a command   *)
(* is acknowledged by.                                                      *)
Reload(u) ==
  LET c == u.cs
      x == u.m
      held == c.inFlight \/ x.blocked
      gen == IF c.inFlight THEN c.gen ELSE 0
      home == IF held /\ c.ackPage = "Workspace"
              THEN Ask(u, "Workspace", c.wf, gen)
              ELSE Ask(u, "Workspace", x.sel, 0)
      own == AskIf(x.page \in Queried, home, x.page, x.sel,
                   IF x.page = c.ackPage THEN gen ELSE 0)
  IN AskIf(held /\ c.ackPage \in Queried /\ x.page # c.ackPage,
           own, c.ackPage, c.wf, gen)

Push(x, page) ==
  [x EXCEPT !.nav = Append(@, [page |-> page, wf |-> x.sel]), !.page = page]

Pop(x) ==
  LET rest == SubSeq(x.nav, 1, Len(x.nav) - 1)
      top == rest[Len(rest)]
  IN IF Len(x.nav) <= 1 THEN x
     ELSE [x EXCEPT !.nav = rest, !.page = top.page,
                    !.sel = IF top.wf = None THEN @ ELSE top.wf]

GoHome(x) == [x EXCEPT !.nav = <<HomeFrame>>, !.page = "Workspace"]

Current(x) == x.nav[Len(x.nav)].page

ResetSelection(x) ==
  [x EXCEPT !.armed = {}, !.mig = "none", !.prev = NoPreview,
            !.loaded = FALSE, !.editing = FALSE, !.handoff = FALSE, !.dirty = FALSE,
            !.specs = FALSE, !.decision = FALSE, !.blocked = FALSE,
            !.blockedPage = "Workspace", !.blockedWf = None]

CancelRun(u) ==
  IF u.m.running THEN [u EXCEPT !.runs[u.m.rid].cancelled = TRUE] ELSE u

(* EscalateStop signals the processes bound to the Application; no caller   *)
(* binds one.                                                               *)
ForceStop(u) == CancelRun(u)

(* Mutant: the exit of a running Runner is not remembered.                  *)
QuitForgetting(u) ==
  IF u.m.running THEN u ELSE [u EXCEPT !.m.quit = TRUE]

(* Mutant: cancelling the Runner counts as its end.                         *)
QuitAtOnce(u) == [u EXCEPT !.m.running = FALSE, !.m.quit = TRUE]

Quit(u) ==
  IF u.m.running THEN [u EXCEPT !.m.quitAfter = TRUE]
  ELSE [u EXCEPT !.m.quit = TRUE]

ActiveRunnerWorkflow(x) ==
  IF (x.running \/ x.pausePending \/ x.quitAfter) /\ x.rwf # None
  THEN x.rwf ELSE x.sel

StartRunner(u) ==
  LET n == Len(u.runs) + 1
  IN IF u.m.running \/ u.m.sel = None THEN u
     ELSE [u EXCEPT
            !.runs = Append(@, [wf |-> u.m.sel, st |-> "driving",
                                cancelled |-> FALSE]),
            !.m.rid = n, !.m.rwf = u.m.sel, !.m.running = TRUE]

Step(u) ==
  /\ m' = u.m /\ cs' = u.cs /\ runs' = u.runs

Init ==
  /\ m = NewModel
  /\ cs = [gen |-> 0, inFlight |-> FALSE, ackPage |-> "Workspace",
           wf |-> None, retries |-> 0, proj |-> 1]
  /\ inbox = {[k |-> "projection", page |-> "Workspace", wf |-> None,
               gen |-> 1, cg |-> 0, since |-> 0]}
  /\ runs = <<>> /\ terminal = FALSE /\ ctxDone = FALSE
  /\ known = Existing
  /\ facts = [w \in Workflows |-> IF w \in Existing THEN 1 ELSE 0]
  /\ approved = {} /\ seen = {} /\ forced = FALSE /\ keys = 0

-----------------------------------------------------------------------------
(* Projections                                                              *)

Acknowledges(c, q) ==
  /\ c.inFlight /\ q.cg = c.gen /\ q.page = c.ackPage /\ q.wf = c.wf
  /\ q.page # "Workspace" => q.wf # None

(* A preview that does not exist yet is an empty one, not an error.         *)
ExpectedEmpty(x, c, q) ==
  /\ q.page = "ExecutionApproval"
  /\ c.inFlight => x.specs /\ c.ackPage = q.page /\ q.cg = c.gen

(* An older projection, another Workflow's or another page's is dropped,    *)
(* unless it acknowledges the command.                                      *)
Dropped(x, c, q) ==
  \/ /\ ~Acknowledges(c, q)
     /\ \/ q.gen < x.last
        \/ q.wf # None /\ x.sel # None /\ q.wf # x.sel
        \/ q.page \notin {"Workspace", "Blocked"} /\ x.page # q.page
  \/ c.inFlight /\ q.cg # 0 /\ q.cg # c.gen

(* Mutant: a failed acknowledgement is dropped.                             *)
NoRetry(u, page) == u

RetryOrBlock(u, page) ==
  IF u.cs.retries < AckRetries
  THEN Ask([u EXCEPT !.cs.retries = @ + 1], page, u.cs.wf, u.cs.gen)
  ELSE Ask([u EXCEPT !.cs.inFlight = FALSE, !.m.blocked = TRUE,
                     !.m.blockedPage = u.cs.ackPage,
                     !.m.blockedWf = u.cs.wf],
           "Workspace", u.cs.wf, 0)

ProjectionError(u, q) ==
  IF q.page = "WorkflowMenu" THEN [u EXCEPT !.m.menu = None]
  ELSE IF Acknowledges(u.cs, q) THEN RetryOrBlock(u, q.page)
  ELSE u

SelectedBy(q) ==
  IF q.wf # None THEN q.wf
  ELSE IF known = {} THEN None ELSE CHOOSE w \in known : TRUE

ShowWorkspace(x, q) ==
  LET y == [x EXCEPT !.rows = known, !.sel = SelectedBy(q)]
  IN IF y.sel = x.sel THEN y ELSE ResetSelection(y)

(* Mutant: refreshed facts keep the preview the user entered.               *)
ShowKeepingPreview(x, q, v) ==
  CASE q.page \in {"Workspace", "Blocked", "Execution"} -> ShowWorkspace(x, q)
    [] q.page = "WorkflowMenu" -> [x EXCEPT !.menu = q.wf]
    [] q.page = "Discussion" -> [x EXCEPT !.loaded = TRUE]
    [] q.page = "ExecutionApproval" -> [x EXCEPT !.prev = <<q.wf, v>>]
    [] q.page = "Create" -> [x EXCEPT !.dirty = TRUE]
    [] OTHER -> x

ShowView(x, q, v) ==
  CASE q.page \in {"Workspace", "Blocked", "Execution"} -> ShowWorkspace(x, q)
    [] q.page = "WorkflowMenu" -> [x EXCEPT !.menu = q.wf]
    [] q.page = "Discussion" -> [x EXCEPT !.loaded = TRUE]
    [] q.page = "ExecutionApproval" ->
         [x EXCEPT !.prev = <<q.wf, v>>, !.armed = @ \ {"approval"}]
    [] q.page = "Create" -> [x EXCEPT !.dirty = TRUE]
    [] OTHER -> x

(* The facts a blocked command is waiting for: its page, asked for no       *)
(* command, about its Workflow; without a Workflow only the workspace, and  *)
(* only while no command is in flight.                                      *)
Unblocks(x, c, q) ==
  /\ q.cg = 0 /\ q.page = x.blockedPage /\ q.wf = x.blockedWf
  /\ q.wf = None => q.page = "Workspace" /\ ~c.inFlight

OpenMenu(u) ==
  Ask([u EXCEPT !.m = [Push(u.m, "WorkflowMenu") EXCEPT !.menu = None]],
      "WorkflowMenu", u.m.sel, 0)

ProjectionArrives(u, q, v) ==
  LET ack == Acknowledges(u.cs, q)
      acked == [u EXCEPT
                 !.cs.inFlight = IF ack THEN FALSE ELSE @,
                 !.m.specs = IF ack THEN FALSE ELSE @,
                 !.m.last = IF q.gen > @ THEN q.gen ELSE @]
      x == acked.m
      elsewhere == \/ ack /\ q.wf # None /\ x.sel # None /\ q.wf # x.sel
                   \/ q.page \notin {"Workspace", "Blocked"} /\ x.page # q.page
      shown == [acked EXCEPT
                 !.m = ShowView([x EXCEPT !.blocked =
                                   x.blocked /\ ~Unblocks(x, acked.cs, q)], q, v)]
  IN IF q.cg # 0 /\ ~ack THEN u
     ELSE IF elsewhere THEN acked
     ELSE IF ack /\ q.page = "Workspace" /\ x.awaiting
     THEN OpenMenu([shown EXCEPT !.m = GoHome([@ EXCEPT !.awaiting = FALSE])])
     ELSE shown

(* What a projection may make of the Model: the query fails, finds nothing, *)
(* or has read the facts at some moment since it was asked.                 *)
ApplyProjection(q) ==
  LET now == IF q.wf = None THEN 0 ELSE facts[q.wf]
  IN IF Dropped(m, cs, q) THEN {Unit}
     ELSE {ProjectionError(Unit, q)}
            \union {ProjectionArrives(Unit, q, v) : v \in q.since .. now}
            \union (IF ExpectedEmpty(m, cs, q)
                    THEN {ProjectionArrives(Unit, q, 0)} ELSE {})

-----------------------------------------------------------------------------
(* Results of commands                                                      *)

PauseExitFailed(u) ==
  LET s == ForceStop(u)
  IN [s EXCEPT !.m = [@ EXCEPT !.quitAfter = FALSE, !.stop = "idle",
                               !.page = "PauseExit", !.blocked = FALSE,
                               !.blockedPage = "Workspace",
                               !.blockedWf = None]]

(* A command a later one has overtaken: only the join of a stop hears of it.*)
StaleCommand(u, c) ==
  IF c.c # "Pause" THEN u
  ELSE LET w == [u EXCEPT !.m.pausePending = FALSE]
       IN IF u.m.stop = "pauseAndExit" THEN PauseExitFailed(w) ELSE w

CommandFailed(u, c) ==
  LET w == [u EXCEPT
             !.cs.inFlight = FALSE,
             !.m = [@ EXCEPT
                     !.blocked = TRUE, !.blockedPage = u.cs.ackPage,
                     !.blockedWf = u.cs.wf, !.specs = FALSE,
                     !.pausePending = u.m.pausePending /\ c.c # "Pause"]]
  IN IF c.c = "Pause" /\ w.m.stop = "pauseAndExit" THEN PauseExitFailed(w)
     ELSE IF c.c = "Pause" /\ w.m.quitAfter THEN Quit(w)
     ELSE Reload(w)

PauseDone(u) ==
  LET w == [u EXCEPT !.m.pausePending = FALSE]
  IN IF w.m.stop = "pauseAndExit" \/ w.m.quitAfter THEN Quit(w)
     ELSE Reload([w EXCEPT !.m.decision = FALSE])

CreateDone(u, c) ==
  Reload([u EXCEPT
    !.m = [@ EXCEPT !.sel = c.arg, !.awaiting = TRUE, !.page = "Workspace",
                    !.dirty = FALSE, !.confirm = FALSE],
    !.cs.wf = c.arg])

(* The terminal is handed to the native Session; the lock stays.            *)
NativeReady(u, c) ==
  [u EXCEPT !.out = @ \union {[k |-> "exec", wf |-> c.wf]}]

CommandSucceeded(u, c) ==
  CASE c.c = "Pause" -> PauseDone(u)
    [] c.c = "Create" -> CreateDone(u, c)
    [] c.c = "Native" -> NativeReady(u, c)
    [] c.c \in {"Resume", "Adopt"} -> Reload([u EXCEPT !.m.decision = FALSE])
    [] c.c = "CancelWorkflow" -> Reload([u EXCEPT !.m = Pop(@)])
    [] c.c = "Freeze" ->
         Reload([u EXCEPT !.m.editing = TRUE, !.m.handoff = FALSE])
    [] c.c = "Finish" ->
         Reload([u EXCEPT !.m.editing = FALSE, !.m.handoff = FALSE])
    [] c.c = "Specs" -> Reload([u EXCEPT !.m.specs = TRUE])
    [] c.c = "Approve" -> Reload([u EXCEPT !.m = Push(Pop(@), "Execution")])
    [] c.c = "PrepareMigration" -> Reload([u EXCEPT !.m.mig = "none"])
    [] c.c = "ExecuteMigration" ->
         Reload([u EXCEPT !.m = Pop([@ EXCEPT !.mig = "none",
                                              !.armed = u.m.armed \ {"migration"}])])
    [] OTHER -> Reload(u)

ApplyCommand(c) ==
  IF c.gen # cs.gen THEN StaleCommand(Unit, c)
  ELSE IF c.st = "err" THEN CommandFailed(Unit, c)
  ELSE CommandSucceeded(Unit, c)

-----------------------------------------------------------------------------
(* The Runner's and the terminal's results                                  *)

(* Mutant: the Runner's end does not wait for the Pause it was stopped by.  *)
RunnerDoneAtOnce(r) ==
  LET u == [Unit EXCEPT !.m.running = FALSE]
      quits == m.quitAfter \/ (m.stop = "pauseAndExit" /\ m.pausePending)
      next == [u EXCEPT !.m.decision = IF r.res = "error" THEN @
                                       ELSE r.res = "needsUser"]
  IN IF r.id # m.rid THEN Unit
     ELSE IF quits
     THEN [next EXCEPT !.m = [@ EXCEPT !.quitAfter = FALSE, !.stop = "idle",
                                       !.quit = TRUE]]
     ELSE IF r.res = "error" THEN next
     ELSE Reload([next EXCEPT !.m.quitAfter = FALSE])

RunnerDone(r) ==
  LET u == [Unit EXCEPT !.m.running = FALSE]
      quits == m.quitAfter \/ (m.stop = "pauseAndExit" /\ m.pausePending)
      next == [u EXCEPT !.m.decision = IF r.res = "error" THEN @
                                       ELSE r.res = "needsUser"]
  IN IF r.id # m.rid THEN Unit
     ELSE IF quits /\ ~m.pausePending
     THEN [next EXCEPT !.m = [@ EXCEPT !.quitAfter = FALSE, !.stop = "idle",
                                       !.quit = TRUE]]
     ELSE IF quits \/ r.res = "error" THEN next
     ELSE Reload([next EXCEPT !.m.quitAfter = FALSE])

(* A native Session that could not run leaves its Session active.           *)
NativeDone(n) ==
  IF n.ok THEN Execute(Unit, "Return", m.sel, None) ELSE Reload(Unit)

ContextDone ==
  LET u == CancelRun([Unit EXCEPT !.m.quitAfter = TRUE,
                                  !.m.pausePending = TRUE])
  IN IF m.running
     THEN Execute(u, "Pause", ActiveRunnerWorkflow(u.m), None)
     ELSE [Unit EXCEPT !.m.quit = TRUE]

-----------------------------------------------------------------------------
(* Keys                                                                     *)

Locked == cs.inFlight \/ m.blocked

Typing ==
  \/ m.page = "Create" /\ ~Locked
  \/ m.page = "Discussion" /\ m.editing

Open == ~m.quit /\ ~terminal

Arm(u, flag) == [u EXCEPT !.m.armed = @ \union {flag}]

Disarm(u, flag) == [u EXCEPT !.m.armed = @ \ {flag}]

CtrlC ==
  LET first == CancelRun([Unit EXCEPT !.m.stop = "firstCtrlC"])
      wf == ActiveRunnerWorkflow(m)
  IN IF m.stop # "idle" THEN Quit(ForceStop(Unit))
     ELSE IF wf = None THEN [Unit EXCEPT !.m.stop = "firstCtrlC"]
     ELSE Execute([first EXCEPT !.m.pausePending = TRUE], "Pause", wf, None)

(* /exit in the command palette.                                            *)
GlobalExit ==
  IF Locked \/ m.pausePending \/ m.quitAfter \/ m.stop # "idle" THEN Unit
  ELSE IF m.running
  THEN [Unit EXCEPT !.m.prevPage = m.page, !.m.page = "PauseExit"]
  ELSE [Unit EXCEPT !.m.quit = TRUE]

Esc ==
  CASE m.page = "Create" /\ m.confirm -> [Unit EXCEPT !.m.confirm = FALSE]
    [] m.page = "Create" /\ ~m.confirm ->
         [Unit EXCEPT !.m = IF Current(m) = "Create"
                            THEN Pop([@ EXCEPT !.dirty = FALSE])
                            ELSE [@ EXCEPT !.page = "Workspace",
                                           !.dirty = FALSE]]
    [] m.page = "Discussion" /\ m.editing ->
         [Unit EXCEPT !.m.editing = FALSE, !.m.handoff = FALSE]
    [] m.page = "PauseExit" ->
         [Unit EXCEPT !.m.stop = "idle", !.m.page = m.prevPage]
    [] OTHER -> IF Current(m) = m.page THEN [Unit EXCEPT !.m = Pop(@)]
                ELSE Unit

(* Up and Down on the workspace page: the next row, or the New row.         *)
MoveSelection(row) ==
  LET moved == [Unit EXCEPT !.m = ResetSelection([@ EXCEPT !.sel = row])]
  IN AskIf(row # None, moved, "Workspace", row, 0)

EnterWorkspace ==
  IF m.sel = None
  THEN Ask([Unit EXCEPT !.m = [Push(@, "Create") EXCEPT !.confirm = FALSE,
                                                        !.dirty = FALSE]],
           "Create", None, 0)
  ELSE OpenMenu(Unit)

StageAction(u, item) ==
  [u EXCEPT !.m = Push([@ EXCEPT !.item = item,
                                 !.armed = u.m.armed \ {"action"}],
                       "ActionPreview")]

OpenPage(u, page, flag) ==
  AskIf(TRUE, [Disarm(u, flag) EXCEPT !.m = Push(@, page)], page, u.m.sel, 0)

RouteMenuItem(item) ==
  LET u == [Unit EXCEPT !.m.item = item]
  IN CASE item \in {"Resume", "Pause", "StartRunner"} -> StageAction(u, item)
       [] item = "Discussion" ->
            OpenPage([u EXCEPT !.m.loaded = FALSE, !.m.editing = FALSE,
                               !.m.handoff = FALSE], "Discussion", "none")
       [] item = "Cancel" -> OpenPage(u, "Cancel", "cancel")
       [] item = "Migrate" ->
            OpenPage([u EXCEPT !.m.mig = "none"], "Migration", "migration")
       [] item = "InspectBlocked" -> OpenPage(u, "Blocked", "none")
       [] item = "ReviewExecution" ->
            OpenPage(u, "ExecutionApproval", "approval")
       [] item = "View" -> OpenPage(u, "Readonly", "none")

EnterCreate ==
  IF ~m.confirm THEN [Unit EXCEPT !.m.confirm = TRUE]
  ELSE IF ~m.dirty THEN Unit
  ELSE Execute([Unit EXCEPT !.m.confirm = FALSE], "Create", m.sel, None)

EnterPauseExit ==
  LET u == CancelRun([Unit EXCEPT !.m.stop = "pauseAndExit"])
      wf == ActiveRunnerWorkflow(m)
  IN IF wf = None THEN Quit(ForceStop(u))
     ELSE Execute([u EXCEPT !.m.pausePending = TRUE], "Pause", wf, "exit")

EnterCancel ==
  IF m.sel = None THEN Unit
  ELSE IF "cancel" \notin m.armed THEN Arm(Unit, "cancel")
  ELSE Execute(Unit, "CancelWorkflow", m.sel, None)

EnterMigration ==
  IF m.mig = "none" THEN Unit
  ELSE IF "migration" \notin m.armed THEN Arm(Unit, "migration")
  ELSE Execute([Disarm(Unit, "migration") EXCEPT !.m.mig = "none"],
               IF m.mig = "prepare" THEN "PrepareMigration"
               ELSE "ExecuteMigration", m.sel, None)

EnterApproval ==
  IF m.sel = None THEN Unit
  ELSE IF "approval" \notin m.armed THEN Arm(Unit, "approval")
  ELSE IF m.prev[2] = 0 THEN Unit
  ELSE Execute(Disarm(Unit, "approval"), "Approve", m.sel, m.prev)

PreviewedCommand ==
  CASE m.item \in {"Resume", "Pause", "Adopt"} -> m.item
    [] m.item \in {"Start", "Switch"} -> "Native"
    [] m.item = "FinishDiscussion" -> IF m.handoff THEN "Finish" ELSE "Freeze"
    [] OTHER -> "none"

(* No compatible Provider to switch to: an error that belongs to no         *)
(* generation.                                                              *)
SwitchRefused ==
  [Disarm(Unit, "action") EXCEPT
    !.m = Pop(@),
    !.out = {[k |-> "command", c |-> "none", wf |-> None, arg |-> None,
              gen |-> 0, st |-> "err"]}]

EnterActionPreview ==
  LET u == Disarm(Unit, "action")
      sent == Execute(u, PreviewedCommand, m.sel, None)
      back == Pop(sent.m)
      launch == Pop(u.m)
  IN IF "action" \notin m.armed THEN Arm(Unit, "action")
     ELSE CASE m.item = "StartRunner" ->
                 StartRunner([u EXCEPT
                   !.m = Push(IF Current(launch) \in StagePages
                              THEN Pop(launch) ELSE launch, "Execution")])
            [] m.item = "Pause" -> sent
            [] m.item = "Resume" ->
                 [sent EXCEPT !.m = IF back.page = "WorkflowMenu"
                                    THEN Push(back, "Execution") ELSE back]
            [] OTHER -> [sent EXCEPT !.m = back]

(* Continue is to the TUI what Start is.                                    *)
DiscussionActions ==
  {"Start", "FinishDiscussion", "Switch", "Pause"}

EnterDiscussion ==
  IF m.editing
  THEN {StageAction([Unit EXCEPT !.m.editing = FALSE, !.m.handoff = TRUE],
                    "FinishDiscussion")}
  ELSE IF m.loaded /\ m.sel # None
  THEN {StageAction(Unit, a) : a \in DiscussionActions}
         \union {OpenPage(Unit, "Cancel", "cancel")}
  ELSE {}

SwitchConfirmed ==
  m.page = "ActionPreview" /\ m.item = "Switch" /\ "action" \in m.armed

EnterKey ==
  CASE m.page = "Workspace" -> {EnterWorkspace}
    [] m.page = "WorkflowMenu" ->
         {RouteMenuItem(i) : i \in IF m.menu = m.sel THEN Offered ELSE {}}
    [] m.page = "Create" -> {EnterCreate}
    [] m.page = "PauseExit" -> {EnterPauseExit}
    [] m.page = "Cancel" -> {EnterCancel}
    [] m.page = "Migration" -> {EnterMigration}
    [] m.page = "ExecutionApproval" -> {EnterApproval}
    [] m.page = "ActionPreview" ->
         {EnterActionPreview}
           \union (IF SwitchConfirmed THEN {SwitchRefused} ELSE {})
    [] m.page = "Discussion" -> EnterDiscussion
    [] OTHER -> {}

(* Letters of the stage pages; compiling and the dry run are one to the TUI.*)
LetterKey ==
  CASE m.sel = None -> {}
    [] m.page = "ExecutionApproval" ->
         {Execute(Unit, c, m.sel, None) : c \in {"Specs", "Compile"}}
    [] m.page = "Execution" ->
         (IF m.running THEN {}
          ELSE {StageAction(Unit, i) : i \in {"Resume", "StartRunner"}})
           \union (IF m.decision THEN {StageAction(Unit, "Adopt")} ELSE {})
    [] m.page = "Blocked" -> {StageAction(Unit, "Resume")}
    [] m.page = "Migration" /\ m.mig = "none" ->
         {[Disarm(Unit, "migration") EXCEPT !.m.mig = c] :
            c \in {"prepare", "execute"}}
    [] OTHER -> {}

-----------------------------------------------------------------------------
(* Actions                                                                  *)

Press(u) ==
  /\ Open /\ m.rows # {} /\ keys < MaxKeys
  /\ keys' = keys + 1
  /\ Step(u) /\ inbox' = inbox \union u.out
  /\ UNCHANGED <<terminal, ctxDone, known, facts, approved>>

PressCtrlC ==
  /\ Press(CtrlC)
  /\ forced' = (forced \/ m.stop # "idle")
  /\ UNCHANGED seen

PressExit == ~Typing /\ Press(GlobalExit) /\ UNCHANGED <<seen, forced>>

PressEsc == Press(Esc) /\ UNCHANGED <<seen, forced>>

PressHome ==
  /\ ~Typing
  /\ Press([Unit EXCEPT !.m = GoHome(@)])
  /\ UNCHANGED <<seen, forced>>

PressMove ==
  /\ m.page = "Workspace" /\ ~m.running
  /\ \E row \in (m.rows \union {None}) \ {m.sel} : Press(MoveSelection(row))
  /\ UNCHANGED <<seen, forced>>

(* The first Enter on the approval page is the preview of what it shows.    *)
PressEnter ==
  /\ Locked => Typing
  /\ \E u \in EnterKey : Press(u)
  /\ seen' = IF /\ m.page = "ExecutionApproval" /\ m.sel # None
                /\ "approval" \notin m.armed
             THEN seen \union {m.prev} ELSE seen
  /\ UNCHANGED forced

PressLetter ==
  /\ ~Locked /\ \E u \in LetterKey : Press(u)
  /\ UNCHANGED <<seen, forced>>

Keyboard ==
  \/ PressCtrlC \/ PressExit \/ PressEsc \/ PressHome \/ PressMove
  \/ PressEnter \/ PressLetter

Deliver(msg, u) ==
  /\ Open /\ Step(u)
  /\ inbox' = (inbox \ {msg}) \union u.out
  /\ UNCHANGED <<terminal, ctxDone, known, facts, approved, seen, forced,
                 keys>>

Messages(k) == {msg \in inbox : msg.k = k}

DeliverProjection ==
  \E q \in Messages("projection") :
    \E u \in ApplyProjection(q) : Deliver(q, u)

DeliverCommand ==
  \E c \in Messages("command") :
    c.st # "running" /\ Deliver(c, ApplyCommand(c))

DeliverRunner == \E r \in Messages("runner") : Deliver(r, RunnerDone(r))

DeliverNative == \E n \in Messages("native") : Deliver(n, NativeDone(n))

(* tea.Exec: no message is handled while the native Session runs.           *)
TakeTerminal ==
  /\ Open
  /\ \E e \in Messages("exec") : inbox' = inbox \ {e}
  /\ terminal' = TRUE
  /\ UNCHANGED <<m, cs, runs, ctxDone, known, facts, approved, seen, forced,
                 keys>>

NativeEnds(ok) ==
  /\ terminal /\ terminal' = FALSE
  /\ inbox' = inbox \union {[k |-> "native", ok |-> ok]}
  /\ UNCHANGED <<m, cs, runs, ctxDone, known, facts, approved, seen, forced,
                 keys>>

Finished(c, st, arg) ==
  inbox' = (inbox \ {c}) \union {[c EXCEPT !.st = st, !.arg = arg]}

(* The Application executes a command.  An approval names the facts it      *)
(* approves and is refused when they changed.                               *)
CommandRefused ==
  /\ ~m.quit
  /\ \E c \in Messages("command") :
       c.st = "running" /\ Finished(c, "err", c.arg)
  /\ UNCHANGED <<m, cs, runs, terminal, ctxDone, known, facts, approved, seen,
                 forced, keys>>

CommandCommits ==
  /\ ~m.quit
  /\ \E c \in Messages("command") :
       /\ c.st = "running"
       /\ c.c = "Approve" => c.arg = <<c.wf, facts[c.wf]>>
       /\ approved' = IF c.c = "Approve" THEN approved \union {c.arg}
                      ELSE approved
       /\ facts' = IF c.c \in {"Specs", "Compile"}
                      /\ facts[c.wf] < MaxFacts
                   THEN [facts EXCEPT ![c.wf] = @ + 1] ELSE facts
       /\ IF c.c = "Create"
          THEN \E w \in Created \ known :
                 known' = known \union {w} /\ Finished(c, "ok", w)
          ELSE known' = known /\ Finished(c, "ok", c.arg)
  /\ UNCHANGED <<m, cs, runs, terminal, ctxDone, seen, forced, keys>>

(* Another process recompiles the Workflow.                                 *)
Recompiled ==
  /\ ~m.quit
  /\ \E w \in known : facts[w] < MaxFacts /\ facts' = [facts EXCEPT ![w] = @ + 1]
  /\ UNCHANGED <<m, cs, inbox, runs, terminal, ctxDone, known, approved, seen,
                 forced, keys>>

(* Runner.Run returns: a drive step failed or asked for the user, the       *)
(* Workflow is terminal, no step is safe, or the context is cancelled.      *)
RunnerReturns(r) ==
  /\ ~m.quit /\ runs[r].st = "driving"
  /\ runs' = [runs EXCEPT ![r].st = "over"]
  /\ \E res \in {"stopped", "needsUser", "error"} :
       inbox' = inbox \union {[k |-> "runner", id |-> r, res |-> res]}
  /\ UNCHANGED <<m, cs, terminal, ctxDone, known, facts, approved, seen,
                 forced, keys>>

ContextEnds ==
  /\ Open /\ ~ctxDone /\ ctxDone' = TRUE
  /\ LET u == ContextDone IN Step(u) /\ inbox' = inbox \union u.out
  /\ UNCHANGED <<terminal, known, facts, approved, seen, forced, keys>>

System ==
  \/ DeliverProjection \/ DeliverCommand \/ DeliverRunner \/ DeliverNative
  \/ TakeTerminal \/ CommandRefused \/ CommandCommits

CancelledReturns ==
  \E r \in DOMAIN runs : runs[r].cancelled /\ RunnerReturns(r)

Next ==
  \/ Keyboard \/ System \/ Recompiled \/ ContextEnds
  \/ \E ok \in BOOLEAN : NativeEnds(ok)
  \/ \E r \in DOMAIN runs : RunnerReturns(r)

(* Goroutines answer and Bubble Tea handles what they send; a Runner whose  *)
(* context is cancelled returns.  Nothing is assumed of the user, of the    *)
(* native Session or of a Runner that is not cancelled.                     *)
Spec == Init /\ [][Next]_vars /\ WF_vars(System) /\ WF_vars(CancelledReturns)

-----------------------------------------------------------------------------
(* Properties                                                               *)

(* The approval page shows facts that other commands, other processes and   *)
(* late projections replace: the execution facts the Application approves   *)
(* are ones the user's first Enter has previewed, and never facts that were *)
(* put under a preview already entered (tui/app.go:946, 2240-2263).         *)
ApprovedWasPreviewed == approved \subseteq seen

(* Pause and Exit joins the Pause it asked for: unless the user forces it   *)
(* or the context ends, the step that quits finds that Pause finished or    *)
(* overtaken, in whichever order the Runner and the Pause come to an end.   *)
(* A Pause asked for in a menu is no part of the exit (tui/app.go:1191,     *)
(* 1369-1378).                                                              *)
ExitWaitsForPause ==
  [][m.stop = "pauseAndExit" /\ m'.quit /\ ~forced' /\ ~ctxDone' =>
       \A c \in Messages("command") :
         c.c = "Pause" /\ c.arg = "exit" /\ c.gen = cs.gen => c.st # "running"]_vars

(* The goroutine of every Runner is accounted for: one that still drives is *)
(* the one the Model calls running, so that an exit waits for it            *)
(* (tui/app.go:99, 1597, 2523).                                             *)
RunnerIsTracked ==
  \A r \in DOMAIN runs : runs[r].st = "driving" => m.running /\ m.rid = r

(* The keyboard is not locked for ever: a command whose page has a          *)
(* projection is acknowledged, overtaken or reported, whatever fails and    *)
(* wherever the user navigates meanwhile (tui/app.go:745-821, 985, 1026).   *)
KeysUnlock ==
  []<>(\/ ~cs.inFlight
       \/ cs.ackPage \notin Queried \union {"Workspace"}
       \/ terminal \/ m.quit \/ ctxDone)

(* Pause and Exit comes to an end: the program quits, or the prompt is back *)
(* with the failure (tui/app.go:1094-1109, 1127-1140, 1347-1378).           *)
PauseExitSettles ==
  m.stop = "pauseAndExit" ~> m.quit \/ m.stop # "pauseAndExit"

=============================================================================
