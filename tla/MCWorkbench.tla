----------------------------- MODULE MCWorkbench -----------------------------
(* One Workflow and one that may be created, and one repeated               *)
(* acknowledgement.  The runs begin where a few uneventful keys have led:   *)
(* at the Workflow's menu, on its approval, Migration or Discussion page,   *)
(* at the Pause and Exit prompt of a driving Runner, or on the New row.     *)
EXTENDS Workbench

Loaded == [NewModel EXCEPT !.rows = Existing, !.sel = "w1", !.last = 2]

(* The approval page was open before: its facts are still there.            *)
MenuOpen == [Push(Loaded, "WorkflowMenu") EXCEPT !.menu = "w1", !.prev = <<"w1", 1>>]

Discussing == [Push(MenuOpen, "Discussion") EXCEPT !.loaded = TRUE]

Approving == Push(MenuOpen, "ExecutionApproval")

(* Execute was chosen and previewed on the Migration page.                  *)
Migrating ==
  [Push(MenuOpen, "Migration") EXCEPT !.mig = "execute",
                                      !.armed = {"migration"}]

(* A Runner drives and /exit has opened the Pause and Exit prompt.          *)
Prompted ==
  [Push(MenuOpen, "Execution") EXCEPT !.running = TRUE, !.rid = 1,
     !.rwf = "w1", !.item = "StartRunner", !.page = "PauseExit",
     !.prevPage = "Execution"]

OnNewRow == [Loaded EXCEPT !.sel = None]

MCInit ==
  /\ m \in {MenuOpen, Approving, Migrating, Discussing, Prompted, OnNewRow}
  /\ cs = [gen |-> 0, inFlight |-> FALSE, ackPage |-> "Workspace",
           wf |-> None, retries |-> 0, proj |-> 2]
  /\ inbox = {}
  /\ runs = IF m.running
            THEN <<[wf |-> "w1", st |-> "driving", cancelled |-> FALSE]>>
            ELSE <<>>
  /\ terminal = FALSE /\ ctxDone = FALSE
  /\ known = Existing
  /\ facts = [w \in Workflows |-> IF w \in Existing THEN 1 ELSE 0]
  /\ approved = {} /\ seen = {} /\ forced = FALSE
  /\ keys = IF m.running THEN 1 ELSE 0

MCSpec ==
  MCInit /\ [][Next]_vars /\ WF_vars(System) /\ WF_vars(CancelledReturns)

=============================================================================
