-------------------------- MODULE WorkbenchProofs ---------------------------
(***************************************************************************)
(* Proofs about the TUI: what is approved was previewed, the Runner that   *)
(* drives is tracked, and Pause and Exit waits for the Pause it asked for. *)
(*                                                                         *)
(* A handler maps a unit to a unit, so the invariant is stated of a unit   *)
(* and of the messages under way beside it: each helper keeps it, a        *)
(* handler keeps it because its helpers do, and a step takes it over.      *)
(***************************************************************************)
EXTENDS Workbench, RowLemmas, SequenceTheorems, TLAPS

-----------------------------------------------------------------------------
(* The invariant.                                                          *)

Fields ==
  {"page", "nav", "sel", "rows", "menu", "item", "armed", "mig", "prev", "loaded",
   "editing", "handoff", "confirm", "dirty", "awaiting", "specs", "last", "blocked",
   "blockedPage", "blockedWf", "running", "rid", "rwf", "stop", "prevPage",
   "quitAfter", "pausePending", "decision", "quit"}

(* No frame leads back to the prompt: only its own key opens it.           *)
IsNav(nav) == \E S : nav \in Seq(S) /\ \A f \in S : f.page # "PauseExit"

(* An approval that is armed shows what was previewed, and the prompt is   *)
(* opened, and Pause and Exit chosen, for the Workflow of a Runner.        *)
ModelOk(x, s) ==
  /\ DOMAIN x = Fields
  /\ IsNav(x.nav)
  /\ "approval" \in x.armed => x.prev \in s
  /\ x.rwf = None => /\ ~x.running
                     /\ x.page # "PauseExit" /\ x.prevPage # "PauseExit"
                     /\ x.stop # "pauseAndExit"

RunFields == {"wf", "st", "cancelled"}

IsRuns(r) == (\E S : r \in Seq(S)) /\ \A i \in DOMAIN r : DOMAIN r[i] = RunFields

Tracked(x, r) ==
  IsRuns(r) /\ \A i \in DOMAIN r : r[i].st = "driving" => x.running /\ x.rid = i

CommandFields == {"k", "c", "wf", "arg", "gen", "st"}

(* Only a refusal that was never sent has no generation.                   *)
CommandOk(c, g, s) ==
  /\ DOMAIN c = CommandFields
  /\ c.gen \in 0 .. g
  /\ c.c = "Approve" => c.arg \in s
  /\ c.gen = 0 => c.c = "none" /\ c.st = "err"

(* A generation is one command's, and a Runner that answered is over.      *)
Sound(box, g, r, s) ==
  /\ \A c \in box : c.k = "command" => CommandOk(c, g, s)
  /\ \A c, d \in box : c.k = "command" /\ d.k = "command" /\ c.gen = d.gen /\ c.gen # 0
                         => c = d
  /\ \A q \in box : q.k = "runner" => q.id \in DOMAIN r /\ r[q.id].st = "over"

ExitPause(c, g) == c.k = "command" /\ c.c = "Pause" /\ c.arg = "exit" /\ c.gen = g

(* Until the last command is answered, an exit knows of its Pause.         *)
Awaited(x, box, g) ==
  x.stop = "pauseAndExit" /\ ~x.quit => \A c \in box : ExitPause(c, g) => x.pausePending

StateFields == {"gen", "inFlight", "ackPage", "wf", "retries", "proj"}

Holds(x, c, r, box, s) ==
  /\ ModelOk(x, s)
  /\ DOMAIN c = StateFields /\ c.gen \in Nat
  /\ Tracked(x, r)
  /\ Sound(box, c.gen, r, s)
  /\ Awaited(x, box, c.gen)

WorkbenchInv ==
  /\ Holds(m, cs, runs, inbox, seen)
  /\ approved \subseteq seen
  /\ terminal => ~m.quit

(* What lets a step quit: no exit, or a forced one, or its Pause is over.  *)
Freed ==
  m.stop = "pauseAndExit" /\ ~forced' /\ ~ctxDone' =>
    \A c \in inbox : ExitPause(c, cs.gen) => c.st # "running"

UnitFields == {"m", "cs", "out", "runs"}

(* A unit beside the messages of box, with s previewed.                    *)
Fine(u, box, s) ==
  /\ DOMAIN u = UnitFields
  /\ Holds(u.m, u.cs, u.runs, box \union u.out, s)
  /\ u.m.quit => Freed

-----------------------------------------------------------------------------
(* Edits of the Model that leave the Runner and the stop alone.            *)

Quiet(x, y) ==
  /\ DOMAIN y = Fields
  /\ IsNav(y.nav)
  /\ "approval" \in y.armed => "approval" \in x.armed /\ y.prev = x.prev
  /\ y.page = "PauseExit" => x.page = "PauseExit" \/ x.prevPage = "PauseExit"
  /\ y.prevPage = x.prevPage
  /\ y.running = x.running /\ y.rid = x.rid /\ y.rwf = x.rwf
  /\ y.stop = x.stop /\ y.pausePending = x.pausePending /\ y.quit = x.quit

(* They compose.                                                           *)
LEMMA QuietTrans ==
    ASSUME NEW x, NEW y, NEW z, Quiet(x, y), Quiet(y, z)
    PROVE  Quiet(x, z)
  BY DEF Quiet

(* An edit that is quiet keeps a unit fine.                                *)
LEMMA QuietFine ==
    ASSUME NEW u, NEW v, NEW box, NEW s, Fine(u, box, s),
           DOMAIN v = UnitFields, Quiet(u.m, v.m), v.runs = u.runs, v.out = u.out,
           DOMAIN v.cs = StateFields, v.cs.gen = u.cs.gen
    PROVE  Fine(v, box, s)
  <1>1. ModelOk(v.m, s)
    BY DEF Fine, Holds, ModelOk, Quiet
  <1>2. Tracked(v.m, v.runs)
    BY DEF Fine, Holds, Tracked, Quiet
  <1>3. Awaited(v.m, box \union v.out, v.cs.gen)
    BY DEF Fine, Holds, Awaited, Quiet
  <1>4. v.m.quit => Freed
    BY DEF Fine, Quiet
  <1> QED BY <1>1, <1>2, <1>3, <1>4 DEF Fine, Holds

(* Opening a page puts it on the way back.                                 *)
LEMMA PushQuiet ==
    ASSUME NEW x, DOMAIN x = Fields, IsNav(x.nav), NEW page, page # "PauseExit"
    PROVE  Quiet(x, Push(x, page)) /\ Push(x, page).page = page
  <1>1. PICK S : x.nav \in Seq(S) /\ \A f \in S : f.page # "PauseExit"
    BY DEF IsNav
  <1> DEFINE f == [page |-> page, wf |-> x.sel]
  <1>2. x.nav \in Seq(S \union {f})
    BY <1>1, SeqMonotonic
  <1>3. Append(x.nav, f) \in Seq(S \union {f})
    BY <1>2, AppendRow
  <1>4. IsNav(Append(x.nav, f))
    BY <1>1, <1>3 DEF IsNav
  <1> QED BY <1>4 DEF Push, Quiet, Fields

(* Going back opens the page of an earlier frame.                          *)
LEMMA PopQuiet ==
    ASSUME NEW x, DOMAIN x = Fields, IsNav(x.nav)
    PROVE  Quiet(x, Pop(x))
  <1>1. PICK S : x.nav \in Seq(S) /\ \A f \in S : f.page # "PauseExit"
    BY DEF IsNav
  <1> DEFINE rest == SubSeq(x.nav, 1, Len(x.nav) - 1)
             top == rest[Len(rest)]
  <1>2. Len(x.nav) \in Nat
    BY <1>1, LenProperties
  <1>3. CASE Len(x.nav) <= 1
    BY <1>2, <1>3 DEF Pop, Quiet
  <1>4. CASE ~(Len(x.nav) <= 1)
    <2>1. rest \in Seq(S) /\ Len(rest) = Len(x.nav) - 1
      BY <1>1, <1>2, <1>4, SubSeqProperties
    <2>2. top \in S
      BY <1>2, <1>4, <2>1, ElementOfSeq
    <2>3. IsNav(rest) /\ top.page # "PauseExit"
      BY <1>1, <2>1, <2>2 DEF IsNav
    <2>4. Pop(x) = [x EXCEPT !.nav = rest, !.page = top.page,
                             !.sel = IF top.wf = None THEN @ ELSE top.wf]
      BY <1>4 DEF Pop
    <2> HIDE DEF rest, top
    <2> QED BY <2>3, <2>4 DEF Quiet, Fields
  <1> QED BY <1>3, <1>4

LEMMA GoHomeQuiet ==
    ASSUME NEW x, DOMAIN x = Fields
    PROVE  Quiet(x, GoHome(x))
  <1> DEFINE nav == <<HomeFrame>>
             S == {HomeFrame}
  <1>1. IsNav(nav)
    <2>1. nav \in [1 .. 1 -> S]
      OBVIOUS
    <2>2. nav \in Seq(S)
      BY <2>1
    <2>3. \A f \in S : f.page # "PauseExit"
      BY DEF HomeFrame
    <2> HIDE DEF nav, S
    <2> QED BY <2>2, <2>3 DEF IsNav
  <1> QED BY <1>1 DEF GoHome, Quiet, Fields

LEMMA ResetQuiet ==
    ASSUME NEW x, DOMAIN x = Fields, IsNav(x.nav)
    PROVE  Quiet(x, ResetSelection(x))
  BY DEF ResetSelection, Quiet, Fields

-----------------------------------------------------------------------------
(* What a handler sends.                                                   *)

(* A query is asked beside anything.                                       *)
LEMMA AskFine ==
    ASSUME NEW u, NEW box, NEW s, Fine(u, box, s), NEW page, NEW wf, NEW cg
    PROVE  /\ Fine(Ask(u, page, wf, cg), box, s)
           /\ Ask(u, page, wf, cg).m = u.m
  <1> DEFINE q == [k |-> "projection", page |-> page, wf |-> wf,
                   gen |-> u.cs.proj + 1, cg |-> cg,
                   since |-> IF wf = None THEN 0 ELSE facts[wf]]
             v == [u EXCEPT !.cs.proj = @ + 1, !.out = @ \union {q}]
  <1>1. Ask(u, page, wf, cg) = v
    BY DEF Ask, AskIf
  <1>2. q.k = "projection"
    OBVIOUS
  <1> HIDE DEF q
  <1>3. /\ DOMAIN v = UnitFields /\ v.m = u.m /\ v.runs = u.runs
        /\ v.cs = [u.cs EXCEPT !.proj = u.cs.proj + 1]
        /\ box \union v.out = (box \union u.out) \union {q}
    BY DEF Fine, UnitFields
  <1>4. DOMAIN v.cs = StateFields /\ v.cs.gen = u.cs.gen
    BY <1>3 DEF Fine, Holds, StateFields
  <1> HIDE DEF v
  <1>5. Sound(box \union v.out, v.cs.gen, v.runs, s)
    BY <1>2, <1>3, <1>4 DEF Fine, Holds, Sound
  <1>6. Awaited(v.m, box \union v.out, v.cs.gen)
    BY <1>2, <1>3, <1>4 DEF Fine, Holds, Awaited, ExitPause
  <1> QED BY <1>1, <1>3, <1>4, <1>5, <1>6 DEF Fine, Holds

(* What is shown again is asked for again.                                 *)
LEMMA ReloadFine ==
    ASSUME NEW u, NEW box, NEW s, Fine(u, box, s)
    PROVE  Fine(Reload(u), box, s)
  <1> DEFINE c == u.cs
             x == u.m
             held == c.inFlight \/ x.blocked
             gen == IF c.inFlight THEN c.gen ELSE 0
             home == IF held /\ c.ackPage = "Workspace"
                     THEN Ask(u, "Workspace", c.wf, gen)
                     ELSE Ask(u, "Workspace", x.sel, 0)
             cg == IF x.page = c.ackPage THEN gen ELSE 0
             own == AskIf(x.page \in Queried, home, x.page, x.sel, cg)
  <1>1. Reload(u) = AskIf(held /\ c.ackPage \in Queried /\ x.page # c.ackPage,
                          own, c.ackPage, c.wf, gen)
    BY DEF Reload
  <1>2. Fine(home, box, s)
    BY AskFine
  <1> HIDE DEF home, cg
  <1>3. own = home \/ own = Ask(home, x.page, x.sel, cg)
    BY DEF Ask, AskIf
  <1>4. Fine(own, box, s)
    BY <1>2, <1>3, AskFine
  <1> HIDE DEF own, gen
  <1>5. Reload(u) = own \/ Reload(u) = Ask(own, c.ackPage, c.wf, gen)
    BY <1>1 DEF Ask, AskIf
  <1> QED BY <1>4, <1>5, AskFine

(* A command takes a generation of its own, so the exit waits for no       *)
(* earlier Pause; the Pause of an exit is one it knows of.                 *)
LEMMA ExecuteFine ==
    ASSUME NEW u, NEW box, NEW s, Fine(u, box, s), NEW c, NEW wf, NEW arg,
           c = "Approve" => arg \in s,
           c = "Pause" /\ arg = "exit" => u.m.pausePending
    PROVE  Fine(Execute(u, c, wf, arg), box, s) /\ Execute(u, c, wf, arg).m = u.m
  <1> DEFINE g == u.cs.gen + 1
             d == [k |-> "command", c |-> c, wf |-> wf, arg |-> arg,
                   gen |-> g, st |-> "running"]
             lock == [u.cs EXCEPT !.ackPage = CommandAckPage(u.m.page), !.wf = u.m.sel,
                                  !.gen = g, !.inFlight = TRUE, !.retries = 0]
             v == Execute(u, c, wf, arg)
  <1>1. /\ DOMAIN v = UnitFields /\ v.m = u.m /\ v.runs = u.runs
        /\ box \union v.out = (box \union u.out) \union {d}
        /\ DOMAIN v.cs = StateFields /\ v.cs.gen = g
    <2>1. v = [u EXCEPT !.cs = lock, !.out = u.out \union {d}]
      BY DEF Execute
    <2>2. DOMAIN lock = StateFields /\ lock.gen = g
      BY DEF Fine, Holds, StateFields
    <2> HIDE DEF v, d, g, lock
    <2> QED BY <2>1, <2>2 DEF Fine, UnitFields
  <1>2. u.cs.gen \in Nat /\ g \in Nat /\ u.cs.gen < g
    BY DEF Fine, Holds
  <1>3. CommandOk(d, g, s)
    BY <1>2 DEF CommandOk, CommandFields
  <1>4. d.k = "command" /\ d.gen = g /\ d.c = c /\ d.arg = arg
    OBVIOUS
  <1> HIDE DEF d, v, g
  <1>5. \A e \in box \union u.out : e.k = "command" => e.gen \in 0 .. u.cs.gen
    BY DEF Fine, Holds, Sound, CommandOk
  <1>6. \A e \in box \union u.out : e.k = "command" => e.gen # g /\ CommandOk(e, g, s)
    BY <1>2, <1>5 DEF Fine, Holds, Sound, CommandOk
  <1>7. Sound(box \union v.out, v.cs.gen, v.runs, s)
    BY <1>1, <1>3, <1>4, <1>6 DEF Fine, Holds, Sound
  <1>8. Awaited(v.m, box \union v.out, v.cs.gen)
    BY <1>1, <1>4, <1>6 DEF Awaited, ExitPause
  <1>9. Fine(v, box, s)
    BY <1>1, <1>2, <1>7, <1>8 DEF Fine, Holds
  <1> QED BY <1>1, <1>9 DEF v

(* Cancelling a Runner does not end it.                                    *)
LEMMA CancelRunFine ==
    ASSUME NEW u, NEW box, NEW s, Fine(u, box, s)
    PROVE  /\ Fine(CancelRun(u), box, s)
           /\ CancelRun(u).m = u.m /\ CancelRun(u).out = u.out
           /\ CancelRun(u).cs = u.cs
  <1>1. CASE ~u.m.running
    BY <1>1 DEF CancelRun
  <1>2. CASE u.m.running
    <2> DEFINE v == CancelRun(u)
               i == u.m.rid
               e == [u.runs[i] EXCEPT !.cancelled = TRUE]
    <2>1. DOMAIN v = UnitFields /\ v.m = u.m /\ v.cs = u.cs /\ v.out = u.out
          /\ v.runs = [u.runs EXCEPT ![i] = e]
      BY <1>2 DEF CancelRun, Fine, UnitFields
    <2> HIDE DEF v
    <2>2. PICK S : u.runs \in Seq(S)
      BY DEF Fine, Holds, Tracked, IsRuns
    <2>3. u.runs \in Seq(S \union {e})
      BY <2>2, SeqMonotonic
    <2>5. i \in DOMAIN u.runs => DOMAIN e = RunFields /\ e.st = u.runs[i].st
      BY DEF Fine, Holds, Tracked, IsRuns, RunFields
    <2> HIDE DEF i, e
    <2>4. /\ v.runs \in Seq(S \union {e}) /\ DOMAIN v.runs = DOMAIN u.runs
          /\ \A j \in DOMAIN u.runs : v.runs[j] = IF j = i THEN e ELSE u.runs[j]
      <3> DEFINE T == S \union {e}
      <3>1. u.runs \in Seq(T) /\ e \in T
        BY <2>3
      <3> HIDE DEF T
      <3> DEFINE f == [u.runs EXCEPT ![i] = e]
      <3>2. f \in Seq(T) /\ DOMAIN f = DOMAIN u.runs
            /\ \A j \in DOMAIN u.runs : f[j] = IF j = i THEN e ELSE u.runs[j]
        BY <3>1, ReplaceRow
      <3>3. v.runs = f
        BY <2>1
      <3> HIDE DEF f
      <3> QED BY <3>2, <3>3 DEF T
    <2>6. \A j \in DOMAIN v.runs :
            DOMAIN v.runs[j] = RunFields /\ v.runs[j].st = u.runs[j].st
      BY <2>4, <2>5 DEF Fine, Holds, Tracked, IsRuns
    <2>7. Tracked(v.m, v.runs)
      BY <2>1, <2>4, <2>6 DEF Fine, Holds, Tracked, IsRuns
    <2>8. Sound(box \union v.out, v.cs.gen, v.runs, s)
      BY <2>1, <2>4, <2>6 DEF Fine, Holds, Sound
    <2>9. Fine(v, box, s)
      BY <2>1, <2>7, <2>8 DEF Fine, Holds
    <2> QED BY <2>1, <2>9 DEF v
  <1> QED BY <1>1, <1>2

LEMMA ForceStopFine ==
    ASSUME NEW u, NEW box, NEW s, Fine(u, box, s)
    PROVE  /\ Fine(ForceStop(u), box, s)
           /\ ForceStop(u).m = u.m /\ ForceStop(u).out = u.out
           /\ ForceStop(u).cs = u.cs
  BY CancelRunFine DEF ForceStop

(* Who quits has waited, or need not wait.                                 *)
LEMMA QuitFine ==
    ASSUME NEW u, NEW box, NEW s, Fine(u, box, s), Freed
    PROVE  Fine(Quit(u), box, s)
  <1> DEFINE v == Quit(u)
  <1>1. /\ DOMAIN v = UnitFields /\ v.cs = u.cs /\ v.runs = u.runs /\ v.out = u.out
        /\ DOMAIN v.m = Fields /\ \A f \in Fields \ {"quit", "quitAfter"} : v.m[f] = u.m[f]
        /\ u.m.quit => v.m.quit
    BY DEF Quit, Fine, Holds, ModelOk, UnitFields, Fields
  <1>2. /\ v.m.nav = u.m.nav /\ v.m.armed = u.m.armed /\ v.m.prev = u.m.prev
        /\ v.m.rwf = u.m.rwf /\ v.m.running = u.m.running /\ v.m.rid = u.m.rid
        /\ v.m.page = u.m.page /\ v.m.prevPage = u.m.prevPage /\ v.m.stop = u.m.stop
        /\ v.m.pausePending = u.m.pausePending
    BY <1>1 DEF Fields
  <1> HIDE DEF v
  <1>3. ModelOk(v.m, s)
    BY <1>1, <1>2 DEF Fine, Holds, ModelOk
  <1>4. Tracked(v.m, v.runs) /\ Awaited(v.m, box \union v.out, v.cs.gen)
    BY <1>1, <1>2 DEF Fine, Holds, Tracked, Awaited
  <1> QED BY <1>1, <1>3, <1>4 DEF Fine, Holds, v

(* A Runner starts when none drives.                                       *)
LEMMA StartRunnerFine ==
    ASSUME NEW u, NEW box, NEW s, Fine(u, box, s)
    PROVE  Fine(StartRunner(u), box, s)
  <1>1. CASE u.m.running \/ u.m.sel = None
    BY <1>1 DEF StartRunner
  <1>2. CASE ~u.m.running /\ u.m.sel # None
    <2> DEFINE n == Len(u.runs) + 1
               e == [wf |-> u.m.sel, st |-> "driving", cancelled |-> FALSE]
               v == StartRunner(u)
    <2>1. /\ DOMAIN v = UnitFields /\ v.cs = u.cs /\ v.out = u.out
          /\ v.runs = Append(u.runs, e)
          /\ v.m = [u.m EXCEPT !.rid = n, !.rwf = u.m.sel, !.running = TRUE]
      BY <1>2 DEF StartRunner, Fine, UnitFields
    <2> HIDE DEF v
    <2>2. /\ DOMAIN v.m = Fields /\ v.m.rid = n /\ v.m.rwf # None /\ v.m.running
          /\ v.m.nav = u.m.nav /\ v.m.armed = u.m.armed /\ v.m.prev = u.m.prev
          /\ v.m.stop = u.m.stop /\ v.m.pausePending = u.m.pausePending
          /\ v.m.quit = u.m.quit
      BY <1>2, <2>1 DEF Fine, Holds, ModelOk, Fields
    <2>3. PICK S : u.runs \in Seq(S)
      BY DEF Fine, Holds, Tracked, IsRuns
    <2>4. u.runs \in Seq(S \union {e})
      BY <2>3, SeqMonotonic
    <2>5. /\ v.runs \in Seq(S \union {e})
          /\ Len(u.runs) \in Nat /\ DOMAIN u.runs = 1 .. Len(u.runs)
          /\ DOMAIN v.runs = 1 .. Len(u.runs) + 1
          /\ \A j \in DOMAIN u.runs : v.runs[j] = u.runs[j]
          /\ v.runs[n] = e
      BY <2>1, <2>4, AppendRow
    <2>6. DOMAIN e = RunFields
      BY DEF RunFields
    <2>7. \A j \in DOMAIN u.runs : u.runs[j].st # "driving" /\ DOMAIN u.runs[j] = RunFields
      BY <1>2 DEF Fine, Holds, Tracked, IsRuns
    <2>8. \A j \in DOMAIN v.runs : j \in DOMAIN u.runs \/ j = n
      BY <2>5
    <2> HIDE DEF n, e
    <2>9. Tracked(v.m, v.runs)
      <3>1. IsRuns(v.runs)
        BY <2>5, <2>6, <2>7, <2>8 DEF IsRuns
      <3> QED BY <2>2, <2>5, <2>7, <2>8, <3>1 DEF Tracked
    <2>10. DOMAIN u.runs \subseteq DOMAIN v.runs
      BY <2>5
    <2>11. Sound(box \union v.out, v.cs.gen, v.runs, s)
      BY <2>1, <2>5, <2>10 DEF Fine, Holds, Sound
    <2>12. ModelOk(v.m, s) /\ Awaited(v.m, box \union v.out, v.cs.gen)
      BY <2>1, <2>2 DEF Fine, Holds, ModelOk, Awaited
    <2>13. Fine(v, box, s)
      BY <2>1, <2>2, <2>9, <2>11, <2>12 DEF Fine, Holds
    <2> QED BY <2>13 DEF v
  <1> QED BY <1>1, <1>2

-----------------------------------------------------------------------------
(* Edits.                                                                  *)

(* An edit that leaves the Runner alone, whatever it does to the stop: it  *)
(* may exit when the Pause of that exit is known, and quit when it is free *)
(* to.                                                                     *)
Alike(u, w) ==
  /\ DOMAIN w = UnitFields /\ w.runs = u.runs /\ w.out = u.out
  /\ DOMAIN w.cs = StateFields /\ w.cs.gen = u.cs.gen
  /\ DOMAIN w.m = Fields
  /\ w.m.nav = u.m.nav /\ w.m.armed = u.m.armed /\ w.m.prev = u.m.prev
  /\ w.m.running = u.m.running /\ w.m.rid = u.m.rid /\ w.m.rwf = u.m.rwf

LEMMA AlikeFine ==
    ASSUME NEW u, NEW w, NEW box, NEW s, Fine(u, box, s), Alike(u, w),
           u.m.rwf = None => /\ w.m.page # "PauseExit" /\ w.m.prevPage # "PauseExit"
                             /\ w.m.stop # "pauseAndExit",
           w.m.stop = "pauseAndExit" /\ ~w.m.quit =>
             \A c \in box \union u.out : ExitPause(c, u.cs.gen) => w.m.pausePending,
           w.m.quit => Freed
    PROVE  Fine(w, box, s)
  <1>1. ModelOk(w.m, s)
    BY DEF Fine, Holds, ModelOk, Alike
  <1>2. Tracked(w.m, w.runs)
    BY DEF Fine, Holds, Tracked, Alike
  <1>3. Awaited(w.m, box \union w.out, w.cs.gen)
    BY DEF Awaited, Alike
  <1> QED BY <1>1, <1>2, <1>3 DEF Fine, Holds, Alike

(* A quiet edit of the Model alone.                                        *)
LEMMA EditFine ==
    ASSUME NEW u, NEW box, NEW s, Fine(u, box, s), NEW y, Quiet(u.m, y)
    PROVE  Fine([u EXCEPT !.m = y], box, s) /\ [u EXCEPT !.m = y].m = y
  <1> DEFINE v == [u EXCEPT !.m = y]
  <1>1. DOMAIN v = UnitFields /\ v.m = y /\ v.runs = u.runs /\ v.out = u.out /\ v.cs = u.cs
    BY DEF Fine, UnitFields
  <1> HIDE DEF v
  <1>2. Fine(v, box, s)
    BY <1>1, QuietFine DEF Fine, Holds
  <1> QED BY <1>1, <1>2 DEF v

LEMMA FineModel ==
    ASSUME NEW u, NEW box, NEW s, Fine(u, box, s)
    PROVE  /\ DOMAIN u.m = Fields /\ IsNav(u.m.nav) /\ Quiet(u.m, u.m)
           /\ DOMAIN u = UnitFields /\ DOMAIN u.cs = StateFields
  BY DEF Fine, Holds, ModelOk, Quiet

(* Where a step starts from.                                               *)
LEMMA UnitFine ==
    ASSUME WorkbenchInv, ~m.quit, NEW box \in SUBSET inbox, NEW s, seen \subseteq s
    PROVE  Fine(Unit, box, s)
  <1>1. /\ DOMAIN Unit = UnitFields /\ Unit.m = m /\ Unit.cs = cs /\ Unit.runs = runs
        /\ box \union Unit.out = box
    BY DEF Unit, UnitFields
  <1>2. ModelOk(m, s) /\ Tracked(m, runs) /\ Awaited(m, box, cs.gen)
    BY DEF WorkbenchInv, Holds, ModelOk, Awaited
  <1>3. Sound(box, cs.gen, runs, s)
    BY DEF WorkbenchInv, Holds, Sound, CommandOk
  <1> HIDE DEF Unit
  <1> QED BY <1>1, <1>2, <1>3 DEF WorkbenchInv, Holds, Fine

-----------------------------------------------------------------------------
(* Projections.                                                            *)

LEMMA OpenMenuFine ==
    ASSUME NEW u, NEW box, NEW s, Fine(u, box, s)
    PROVE  Fine(OpenMenu(u), box, s)
  <1> DEFINE x == Push(u.m, "WorkflowMenu")
             y == [x EXCEPT !.menu = None]
  <1>1. Quiet(u.m, x)
    BY FineModel, PushQuiet
  <1> HIDE DEF x
  <1>2. Quiet(x, y)
    BY <1>1 DEF Quiet, Fields
  <1> HIDE DEF y
  <1>3. Fine([u EXCEPT !.m = y], box, s)
    BY <1>1, <1>2, QuietTrans, EditFine
  <1> QED BY <1>3, AskFine DEF OpenMenu, x, y

LEMMA ShowQuiet ==
    ASSUME NEW x, DOMAIN x = Fields, IsNav(x.nav), NEW q, NEW v
    PROVE  Quiet(x, ShowView(x, q, v))
  <1>1. Quiet(x, ShowWorkspace(x, q))
    <2> DEFINE y == [x EXCEPT !.rows = known, !.sel = SelectedBy(q)]
    <2>1. Quiet(x, y)
      BY DEF Quiet, Fields
    <2> HIDE DEF y
    <2>2. Quiet(y, ResetSelection(y))
      BY <2>1, ResetQuiet DEF Quiet
    <2>3. ShowWorkspace(x, q) = y \/ ShowWorkspace(x, q) = ResetSelection(y)
      BY DEF ShowWorkspace, y
    <2> QED BY <2>1, <2>2, <2>3, QuietTrans
  <1>2. Quiet(x, [x EXCEPT !.menu = q.wf]) /\ Quiet(x, [x EXCEPT !.loaded = TRUE])
        /\ Quiet(x, [x EXCEPT !.dirty = TRUE]) /\ Quiet(x, x)
    BY DEF Quiet, Fields
  <1>3. Quiet(x, [x EXCEPT !.prev = <<q.wf, v>>, !.armed = @ \ {"approval"}])
    BY DEF Quiet, Fields
  <1> QED BY <1>1, <1>2, <1>3 DEF ShowView

LEMMA RetryFine ==
    ASSUME NEW u, NEW box, NEW s, Fine(u, box, s), NEW page
    PROVE  Fine(RetryOrBlock(u, page), box, s)
  <1> DEFINE a == [u EXCEPT !.cs.retries = @ + 1]
             b == [u EXCEPT !.cs.inFlight = FALSE, !.m.blocked = TRUE,
                            !.m.blockedPage = u.cs.ackPage, !.m.blockedWf = u.cs.wf]
  <1>1. Fine(a, box, s)
    <2>1. DOMAIN a = UnitFields /\ a.m = u.m /\ a.runs = u.runs /\ a.out = u.out
          /\ DOMAIN a.cs = StateFields /\ a.cs.gen = u.cs.gen
      BY FineModel DEF UnitFields, StateFields
    <2> HIDE DEF a
    <2> QED BY <2>1, FineModel, QuietFine
  <1>2. Fine(b, box, s)
    <2>1. DOMAIN b = UnitFields /\ b.runs = u.runs /\ b.out = u.out
          /\ DOMAIN b.cs = StateFields /\ b.cs.gen = u.cs.gen
      BY FineModel DEF UnitFields, StateFields
    <2>2. b.m = [u.m EXCEPT !.blocked = TRUE, !.blockedPage = u.cs.ackPage,
                            !.blockedWf = u.cs.wf]
      BY FineModel DEF UnitFields
    <2> HIDE DEF b
    <2>3. Quiet(u.m, b.m)
      BY <2>2, FineModel DEF Quiet, Fields
    <2> QED BY <2>1, <2>3, QuietFine
  <1>3. \/ RetryOrBlock(u, page) = Ask(a, page, u.cs.wf, u.cs.gen)
        \/ RetryOrBlock(u, page) = Ask(b, "Workspace", u.cs.wf, 0)
    BY DEF RetryOrBlock
  <1> HIDE DEF a, b
  <1> QED BY <1>1, <1>2, <1>3, AskFine

LEMMA ErrorFine ==
    ASSUME NEW u, NEW box, NEW s, Fine(u, box, s), NEW q
    PROVE  Fine(ProjectionError(u, q), box, s)
  <1>1. Quiet(u.m, [u.m EXCEPT !.menu = None])
    BY FineModel DEF Quiet, Fields
  <1>2. Fine([u EXCEPT !.m.menu = None], box, s)
    BY <1>1, EditFine
  <1> QED BY <1>2, RetryFine DEF ProjectionError

LEMMA ArrivesFine ==
    ASSUME NEW u, NEW box, NEW s, Fine(u, box, s), NEW q, NEW v
    PROVE  Fine(ProjectionArrives(u, q, v), box, s)
  <1> DEFINE ack == Acknowledges(u.cs, q)
             acked == [u EXCEPT
                        !.cs.inFlight = IF ack THEN FALSE ELSE @,
                        !.m.specs = IF ack THEN FALSE ELSE @,
                        !.m.last = IF q.gen > @ THEN q.gen ELSE @]
             x == acked.m
             z == [x EXCEPT !.blocked = x.blocked /\ ~Unblocks(x, acked.cs, q)]
             y == ShowView(z, q, v)
             shown == [acked EXCEPT !.m = y]
             home == [shown EXCEPT !.m = GoHome([@ EXCEPT !.awaiting = FALSE])]
  <1>1. Fine(acked, box, s)
    <2>1. DOMAIN acked = UnitFields /\ acked.runs = u.runs /\ acked.out = u.out
          /\ DOMAIN acked.cs = StateFields /\ acked.cs.gen = u.cs.gen
      BY FineModel DEF UnitFields, StateFields
    <2>2. acked.m = [u.m EXCEPT !.specs = IF ack THEN FALSE ELSE @,
                                !.last = IF q.gen > @ THEN q.gen ELSE @]
      BY FineModel DEF UnitFields
    <2> HIDE DEF acked, ack
    <2>3. Quiet(u.m, acked.m)
      BY <2>2, FineModel DEF Quiet, Fields
    <2> QED BY <2>1, <2>3, QuietFine
  <1>2. \/ ProjectionArrives(u, q, v) \in {u, acked, shown}
        \/ ProjectionArrives(u, q, v) = OpenMenu(home)
    BY DEF ProjectionArrives
  <1> HIDE DEF acked
  <1>3. Quiet(x, z)
    BY <1>1, FineModel DEF Quiet, Fields
  <1> HIDE DEF z
  <1>4. Quiet(x, y)
    BY <1>3, ShowQuiet, QuietTrans DEF Quiet
  <1> HIDE DEF y
  <1>5. Fine(shown, box, s)
    BY <1>1, <1>4, EditFine
  <1> HIDE DEF shown
  <1>6. Fine(home, box, s)
    <2> DEFINE w == [shown.m EXCEPT !.awaiting = FALSE]
    <2>1. Quiet(shown.m, w)
      BY <1>5, FineModel DEF Quiet, Fields
    <2> HIDE DEF w
    <2>2. Quiet(shown.m, GoHome(w))
      BY <2>1, GoHomeQuiet, QuietTrans DEF Quiet
    <2>3. home = [shown EXCEPT !.m = GoHome(w)]
      BY DEF w
    <2> QED BY <1>5, <2>2, <2>3, EditFine
  <1> HIDE DEF home
  <1> QED BY <1>1, <1>2, <1>5, <1>6, OpenMenuFine

-----------------------------------------------------------------------------
(* Results of commands.                                                    *)

(* The answer of the last command is the only message of its generation.   *)
LEMMA AnswerIsAlone ==
    ASSUME WorkbenchInv, NEW c \in inbox, c.k = "command", c.gen = cs.gen, c.c = "Pause",
           c.st # "running"
    PROVE  /\ \A d \in inbox : ExitPause(d, cs.gen) => d = c
           /\ Freed
  <1>1. c.gen # 0
    BY DEF WorkbenchInv, Holds, Sound, CommandOk
  <1>2. \A d \in inbox : ExitPause(d, cs.gen) => d = c
    BY <1>1 DEF WorkbenchInv, Holds, Sound, ExitPause
  <1> QED BY <1>2 DEF Freed

(* The exit is off: the Pause it asked for did not take.                   *)
LEMMA PauseExitFailedFine ==
    ASSUME NEW u, NEW w, NEW box, NEW s, Fine(u, box, s), Alike(u, w),
           u.m.stop = "pauseAndExit", w.m.prevPage = u.m.prevPage, w.m.quit = u.m.quit
    PROVE  Fine(PauseExitFailed(w), box, s)
  <1> DEFINE k == CancelRun(u)
             v == PauseExitFailed(w)
  <1>1. Fine(k, box, s) /\ k.m = u.m /\ k.out = u.out /\ k.cs = u.cs
    BY CancelRunFine
  <1>2. /\ DOMAIN CancelRun(w) = UnitFields /\ CancelRun(w).runs = k.runs
        /\ CancelRun(w).m = w.m /\ CancelRun(w).cs = w.cs /\ CancelRun(w).out = w.out
    BY FineModel DEF Alike, CancelRun, UnitFields
  <1> HIDE DEF k
  <1>3. /\ DOMAIN v = UnitFields /\ v.runs = k.runs /\ v.cs = w.cs /\ v.out = w.out
        /\ v.m = [w.m EXCEPT !.quitAfter = FALSE, !.stop = "idle", !.page = "PauseExit",
                             !.blocked = FALSE, !.blockedPage = "Workspace",
                             !.blockedWf = None]
    BY <1>2 DEF PauseExitFailed, ForceStop, UnitFields
  <1> HIDE DEF v
  <1>4. /\ DOMAIN v.m = Fields /\ v.m.nav = w.m.nav /\ v.m.armed = w.m.armed
        /\ v.m.prev = w.m.prev /\ v.m.running = w.m.running /\ v.m.rid = w.m.rid
        /\ v.m.rwf = w.m.rwf /\ v.m.stop = "idle" /\ v.m.quit = w.m.quit
    BY <1>3 DEF Alike, Fields
  <1>5. Alike(k, v)
    BY <1>1, <1>3, <1>4 DEF Alike
  <1>6. u.m.rwf # None
    BY DEF Fine, Holds, ModelOk
  <1>7. Fine(v, box, s)
    BY <1>1, <1>4, <1>5, <1>6, AlikeFine DEF Fine
  <1> QED BY <1>7 DEF v

LEMMA StaleFine ==
    ASSUME NEW u, NEW box, NEW s, Fine(u, box, s), NEW c
    PROVE  Fine(StaleCommand(u, c), box, s)
  <1> DEFINE w == [u EXCEPT !.m.pausePending = FALSE]
  <1>1. /\ Alike(u, w) /\ w.m.prevPage = u.m.prevPage /\ w.m.page = u.m.page
        /\ w.m.stop = u.m.stop /\ w.m.quit = u.m.quit
    BY FineModel DEF Alike, UnitFields, Fields
  <1> HIDE DEF w
  <1>2. u.m.stop = "pauseAndExit" => Fine(PauseExitFailed(w), box, s)
    BY <1>1, PauseExitFailedFine
  <1>3. u.m.stop # "pauseAndExit" => Fine(w, box, s)
    BY <1>1, AlikeFine DEF Fine, Holds, ModelOk
  <1> QED BY <1>2, <1>3 DEF StaleCommand, w

LEMMA FailedFine ==
    ASSUME NEW u, NEW box, NEW s, Fine(u, box, s), NEW c, c.c = "Pause" => Freed
    PROVE  Fine(CommandFailed(u, c), box, s)
  <1> DEFINE lock == [u.cs EXCEPT !.inFlight = FALSE]
             x == [u.m EXCEPT !.blocked = TRUE, !.blockedPage = u.cs.ackPage,
                              !.blockedWf = u.cs.wf, !.specs = FALSE,
                              !.pausePending = u.m.pausePending /\ c.c # "Pause"]
             w == [u EXCEPT !.cs = lock, !.m = x]
  <1>1. CommandFailed(u, c) = IF c.c = "Pause" /\ w.m.stop = "pauseAndExit"
                              THEN PauseExitFailed(w)
                              ELSE IF c.c = "Pause" /\ w.m.quitAfter THEN Quit(w)
                              ELSE Reload(w)
    BY DEF CommandFailed
  <1>2. DOMAIN lock = StateFields /\ lock.gen = u.cs.gen
    BY FineModel DEF StateFields
  <1>3. /\ DOMAIN x = Fields /\ x.nav = u.m.nav /\ x.armed = u.m.armed /\ x.prev = u.m.prev
        /\ x.running = u.m.running /\ x.rid = u.m.rid /\ x.rwf = u.m.rwf
        /\ x.prevPage = u.m.prevPage /\ x.page = u.m.page
        /\ x.stop = u.m.stop /\ x.quit = u.m.quit
        /\ c.c # "Pause" => (u.m.pausePending => x.pausePending)
    <2>1. /\ DOMAIN x = Fields
          /\ x.pausePending = (u.m.pausePending /\ c.c # "Pause")
          /\ \A f \in Fields \ {"blocked", "blockedPage", "blockedWf", "specs",
                               "pausePending"} : x[f] = u.m[f]
      BY FineModel DEF Fields
    <2> HIDE DEF x
    <2> QED BY <2>1 DEF Fields
  <1> HIDE DEF lock, x
  <1>4. DOMAIN w = UnitFields /\ w.m = x /\ w.cs = lock /\ w.runs = u.runs /\ w.out = u.out
    BY FineModel DEF UnitFields
  <1>5. Alike(u, w)
    BY <1>2, <1>3, <1>4 DEF Alike
  <1> HIDE DEF w
  <1>6. CASE c.c = "Pause" /\ w.m.stop = "pauseAndExit"
    BY <1>1, <1>3, <1>4, <1>5, <1>6, PauseExitFailedFine
  <1>7. CASE ~(c.c = "Pause" /\ w.m.stop = "pauseAndExit")
    <2>1. Fine(w, box, s)
      BY <1>3, <1>4, <1>5, <1>7, AlikeFine DEF Fine, Holds, ModelOk, Awaited
    <2> QED BY <1>1, <1>7, <2>1, QuitFine, ReloadFine
  <1> QED BY <1>6, <1>7

LEMMA PauseDoneFine ==
    ASSUME NEW u, NEW box, NEW s, Fine(u, box, s), Freed,
           \A d \in box \union u.out : ~ExitPause(d, u.cs.gen)
    PROVE  Fine(PauseDone(u), box, s)
  <1> DEFINE w == [u EXCEPT !.m.pausePending = FALSE]
             y == [w.m EXCEPT !.decision = FALSE]
  <1>1. /\ Alike(u, w) /\ w.m.prevPage = u.m.prevPage /\ w.m.page = u.m.page
        /\ w.m.stop = u.m.stop /\ w.m.quit = u.m.quit
    BY FineModel DEF Alike, UnitFields, Fields
  <1>2. PauseDone(u) = Quit(w) \/ PauseDone(u) = Reload([w EXCEPT !.m = y])
    BY DEF PauseDone
  <1> HIDE DEF w
  <1>3. Fine(w, box, s)
    BY <1>1, AlikeFine DEF Fine, Holds, ModelOk
  <1>4. Quiet(w.m, y)
    BY <1>3, FineModel DEF Quiet, Fields
  <1> HIDE DEF y
  <1>5. Fine([w EXCEPT !.m = y], box, s)
    BY <1>3, <1>4, EditFine
  <1> QED BY <1>2, <1>3, <1>5, QuitFine, ReloadFine

LEMMA CreateDoneFine ==
    ASSUME NEW u, NEW box, NEW s, Fine(u, box, s), NEW c
    PROVE  Fine(CreateDone(u, c), box, s)
  <1> DEFINE x == [u.m EXCEPT !.sel = c.arg, !.awaiting = TRUE, !.page = "Workspace",
                              !.dirty = FALSE, !.confirm = FALSE]
             lock == [u.cs EXCEPT !.wf = c.arg]
             w == [u EXCEPT !.m = x, !.cs = lock]
  <1>1. CreateDone(u, c) = Reload(w)
    BY DEF CreateDone
  <1>2. Quiet(u.m, x)
    BY FineModel DEF Quiet, Fields
  <1>3. DOMAIN lock = StateFields /\ lock.gen = u.cs.gen
    BY FineModel DEF StateFields
  <1> HIDE DEF x, lock
  <1>4. DOMAIN w = UnitFields /\ w.m = x /\ w.cs = lock /\ w.runs = u.runs /\ w.out = u.out
    BY FineModel DEF UnitFields
  <1> HIDE DEF w
  <1>5. Fine(w, box, s)
    BY <1>2, <1>3, <1>4, QuietFine
  <1> QED BY <1>1, <1>5, ReloadFine

LEMMA NativeReadyFine ==
    ASSUME NEW u, NEW box, NEW s, Fine(u, box, s), NEW c
    PROVE  Fine(NativeReady(u, c), box, s)
  <1> DEFINE q == [k |-> "exec", wf |-> c.wf]
             v == NativeReady(u, c)
  <1>1. q.k = "exec"
    OBVIOUS
  <1>2. v = [u EXCEPT !.out = u.out \union {q}]
    BY DEF NativeReady
  <1> HIDE DEF q, v
  <1>3. /\ DOMAIN v = UnitFields /\ v.m = u.m /\ v.runs = u.runs /\ v.cs = u.cs
        /\ box \union v.out = (box \union u.out) \union {q}
    BY <1>2, FineModel DEF UnitFields
  <1>4. Sound(box \union v.out, v.cs.gen, v.runs, s)
    BY <1>1, <1>3 DEF Fine, Holds, Sound
  <1>5. Awaited(v.m, box \union v.out, v.cs.gen)
    BY <1>1, <1>3 DEF Fine, Holds, Awaited, ExitPause
  <1>6. Fine(v, box, s)
    BY <1>3, <1>4, <1>5 DEF Fine, Holds
  <1> QED BY <1>6 DEF v

LEMMA SucceededFine ==
    ASSUME NEW u, NEW box, NEW s, Fine(u, box, s), NEW c,
           c.c = "Pause" => Freed /\ \A d \in box \union u.out : ~ExitPause(d, u.cs.gen)
    PROVE  Fine(CommandSucceeded(u, c), box, s)
  <1> DEFINE x == u.m
             a == [x EXCEPT !.decision = FALSE]
             b == [x EXCEPT !.editing = TRUE, !.handoff = FALSE]
             d == [x EXCEPT !.editing = FALSE, !.handoff = FALSE]
             e == [x EXCEPT !.specs = TRUE]
             f == [x EXCEPT !.mig = "none"]
             g == [x EXCEPT !.mig = "none", !.armed = x.armed \ {"migration"}]
             to(y) == [u EXCEPT !.m = y]
             home == Push(Pop(x), "Execution")
  <1>1. \/ c.c = "Pause" /\ CommandSucceeded(u, c) = PauseDone(u)
        \/ CommandSucceeded(u, c) \in {CreateDone(u, c), NativeReady(u, c), Reload(u)}
        \/ CommandSucceeded(u, c) \in {Reload(to(a)), Reload(to(b)), Reload(to(d)),
                                       Reload(to(e)), Reload(to(f))}
        \/ CommandSucceeded(u, c) \in {Reload(to(Pop(x))), Reload(to(home)),
                                       Reload(to(Pop(g)))}
    BY DEF CommandSucceeded
  <1>2. DOMAIN x = Fields /\ IsNav(x.nav)
    BY FineModel
  <1>3. Quiet(x, a) /\ Quiet(x, b) /\ Quiet(x, d) /\ Quiet(x, e) /\ Quiet(x, f) /\ Quiet(x, g)
    BY <1>2 DEF Quiet, Fields
  <1> HIDE DEF a, b, d, e, f, g
  <1>4. Quiet(x, Pop(x)) /\ Quiet(x, Pop(g))
    BY <1>2, <1>3, PopQuiet, QuietTrans DEF Quiet
  <1>5. Quiet(x, home)
    BY <1>4, PushQuiet, QuietTrans DEF Quiet
  <1> HIDE DEF home
  <1>6. \A y : Quiet(x, y) => Fine(Reload(to(y)), box, s)
    BY EditFine, ReloadFine
  <1> HIDE DEF to
  <1> QED BY <1>1, <1>3, <1>4, <1>5, <1>6, PauseDoneFine, CreateDoneFine, NativeReadyFine,
             ReloadFine

(* Whatever the answer of a command.                                       *)
LEMMA CommandFine ==
    ASSUME WorkbenchInv, ~m.quit, NEW c \in inbox, c.k = "command", c.st # "running"
    PROVE  Fine(ApplyCommand(c), inbox \ {c}, seen)
  <1> DEFINE box == inbox \ {c}
  <1>1. Fine(Unit, box, seen)
    BY UnitFine
  <1>2. Unit.cs = cs /\ Unit.out = {}
    BY DEF Unit
  <1>3. c.gen = cs.gen /\ c.c = "Pause" =>
          Freed /\ \A d \in box \union Unit.out : ~ExitPause(d, Unit.cs.gen)
    BY <1>2, AnswerIsAlone
  <1> HIDE DEF box
  <1>4. Fine(ApplyCommand(c), box, seen)
    BY <1>1, <1>3, StaleFine, FailedFine, SucceededFine DEF ApplyCommand
  <1> QED BY <1>4 DEF box

-----------------------------------------------------------------------------
(* The Runner's and the terminal's results.                                *)

LEMMA UnitParts ==
    /\ DOMAIN Unit = UnitFields
    /\ Unit.m = m /\ Unit.cs = cs /\ Unit.runs = runs /\ Unit.out = {}
  BY DEF Unit, UnitFields

(* The Runner the Model calls running has answered, so none drives; it     *)
(* quits when no Pause is pending.                                         *)
LEMMA RunnerDoneFine ==
    ASSUME WorkbenchInv, ~m.quit, NEW r \in inbox, r.k = "runner"
    PROVE  Fine(RunnerDone(r), inbox \ {r}, seen)
  <1> DEFINE box == inbox \ {r}
             b == IF r.res = "error" THEN m.decision ELSE r.res = "needsUser"
             x == [m EXCEPT !.running = FALSE, !.decision = b]
             y == [x EXCEPT !.quitAfter = FALSE, !.stop = "idle", !.quit = TRUE]
             z == [x EXCEPT !.quitAfter = FALSE]
  <1>1. Fine(Unit, box, seen)
    BY UnitFine
  <1>2. CASE r.id # m.rid
    BY <1>1, <1>2 DEF RunnerDone
  <1>3. CASE r.id = m.rid
    <2>1. DOMAIN m = Fields
      BY DEF WorkbenchInv, Holds, ModelOk
    <2>2. [Unit EXCEPT !.m.running = FALSE, !.m.decision = b] = [Unit EXCEPT !.m = x]
      BY UnitParts DEF UnitFields
    <2>3. \/ RunnerDone(r) = [Unit EXCEPT !.m = x]
          \/ RunnerDone(r) = [Unit EXCEPT !.m = y] /\ ~m.pausePending
          \/ RunnerDone(r) = Reload([Unit EXCEPT !.m = z])
      <3> DEFINE next == [[Unit EXCEPT !.m.running = FALSE]
                            EXCEPT !.m.decision = IF r.res = "error" THEN @
                                                  ELSE r.res = "needsUser"]
      <3>1. next = [Unit EXCEPT !.m = x]
        BY <2>1, UnitParts DEF UnitFields, Fields
      <3>2. /\ [next EXCEPT !.m = [@ EXCEPT !.quitAfter = FALSE, !.stop = "idle",
                                             !.quit = TRUE]] = [Unit EXCEPT !.m = y]
            /\ [next EXCEPT !.m.quitAfter = FALSE] = [Unit EXCEPT !.m = z]
        <4> HIDE DEF x, next
        <4> QED BY <3>1, UnitParts DEF UnitFields
      <3>3. \/ RunnerDone(r) = next
            \/ /\ RunnerDone(r) = [next EXCEPT !.m = [@ EXCEPT !.quitAfter = FALSE,
                                                     !.stop = "idle", !.quit = TRUE]]
               /\ ~m.pausePending
            \/ RunnerDone(r) = Reload([next EXCEPT !.m.quitAfter = FALSE])
        BY <1>3 DEF RunnerDone
      <3> HIDE DEF next, x, y, z
      <3> QED BY <3>1, <3>2, <3>3
    <2>4. \A i \in DOMAIN runs : runs[i].st # "driving"
      BY <1>3 DEF WorkbenchInv, Holds, Tracked, Sound
    <2>5. ASSUME NEW k, DOMAIN k = Fields, k.nav = m.nav, k.armed = m.armed,
                 k.prev = m.prev, k.rwf = m.rwf, ~k.running, k.page = m.page,
                 k.prevPage = m.prevPage,
                 k.stop = "pauseAndExit" =>
                   m.stop = "pauseAndExit" /\ (m.pausePending => k.pausePending),
                 k.quit => Freed
          PROVE  Fine([Unit EXCEPT !.m = k], box, seen)
      <3> DEFINE v == [Unit EXCEPT !.m = k]
      <3>1. DOMAIN v = UnitFields /\ v.m = k /\ v.cs = cs /\ v.runs = runs /\ v.out = {}
        BY UnitParts DEF UnitFields
      <3> HIDE DEF v
      <3>2. ModelOk(k, seen)
        BY <2>5 DEF WorkbenchInv, Holds, ModelOk
      <3>3. Tracked(k, runs)
        BY <2>4 DEF WorkbenchInv, Holds, Tracked
      <3>4. Awaited(k, box \union {}, cs.gen)
        BY <2>5 DEF WorkbenchInv, Holds, Awaited
      <3>5. Sound(box \union {}, cs.gen, runs, seen)
        BY DEF WorkbenchInv, Holds, Sound
      <3>6. Fine(v, box, seen)
        BY <2>5, <3>1, <3>2, <3>3, <3>4, <3>5 DEF WorkbenchInv, Holds, Fine
      <3> QED BY <3>6 DEF v
    <2>6. Fine([Unit EXCEPT !.m = x], box, seen)
      BY <2>1, <2>5 DEF Fields
    <2>7. Fine([Unit EXCEPT !.m = z], box, seen)
      BY <2>1, <2>5 DEF Fields
    <2>8. ~m.pausePending => Fine([Unit EXCEPT !.m = y], box, seen)
      <3>1. ~m.pausePending => Freed
        BY DEF WorkbenchInv, Holds, Awaited, Freed
      <3> QED BY <2>1, <2>5, <3>1 DEF Fields
    <2> HIDE DEF x, y, z, box
    <2>9. Fine(RunnerDone(r), box, seen)
      BY <2>3, <2>6, <2>7, <2>8, ReloadFine
    <2> QED BY <2>9 DEF box
  <1> QED BY <1>2, <1>3

LEMMA NativeDoneFine ==
    ASSUME NEW box, NEW s, Fine(Unit, box, s), NEW n
    PROVE  Fine(NativeDone(n), box, s)
  BY ExecuteFine, ReloadFine DEF NativeDone

(* Once the context has ended anything may quit.                           *)
LEMMA ContextDoneFine ==
    ASSUME NEW box, NEW s, Fine(Unit, box, s), ctxDone'
    PROVE  Fine(ContextDone, box, s)
  <1> DEFINE a == [Unit EXCEPT !.m.quitAfter = TRUE, !.m.pausePending = TRUE]
             b == [Unit EXCEPT !.m.quit = TRUE]
             u == CancelRun(a)
  <1>1. Freed
    BY DEF Freed
  <1>2. Alike(Unit, a) /\ a.m.stop = m.stop /\ a.m.page = m.page /\ a.m.prevPage = m.prevPage
        /\ a.m.pausePending
    <2>1. /\ DOMAIN a = UnitFields /\ a.cs = cs /\ a.runs = runs /\ a.out = {}
          /\ a.m = [m EXCEPT !.quitAfter = TRUE, !.pausePending = TRUE]
      BY UnitParts DEF UnitFields
    <2> HIDE DEF a
    <2> QED BY <2>1, UnitParts, FineModel DEF Alike, Fields
  <1>3. Alike(Unit, b) /\ b.m.stop = m.stop /\ b.m.page = m.page /\ b.m.prevPage = m.prevPage
        /\ b.m.quit
    BY UnitParts, FineModel DEF Alike, UnitFields, Fields
  <1>4. ContextDone = b \/ ContextDone = Execute(u, "Pause", ActiveRunnerWorkflow(u.m), None)
    BY DEF ContextDone
  <1> HIDE DEF a, b
  <1>5. Fine(a, box, s) /\ Fine(b, box, s)
    <2>1. m.rwf = None => /\ m.page # "PauseExit" /\ m.prevPage # "PauseExit"
                          /\ m.stop # "pauseAndExit"
      BY UnitParts DEF Fine, Holds, ModelOk
    <2>2. Fine(a, box, s)
      BY <1>1, <1>2, <2>1, UnitParts, AlikeFine
    <2>3. Fine(b, box, s)
      BY <1>1, <1>3, <2>1, UnitParts, AlikeFine
    <2> QED BY <2>2, <2>3
  <1>6. Fine(u, box, s)
    BY <1>5, CancelRunFine
  <1> HIDE DEF u
  <1>7. None # "exit"
    BY DEF None
  <1> QED BY <1>4, <1>5, <1>6, <1>7, ExecuteFine

-----------------------------------------------------------------------------
(* Keys that stop.                                                         *)

(* A second Ctrl+C forces the exit; the first one pauses.                  *)
LEMMA CtrlCFine ==
    ASSUME NEW box, NEW s, Fine(Unit, box, s), forced' = (forced \/ m.stop # "idle")
    PROVE  Fine(CtrlC, box, s)
  <1> DEFINE a == [Unit EXCEPT !.m.stop = "firstCtrlC"]
             first == CancelRun(a)
             b == [first EXCEPT !.m.pausePending = TRUE]
             wf == ActiveRunnerWorkflow(m)
  <1>1. CtrlC = IF m.stop # "idle" THEN Quit(ForceStop(Unit))
                ELSE IF wf = None THEN a
                ELSE Execute(b, "Pause", wf, None)
    BY DEF CtrlC
  <1>2. CASE m.stop # "idle"
    <2>1. Freed
      BY <1>2 DEF Freed
    <2> QED BY <1>1, <1>2, <2>1, ForceStopFine, QuitFine
  <1>3. CASE m.stop = "idle"
    <2>1. Alike(Unit, a) /\ a.m.stop = "firstCtrlC" /\ a.m.page = m.page
          /\ a.m.prevPage = m.prevPage /\ a.m.quit = m.quit
      BY UnitParts, FineModel DEF Alike, UnitFields, Fields
    <2> HIDE DEF a
    <2>2. Fine(a, box, s)
      BY <2>1, UnitParts, AlikeFine DEF Fine, Holds, ModelOk
    <2>3. Fine(first, box, s) /\ first.m = a.m
      BY <2>2, CancelRunFine
    <2> HIDE DEF first, wf
    <2>4. Alike(first, b) /\ b.m.stop = "firstCtrlC" /\ b.m.page = first.m.page
          /\ b.m.prevPage = first.m.prevPage /\ b.m.quit = first.m.quit
      BY <2>1, <2>3, FineModel DEF Alike, UnitFields, Fields
    <2> HIDE DEF b
    <2>5. Fine(b, box, s)
      BY <2>3, <2>4, AlikeFine DEF Fine, Holds, ModelOk
    <2>6. Fine(Execute(b, "Pause", wf, None), box, s)
      BY <2>5, ExecuteFine DEF None
    <2> QED BY <1>1, <1>3, <2>2, <2>6
  <1> QED BY <1>2, <1>3

LEMMA GlobalExitFine ==
    ASSUME NEW box, NEW s, Fine(Unit, box, s)
    PROVE  Fine(GlobalExit, box, s)
  <1> DEFINE a == [Unit EXCEPT !.m.prevPage = m.page, !.m.page = "PauseExit"]
             b == [Unit EXCEPT !.m.quit = TRUE]
  <1>1. \/ GlobalExit = Unit
        \/ GlobalExit = a /\ m.running
        \/ GlobalExit = b /\ m.stop = "idle"
    BY DEF GlobalExit
  <1>2. Alike(Unit, a) /\ a.m.stop = m.stop /\ a.m.quit = m.quit
        /\ a.m.pausePending = m.pausePending
    <2>1. /\ DOMAIN a = UnitFields /\ a.cs = cs /\ a.runs = runs /\ a.out = {}
          /\ a.m = [m EXCEPT !.prevPage = m.page, !.page = "PauseExit"]
      BY UnitParts DEF UnitFields
    <2> HIDE DEF a
    <2> QED BY <2>1, UnitParts, FineModel DEF Alike, Fields
  <1>3. Alike(Unit, b) /\ b.m.stop = m.stop /\ b.m.page = m.page
        /\ b.m.prevPage = m.prevPage /\ b.m.quit
    BY UnitParts, FineModel DEF Alike, UnitFields, Fields
  <1> HIDE DEF a, b
  <1>4. CASE GlobalExit = a /\ m.running
    <2>1. m.rwf # None
      BY <1>4, UnitParts DEF Fine, Holds, ModelOk
    <2>2. m.stop = "pauseAndExit" /\ ~m.quit =>
            \A c \in box \union Unit.out : ExitPause(c, cs.gen) => m.pausePending
      BY UnitParts DEF Fine, Holds, Awaited
    <2>3. m.quit => Freed
      BY UnitParts DEF Fine
    <2>4. Fine(a, box, s)
      BY <1>2, <2>1, <2>2, <2>3, UnitParts, AlikeFine
    <2> QED BY <1>4, <2>4
  <1>5. CASE GlobalExit = b /\ m.stop = "idle"
    <2>1. Freed
      BY <1>5 DEF Freed
    <2> QED BY <1>3, <1>5, <2>1, UnitParts, AlikeFine DEF Fine, Holds, ModelOk
  <1> QED BY <1>1, <1>4, <1>5

(* The prompt is of a Runner's Workflow, so it quits at once only when the *)
(* Pause of an earlier exit is over.                                       *)
LEMMA PauseExitFine ==
    ASSUME NEW box, inbox \subseteq box, NEW s, Fine(Unit, box, s), m.page = "PauseExit"
    PROVE  Fine(EnterPauseExit, box, s)
  <1> DEFINE a == [Unit EXCEPT !.m.stop = "pauseAndExit"]
             u == CancelRun(a)
             k == CancelRun(Unit)
             w == [u EXCEPT !.m.pausePending = TRUE]
             v == Quit(ForceStop(u))
             wf == ActiveRunnerWorkflow(m)
             x == [m EXCEPT !.stop = "pauseAndExit"]
  <1>1. EnterPauseExit = IF wf = None THEN v ELSE Execute(w, "Pause", wf, "exit")
    BY DEF EnterPauseExit
  <1>2. Fine(k, box, s) /\ k.m = m /\ k.out = {} /\ k.cs = cs /\ DOMAIN k = UnitFields
    BY CancelRunFine, FineModel, UnitParts
  <1>3. /\ DOMAIN a = UnitFields /\ a.m = x /\ a.cs = cs /\ a.runs = runs /\ a.out = {}
    BY UnitParts DEF UnitFields
  <1>4. /\ DOMAIN x = Fields /\ x.nav = m.nav /\ x.armed = m.armed /\ x.prev = m.prev
        /\ x.running = m.running /\ x.rid = m.rid /\ x.rwf = m.rwf /\ x.quit = m.quit
        /\ x.prevPage = m.prevPage /\ x.page = m.page /\ x.pausePending = m.pausePending
        /\ x.stop = "pauseAndExit"
    BY UnitParts, FineModel DEF Fields
  <1> HIDE DEF x, a
  <1>5. /\ DOMAIN u = UnitFields /\ u.m = x /\ u.cs = cs /\ u.out = {} /\ u.runs = k.runs
    BY <1>3, <1>4, UnitParts DEF CancelRun, UnitFields
  <1>6. m.rwf # None
    BY UnitParts DEF Fine, Holds, ModelOk
  <1> HIDE DEF u, k
  <1>7. CASE wf = None
    <2>1. ~m.running /\ ~m.pausePending
      BY <1>6, <1>7 DEF ActiveRunnerWorkflow
    <2>2. v = [u EXCEPT !.m.quit = TRUE]
      BY <1>4, <1>5, <2>1 DEF Quit, ForceStop, CancelRun
    <2> HIDE DEF v
    <2>3. v.m = [x EXCEPT !.quit = TRUE] /\ v.runs = k.runs /\ v.out = {} /\ v.cs = cs
          /\ DOMAIN v = UnitFields
      BY <1>5, <2>2 DEF UnitFields
    <2>4. Alike(k, v) /\ v.m.quit
      BY <1>2, <1>4, <2>3, FineModel, UnitParts DEF Alike, Fields
    <2>5. m.stop = "pauseAndExit" /\ ~m.quit => \A c \in inbox : ~ExitPause(c, cs.gen)
      BY <2>1, UnitParts DEF Fine, Holds, Awaited
    <2>6. Freed
      BY <2>5, UnitParts DEF Freed, Fine
    <2>7. Fine(v, box, s)
      BY <1>2, <1>6, <2>4, <2>6, AlikeFine
    <2> QED BY <1>1, <1>7, <2>7
  <1>8. CASE wf # None
    <2>1. w.m = [x EXCEPT !.pausePending = TRUE] /\ w.runs = k.runs /\ w.out = {} /\ w.cs = cs
          /\ DOMAIN w = UnitFields
      BY <1>5 DEF UnitFields
    <2> HIDE DEF w, wf
    <2>2. Alike(k, w) /\ w.m.pausePending /\ w.m.quit = m.quit
      BY <1>2, <1>4, <2>1, FineModel, UnitParts DEF Alike, Fields
    <2>3. Fine(w, box, s)
      BY <1>2, <1>6, <2>2, AlikeFine DEF Fine
    <2>4. Fine(Execute(w, "Pause", wf, "exit"), box, s)
      BY <2>2, <2>3, ExecuteFine
    <2> QED BY <1>1, <1>8, <2>4
  <1> QED BY <1>7, <1>8

LEMMA EscFine ==
    ASSUME NEW box, NEW s, Fine(Unit, box, s)
    PROVE  Fine(Esc, box, s)
  <1> DEFINE to(y) == [Unit EXCEPT !.m = y]
             a == [m EXCEPT !.confirm = FALSE]
             b == [m EXCEPT !.dirty = FALSE]
             c == [m EXCEPT !.page = "Workspace", !.dirty = FALSE]
             d == [m EXCEPT !.editing = FALSE, !.handoff = FALSE]
             e == [Unit EXCEPT !.m.stop = "idle", !.m.page = m.prevPage]
  <1>1. Esc \in {to(a), to(Pop(b)), to(c), to(d), to(Pop(m)), Unit, e}
    BY UnitParts DEF Esc
  <1>2. DOMAIN m = Fields /\ IsNav(m.nav)
    BY UnitParts, FineModel
  <1>3. Quiet(m, a) /\ Quiet(m, b) /\ Quiet(m, c) /\ Quiet(m, d)
    BY <1>2 DEF Quiet, Fields
  <1> HIDE DEF a, b, c, d
  <1>4. Quiet(m, Pop(m)) /\ Quiet(m, Pop(b))
    BY <1>2, <1>3, PopQuiet, QuietTrans DEF Quiet
  <1>5. \A y : Quiet(m, y) => Fine(to(y), box, s)
    BY UnitParts, EditFine
  <1>6. Fine(e, box, s)
    <2>1. Alike(Unit, e) /\ e.m.stop = "idle" /\ e.m.page = m.prevPage
          /\ e.m.prevPage = m.prevPage /\ e.m.quit = m.quit
      BY <1>2, UnitParts, FineModel DEF Alike, UnitFields, Fields
    <2> HIDE DEF e
    <2> QED BY <2>1, UnitParts, AlikeFine DEF Fine, Holds, ModelOk
  <1> HIDE DEF to, e
  <1> QED BY <1>1, <1>3, <1>4, <1>5, <1>6

-----------------------------------------------------------------------------
(* Keys that confirm and open.                                             *)

(* What is armed was previewed.                                            *)
LEMMA ArmFine ==
    ASSUME NEW u, NEW box, NEW s, Fine(u, box, s), NEW flag,
           flag = "approval" => u.m.prev \in s
    PROVE  Fine(Arm(u, flag), box, s)
  <1> DEFINE x == [u.m EXCEPT !.armed = u.m.armed \union {flag}]
             v == Arm(u, flag)
  <1>1. v = [u EXCEPT !.m = x]
    BY DEF Arm
  <1> HIDE DEF x, v
  <1>2. DOMAIN v = UnitFields /\ v.m = x /\ v.runs = u.runs /\ v.out = u.out /\ v.cs = u.cs
    BY <1>1, FineModel DEF UnitFields
  <1>3. /\ DOMAIN x = Fields /\ x.armed = u.m.armed \union {flag}
        /\ x.nav = u.m.nav /\ x.prev = u.m.prev
        /\ x.running = u.m.running /\ x.rid = u.m.rid /\ x.rwf = u.m.rwf
        /\ x.prevPage = u.m.prevPage /\ x.page = u.m.page /\ x.stop = u.m.stop
        /\ x.pausePending = u.m.pausePending /\ x.quit = u.m.quit
    BY FineModel DEF Fields, x
  <1>4. ModelOk(v.m, s)
    BY <1>2, <1>3 DEF Fine, Holds, ModelOk
  <1>5. Tracked(v.m, v.runs) /\ Awaited(v.m, box \union v.out, v.cs.gen)
    BY <1>2, <1>3 DEF Fine, Holds, Tracked, Awaited
  <1>6. Fine(v, box, s)
    BY <1>2, <1>3, <1>4, <1>5 DEF Fine, Holds
  <1> QED BY <1>6 DEF v

LEMMA DisarmFine ==
    ASSUME NEW u, NEW box, NEW s, Fine(u, box, s), NEW flag
    PROVE  /\ Fine(Disarm(u, flag), box, s)
           /\ Quiet(u.m, Disarm(u, flag).m) /\ Disarm(u, flag).m.prev = u.m.prev
           /\ Disarm(u, flag).cs = u.cs /\ Disarm(u, flag).out = u.out
           /\ Disarm(u, flag).runs = u.runs
  <1> DEFINE x == [u.m EXCEPT !.armed = u.m.armed \ {flag}]
             v == Disarm(u, flag)
  <1>1. v = [u EXCEPT !.m = x]
    BY DEF Disarm
  <1>2. Quiet(u.m, x) /\ x.prev = u.m.prev
    BY FineModel DEF Quiet, Fields
  <1> HIDE DEF x, v
  <1>3. v.m = x /\ v.runs = u.runs /\ v.out = u.out /\ v.cs = u.cs
    BY <1>1, FineModel DEF UnitFields
  <1>4. Fine(v, box, s)
    BY <1>1, <1>2, EditFine
  <1> QED BY <1>2, <1>3, <1>4 DEF v

LEMMA StageActionFine ==
    ASSUME NEW u, NEW box, NEW s, Fine(u, box, s), NEW item
    PROVE  Fine(StageAction(u, item), box, s)
  <1> DEFINE x == [u.m EXCEPT !.item = item, !.armed = u.m.armed \ {"action"}]
  <1>1. Quiet(u.m, x)
    BY FineModel DEF Quiet, Fields
  <1>2. StageAction(u, item) = [u EXCEPT !.m = Push(x, "ActionPreview")]
    BY DEF StageAction
  <1> HIDE DEF x
  <1>3. Quiet(u.m, Push(x, "ActionPreview"))
    BY <1>1, PushQuiet, QuietTrans DEF Quiet
  <1> QED BY <1>2, <1>3, EditFine

LEMMA OpenPageFine ==
    ASSUME NEW u, NEW box, NEW s, Fine(u, box, s), NEW page, page # "PauseExit", NEW flag
    PROVE  Fine(OpenPage(u, page, flag), box, s)
  <1> DEFINE d == Disarm(u, flag)
             v == [d EXCEPT !.m = Push(d.m, page)]
  <1>1. OpenPage(u, page, flag) = Ask(v, page, u.m.sel, 0)
    BY DEF OpenPage, Ask
  <1>2. Fine(d, box, s)
    BY DisarmFine
  <1> HIDE DEF d
  <1>3. Quiet(d.m, Push(d.m, page))
    BY <1>2, FineModel, PushQuiet
  <1>4. Fine(v, box, s)
    BY <1>2, <1>3, EditFine
  <1> HIDE DEF v
  <1> QED BY <1>1, <1>4, AskFine

(* Every entry of the menu.                                                *)
LEMMA RouteFine ==
    ASSUME NEW box, NEW s, Fine(Unit, box, s), NEW item \in MenuItems
    PROVE  Fine(RouteMenuItem(item), box, s)
  <1> DEFINE x == [m EXCEPT !.item = item]
             u == [Unit EXCEPT !.m = x]
             a == [x EXCEPT !.loaded = FALSE, !.editing = FALSE, !.handoff = FALSE]
             b == [x EXCEPT !.mig = "none"]
             to(y) == [u EXCEPT !.m = y]
  <1>1. [Unit EXCEPT !.m.item = item] = u
    BY UnitParts DEF UnitFields
  <1>2. u.m = x
    BY UnitParts DEF UnitFields
  <1>3. [u EXCEPT !.m.loaded = FALSE, !.m.editing = FALSE, !.m.handoff = FALSE] = to(a)
        /\ [u EXCEPT !.m.mig = "none"] = to(b)
    <2>1. DOMAIN u = UnitFields
      BY UnitParts DEF UnitFields
    <2> HIDE DEF u, x
    <2> QED BY <1>2, <2>1 DEF UnitFields
  <1>4. Quiet(m, x) /\ Quiet(x, a) /\ Quiet(x, b)
    BY UnitParts, FineModel DEF Quiet, Fields
  <1>5. Fine(u, box, s)
    BY <1>4, UnitParts, EditFine
  <1> HIDE DEF x, a, b, u
  <1>6. Fine(to(a), box, s) /\ Fine(to(b), box, s)
    BY <1>2, <1>4, <1>5, EditFine
  <1> HIDE DEF to
  <1>7. \/ RouteMenuItem(item) = StageAction(u, item)
        \/ RouteMenuItem(item) = OpenPage(to(a), "Discussion", "none")
        \/ RouteMenuItem(item) = OpenPage(u, "Cancel", "cancel")
        \/ RouteMenuItem(item) = OpenPage(to(b), "Migration", "migration")
        \/ RouteMenuItem(item) = OpenPage(u, "Blocked", "none")
        \/ RouteMenuItem(item) = OpenPage(u, "ExecutionApproval", "approval")
        \/ RouteMenuItem(item) = OpenPage(u, "Readonly", "none")
    BY <1>1, <1>3 DEF RouteMenuItem, MenuItems
  <1> QED BY <1>5, <1>6, <1>7, StageActionFine, OpenPageFine

LEMMA HomeFine ==
    ASSUME NEW box, NEW s, Fine(Unit, box, s)
    PROVE  Fine([Unit EXCEPT !.m = GoHome(@)], box, s)
  BY GoHomeQuiet, UnitParts, FineModel, EditFine

LEMMA MoveFine ==
    ASSUME NEW box, NEW s, Fine(Unit, box, s), NEW row
    PROVE  Fine(MoveSelection(row), box, s)
  <1> DEFINE x == [m EXCEPT !.sel = row]
             y == ResetSelection(x)
             v == [Unit EXCEPT !.m = y]
  <1>1. Quiet(m, x)
    BY UnitParts, FineModel DEF Quiet, Fields
  <1>2. \/ MoveSelection(row) = v
        \/ MoveSelection(row) = Ask(v, "Workspace", row, 0)
    BY UnitParts DEF MoveSelection, AskIf, Ask
  <1> HIDE DEF x
  <1>3. Quiet(m, y)
    BY <1>1, ResetQuiet, QuietTrans DEF Quiet
  <1> HIDE DEF y
  <1>4. Fine(v, box, s)
    BY <1>3, UnitParts, EditFine
  <1> HIDE DEF v
  <1> QED BY <1>2, <1>4, AskFine

LEMMA EnterWorkspaceFine ==
    ASSUME NEW box, NEW s, Fine(Unit, box, s)
    PROVE  Fine(EnterWorkspace, box, s)
  <1> DEFINE x == Push(m, "Create")
             y == [x EXCEPT !.confirm = FALSE, !.dirty = FALSE]
             v == [Unit EXCEPT !.m = y]
  <1>1. EnterWorkspace = Ask(v, "Create", None, 0) \/ EnterWorkspace = OpenMenu(Unit)
    BY UnitParts DEF EnterWorkspace
  <1>2. Quiet(m, x)
    BY UnitParts, FineModel, PushQuiet
  <1> HIDE DEF x
  <1>3. Quiet(x, y)
    BY <1>2 DEF Quiet, Fields
  <1> HIDE DEF y
  <1>4. Fine(v, box, s)
    BY <1>2, <1>3, UnitParts, QuietTrans, EditFine
  <1> HIDE DEF v
  <1> QED BY <1>1, <1>4, AskFine, OpenMenuFine

LEMMA EnterCreateFine ==
    ASSUME NEW box, NEW s, Fine(Unit, box, s)
    PROVE  Fine(EnterCreate, box, s)
  <1> DEFINE a == [m EXCEPT !.confirm = TRUE]
             b == [m EXCEPT !.confirm = FALSE]
             to(y) == [Unit EXCEPT !.m = y]
  <1>1. \/ EnterCreate = to(a) \/ EnterCreate = Unit
        \/ EnterCreate = Execute(to(b), "Create", m.sel, None)
    BY UnitParts DEF EnterCreate
  <1>2. Quiet(m, a) /\ Quiet(m, b)
    BY UnitParts, FineModel DEF Quiet, Fields
  <1> HIDE DEF a, b
  <1>3. Fine(to(a), box, s) /\ Fine(to(b), box, s)
    BY <1>2, UnitParts, EditFine
  <1> HIDE DEF to
  <1> QED BY <1>1, <1>3, ExecuteFine

LEMMA EnterCancelFine ==
    ASSUME NEW box, NEW s, Fine(Unit, box, s)
    PROVE  Fine(EnterCancel, box, s)
  <1>1. Fine(Arm(Unit, "cancel"), box, s)
    BY ArmFine
  <1>2. Fine(Execute(Unit, "CancelWorkflow", m.sel, None), box, s)
    BY ExecuteFine
  <1> QED BY <1>1, <1>2 DEF EnterCancel

LEMMA EnterMigrationFine ==
    ASSUME NEW box, NEW s, Fine(Unit, box, s)
    PROVE  Fine(EnterMigration, box, s)
  <1> DEFINE d == Disarm(Unit, "migration")
             y == [d.m EXCEPT !.mig = "none"]
             v == [d EXCEPT !.m = y]
             c == IF m.mig = "prepare" THEN "PrepareMigration" ELSE "ExecuteMigration"
  <1>1. \/ EnterMigration \in {Unit, Arm(Unit, "migration")}
        \/ EnterMigration = Execute(v, c, m.sel, None)
    BY DEF EnterMigration
  <1>2. c # "Approve" /\ c # "Pause"
    OBVIOUS
  <1>3. Fine(d, box, s)
    BY DisarmFine
  <1> HIDE DEF d, c
  <1>4. Quiet(d.m, y)
    BY <1>3, FineModel DEF Quiet, Fields
  <1> HIDE DEF y
  <1>5. Fine(v, box, s)
    BY <1>3, <1>4, EditFine
  <1> HIDE DEF v
  <1>6. Fine(Execute(v, c, m.sel, None), box, s)
    BY <1>2, <1>5, ExecuteFine
  <1>7. Fine(Arm(Unit, "migration"), box, s)
    BY ArmFine
  <1> QED BY <1>1, <1>6, <1>7

(* The first Enter previews, the second approves what the first has shown. *)
LEMMA EnterApprovalFine ==
    ASSUME NEW box, NEW s, Fine(Unit, box, s),
           m.sel # None /\ "approval" \notin m.armed => m.prev \in s
    PROVE  Fine(EnterApproval, box, s)
  <1> DEFINE d == Disarm(Unit, "approval")
  <1>1. \/ EnterApproval = Unit
        \/ EnterApproval = Arm(Unit, "approval") /\ m.sel # None /\ "approval" \notin m.armed
        \/ EnterApproval = Execute(d, "Approve", m.sel, m.prev) /\ "approval" \in m.armed
    BY DEF EnterApproval
  <1>2. CASE EnterApproval = Arm(Unit, "approval") /\ m.sel # None /\ "approval" \notin m.armed
    BY <1>2, UnitParts, ArmFine
  <1>3. CASE EnterApproval = Execute(d, "Approve", m.sel, m.prev) /\ "approval" \in m.armed
    <2>1. Fine(d, box, s)
      BY DisarmFine
    <2>2. m.prev \in s
      BY <1>3, UnitParts DEF Fine, Holds, ModelOk
    <2> HIDE DEF d
    <2> QED BY <1>3, <2>1, <2>2, ExecuteFine
  <1> QED BY <1>1, <1>2, <1>3

LEMMA SwitchRefusedFine ==
    ASSUME NEW box, NEW s, Fine(Unit, box, s)
    PROVE  Fine(SwitchRefused, box, s)
  <1> DEFINE d == Disarm(Unit, "action")
             e == [k |-> "command", c |-> "none", wf |-> None, arg |-> None,
                   gen |-> 0, st |-> "err"]
             y == [d EXCEPT !.m = Pop(d.m)]
             v == SwitchRefused
  <1>1. v = [d EXCEPT !.m = Pop(d.m), !.out = {e}]
    BY DEF SwitchRefused
  <1>2. Fine(d, box, s) /\ d.out = {}
    BY DisarmFine, UnitParts
  <1> HIDE DEF d, v
  <1>3. Fine(y, box, s)
    BY <1>2, FineModel, PopQuiet, EditFine
  <1>4. DOMAIN v = UnitFields /\ v.m = y.m /\ v.cs = y.cs /\ v.runs = y.runs /\ v.out = {e}
        /\ y.out = {}
    BY <1>1, <1>2, FineModel DEF UnitFields
  <1>5. e.k = "command" /\ e.gen = 0 /\ e.c = "none" /\ e.st = "err" /\ DOMAIN e = CommandFields
    BY DEF CommandFields
  <1> HIDE DEF e, y
  <1>6. CommandOk(e, y.cs.gen, s)
    BY <1>3, <1>5 DEF CommandOk, Fine, Holds
  <1>7. Sound(box \union v.out, v.cs.gen, v.runs, s)
    BY <1>3, <1>4, <1>5, <1>6 DEF Fine, Holds, Sound
  <1>8. Awaited(v.m, box \union v.out, v.cs.gen)
    BY <1>3, <1>4, <1>5 DEF Fine, Holds, Awaited, ExitPause
  <1>9. Fine(v, box, s)
    BY <1>3, <1>4, <1>7, <1>8 DEF Fine, Holds
  <1> QED BY <1>9 DEF v

LEMMA ActionPreviewFine ==
    ASSUME NEW box, NEW s, Fine(Unit, box, s)
    PROVE  Fine(EnterActionPreview, box, s)
  <1> DEFINE u == Disarm(Unit, "action")
             sent == Execute(u, PreviewedCommand, m.sel, None)
             back == Pop(sent.m)
             launch == Pop(u.m)
             start == Push(IF Current(launch) \in StagePages
                           THEN Pop(launch) ELSE launch, "Execution")
             next == IF back.page = "WorkflowMenu" THEN Push(back, "Execution") ELSE back
  <1>1. \/ EnterActionPreview \in {Arm(Unit, "action"), sent}
        \/ EnterActionPreview = StartRunner([u EXCEPT !.m = start])
        \/ EnterActionPreview = [sent EXCEPT !.m = next]
        \/ EnterActionPreview = [sent EXCEPT !.m = back]
    BY DEF EnterActionPreview
  <1>2. Fine(u, box, s)
    BY DisarmFine
  <1>3. PreviewedCommand # "Approve"
    BY DEF PreviewedCommand
  <1> HIDE DEF u
  <1>4. Fine(sent, box, s)
    BY <1>2, <1>3, ExecuteFine DEF None
  <1> HIDE DEF sent
  <1>5. Quiet(sent.m, back) /\ Quiet(u.m, launch)
    BY <1>2, <1>4, FineModel, PopQuiet
  <1> HIDE DEF back, launch
  <1>6. Quiet(back, Push(back, "Execution"))
    BY <1>5, PushQuiet DEF Quiet
  <1>7. Quiet(sent.m, next)
    BY <1>5, <1>6, QuietTrans
  <1>8. Quiet(u.m, start)
    <2> DEFINE x == IF Current(launch) \in StagePages THEN Pop(launch) ELSE launch
    <2>1. Quiet(u.m, x)
      BY <1>5, PopQuiet, QuietTrans DEF Quiet
    <2> HIDE DEF x
    <2>2. Quiet(x, Push(x, "Execution"))
      BY <2>1, PushQuiet DEF Quiet
    <2>3. Quiet(u.m, Push(x, "Execution"))
      BY <2>1, <2>2, QuietTrans
    <2> QED BY <2>3 DEF x
  <1> HIDE DEF start, next
  <1>9. Fine([u EXCEPT !.m = start], box, s)
    BY <1>2, <1>8, EditFine
  <1>10. Fine([sent EXCEPT !.m = next], box, s) /\ Fine([sent EXCEPT !.m = back], box, s)
    BY <1>4, <1>5, <1>7, EditFine
  <1>11. Fine(Arm(Unit, "action"), box, s)
    BY ArmFine
  <1>12. Fine(StartRunner([u EXCEPT !.m = start]), box, s)
    BY <1>9, StartRunnerFine
  <1> QED BY <1>1, <1>4, <1>10, <1>11, <1>12

LEMMA EnterDiscussionFine ==
    ASSUME NEW box, NEW s, Fine(Unit, box, s), NEW u \in EnterDiscussion
    PROVE  Fine(u, box, s)
  <1> DEFINE x == [m EXCEPT !.editing = FALSE, !.handoff = TRUE]
             v == [Unit EXCEPT !.m = x]
  <1>1. \/ u = StageAction(v, "FinishDiscussion")
        \/ \E a \in DiscussionActions : u = StageAction(Unit, a)
        \/ u = OpenPage(Unit, "Cancel", "cancel")
    <2>1. [Unit EXCEPT !.m.editing = FALSE, !.m.handoff = TRUE] = v
      BY UnitParts DEF UnitFields
    <2> HIDE DEF v
    <2> QED BY <2>1 DEF EnterDiscussion
  <1>2. Quiet(m, x)
    BY UnitParts, FineModel DEF Quiet, Fields
  <1> HIDE DEF x
  <1>3. Fine(v, box, s)
    BY <1>2, UnitParts, EditFine
  <1> HIDE DEF v
  <1> QED BY <1>1, <1>3, StageActionFine, OpenPageFine

(* Every Enter; the first one on the approval page previews.               *)
LEMMA EnterFine ==
    ASSUME NEW box, inbox \subseteq box, NEW s, Fine(Unit, box, s), NEW u \in EnterKey,
           m.page = "ExecutionApproval" /\ m.sel # None /\ "approval" \notin m.armed
             => m.prev \in s
    PROVE  Fine(u, box, s)
  <1>1. \/ u \in {EnterWorkspace, EnterCreate, EnterCancel, EnterMigration,
                  EnterActionPreview, SwitchRefused}
        \/ u = EnterPauseExit /\ m.page = "PauseExit"
        \/ u = EnterApproval /\ m.page = "ExecutionApproval"
        \/ u \in EnterDiscussion
        \/ \E i \in Offered : u = RouteMenuItem(i)
    BY DEF EnterKey
  <1>2. Offered \subseteq MenuItems
    BY WorkbenchBounds
  <1>3. CASE u \in {EnterWorkspace, EnterCreate, EnterCancel, EnterMigration,
                    EnterActionPreview, SwitchRefused}
    BY <1>3, EnterWorkspaceFine, EnterCreateFine, EnterCancelFine, EnterMigrationFine,
       ActionPreviewFine, SwitchRefusedFine
  <1>4. CASE \E i \in Offered : u = RouteMenuItem(i)
    BY <1>2, <1>4, RouteFine
  <1>5. CASE u = EnterPauseExit /\ m.page = "PauseExit"
    BY <1>5, PauseExitFine
  <1>6. CASE u = EnterApproval /\ m.page = "ExecutionApproval"
    BY <1>6, EnterApprovalFine
  <1> QED BY <1>1, <1>3, <1>4, <1>5, <1>6, EnterDiscussionFine

LEMMA LetterFine ==
    ASSUME NEW box, NEW s, Fine(Unit, box, s), NEW u \in LetterKey
    PROVE  Fine(u, box, s)
  <1> DEFINE d == Disarm(Unit, "migration")
             to(c) == [d EXCEPT !.m.mig = c]
  <1>1. \/ \E c \in {"Specs", "Compile"} : u = Execute(Unit, c, m.sel, None)
        \/ \E i \in {"Resume", "StartRunner", "Adopt"} : u = StageAction(Unit, i)
        \/ \E c \in {"prepare", "execute"} : u = to(c)
    BY DEF LetterKey
  <1>2. Fine(d, box, s)
    BY DisarmFine
  <1> HIDE DEF d
  <1>3. \A c : Fine(to(c), box, s)
    <2> TAKE c
    <2> DEFINE y == [d.m EXCEPT !.mig = c]
    <2>1. Quiet(d.m, y)
      BY <1>2, FineModel DEF Quiet, Fields
    <2>2. to(c) = [d EXCEPT !.m = y]
      OBVIOUS
    <2> HIDE DEF y
    <2> QED BY <1>2, <2>1, <2>2, EditFine
  <1>4. \A c \in {"Specs", "Compile"} : Fine(Execute(Unit, c, m.sel, None), box, s)
    BY ExecuteFine
  <1> HIDE DEF to
  <1> QED BY <1>1, <1>3, <1>4, StageActionFine

-----------------------------------------------------------------------------
(* Steps.                                                                  *)

(* A key's unit becomes the state.                                         *)
LEMMA PressStep ==
    ASSUME WorkbenchInv, NEW u, Press(u), Fine(u, inbox, seen'), seen \subseteq seen'
    PROVE  WorkbenchInv' /\ (m'.quit => Freed)
  <1>1. /\ m' = u.m /\ cs' = u.cs /\ runs' = u.runs /\ inbox' = inbox \union u.out
        /\ ~terminal /\ terminal' = terminal /\ approved' = approved
    BY DEF Press, Step, Open
  <1> QED BY <1>1 DEF WorkbenchInv, Fine

(* So does the unit of an answer.                                          *)
LEMMA DeliverStep ==
    ASSUME WorkbenchInv, NEW msg, NEW u, Deliver(msg, u), Fine(u, inbox \ {msg}, seen)
    PROVE  WorkbenchInv' /\ (m'.quit => Freed)
  <1>1. /\ m' = u.m /\ cs' = u.cs /\ runs' = u.runs /\ inbox' = (inbox \ {msg}) \union u.out
        /\ ~terminal /\ terminal' = terminal /\ approved' = approved /\ seen' = seen
    BY DEF Deliver, Step, Open
  <1> QED BY <1>1 DEF WorkbenchInv, Fine

LEMMA KeyboardStep ==
    ASSUME WorkbenchInv, Keyboard
    PROVE  WorkbenchInv' /\ (m'.quit => Freed)
  <1>1. ~m.quit
    BY DEF Keyboard, PressCtrlC, PressExit, PressEsc, PressHome, PressMove, PressEnter,
           PressLetter, Press, Open
  <1>2. Fine(Unit, inbox, seen)
    BY <1>1, UnitFine
  <1>3. CASE PressCtrlC
    BY <1>2, <1>3, CtrlCFine, PressStep DEF PressCtrlC
  <1>4. CASE PressExit
    BY <1>2, <1>4, GlobalExitFine, PressStep DEF PressExit
  <1>5. CASE PressEsc
    BY <1>2, <1>5, EscFine, PressStep DEF PressEsc
  <1>6. CASE PressHome
    BY <1>2, <1>6, HomeFine, PressStep DEF PressHome
  <1>7. CASE PressMove
    <2>1. PICK row \in (m.rows \union {None}) \ {m.sel} : Press(MoveSelection(row))
      BY <1>7 DEF PressMove
    <2>2. seen' = seen
      BY <1>7 DEF PressMove
    <2> QED BY <1>2, <2>1, <2>2, MoveFine, PressStep
  <1>8. CASE PressEnter
    <2>1. PICK u \in EnterKey : Press(u)
      BY <1>8 DEF PressEnter
    <2>2. /\ seen \subseteq seen'
          /\ m.page = "ExecutionApproval" /\ m.sel # None /\ "approval" \notin m.armed
               => m.prev \in seen'
      BY <1>8 DEF PressEnter
    <2>3. Fine(Unit, inbox, seen')
      BY <1>1, <2>2, UnitFine
    <2>4. Fine(u, inbox, seen')
      BY <2>2, <2>3, EnterFine
    <2> QED BY <2>1, <2>2, <2>4, PressStep
  <1>9. CASE PressLetter
    <2>1. PICK u \in LetterKey : Press(u)
      BY <1>9 DEF PressLetter
    <2>2. seen' = seen
      BY <1>9 DEF PressLetter
    <2> QED BY <1>2, <2>1, <2>2, LetterFine, PressStep
  <1> QED BY <1>3, <1>4, <1>5, <1>6, <1>7, <1>8, <1>9 DEF Keyboard

(* A command that has been executed keeps its generation and, unless it    *)
(* created a Workflow, its argument.                                       *)
LEMMA FinishedHolds ==
    ASSUME WorkbenchInv, NEW c \in inbox, c.k = "command", c.st = "running",
           NEW st, NEW arg, arg = c.arg \/ c.c = "Create", Finished(c, st, arg),
           UNCHANGED <<m, cs, runs, seen>>
    PROVE  Holds(m, cs, runs, inbox, seen)'
  <1> DEFINE d == [c EXCEPT !.st = st, !.arg = arg]
  <1>1. CommandOk(c, cs.gen, seen) /\ c.gen # 0
    BY DEF WorkbenchInv, Holds, Sound, CommandOk
  <1>2. /\ d.k = "command" /\ d.c = c.c /\ d.gen = c.gen /\ d.arg = arg
        /\ DOMAIN d = CommandFields
    BY <1>1 DEF CommandOk, CommandFields
  <1>3. inbox' = (inbox \ {c}) \union {d}
    BY DEF Finished
  <1> HIDE DEF d
  <1>4. CommandOk(d, cs.gen, seen)
    BY <1>1, <1>2 DEF CommandOk
  <1>5. \A e \in inbox \ {c} : e.k = "command" => e.gen # d.gen
    BY <1>1, <1>2 DEF WorkbenchInv, Holds, Sound
  <1>6. Sound(inbox', cs.gen, runs, seen)
    BY <1>2, <1>3, <1>4, <1>5 DEF WorkbenchInv, Holds, Sound
  <1>7. ExitPause(d, cs.gen) => ExitPause(c, cs.gen)
    BY <1>2 DEF ExitPause
  <1>8. Awaited(m, inbox', cs.gen)
    BY <1>3, <1>7 DEF WorkbenchInv, Holds, Awaited
  <1> QED BY <1>6, <1>8 DEF WorkbenchInv, Holds

LEMMA CommitStep ==
    ASSUME WorkbenchInv, CommandCommits
    PROVE  WorkbenchInv'
  <1>1. PICK c \in Messages("command") :
          /\ c.st = "running"
          /\ approved' = IF c.c = "Approve" THEN approved \union {c.arg} ELSE approved
          /\ IF c.c = "Create"
             THEN \E w \in Created \ known :
                    known' = known \union {w} /\ Finished(c, "ok", w)
             ELSE known' = known /\ Finished(c, "ok", c.arg)
    BY DEF CommandCommits
  <1>2. c \in inbox /\ c.k = "command"
    BY DEF Messages
  <1>3. UNCHANGED <<m, cs, runs, terminal, seen>>
    BY DEF CommandCommits
  <1>4. Holds(m, cs, runs, inbox, seen)'
    BY <1>1, <1>2, <1>3, FinishedHolds
  <1>5. c.c = "Approve" => c.arg \in seen
    BY <1>2 DEF WorkbenchInv, Holds, Sound, CommandOk
  <1> QED BY <1>1, <1>3, <1>4, <1>5 DEF WorkbenchInv

LEMMA RefuseStep ==
    ASSUME WorkbenchInv, CommandRefused
    PROVE  WorkbenchInv'
  <1>1. PICK c \in Messages("command") : c.st = "running" /\ Finished(c, "err", c.arg)
    BY DEF CommandRefused
  <1>2. c \in inbox /\ c.k = "command"
    BY DEF Messages
  <1>3. UNCHANGED <<m, cs, runs, terminal, approved, seen>>
    BY DEF CommandRefused
  <1>4. Holds(m, cs, runs, inbox, seen)'
    BY <1>1, <1>2, <1>3, FinishedHolds
  <1> QED BY <1>3, <1>4 DEF WorkbenchInv

(* What is no answer may come and go.                                      *)
LEMMA OtherMessage ==
    ASSUME WorkbenchInv, NEW q, q.k \notin {"command", "runner"},
           inbox' \subseteq inbox \union {q}, UNCHANGED <<m, cs, runs, seen>>
    PROVE  Holds(m, cs, runs, inbox, seen)'
  <1>1. Sound(inbox', cs.gen, runs, seen)
    BY DEF WorkbenchInv, Holds, Sound
  <1>2. Awaited(m, inbox', cs.gen)
    BY DEF WorkbenchInv, Holds, Awaited, ExitPause
  <1> QED BY <1>1, <1>2 DEF WorkbenchInv, Holds

LEMMA TerminalStep ==
    ASSUME WorkbenchInv, TakeTerminal \/ \E ok \in BOOLEAN : NativeEnds(ok)
    PROVE  WorkbenchInv' /\ ~m'.quit
  <1>1. CASE TakeTerminal
    <2>1. PICK e \in inbox : e.k = "exec" /\ inbox' = inbox \ {e}
      BY <1>1 DEF TakeTerminal, Messages
    <2>2. UNCHANGED <<m, cs, runs, approved, seen>> /\ ~m.quit
      BY <1>1 DEF TakeTerminal, Open
    <2>3. Holds(m, cs, runs, inbox, seen)'
      BY <2>1, <2>2, OtherMessage
    <2> QED BY <2>2, <2>3 DEF WorkbenchInv
  <1>2. ASSUME NEW ok \in BOOLEAN, NativeEnds(ok) PROVE WorkbenchInv' /\ ~m'.quit
    <2> DEFINE q == [k |-> "native", ok |-> ok]
    <2>1. q.k = "native" /\ inbox' = inbox \union {q}
      BY <1>2 DEF NativeEnds
    <2> HIDE DEF q
    <2>2. UNCHANGED <<m, cs, runs, approved, seen>> /\ terminal /\ ~terminal'
      BY <1>2 DEF NativeEnds
    <2>3. Holds(m, cs, runs, inbox, seen)'
      BY <2>1, <2>2, OtherMessage
    <2> QED BY <2>2, <2>3 DEF WorkbenchInv
  <1> QED BY <1>1, <1>2

(* A Runner that returns is over and says so.                              *)
LEMMA ReturnStep ==
    ASSUME WorkbenchInv, NEW r \in DOMAIN runs, RunnerReturns(r)
    PROVE  WorkbenchInv' /\ ~m'.quit
  <1>1. PICK res : inbox' = inbox \union {[k |-> "runner", id |-> r, res |-> res]}
    BY DEF RunnerReturns
  <1> DEFINE q == [k |-> "runner", id |-> r, res |-> res]
             e == [runs[r] EXCEPT !.st = "over"]
  <1>2. q.k = "runner" /\ q.id = r /\ inbox' = inbox \union {q}
    BY <1>1
  <1> HIDE DEF q
  <1>3. runs' = [runs EXCEPT ![r] = e]
    BY DEF RunnerReturns
  <1>4. UNCHANGED <<m, cs, terminal, approved, seen>> /\ ~m.quit
    BY DEF RunnerReturns
  <1>5. DOMAIN e = RunFields /\ e.st = "over"
    BY DEF WorkbenchInv, Holds, Tracked, IsRuns, RunFields
  <1> HIDE DEF e
  <1>6. PICK S : runs \in Seq(S)
    BY DEF WorkbenchInv, Holds, Tracked, IsRuns
  <1>7. runs \in Seq(S \union {e})
    BY <1>6, SeqMonotonic
  <1>8. /\ runs' \in Seq(S \union {e}) /\ DOMAIN runs' = DOMAIN runs
        /\ \A j \in DOMAIN runs : runs'[j] = IF j = r THEN e ELSE runs[j]
    BY <1>3, <1>7, ReplaceRow
  <1>9. IsRuns(runs')
    BY <1>5, <1>8 DEF WorkbenchInv, Holds, Tracked, IsRuns
  <1>10. Tracked(m, runs')
    BY <1>5, <1>8, <1>9 DEF WorkbenchInv, Holds, Tracked
  <1>11. Sound(inbox', cs.gen, runs', seen)
    BY <1>2, <1>5, <1>8 DEF WorkbenchInv, Holds, Sound
  <1>12. Awaited(m, inbox', cs.gen)
    BY <1>2 DEF WorkbenchInv, Holds, Awaited, ExitPause
  <1> QED BY <1>4, <1>10, <1>11, <1>12 DEF WorkbenchInv, Holds

(* Every step keeps the invariant, and quits only when it may.             *)
LEMMA StepKeeps ==
    ASSUME WorkbenchInv, Next
    PROVE  WorkbenchInv' /\ (m'.quit => Freed)
  <1>1. CASE Keyboard
    BY <1>1, KeyboardStep
  <1>2. CASE DeliverProjection
    <2>0. PICK q \in Messages("projection") : \E u \in ApplyProjection(q) : Deliver(q, u)
      BY <1>2 DEF DeliverProjection
    <2>1. PICK u \in ApplyProjection(q) : Deliver(q, u)
      BY <2>0
    <2>2. ~m.quit
      BY <2>1 DEF Deliver, Open
    <2>3. Fine(Unit, inbox \ {q}, seen)
      BY <2>2, UnitFine
    <2>4. \/ u = Unit \/ u = ProjectionError(Unit, q)
          \/ \E v : u = ProjectionArrives(Unit, q, v)
      BY DEF ApplyProjection
    <2>5. Fine(u, inbox \ {q}, seen)
      BY <2>3, <2>4, ErrorFine, ArrivesFine
    <2> QED BY <2>1, <2>5, DeliverStep
  <1>3. CASE DeliverCommand
    <2>1. PICK c \in Messages("command") : c.st # "running" /\ Deliver(c, ApplyCommand(c))
      BY <1>3 DEF DeliverCommand
    <2>2. ~m.quit /\ c \in inbox /\ c.k = "command"
      BY <2>1 DEF Deliver, Open, Messages
    <2>3. Fine(ApplyCommand(c), inbox \ {c}, seen)
      BY <2>1, <2>2, CommandFine
    <2> QED BY <2>1, <2>3, DeliverStep
  <1>4. CASE DeliverRunner
    <2>1. PICK r \in Messages("runner") : Deliver(r, RunnerDone(r))
      BY <1>4 DEF DeliverRunner
    <2>2. ~m.quit /\ r \in inbox /\ r.k = "runner"
      BY <2>1 DEF Deliver, Open, Messages
    <2>3. Fine(RunnerDone(r), inbox \ {r}, seen)
      BY <2>2, RunnerDoneFine
    <2> QED BY <2>1, <2>3, DeliverStep
  <1>5. CASE DeliverNative
    <2>1. PICK n \in Messages("native") : Deliver(n, NativeDone(n))
      BY <1>5 DEF DeliverNative
    <2>2. ~m.quit
      BY <2>1 DEF Deliver, Open
    <2>3. Fine(Unit, inbox \ {n}, seen)
      BY <2>2, UnitFine
    <2>4. Fine(NativeDone(n), inbox \ {n}, seen)
      BY <2>3, NativeDoneFine
    <2> QED BY <2>1, <2>4, DeliverStep
  <1>6. CASE TakeTerminal \/ \E ok \in BOOLEAN : NativeEnds(ok)
    BY <1>6, TerminalStep
  <1>7. CASE CommandRefused
    <2>1. ~m'.quit
      BY <1>7 DEF CommandRefused
    <2> QED BY <1>7, <2>1, RefuseStep
  <1>8. CASE CommandCommits
    <2>1. ~m'.quit
      BY <1>8 DEF CommandCommits
    <2> QED BY <1>8, <2>1, CommitStep
  <1>9. CASE Recompiled
    BY <1>9 DEF Recompiled, WorkbenchInv, Holds, Sound, Awaited, Tracked
  <1>10. CASE ContextEnds
    <2>1. /\ ~m.quit /\ ~terminal /\ ctxDone' /\ Step(ContextDone)
          /\ inbox' = inbox \union ContextDone.out
          /\ UNCHANGED <<terminal, approved, seen>>
      BY <1>10 DEF ContextEnds, Open
    <2>2. Fine(ContextDone, inbox, seen)
      BY <2>1, UnitFine, ContextDoneFine
    <2> QED BY <2>1, <2>2 DEF WorkbenchInv, Fine, Step
  <1>11. CASE \E r \in DOMAIN runs : RunnerReturns(r)
    BY <1>11, ReturnStep
  <1> QED BY <1>1, <1>2, <1>3, <1>4, <1>5, <1>6, <1>7, <1>8, <1>9, <1>10, <1>11
          DEF Next, System

-----------------------------------------------------------------------------
(* The theorems.                                                           *)

(* The TUI opens with nothing armed, nothing running and one query asked.  *)
LEMMA InitKeeps ==
    ASSUME Init
    PROVE  WorkbenchInv
  <1>1. m = NewModel /\ runs = <<>> /\ approved = {} /\ terminal = FALSE
    BY DEF Init
  <1>2. DOMAIN cs = StateFields /\ cs.gen = 0
    BY DEF Init, StateFields
  <1>3. \A q \in inbox : q.k = "projection"
    BY DEF Init
  <1>4. IsNav(GoHome(NewModel).nav)
    <2>1. DOMAIN NewModel = Fields
      BY DEF NewModel, Fields
    <2> QED BY <2>1, GoHomeQuiet DEF Quiet
  <1>5. /\ DOMAIN NewModel = Fields /\ NewModel.nav = GoHome(NewModel).nav
        /\ NewModel.armed = {} /\ ~NewModel.running /\ NewModel.stop = "idle"
        /\ NewModel.page = "Workspace" /\ NewModel.prevPage = "Workspace"
    BY DEF NewModel, Fields, GoHome
  <1> HIDE DEF NewModel
  <1>6. ModelOk(m, seen)
    BY <1>1, <1>4, <1>5 DEF ModelOk
  <1>7. Tracked(m, runs)
    <2>1. runs \in Seq({}) /\ DOMAIN runs = {}
      BY <1>1
    <2> QED BY <2>1 DEF Tracked, IsRuns
  <1>8. Sound(inbox, cs.gen, runs, seen) /\ Awaited(m, inbox, cs.gen)
    BY <1>3 DEF Sound, Awaited, ExitPause
  <1> QED BY <1>1, <1>2, <1>6, <1>7, <1>8 DEF WorkbenchInv, Holds

(* Whatever the user presses and in whatever order queries, commands, the  *)
(* Runner and the terminal answer, the invariant holds (tui/app.go, Update *)
(* and its handlers).                                                      *)
THEOREM WorkbenchInvariant == Spec => []WorkbenchInv
  <1>1. Init => WorkbenchInv
    BY InitKeeps
  <1>2. WorkbenchInv /\ [Next]_vars => WorkbenchInv'
    <2>1. WorkbenchInv /\ UNCHANGED vars => WorkbenchInv'
      BY DEF vars, WorkbenchInv, Holds, Sound, Awaited, Tracked, ModelOk
    <2> QED BY <2>1, StepKeeps
  <1> QED BY <1>1, <1>2, PTL DEF Spec

(* The execution facts the Application approves are ones a first Enter has *)
(* previewed: refreshing the page disarms it, and an approval carries what *)
(* its page showed when it was armed (tui/app.go:946, 2240-2263).          *)
THEOREM ApprovalsArePreviewed == Spec => []ApprovedWasPreviewed
  <1>1. WorkbenchInv => ApprovedWasPreviewed
    BY DEF WorkbenchInv, ApprovedWasPreviewed
  <1> QED BY <1>1, WorkbenchInvariant, PTL

(* A Runner that drives is the one the Model calls running: none is        *)
(* started beside it and none is forgotten before it has answered          *)
(* (tui/app.go:99, 1597, 2523).                                            *)
THEOREM RunnersAreTracked == Spec => []RunnerIsTracked
  <1>1. WorkbenchInv => RunnerIsTracked
    BY DEF WorkbenchInv, Holds, Tracked, RunnerIsTracked
  <1> QED BY <1>1, WorkbenchInvariant, PTL

(* Pause and Exit quits when the Pause it asked for has been answered or   *)
(* overtaken, unless it is forced or the context ends, whichever of the    *)
(* Runner and the Pause comes to an end first (tui/app.go:1191, 1347-1378).*)
THEOREM ExitsWait == Spec => ExitWaitsForPause
  <1> DEFINE Waits ==
        m.stop = "pauseAndExit" /\ m'.quit /\ ~forced' /\ ~ctxDone' =>
          \A c \in Messages("command") :
            c.c = "Pause" /\ c.arg = "exit" /\ c.gen = cs.gen => c.st # "running"
  <1>1. WorkbenchInv /\ Next => Waits
    BY StepKeeps DEF Freed, ExitPause, Messages
  <1>2. WorkbenchInv /\ [Next]_vars => [Waits]_vars
    BY <1>1
  <1>3. ExitWaitsForPause <=> [][Waits]_vars
    BY PTL DEF ExitWaitsForPause
  <1> HIDE DEF Waits
  <1> QED BY <1>2, <1>3, WorkbenchInvariant, PTL DEF Spec

=============================================================================
