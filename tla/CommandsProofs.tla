--------------------------- MODULE CommandsProofs ---------------------------
(***************************************************************************)
(* The command pipeline, for any number of threads, processes, commands and *)
(* crashes: mutations of a Workflow are serial (the refinement of           *)
(* SerialStore), an upgraded database has its backup, a Session is finished *)
(* by one handoff, and a Plan without a handoff never hides a native        *)
(* Session.                                                                 *)
(*                                                                          *)
(* Everything follows from the Workflow Owner lock.  It is only ever taken  *)
(* exclusively, so a holder's process has it with one reference (Locked);   *)
(* its holder alone commits, so the version it saw is current (UpToDate); and  *)
(* what an Effect in flight was decided on is still so when its Result is   *)
(* decided (Finished, Lineage), although the command read its inputs before *)
(* any lock.                                                                *)
(***************************************************************************)
EXTENDS Commands, RowLemmas, SequenceTheorems, TLAPS

Steps == {"idle", "prepare", "resume", "recover", "recovering", "open", "migrate",
          "manifest", "apply", "lock", "sweep", "decide", "effect", "result", "done"}

Inputs == [c0 : CommandNames \union {"none"}, provider : Providers, s : Nat, p : Nat,
           cs : Nat, h : Nat, c : Nat]

Effects == {NoEffect} \union [k : {"bootstrap", "run"}, s : Nat]
           \union [k : {"stop"}, p : Nat]
           \union [k : {"write"}, what : {"handoff", "plan", "turn"}, s : Nat, cs : Nat]

Frames == [pc : Steps, in : Inputs, held : Seq(Kinds), polls : BOOLEAN,
           restricted : BOOLEAN, ver : Nat, eff : Effects, ok : BOOLEAN]

LockFiles == [mode : {"S", "X"}, refs : Int]

(* Types, and the Session a prepared command names exists.                  *)
Typed ==
    /\ agg \in Aggregates /\ PointsBack(agg)
    /\ version \in Nat /\ sets \in Nat
    /\ handoffs \in Seq([s : Nat, cs : Nat])
    /\ plans \in Seq([s : Nat, h : Nat, c : Nat])
    /\ files \in [Processes -> [Kinds -> LockFiles]]
    /\ turn \in [Processes -> Turns]
    /\ th \in [Threads -> Frames]

Prepares ==
    \A t \in Threads :
        /\ th[t].pc # "idle" => th[t].in.c0 # "none"
        /\ th[t].in.c0 \in {"Continue", "Switch", "Finish"} =>
             th[t].in.s \in DOMAIN agg.sessions

Mutates == {"sweep", "decide", "effect", "result", "done"}

Holds(t) == "owner" \in Range(th[t].held)

(* The Workflow Owner lock excludes.                                        *)
Locked ==
    /\ \A t \in Threads : th[t].pc \in Mutates => Holds(t)
    /\ \A t \in Threads : th[t].pc = "lock" =>
         th[t].held \in {<<>>, <<"schema">>, <<"schema", "writer">>}
    /\ \A t \in Threads : Holds(t) =>
         files[ProcessOf[t]]["owner"] = [mode |-> "X", refs |-> 1]
    /\ \A t, u \in Threads : Holds(t) /\ Holds(u) => t = u

(* Whoever may commit has seen the current version.                         *)
UpToDate == \A t \in Threads : th[t].pc \in Mutates => th[t].ver = version

(* Nobody applies a migration without a verified backup.                    *)
BackedUp ==
    /\ UpgradeHasBackup
    /\ db \in [schema : {"old", "current"}, backup : {"none", "copy", "verified"}]
    /\ \A t \in Threads : th[t].pc = "apply" => db.backup = "verified"

InFlight(t) == th[t].pc \in {"effect", "result"}

Ended(a, s) == s \in DOMAIN a.sessions /\ a.sessions[s].st \in SessionTerminal

(* A Session with a handoff, written or about to be, has ended.             *)
Finished ==
    /\ HandoffOnce
    /\ \A i \in DOMAIN handoffs : Ended(agg, handoffs[i].s)
    /\ \A t \in Threads : InFlight(t) => th[t].eff.k # "none"
    /\ \A t \in Threads :
         th[t].pc = "effect" /\ th[t].eff.k = "write" /\ th[t].eff.what = "handoff" =>
           /\ Ended(agg, th[t].eff.s)
           /\ \A i \in DOMAIN handoffs : handoffs[i].s # th[t].eff.s

(* No native Session older than s.                                          *)
Clear(a, s) ==
    \A p \in DOMAIN a.procs : ~ (a.procs[p].s < s /\ a.sessions[a.procs[p].s].bound)

(* What an Effect in flight rests on, from the Decision that requested it:  *)
(* a Session being bootstrapped belongs to the discussion, a headless run   *)
(* has no Process row, and a Plan without a handoff follows no native one.  *)
Rests(a, in, e) ==
    /\ e.k = "bootstrap" => a.stage # "PLAN"
    /\ e.k = "run" =>
         /\ e.s \in DOMAIN a.sessions
         /\ \A p \in DOMAIN a.procs : a.procs[p].s # e.s
         /\ a.stage = "PLAN" /\ in.h = 0 => Clear(a, e.s)
    /\ e.k = "write" /\ e.what = "plan" =>
         a.stage = "PLAN" /\ (in.h = 0 => Clear(a, e.s))

Lineage ==
    /\ \A i \in DOMAIN plans :
         agg.stage = "PLAN" /\ (plans[i].h = 0 => Clear(agg, plans[i].s))
    /\ \A t \in Threads : InFlight(t) => Rests(agg, th[t].in, th[t].eff)

CommandsInv ==
    Typed /\ Prepares /\ Locked /\ UpToDate /\ BackedUp /\ Finished /\ Lineage

-----------------------------------------------------------------------------
(* The Decisions                                                            *)

(* The first of some positions is one of them.                              *)
LEMMA FirstIsOne ==
    ASSUME NEW S, S \subseteq Nat, S # {}
    PROVE  First(S) \in S
  BY FirstRow DEF First

(* Two aggregates with the same Sessions, Processes and stage.              *)
SameTables(a, b) ==
    b \in Aggregates /\ b.sessions = a.sessions /\ b.procs = a.procs /\ b.stage = a.stage

(* startIfNeeded moves the runtime and the Run and touches neither a       *)
(* Session row nor a Process row.                                          *)
LEMMA StartKeepsTables ==
    ASSUME NEW a \in Aggregates
    PROVE  SameTables(a, StartIfNeeded(a))
  BY DEF SameTables, StartIfNeeded, Aggregates, PlanningRuntimes

(* convergeStopping closes the Run and touches neither a Session row nor a *)
(* Process row.                                                            *)
LEMMA ConvergedKeepsTables ==
    ASSUME NEW a \in Aggregates
    PROVE  SameTables(a, Converged(a))
  BY DEF SameTables, Converged, Aggregates, PlanningRuntimes

(* Rows of an aggregate.                                                    *)
LEMMA Tables ==
    ASSUME NEW a \in Aggregates
    PROVE  /\ a.sessions \in Seq(Sessions) /\ Len(a.sessions) \in Nat
           /\ DOMAIN a.sessions = 1..Len(a.sessions)
           /\ \A s \in DOMAIN a.sessions : a.sessions[s] \in Sessions
           /\ a.procs \in Seq(Procs) /\ Len(a.procs) \in Nat
           /\ DOMAIN a.procs = 1..Len(a.procs)
           /\ \A p \in DOMAIN a.procs : a.procs[p] \in Procs
  <1>1. a.sessions \in Seq(Sessions) /\ a.procs \in Seq(Procs)
    BY DEF Aggregates
  <1> QED BY <1>1, LenProperties

(* A new Session is STARTING and unbound, behind all the others.            *)
LEMMA SessionAppended ==
    ASSUME NEW a \in Aggregates, NEW provider \in Providers, PointsBack(a)
    PROVE  LET b == WithSession(a, provider) IN
           /\ b \in Aggregates /\ PointsBack(b)
           /\ b.procs = a.procs /\ b.stage = a.stage
           /\ Len(b.sessions) = Len(a.sessions) + 1
           /\ DOMAIN b.sessions = 1..(Len(a.sessions) + 1)
           /\ \A s \in DOMAIN a.sessions : b.sessions[s] = a.sessions[s]
  <1> DEFINE row == [provider |-> provider, st |-> "STARTING", bound |-> FALSE]
             b == WithSession(a, provider)
  <1>1. row \in Sessions
    BY DEF Sessions, Resumable
  <1>2. b.sessions = Append(a.sessions, row) /\ b.procs = a.procs /\ b.stage = a.stage
        /\ b = [a EXCEPT !.sessions = Append(a.sessions, row)]
    BY DEF WithSession, Aggregates
  <1>3. /\ b.sessions \in Seq(Sessions) /\ Len(b.sessions) = Len(a.sessions) + 1
        /\ DOMAIN b.sessions = 1..(Len(a.sessions) + 1)
        /\ DOMAIN a.sessions = 1..Len(a.sessions) /\ Len(a.sessions) \in Nat
        /\ \A s \in DOMAIN a.sessions : b.sessions[s] = a.sessions[s]
    <2>1. a.sessions \in Seq(Sessions)
      BY Tables
    <2> HIDE DEF row, b
    <2> QED BY <1>1, <1>2, <2>1, AppendRow
  <1>4. b \in Aggregates
    BY <1>2, <1>3 DEF Aggregates
  <1>5. PointsBack(b)
    BY <1>2, <1>3 DEF PointsBack
  <1> QED BY <1>2, <1>3, <1>4, <1>5

(* A new Process row of an existing Session.                                *)
LEMMA ProcessAppended ==
    ASSUME NEW a \in Aggregates, PointsBack(a), NEW s \in DOMAIN a.sessions
    PROVE  LET b == WithProcess(a, s) IN
           /\ b \in Aggregates /\ PointsBack(b)
           /\ b.sessions = a.sessions /\ b.stage = a.stage
  <1> DEFINE row == [s |-> s, st |-> "RUNNING"]
             b == WithProcess(a, s)
  <1>1. row \in Procs
    BY Tables DEF Procs
  <1>2. b.procs = Append(a.procs, row) /\ b.sessions = a.sessions /\ b.stage = a.stage
        /\ b = [a EXCEPT !.procs = Append(a.procs, row)]
    BY DEF WithProcess, Aggregates
  <1>3. /\ b.procs \in Seq(Procs)
        /\ DOMAIN b.procs = 1..(Len(a.procs) + 1)
        /\ DOMAIN a.procs = 1..Len(a.procs) /\ Len(a.procs) \in Nat
        /\ \A p \in DOMAIN a.procs : b.procs[p] = a.procs[p]
        /\ b.procs[Len(a.procs) + 1] = row
    BY <1>1, <1>2, Tables, AppendRow
  <1>4. b \in Aggregates
    BY <1>2, <1>3 DEF Aggregates
  <1>5. PointsBack(b)
    <2> SUFFICES ASSUME NEW p \in DOMAIN b.procs PROVE b.procs[p].s \in DOMAIN b.sessions
      BY DEF PointsBack
    <2>1. CASE p \in DOMAIN a.procs
      BY <1>2, <1>3, <2>1 DEF PointsBack
    <2>2. CASE p = Len(a.procs) + 1
      BY <1>2, <1>3, <2>2
    <2> QED BY <1>3, <2>1, <2>2
  <1> QED BY <1>2, <1>4, <1>5

(* A change of one Session row.                                             *)
SetSession(a, s, row) == [a EXCEPT !.sessions = [a.sessions EXCEPT ![s] = row]]

(* Replacing one Session row by a row of the table leaves every Process    *)
(* pointing at its Session and every other Session as it was.              *)
LEMMA SessionReplaced ==
    ASSUME NEW a \in Aggregates, PointsBack(a), NEW s, NEW row,
           s \in DOMAIN a.sessions => row \in Sessions
    PROVE  LET b == SetSession(a, s, row) IN
           /\ b \in Aggregates /\ PointsBack(b)
           /\ b.procs = a.procs /\ b.stage = a.stage
           /\ DOMAIN b.sessions = DOMAIN a.sessions
           /\ \A j \in DOMAIN a.sessions : b.sessions[j] = IF j = s THEN row ELSE a.sessions[j]
  <1> DEFINE q == [a.sessions EXCEPT ![s] = row]
             b == SetSession(a, s, row)
  <1>1. /\ q \in Seq(Sessions) /\ DOMAIN q = DOMAIN a.sessions
        /\ \A j \in DOMAIN a.sessions : q[j] = IF j = s THEN row ELSE a.sessions[j]
    BY Tables, ReplaceRow
  <1> HIDE DEF q
  <1>2. b.sessions = q /\ b.procs = a.procs /\ b.stage = a.stage /\ b \in Aggregates
    BY <1>1 DEF Aggregates, SetSession, q
  <1>3. PointsBack(b)
    BY <1>1, <1>2 DEF PointsBack
  <1> QED BY <1>1, <1>2, <1>3

(* A change of the status of one Process row.                               *)
LEMMA ProcessReplaced ==
    ASSUME NEW a \in Aggregates, PointsBack(a), NEW p, NEW st \in {"EXITED", "STOPPED"}
    PROVE  LET b == [a EXCEPT !.procs[p].st = st] IN
           /\ b \in Aggregates /\ PointsBack(b)
           /\ b.sessions = a.sessions /\ b.stage = a.stage
           /\ DOMAIN b.procs = DOMAIN a.procs
           /\ \A j \in DOMAIN a.procs : b.procs[j].s = a.procs[j].s
  <1> DEFINE row == [a.procs[p] EXCEPT !.st = st]
             q == [a.procs EXCEPT ![p] = row]
             b == [a EXCEPT !.procs[p].st = st]
  <1>1. p \in DOMAIN a.procs => row \in Procs /\ row.s = a.procs[p].s
    BY Tables DEF Procs
  <1>3. b = [a EXCEPT !.procs = q]
    OBVIOUS
  <1> HIDE DEF row, b
  <1>0. a.procs \in Seq(Procs)
    BY Tables
  <1>2. /\ q \in Seq(Procs) /\ DOMAIN q = DOMAIN a.procs
        /\ \A j \in DOMAIN a.procs : q[j] = IF j = p THEN row ELSE a.procs[j]
    BY <1>0, <1>1, ReplaceRow
  <1> HIDE DEF q
  <1>4. b.procs = q /\ b.sessions = a.sessions /\ b.stage = a.stage /\ b \in Aggregates
    BY <1>2, <1>3 DEF Aggregates
  <1>5. \A j \in DOMAIN a.procs : b.procs[j].s = a.procs[j].s
    BY <1>1, <1>2, <1>4
  <1>6. PointsBack(b)
    BY <1>2, <1>4, <1>5 DEF PointsBack
  <1> QED BY <1>2, <1>4, <1>5, <1>6 DEF b

(* What a Decision from a to b does to the tables, whatever it decides:     *)
(* they grow, an ended Session stays ended, and planning does not go back   *)
(* to the discussion nor bind an earlier Session.                           *)
Advances(a, b) ==
    /\ b \in Aggregates /\ PointsBack(b)
    /\ DOMAIN a.sessions \subseteq DOMAIN b.sessions
    /\ \A s : Ended(a, s) => Ended(b, s)
    /\ a.stage = "PLAN" => b.stage = "PLAN"
    /\ a.stage = "PLAN" => \A s \in Nat : Clear(a, s) => Clear(b, s)

(* The tables as they are.                                                  *)
LEMMA SameAdvances ==
    ASSUME NEW a \in Aggregates, PointsBack(a), NEW b, SameTables(a, b)
    PROVE  Advances(a, b)
  BY DEF Advances, SameTables, PointsBack, Ended, Clear

(* One new, unbound Session.                                                *)
LEMMA SessionAdvances ==
    ASSUME NEW a \in Aggregates, PointsBack(a), NEW b, SameTables(a, b) \/
             (b \in Aggregates /\ b.sessions = a.sessions /\ b.procs = a.procs
              /\ b.stage = "PLAN"),
           NEW provider \in Providers
    PROVE  LET d == WithSession(b, provider) IN
           /\ Advances(a, d)
           /\ d.stage = b.stage /\ d.procs = a.procs
           /\ Len(a.sessions) + 1 \in DOMAIN d.sessions
           /\ \A p \in DOMAIN d.procs : d.procs[p].s # Len(a.sessions) + 1
           /\ \A s \in DOMAIN a.sessions : d.sessions[s] = a.sessions[s]
  <1> DEFINE d == WithSession(b, provider)
  <1>0. b \in Aggregates /\ b.sessions = a.sessions /\ b.procs = a.procs /\ PointsBack(b)
        /\ (a.stage = "PLAN" => b.stage = "PLAN")
    BY DEF SameTables, PointsBack
  <1>1. /\ d \in Aggregates /\ PointsBack(d) /\ d.procs = a.procs /\ d.stage = b.stage
        /\ DOMAIN d.sessions = 1..(Len(a.sessions) + 1)
        /\ \A s \in DOMAIN a.sessions : d.sessions[s] = a.sessions[s]
    BY <1>0, SessionAppended
  <1>2. DOMAIN a.sessions = 1..Len(a.sessions) /\ Len(a.sessions) \in Nat
    BY Tables
  <1> HIDE DEF d
  <1>3. \A p \in DOMAIN a.procs : a.procs[p].s \in DOMAIN a.sessions
    BY DEF PointsBack
  <1>4. \A s : Ended(a, s) => Ended(d, s)
    BY <1>1, <1>2 DEF Ended
  <1>5. \A s \in Nat : Clear(a, s) => Clear(d, s)
    BY <1>1, <1>3 DEF Clear
  <1>6. Advances(a, d)
    BY <1>0, <1>1, <1>2, <1>4, <1>5 DEF Advances
  <1> QED BY <1>1, <1>2, <1>3, <1>6 DEF d

(* One Session row that keeps ended Sessions ended, during the discussion   *)
(* or of a Session without a Process.                                       *)
LEMMA RowAdvances ==
    ASSUME NEW a \in Aggregates, PointsBack(a), NEW s, NEW row,
           s \in DOMAIN a.sessions => row \in Sessions,
           Ended(a, s) => row.st \in SessionTerminal,
           \/ a.stage = "DISCUSSION"
           \/ s \in DOMAIN a.sessions => row.bound = a.sessions[s].bound
           \/ \A p \in DOMAIN a.procs : a.procs[p].s # s
    PROVE  Advances(a, SetSession(a, s, row))
  <1> DEFINE b == SetSession(a, s, row)
  <1>1. /\ b \in Aggregates /\ PointsBack(b)
        /\ b.procs = a.procs /\ b.stage = a.stage
        /\ DOMAIN b.sessions = DOMAIN a.sessions
        /\ \A j \in DOMAIN a.sessions : b.sessions[j] = IF j = s THEN row ELSE a.sessions[j]
    BY SessionReplaced
  <1> HIDE DEF b
  <1>2. \A j : Ended(a, j) => Ended(b, j)
    BY <1>1 DEF Ended
  <1>3. a.stage = "PLAN" => \A r \in Nat : Clear(a, r) => Clear(b, r)
    <2> SUFFICES ASSUME a.stage = "PLAN", NEW r \in Nat, Clear(a, r), NEW p \in DOMAIN b.procs
                 PROVE  ~ (b.procs[p].s < r /\ b.sessions[b.procs[p].s].bound)
      BY DEF Clear
    <2>1. p \in DOMAIN a.procs /\ b.procs[p] = a.procs[p] /\ a.procs[p].s \in DOMAIN a.sessions
      BY <1>1 DEF PointsBack
    <2>2. ~ (a.procs[p].s < r /\ a.sessions[a.procs[p].s].bound)
      BY <2>1 DEF Clear
    <2>3. CASE a.procs[p].s = s
      BY <1>1, <2>1, <2>2, <2>3
    <2>4. CASE a.procs[p].s # s
      BY <1>1, <2>1, <2>2, <2>4
    <2> QED BY <2>3, <2>4
  <1>4. Advances(a, b)
    BY <1>1, <1>2, <1>3 DEF Advances
  <1> QED BY <1>4 DEF b

(* Steps of one Decision follow each other.                                 *)
LEMMA AdvancesOn ==
    ASSUME NEW a, NEW b, NEW d, Advances(a, b), Advances(b, d)
    PROVE  Advances(a, d)
  BY DEF Advances

(* A Decision d on the aggregate a for the Input in.                        *)
Sound(a, in, d) ==
    /\ Advances(a, d.agg)
    /\ d.eff \in Effects
    /\ Rests(d.agg, in, d.eff)
    /\ d.eff.k = "write" /\ d.eff.what = "handoff" =>
         ~Ended(a, d.eff.s) /\ Ended(d.agg, d.eff.s)

(* A native Session: a Session row, its Process row and the bootstrap.      *)
LEMMA StartsNativeSound ==
    ASSUME NEW a \in Aggregates, PointsBack(a), NEW in, NEW provider \in Providers,
           a.stage = "DISCUSSION", NEW d \in StartsNative(a, provider)
    PROVE  Sound(a, in, d)
  <1> DEFINE s == NewSession(a)
             b == StartIfNeeded(a)
             c == WithSession(b, provider)
             e == WithProcess(c, s)
  <1>1. d.agg = e /\ d.eff = [k |-> "bootstrap", s |-> s]
    BY DEF StartsNative, Decided
  <1>2. SameTables(a, b)
    BY StartKeepsTables
  <1>3. s = Len(a.sessions) + 1 /\ s \in Nat
    BY Tables DEF NewSession
  <1>4. Advances(a, c) /\ c.stage = "DISCUSSION" /\ s \in DOMAIN c.sessions
    BY <1>2, <1>3, SessionAdvances DEF SameTables
  <1> HIDE DEF s, c
  <1>5. /\ e \in Aggregates /\ PointsBack(e)
        /\ e.sessions = c.sessions /\ e.stage = c.stage
    BY <1>4, ProcessAppended DEF Advances
  <1> HIDE DEF e
  <1>6. Advances(a, e)
    BY <1>4, <1>5 DEF Advances, Ended
  <1>7. d.eff \in Effects /\ Rests(e, in, d.eff) /\ d.eff.k = "bootstrap"
    BY <1>1, <1>3, <1>4, <1>5 DEF Effects, Rests
  <1> QED BY <1>1, <1>6, <1>7 DEF Sound

(* decideContinueNativeTurn: a Session that is resumed had not ended, and  *)
(* it gets its Process row.                                                *)
LEMMA ContinueSound ==
    ASSUME NEW a \in Aggregates, PointsBack(a), NEW in, in.s \in DOMAIN a.sessions,
           NEW d \in DecideContinue(a, in)
    PROVE  Sound(a, in, d)
  <1> DEFINE b == StartIfNeeded(a)
             row == [b.sessions[in.s] EXCEPT !.st = "ACTIVE"]
             c == SetSession(b, in.s, row)
             e == WithProcess(c, in.s)
  <1>1. /\ a.stage = "DISCUSSION" /\ a.sessions[in.s].st \in Resumable
        /\ d.agg = WithProcess([b EXCEPT !.sessions[in.s].st = "ACTIVE"], in.s)
        /\ d.eff = NoEffect
    BY DEF DecideContinue, DecidedIf, Decided, Refused, Discussing
  <1>2. SameTables(a, b) /\ b \in Aggregates /\ PointsBack(b) /\ b.stage = "DISCUSSION"
        /\ b.sessions = a.sessions
    BY <1>1, StartKeepsTables DEF SameTables, PointsBack
  <1>3. d.agg = e
    BY <1>1 DEF SetSession
  <1>4. row \in Sessions
    <2>1. b.sessions[in.s] \in Sessions
      BY <1>2, Tables
    <2> QED BY <2>1 DEF Sessions
  <1>5. ~Ended(b, in.s)
    BY <1>1, <1>2 DEF Ended, Resumable, SessionTerminal
  <1> HIDE DEF row, b
  <1>6. Advances(b, c) /\ c.stage = b.stage /\ DOMAIN c.sessions = DOMAIN b.sessions
    BY <1>2, <1>4, <1>5, RowAdvances, SessionReplaced
  <1>7. Advances(a, b)
    BY <1>2, SameAdvances
  <1> HIDE DEF c
  <1>8. /\ e \in Aggregates /\ PointsBack(e)
        /\ e.sessions = c.sessions /\ e.stage = c.stage
    BY <1>2, <1>6, ProcessAppended DEF Advances
  <1>9. Advances(a, c)
    BY <1>6, <1>7, AdvancesOn
  <1> HIDE DEF e
  <1>10. Advances(a, e)
    BY <1>2, <1>6, <1>8, <1>9, <1>1 DEF Advances, Ended
  <1> QED BY <1>1, <1>3, <1>10 DEF Sound, Effects, NoEffect, Rests

(* decideNativeTurnReturned: the Process ends with the turn and the Session *)
(* rests, as alive as it was.                                              *)
LEMMA ReturnSound ==
    ASSUME NEW a \in Aggregates, PointsBack(a), NEW in, NEW d \in DecideReturn(a, in)
    PROVE  Sound(a, in, d)
  <1> DEFINE b == [a EXCEPT !.procs[in.p].st = "EXITED"]
             row == [b.sessions[in.s] EXCEPT !.st = "INTERACTIVE_IDLE"]
             c == SetSession(b, in.s, row)
  <1>1. /\ a.sessions[in.s].st \in {"STARTING", "ACTIVE"}
        /\ d.agg = [a EXCEPT !.procs[in.p].st = "EXITED",
                             !.sessions[in.s].st = "INTERACTIVE_IDLE"]
        /\ d.eff = NoEffect
    BY DEF DecideReturn, DecidedIf, Decided, Refused
  <1>2. d.agg = c
    BY <1>1 DEF SetSession
  <1>3. /\ b \in Aggregates /\ PointsBack(b)
        /\ b.sessions = a.sessions /\ b.stage = a.stage
        /\ DOMAIN b.procs = DOMAIN a.procs
        /\ \A j \in DOMAIN a.procs : b.procs[j].s = a.procs[j].s
    BY ProcessReplaced
  <1> HIDE DEF b
  <1>4. Advances(a, b)
    BY <1>3 DEF Advances, Ended, Clear
  <1>5. in.s \in DOMAIN b.sessions => row \in Sessions /\ row.bound = b.sessions[in.s].bound
    <2>1. in.s \in DOMAIN b.sessions => b.sessions[in.s] \in Sessions
      BY <1>3, Tables
    <2> QED BY <2>1 DEF Sessions, Resumable
  <1>6. ~Ended(b, in.s)
    BY <1>1, <1>3 DEF Ended, SessionTerminal
  <1> HIDE DEF row
  <1>7. Advances(b, c)
    BY <1>3, <1>5, <1>6, RowAdvances
  <1>8. Advances(a, c)
    BY <1>4, <1>7, AdvancesOn
  <1> QED BY <1>1, <1>2, <1>8 DEF Sound, Effects, NoEffect, Rests

(* decideFinish ends a Session that had not ended, so the hand-off it asks *)
(* for is the first one of that Session.                                   *)
LEMMA FinishSound ==
    ASSUME NEW a \in Aggregates, PointsBack(a), NEW in \in Inputs, in.s \in DOMAIN a.sessions,
           NEW d \in DecideFinish(a, in)
    PROVE  Sound(a, in, d)
  <1> DEFINE row == [a.sessions[in.s] EXCEPT !.st = "COMPLETED"]
             b == SetSession(a, in.s, row)
  <1>1. /\ a.sessions[in.s].st \in Resumable
        /\ d.agg = [a EXCEPT !.sessions[in.s].st = "COMPLETED"]
        /\ d.eff = [k |-> "write", what |-> "handoff", s |-> in.s, cs |-> in.cs]
    BY DEF DecideFinish, DecidedIf, Decided, Refused
  <1>2. d.agg = b
    BY <1>1 DEF SetSession
  <1>3. row \in Sessions /\ row.bound = a.sessions[in.s].bound /\ row.st = "COMPLETED"
    BY Tables DEF Sessions, SessionTerminal
  <1>4. ~Ended(a, in.s)
    BY <1>1 DEF Ended, Resumable, SessionTerminal
  <1> HIDE DEF row
  <1>5. /\ Advances(a, b) /\ DOMAIN b.sessions = DOMAIN a.sessions
        /\ b.sessions[in.s] = row
    BY <1>3, <1>4, RowAdvances, SessionReplaced
  <1>6. Ended(b, in.s)
    BY <1>3, <1>5 DEF Ended, SessionTerminal
  <1>7. d.eff \in Effects /\ Rests(b, in, d.eff)
    BY <1>1 DEF Effects, Rests, Inputs
  <1> QED BY <1>1, <1>2, <1>4, <1>5, <1>6, <1>7 DEF Sound

(* decideDiscuss opens a new Session with its Process, and its effect runs *)
(* exactly that Session.                                                   *)
LEMMA DiscussSound ==
    ASSUME NEW a \in Aggregates, PointsBack(a), NEW in \in Inputs,
           NEW d \in DecideDiscuss(a, in)
    PROVE  Sound(a, in, d)
  <1> DEFINE b == StartIfNeeded(a)
             c == WithSession(b, in.provider)
  <1>1. a.stage = "DISCUSSION" /\ d.agg = c /\ d.eff = [k |-> "run", s |-> NewSession(a)]
    BY DEF DecideDiscuss, DecidedIf, Decided, Refused, Discussing
  <1>2. SameTables(a, b) /\ b.stage = "DISCUSSION"
    BY <1>1, StartKeepsTables DEF SameTables
  <1>3. NewSession(a) = Len(a.sessions) + 1 /\ NewSession(a) \in Nat
    BY Tables DEF NewSession
  <1> HIDE DEF b
  <1>4. /\ Advances(a, c) /\ c.stage = b.stage /\ Len(a.sessions) + 1 \in DOMAIN c.sessions
        /\ \A p \in DOMAIN c.procs : c.procs[p].s # Len(a.sessions) + 1
    BY <1>2, SessionAdvances DEF Inputs
  <1> HIDE DEF c
  <1>5. d.eff \in Effects /\ Rests(c, in, d.eff) /\ d.eff.k = "run"
    BY <1>1, <1>2, <1>3, <1>4 DEF Effects, Rests
  <1> QED BY <1>1, <1>4, <1>5 DEF Sound

(* Without a handoff the Kernel looks at the rows once more: no Process row *)
(* belongs to a bound Session.                                              *)
LEMMA GeneratePlanSound ==
    ASSUME NEW a \in Aggregates, PointsBack(a), NEW in \in Inputs,
           NEW d \in DecideGeneratePlan(a, in)
    PROVE  Sound(a, in, d)
  <1> DEFINE b == [StartIfNeeded(a) EXCEPT !.stage = "PLAN"]
             c == WithSession(b, in.provider)
  <1>1. /\ d.agg = c /\ d.eff = [k |-> "run", s |-> NewSession(a)]
        /\ in.h = 0 => ~HasNativeLineage(a)
    BY DEF DecideGeneratePlan, DecidedIf, Decided, Refused
  <1>2. /\ b \in Aggregates /\ b.sessions = a.sessions /\ b.procs = a.procs
        /\ b.stage = "PLAN"
    <2>1. SameTables(a, StartIfNeeded(a))
      BY StartKeepsTables
    <2> QED BY <2>1 DEF SameTables, Aggregates
  <1>3. NewSession(a) = Len(a.sessions) + 1 /\ NewSession(a) \in Nat
    BY Tables DEF NewSession
  <1> HIDE DEF b
  <1>4. /\ Advances(a, c) /\ c.stage = b.stage /\ c.procs = a.procs
        /\ Len(a.sessions) + 1 \in DOMAIN c.sessions
        /\ \A p \in DOMAIN c.procs : c.procs[p].s # Len(a.sessions) + 1
        /\ \A s \in DOMAIN a.sessions : c.sessions[s] = a.sessions[s]
    BY <1>2, SessionAdvances DEF Inputs
  <1> HIDE DEF c
  <1>5. in.h = 0 => Clear(c, NewSession(a))
    <2> SUFFICES ASSUME in.h = 0, NEW p \in DOMAIN c.procs
                 PROVE  ~ c.sessions[c.procs[p].s].bound
      BY DEF Clear
    <2>1. p \in DOMAIN a.procs /\ c.procs[p].s = a.procs[p].s
          /\ a.procs[p].s \in DOMAIN a.sessions
      BY <1>4 DEF PointsBack
    <2>2. ~ a.sessions[a.procs[p].s].bound
      BY <1>1, <2>1 DEF HasNativeLineage
    <2> QED BY <1>4, <2>1, <2>2
  <1>6. d.eff \in Effects /\ Rests(c, in, d.eff) /\ d.eff.k = "run"
    BY <1>1, <1>2, <1>3, <1>4, <1>5 DEF Effects, Rests
  <1> QED BY <1>1, <1>4, <1>6 DEF Sound

(* A stop names a Process row, or there is none left.                       *)
LEMMA StopIsEffect ==
    ASSUME NEW a \in Aggregates
    PROVE  /\ StopNext(RunningProcs(a)) \in Effects
           /\ StopNext(RunningProcs(a)).k \in {"none", "stop"}
  <1>1. RunningProcs(a) \subseteq Nat
    BY Tables DEF RunningProcs
  <1>2. RunningProcs(a) # {} => First(RunningProcs(a)) \in Nat
    BY <1>1, FirstIsOne
  <1> QED BY <1>2 DEF StopNext, Effects, NoEffect

(* decidePause asks for stops only; the tables of Sessions and Processes   *)
(* stay.                                                                   *)
LEMMA PauseSound ==
    ASSUME NEW a \in Aggregates, PointsBack(a), NEW in, NEW d \in DecidePause(a)
    PROVE  Sound(a, in, d)
  <1> DEFINE b == [a EXCEPT !.runtime = "PAUSED", !.run = "STOPPING"]
  <1>1. d.agg = Converged(b) /\ d.eff = StopNext(RunningProcs(a))
    BY DEF DecidePause, DecidedIf, Decided, Refused
  <1>2. SameTables(a, b)
    BY DEF SameTables, Aggregates, PlanningRuntimes
  <1>3. SameTables(a, Converged(b))
    BY <1>2, ConvergedKeepsTables DEF SameTables
  <1>4. Advances(a, d.agg)
    BY <1>1, <1>3, SameAdvances
  <1> QED BY <1>1, <1>4, StopIsEffect DEF Sound, Rests

(* Whatever the Kernel decides on a command is sound.                       *)
LEMMA DecideSound ==
    ASSUME NEW a \in Aggregates, PointsBack(a), NEW in \in Inputs,
           in.c0 \in CommandNames \ {"Freeze"},
           in.c0 \in {"Continue", "Switch", "Finish"} => in.s \in DOMAIN a.sessions,
           NEW d \in Decide(a, in)
    PROVE  Sound(a, in, d)
  <1>0. in.provider \in Providers
    BY DEF Inputs
  <1>1. CASE in.c0 = "Prepare"
    BY <1>0, <1>1, StartsNativeSound
       DEF Decide, DecidePrepareNative, Discussing, Refused
  <1>2. CASE in.c0 = "Continue"
    BY <1>2, ContinueSound DEF Decide
  <1>3. CASE in.c0 = "Switch"
    BY <1>0, <1>3, StartsNativeSound DEF Decide, DecideSwitchAgent, Discussing, Refused
  <1>4. CASE in.c0 = "Return"
    BY <1>4, ReturnSound DEF Decide
  <1>5. CASE in.c0 = "Finish"
    BY <1>5, FinishSound DEF Decide
  <1>6. CASE in.c0 = "Discuss"
    BY <1>6, DiscussSound DEF Decide
  <1>7. CASE in.c0 = "Plan"
    BY <1>7, GeneratePlanSound DEF Decide
  <1>8. CASE in.c0 = "Pause"
    BY <1>8, PauseSound DEF Decide
  <1> QED BY <1>1, <1>2, <1>3, <1>4, <1>5, <1>6, <1>7, <1>8 DEF CommandNames

-----------------------------------------------------------------------------
(* The Results                                                              *)

(* The recorded thread binds a Session that was STARTING.                  *)
LEMMA BootstrapSound ==
    ASSUME NEW a \in Aggregates, PointsBack(a), NEW in, NEW s, a.stage # "PLAN",
           NEW d \in BootstrapEstablished(a, s)
    PROVE  Sound(a, in, d)
  <1> DEFINE row == [a.sessions[s] EXCEPT !.bound = TRUE]
             b == SetSession(a, s, row)
  <1>1. /\ a.sessions[s].st = "STARTING" /\ d.eff = NoEffect
        /\ d.agg = [a EXCEPT !.sessions[s].bound = TRUE]
    <2> DEFINE x == [a EXCEPT !.sessions[s].bound = TRUE]
    <2>1. d \in DecidedIf(a.sessions[s].st = "STARTING", x, NoEffect)
      BY DEF BootstrapEstablished
    <2> HIDE DEF x
    <2>2. a.sessions[s].st = "STARTING" /\ d.eff = NoEffect /\ d.agg = x
      BY <2>1 DEF DecidedIf, Decided, Refused
    <2> QED BY <2>2 DEF x
  <1>2. d.agg = b /\ a.stage = "DISCUSSION"
    BY <1>1 DEF SetSession, Aggregates
  <1>3. s \in DOMAIN a.sessions => row \in Sessions
    BY Tables DEF Sessions
  <1>4. ~Ended(a, s)
    BY <1>1 DEF Ended, SessionTerminal
  <1> HIDE DEF row
  <1>5. Advances(a, b)
    BY <1>2, <1>3, <1>4, RowAdvances
  <1> QED BY <1>1, <1>2, <1>5 DEF Sound, Effects, NoEffect, Rests

(* The run's own Session is bound when it ends; it has no Process row.      *)
LEMMA RunEndedSound ==
    ASSUME NEW a \in Aggregates, PointsBack(a), NEW in, NEW s \in Nat, NEW ok \in BOOLEAN,
           Rests(a, in, [k |-> "run", s |-> s]),
           NEW d \in RunEnded(a, s, ok)
    PROVE  Sound(a, in, d)
  <1>0. /\ s \in DOMAIN a.sessions
        /\ \A p \in DOMAIN a.procs : a.procs[p].s # s
        /\ a.stage = "PLAN" /\ in.h = 0 => Clear(a, s)
    BY DEF Rests
  <1>1. CASE ok
    <2> DEFINE row == [a.sessions[s] EXCEPT !.st = "COMPLETED", !.bound = TRUE]
               b == SetSession(a, s, row)
    <2>1. /\ d.agg = [a EXCEPT !.sessions[s].st = "COMPLETED", !.sessions[s].bound = TRUE]
          /\ d.eff = [k |-> "write", s |-> s, cs |-> 0,
                      what |-> IF a.stage = "PLAN" THEN "plan" ELSE "turn"]
      BY <1>1 DEF RunEnded, Decided
    <2>2. d.agg = b
      BY <1>0, <2>1 DEF SetSession, Aggregates
    <2>3. s \in DOMAIN a.sessions => row \in Sessions /\ row.st \in SessionTerminal
      <3>1. s \in DOMAIN a.sessions => a.sessions[s] \in Sessions
        BY Tables
      <3> QED BY <3>1 DEF Sessions, SessionTerminal
    <2>4. Ended(a, s) => row.st \in SessionTerminal
      BY <2>3 DEF Ended
    <2> HIDE DEF row
    <2>5. Advances(a, b) /\ b.stage = a.stage
      BY <1>0, <2>3, <2>4, RowAdvances, SessionReplaced
    <2> HIDE DEF b
    <2>6. d.eff \in Effects /\ d.eff.what # "handoff"
      BY <2>1 DEF Effects
    <2>7. Rests(b, in, d.eff)
      BY <1>0, <2>1, <2>5 DEF Rests, Advances
    <2> QED BY <2>2, <2>5, <2>6, <2>7 DEF Sound
  <1>2. CASE ~ok
    <2> DEFINE row == [a.sessions[s] EXCEPT !.st = "FAILED"]
               b == SetSession(a, s, row)
    <2>1. d.agg = [a EXCEPT !.sessions[s].st = "FAILED"] /\ d.eff = NoEffect
      BY <1>2 DEF RunEnded, Decided
    <2>2. d.agg = b
      BY <2>1 DEF SetSession
    <2>3. s \in DOMAIN a.sessions => row \in Sessions /\ row.st \in SessionTerminal
      <3>1. s \in DOMAIN a.sessions => a.sessions[s] \in Sessions
        BY Tables
      <3> QED BY <3>1 DEF Sessions, SessionTerminal
    <2>4. Ended(a, s) => row.st \in SessionTerminal
      BY <2>3 DEF Ended
    <2> HIDE DEF row
    <2>5. Advances(a, b)
      BY <1>0, <2>3, <2>4, RowAdvances
    <2> QED BY <2>1, <2>2, <2>5 DEF Sound, Effects, NoEffect, Rests
  <1> QED BY <1>1, <1>2

(* A stop ends one Process row; its effects are stops of the others.       *)
LEMMA StoppedSound ==
    ASSUME NEW a \in Aggregates, PointsBack(a), NEW in, NEW p,
           NEW d \in ProcessStopped(a, p)
    PROVE  Sound(a, in, d)
  <1> DEFINE b == [a EXCEPT !.procs[p].st = "STOPPED"]
  <1>1. /\ d.agg = Converged(b)
        /\ d.eff = StopNext(RunningProcs(b)) \/ d.eff = NoEffect
    BY DEF ProcessStopped, DecidedIf, Decided, Refused
  <1>2. /\ b \in Aggregates /\ PointsBack(b)
        /\ b.sessions = a.sessions /\ b.stage = a.stage
        /\ DOMAIN b.procs = DOMAIN a.procs
        /\ \A j \in DOMAIN a.procs : b.procs[j].s = a.procs[j].s
    BY ProcessReplaced
  <1> HIDE DEF b
  <1>3. Advances(a, b)
    BY <1>2 DEF Advances, Ended, Clear
  <1>4. Advances(b, Converged(b))
    BY <1>2, ConvergedKeepsTables, SameAdvances
  <1>5. Advances(a, Converged(b))
    BY <1>3, <1>4, AdvancesOn
  <1>6. d.eff \in Effects /\ d.eff.k \in {"none", "stop"}
    BY <1>1, <1>2, StopIsEffect DEF Effects, NoEffect
  <1> QED BY <1>1, <1>5, <1>6 DEF Sound, Rests

(* Whatever the Kernel decides on the Result of an Effect is sound, when    *)
(* what the Effect rests on still holds.                                    *)
LEMMA DecideResultSound ==
    ASSUME NEW a \in Aggregates, PointsBack(a), NEW in, NEW e \in Effects, NEW ok \in BOOLEAN,
           e.k # "none", Rests(a, in, e), NEW d \in DecideResult(a, e, ok)
    PROVE  Sound(a, in, d)
  <1>1. CASE e.k = "bootstrap"
    BY <1>1, BootstrapSound DEF DecideResult, Rests
  <1>2. CASE e.k = "run"
    <2>1. e = [k |-> "run", s |-> e.s] /\ e.s \in Nat
      BY <1>2 DEF Effects, NoEffect
    <2> QED BY <1>2, <2>1, RunEndedSound DEF DecideResult
  <1>3. CASE e.k = "stop"
    BY <1>3, StoppedSound DEF DecideResult
  <1>4. CASE e.k = "write"
    <2>1. d.agg = a /\ d.eff = NoEffect
      BY <1>4 DEF DecideResult, ArtifactWritten, Decided
    <2>2. Advances(a, a)
      BY SameAdvances DEF SameTables
    <2> QED BY <2>1, <2>2 DEF Sound, Effects, NoEffect, Rests
  <1> QED BY <1>1, <1>2, <1>3, <1>4 DEF Effects, NoEffect

-----------------------------------------------------------------------------
(* The locks                                                                *)

(* A thread that goes on, or ends, holding what it held or nothing.         *)
LEMMA FrameSet ==
    ASSUME Typed, NEW t \in Threads, NEW f \in Frames, th' = [th EXCEPT ![t] = f]
    PROVE  /\ th' \in [Threads -> Frames] /\ th'[t] = f
           /\ \A u \in Threads \ {t} : th'[u] = th[u]
  BY DEF Typed

(* Nothing is taken or released.                                            *)
LEMMA KeepsLocks ==
    ASSUME Typed, Locked, NEW t \in Threads, NEW f \in Frames, th' = [th EXCEPT ![t] = f],
           UNCHANGED files, f.held = th[t].held,
           f.pc \in Mutates => th[t].pc \in Mutates,
           f.pc = "lock" => th[t].pc = "lock"
    PROVE  Locked'
  <1>1. /\ th'[t] = f /\ \A u \in Threads \ {t} : th'[u] = th[u]
    BY FrameSet
  <1>2. \A u \in Threads : th'[u].held = th[u].held
    BY <1>1
  <1> QED BY <1>1, <1>2 DEF Locked, Holds

(* releaseHolds: the thread's files are dropped, those of the others stay.  *)
LEMMA ReleasesLocks ==
    ASSUME Typed, Locked, NEW t \in Threads, NEW f \in Frames, th' = [th EXCEPT ![t] = f],
           files' = Released(t), f.held = <<>>, f.pc \notin Mutates
    PROVE  Locked' /\ files' \in [Processes -> [Kinds -> LockFiles]]
  <1>0. ProcessOf[t] \in Processes /\ "owner" \in Kinds
    BY ThreadsAssumption DEF Kinds
  <1>1. /\ th'[t] = f /\ \A u \in Threads \ {t} : th'[u] = th[u]
    BY FrameSet
  <1>2. \A p \in Processes, k \in Kinds : files[p][k] \in LockFiles
    BY DEF Typed
  <1> DEFINE mine == files[ProcessOf[t]]
             kept == [k \in Kinds |-> Dropped(mine[k], k \in Range(th[t].held))]
  <1>3. kept \in [Kinds -> LockFiles]
    <2> SUFFICES ASSUME NEW k \in Kinds
                 PROVE  Dropped(mine[k], k \in Range(th[t].held)) \in LockFiles
      OBVIOUS
    <2>1. mine[k] \in LockFiles
      BY <1>0, <1>2
    <2> HIDE DEF mine
    <2> QED BY <2>1 DEF Dropped, LockFiles, Free
  <1>a. files' = [files EXCEPT ![ProcessOf[t]] = kept]
        /\ kept["owner"] = Dropped(mine["owner"], "owner" \in Range(th[t].held))
    BY <1>0 DEF Released
  <1> HIDE DEF kept
  <1>4. /\ files' \in [Processes -> [Kinds -> LockFiles]]
        /\ \A p \in Processes \ {ProcessOf[t]} : files'[p] = files[p]
        /\ files'[ProcessOf[t]]["owner"] = Dropped(mine["owner"], "owner" \in Range(th[t].held))
    BY <1>0, <1>3, <1>a DEF Typed
  <1>5. ~Holds(t)'
    BY <1>1 DEF Holds, Range
  <1>6. \A u \in Threads : Holds(u)' => u # t /\ Holds(u)
    BY <1>1, <1>5 DEF Holds
  <1>7. ASSUME NEW u \in Threads, Holds(u)'
        PROVE  files'[ProcessOf[u]]["owner"] = [mode |-> "X", refs |-> 1]
    <2>1. u # t /\ Holds(u) /\ files[ProcessOf[u]]["owner"] = [mode |-> "X", refs |-> 1]
      BY <1>6, <1>7 DEF Locked
    <2>2. ~Holds(t)
      BY <2>1 DEF Locked
    <2>3. ProcessOf[u] \in Processes
      BY ThreadsAssumption
    <2>4. CASE ProcessOf[u] = ProcessOf[t]
      BY <1>4, <2>1, <2>2, <2>4 DEF Dropped, Holds
    <2>5. CASE ProcessOf[u] # ProcessOf[t]
      BY <1>4, <2>1, <2>3, <2>5
    <2> QED BY <2>4, <2>5
  <1>8. \A u \in Threads : th'[u].pc \in Mutates => Holds(u)'
    BY <1>1 DEF Locked, Holds
  <1>9. \A u \in Threads : th'[u].pc = "lock" =>
          th'[u].held \in {<<>>, <<"schema">>, <<"schema", "writer">>}
    BY <1>1 DEF Locked
  <1>10. \A u, v \in Threads : Holds(u)' /\ Holds(v)' => u = v
    BY <1>6 DEF Locked
  <1> QED BY <1>4, <1>7, <1>8, <1>9, <1>10 DEF Locked, Holds

(* A lock the thread takes was free to take; the Workflow Owner lock is     *)
(* then held by nobody.                                                     *)
LEMMA TakesLock ==
    ASSUME Typed, Locked, NEW t \in Threads, NEW k \in Kinds, NEW mode \in {"S", "X"},
           NEW new \in Frames, Takes(t, k, mode, new),
           new.held = th[t].held,
           k = "owner" => mode = "X" /\ new.pc = "sweep",
           k # "owner" => new.pc \notin Mutates,
           new.pc = "lock" =>
             Append(new.held, k) \in {<<>>, <<"schema">>, <<"schema", "writer">>}
    PROVE  /\ Locked' /\ files' \in [Processes -> [Kinds -> LockFiles]]
           /\ \E f \in Frames :
                /\ th' = [th EXCEPT ![t] = f]
                /\ f.pc = new.pc /\ f.in = new.in /\ f.ver = new.ver /\ f.eff = new.eff
  <1> DEFINE f == [new EXCEPT !.held = Append(new.held, k), !.polls = FALSE]
             p == ProcessOf[t]
  <1>0. p \in Processes /\ "owner" \in Kinds /\ new.held \in Seq(Kinds)
    BY ThreadsAssumption DEF Kinds, Frames
  <1>1. f \in Frames /\ f.pc = new.pc /\ f.in = new.in /\ f.ver = new.ver /\ f.eff = new.eff
        /\ f.held = Append(new.held, k)
    <2>1. Append(new.held, k) \in Seq(Kinds)
      BY <1>0, AppendRow
    <2> QED BY <2>1 DEF Frames
  <1>2. th' = [th EXCEPT ![t] = f]
    BY DEF Takes
  <1> HIDE DEF f
  <1>3. /\ th'[t] = f /\ \A u \in Threads \ {t} : th'[u] = th[u]
    BY <1>1, <1>2, FrameSet
  <1>4. /\ files[p] \in [Kinds -> LockFiles] /\ files[p][k] \in LockFiles
        /\ files' = [files EXCEPT ![p] = [files[p] EXCEPT ![k] =
                       [mode |-> mode, refs |-> files[p][k].refs + 1]]]
    BY <1>0 DEF Takes, Typed
  <1>5. /\ files' \in [Processes -> [Kinds -> LockFiles]]
        /\ files'[p][k] = [mode |-> mode, refs |-> files[p][k].refs + 1]
        /\ \A q \in Processes, j \in Kinds : q # p \/ j # k => files'[q][j] = files[q][j]
    <2> DEFINE l == [mode |-> mode, refs |-> files[p][k].refs + 1]
               g == [files[p] EXCEPT ![k] = l]
    <2>1. l \in LockFiles
      BY <1>4 DEF LockFiles
    <2> HIDE DEF l
    <2>2. /\ g \in [Kinds -> LockFiles] /\ g[k] = l
          /\ \A j \in Kinds : j # k => g[j] = files[p][j]
      BY <1>4, <2>1
    <2>3. files \in [Processes -> [Kinds -> LockFiles]] /\ files' = [files EXCEPT ![p] = g]
      BY <1>4 DEF Typed, l
    <2> HIDE DEF g, p
    <2>4. /\ files' \in [Processes -> [Kinds -> LockFiles]] /\ files'[p] = g
          /\ \A q \in Processes : q # p => files'[q] = files[q]
      BY <1>0, <2>2, <2>3
    <2> QED BY <2>2, <2>4 DEF l
  <1>6. \A x : x \in Range(f.held) <=> x \in Range(th[t].held) \/ x = k
    <2>1. /\ DOMAIN f.held = 1..(Len(new.held) + 1)
          /\ DOMAIN new.held = 1..Len(new.held) /\ Len(new.held) \in Nat
          /\ \A j \in DOMAIN new.held : f.held[j] = new.held[j]
          /\ f.held[Len(new.held) + 1] = k
      BY <1>0, <1>1, AppendRow
    <2> DEFINE n == Len(new.held)
               h == f.held
    <2>2. /\ n \in Nat /\ DOMAIN h = 1..(n + 1) /\ DOMAIN new.held = 1..n
          /\ \A j \in 1..n : h[j] = new.held[j]
          /\ h[n + 1] = k /\ th[t].held = new.held
      BY <2>1
    <2> HIDE DEF n, h
    <2>3. \A x : x \in Range(h) <=> \E j \in 1..(n + 1) : h[j] = x
      BY <2>2 DEF Range
    <2>4. \A x : x \in Range(th[t].held) <=> \E j \in 1..n : new.held[j] = x
      BY <2>2 DEF Range
    <2>5. \A j : j \in 1..(n + 1) <=> j \in 1..n \/ j = n + 1
      BY <2>2
    <2>6. \A x : x \in Range(h) <=> x \in Range(th[t].held) \/ x = k
      BY <2>2, <2>3, <2>4, <2>5
    <2> QED BY <2>6 DEF h
  <1>7. CASE k # "owner"
    <2>1. \A u \in Threads : Holds(u)' <=> Holds(u)
      BY <1>3, <1>6, <1>7 DEF Holds
    <2>2. \A u \in Threads :
            files'[ProcessOf[u]]["owner"] = files[ProcessOf[u]]["owner"]
      BY <1>0, <1>5, <1>7, ThreadsAssumption
    <2>3. /\ \A u \in Threads : th'[u].pc \in Mutates => Holds(u)'
          /\ \A u \in Threads : th'[u].pc = "lock" =>
               th'[u].held \in {<<>>, <<"schema">>, <<"schema", "writer">>}
      BY <1>1, <1>3, <1>7, <2>1 DEF Locked
    <2>4. Locked'
      BY <2>1, <2>2, <2>3 DEF Locked, Holds
    <2> QED BY <1>1, <1>2, <1>5, <2>4
  <1>8. CASE k = "owner"
    <2>1. files[p]["owner"].refs = 0
      BY <1>8 DEF Takes, Shares
    <2>2. \A q \in Processes : files[q]["owner"].refs = 0
      BY <1>8, <2>1 DEF Takes, Compatible, Shares
    <2>3. \A u \in Threads : ~Holds(u)
      BY <2>2, ThreadsAssumption DEF Locked
    <2>4. \A u \in Threads : Holds(u)' <=> u = t
      BY <1>3, <1>6, <1>8, <2>3 DEF Holds
    <2>5. files'[p]["owner"] = [mode |-> "X", refs |-> 1]
      BY <1>5, <1>8, <2>1
    <2>6. /\ \A u \in Threads : th'[u].pc \in Mutates => Holds(u)'
          /\ \A u \in Threads : th'[u].pc = "lock" =>
               th'[u].held \in {<<>>, <<"schema">>, <<"schema", "writer">>}
      BY <1>1, <1>3, <1>8, <2>3, <2>4 DEF Locked
    <2>7. Locked'
      BY <2>4, <2>5, <2>6 DEF Locked, Holds
    <2> QED BY <1>1, <1>2, <1>5, <2>7
  <1> QED BY <1>7, <1>8

-----------------------------------------------------------------------------
(* Steps that leave the aggregate and the written files alone               *)

(* The frame f a thread t may go on with: it claims no more than the thread *)
(* did, or what holds now.                                                  *)
Follows(t, f) ==
    /\ f.pc # "idle" => f.in.c0 # "none"
    /\ f.in.c0 \in {"Continue", "Switch", "Finish"} => f.in.s \in DOMAIN agg.sessions
    /\ f.pc \in Mutates => f.ver = version
    /\ f.pc = "apply" => db.backup = "verified"
    /\ f.pc \in {"effect", "result"} =>
         /\ InFlight(t) /\ f.eff = th[t].eff /\ f.in = th[t].in
         /\ f.pc = "effect" => th[t].pc = "effect"

(* A thread without a command is well typed and is owed nothing.           *)
LEMMA IdleFrame ==
    /\ Idle \in Frames /\ NoInput \in Inputs /\ Idle.pc = "idle" /\ Idle.held = <<>>
    /\ \A t \in Threads : Follows(t, Idle)
  <1>1. NoInput \in Inputs /\ NoInput.c0 = "none"
    BY ProvidersAssumption DEF NoInput, Inputs, CommandNames
  <1>2. NoEffect \in Effects /\ <<>> \in Seq(Kinds)
    BY DEF Effects
  <1>3. Idle \in Frames
    BY <1>1, <1>2 DEF Idle, Frames, Steps
  <1> QED BY <1>1, <1>3 DEF Idle, Follows, Mutates

(* The database is left alone.                                              *)
LEMMA DatabaseKept ==
    ASSUME CommandsInv, UNCHANGED db, opened' # {} => db.schema = "current",
           \A u \in Threads : th'[u] = th[u] \/ Follows(u, th'[u])
    PROVE  BackedUp'
  BY DEF CommandsInv, BackedUp, UpgradeHasBackup, Follows

(* Threads move, nothing else but the locks, the turns, the frozen sets and *)
(* the database file.                                                       *)
LEMMA ThreadsMove ==
    ASSUME CommandsInv, UNCHANGED <<agg, version, handoffs, plans>>,
           sets' \in Nat, turn' \in [Processes -> Turns],
           files' \in [Processes -> [Kinds -> LockFiles]],
           th' \in [Threads -> Frames],
           \A u \in Threads : th'[u] = th[u] \/ Follows(u, th'[u]),
           BackedUp', Locked'
    PROVE  CommandsInv'
  <1>1. Typed'
    BY DEF CommandsInv, Typed
  <1>2. Prepares'
    BY DEF CommandsInv, Prepares, Follows
  <1>3. UpToDate'
    BY DEF CommandsInv, UpToDate, Follows
  <1>5. \A u \in Threads : InFlight(u)' =>
          /\ InFlight(u) /\ th'[u].eff = th[u].eff /\ th'[u].in = th[u].in
          /\ th'[u].pc = "effect" => th[u].pc = "effect"
    BY DEF Follows, InFlight
  <1>6. Finished'
    BY <1>5 DEF CommandsInv, Finished, HandoffOnce, InFlight
  <1>7. Lineage'
    <2>1. \A u \in Threads : InFlight(u)' => Rests(agg', th'[u].in, th'[u].eff)
      BY <1>5 DEF CommandsInv, Lineage
    <2> QED BY <2>1 DEF CommandsInv, Lineage, InFlight
  <1> QED BY <1>1, <1>2, <1>3, <1>6, <1>7 DEF CommandsInv

(* One thread moves without touching a lock.                                *)
LEMMA ThreadMoves ==
    ASSUME CommandsInv, UNCHANGED <<agg, version, db, handoffs, plans, files, opened>>,
           sets' \in Nat, turn' \in [Processes -> Turns],
           NEW t \in Threads, NEW f \in Frames, th' = [th EXCEPT ![t] = f],
           Follows(t, f), f.held = th[t].held,
           f.pc \in Mutates => th[t].pc \in Mutates,
           f.pc = "lock" => th[t].pc = "lock"
    PROVE  CommandsInv'
  <1>1. Locked'
    BY KeepsLocks DEF CommandsInv
  <1>2. /\ th' \in [Threads -> Frames]
        /\ \A u \in Threads : th'[u] = th[u] \/ Follows(u, th'[u])
    BY FrameSet DEF CommandsInv
  <1>3. files' \in [Processes -> [Kinds -> LockFiles]] /\ (opened' # {} => db.schema = "current")
    BY DEF CommandsInv, Typed, BackedUp, UpgradeHasBackup
  <1> QED BY <1>1, <1>2, <1>3, DatabaseKept, ThreadsMove

(* One thread releases what it holds.                                       *)
LEMMA ThreadReleases ==
    ASSUME CommandsInv, UNCHANGED <<agg, version, db, handoffs, plans>>,
           sets' \in Nat, turn' \in [Processes -> Turns],
           NEW t \in Threads, NEW f \in Frames, th' = [th EXCEPT ![t] = f],
           files' = Released(t), f.held = <<>>, f.pc \notin Mutates, Follows(t, f),
           opened' # {} => db.schema = "current"
    PROVE  CommandsInv'
  <1>1. Locked' /\ files' \in [Processes -> [Kinds -> LockFiles]]
    BY ReleasesLocks DEF CommandsInv
  <1>2. /\ th' \in [Threads -> Frames]
        /\ \A u \in Threads : th'[u] = th[u] \/ Follows(u, th'[u])
    BY FrameSet DEF CommandsInv
  <1> QED BY <1>1, <1>2, DatabaseKept, ThreadsMove

(* A command that returns, with whatever it holds.                          *)
LEMMA ReturnKeeps ==
    ASSUME CommandsInv, UNCHANGED <<agg, version, db, handoffs, plans, sets>>,
           turn' \in [Processes -> Turns],
           NEW t \in Threads, Return(t)
    PROVE  CommandsInv'
  <1>1. th' = [th EXCEPT ![t] = Idle] /\ files' = Released(t) /\ UNCHANGED opened
    BY DEF Return
  <1>2. Idle \in Frames /\ Idle.held = <<>> /\ Idle.pc \notin Mutates /\ Follows(t, Idle)
    BY IdleFrame DEF Mutates
  <1>3. sets' \in Nat /\ (opened' # {} => db.schema = "current")
    BY <1>1 DEF CommandsInv, Typed, BackedUp, UpgradeHasBackup
  <1> QED BY <1>1, <1>2, <1>3, ThreadReleases

(* A lock of the batch, or of Recovery and the opening of the Store.        *)
LEMMA AcquireKeeps ==
    ASSUME CommandsInv, UNCHANGED <<agg, version, db, handoffs, plans, sets, turn>>,
           NEW t \in Threads, NEW k \in Kinds, NEW mode \in {"S", "X"}, NEW new \in Frames,
           Acquire(t, k, mode, new),
           new.held = th[t].held, Follows(t, new),
           k = "owner" => mode = "X" /\ new.pc = "sweep",
           k # "owner" => new.pc \notin Mutates,
           new.pc = "lock" =>
             Append(new.held, k) \in {<<>>, <<"schema">>, <<"schema", "writer">>}
    PROVE  CommandsInv'
  <1>0. turn' \in [Processes -> Turns] /\ sets' \in Nat
    BY DEF CommandsInv, Typed
  <1>1. CASE Takes(t, k, mode, new)
    <2>1. /\ Locked' /\ files' \in [Processes -> [Kinds -> LockFiles]]
          /\ \E f \in Frames :
               /\ th' = [th EXCEPT ![t] = f]
               /\ f.pc = new.pc /\ f.in = new.in /\ f.ver = new.ver /\ f.eff = new.eff
      BY <1>1, TakesLock DEF CommandsInv
    <2>2. PICK f \in Frames :
            /\ th' = [th EXCEPT ![t] = f]
            /\ f.pc = new.pc /\ f.in = new.in /\ f.ver = new.ver /\ f.eff = new.eff
      BY <2>1
    <2>3. Follows(t, f)
      BY <2>2 DEF Follows
    <2>4. /\ th' \in [Threads -> Frames]
          /\ \A u \in Threads : th'[u] = th[u] \/ Follows(u, th'[u])
      BY <2>2, <2>3, FrameSet DEF CommandsInv
    <2>5. opened' # {} => db.schema = "current"
      BY <1>1 DEF Takes, CommandsInv, BackedUp, UpgradeHasBackup
    <2> QED BY <1>0, <2>1, <2>4, <2>5, DatabaseKept, ThreadsMove
  <1>2. CASE Busy(t, k, mode)
    BY <1>0, <1>2, ReturnKeeps DEF Busy
  <1>3. CASE Polls(t, k, mode)
    <2> DEFINE f == [th[t] EXCEPT !.polls = TRUE]
    <2>1. th[t] \in Frames
      BY DEF CommandsInv, Typed
    <2>2. /\ th' = [th EXCEPT ![t] = f] /\ UNCHANGED <<files, opened>>
      BY <1>3 DEF Polls, locks
    <2>3. /\ f \in Frames /\ f.pc = th[t].pc /\ f.in = th[t].in /\ f.ver = th[t].ver
          /\ f.eff = th[t].eff /\ f.held = th[t].held
      BY <2>1 DEF Frames
    <2> HIDE DEF f
    <2>4. Follows(t, f)
      BY <2>3 DEF Follows, CommandsInv, Prepares, UpToDate, BackedUp, InFlight
    <2> QED BY <1>0, <2>2, <2>3, <2>4, ThreadMoves
  <1> QED BY <1>1, <1>2, <1>3 DEF Acquire

-----------------------------------------------------------------------------
(* The steps before the mutation locks                                      *)

(* What a thread goes on with when it only changes its place.               *)
LEMMA GoesOn ==
    ASSUME CommandsInv, NEW t \in Threads, NEW pc \in Steps, th[t].pc # "idle",
           pc \in Mutates => th[t].pc \in Mutates,
           pc # "apply", pc \notin {"effect", "result"}
    PROVE  LET f == [th[t] EXCEPT !.pc = pc] IN
           /\ f \in Frames /\ Follows(t, f) /\ f.held = th[t].held /\ f.pc = pc
           /\ f.in = th[t].in
  <1> DEFINE f == [th[t] EXCEPT !.pc = pc]
  <1>1. th[t] \in Frames
    BY DEF CommandsInv, Typed
  <1>2. f \in Frames /\ f.pc = pc /\ f.in = th[t].in /\ f.held = th[t].held /\ f.ver = th[t].ver
    BY <1>1 DEF Frames
  <1> HIDE DEF f
  <1>3. Follows(t, f)
    BY <1>2 DEF CommandsInv, Prepares, UpToDate, Follows
  <1> QED BY <1>2, <1>3 DEF f

(* An Input built for a command.                                            *)
LEMMA ToNames ==
    ASSUME NEW c \in CommandNames, NEW ss, ss \subseteq Nat, NEW ps, ps \subseteq Providers,
           NEW in \in To(c, ss, ps)
    PROVE  in \in Inputs /\ in.c0 = c /\ in.s \in ss
  <1>1. PICK s \in ss, v \in ps : in = Input(c, s, v)
    BY DEF To
  <1>2. NoInput \in Inputs
    BY IdleFrame
  <1> QED BY <1>1, <1>2 DEF Input, Inputs

(* A request names an existing Session, or needs none.                      *)
LEMMA RequestsNameSessions ==
    ASSUME Typed, NEW t \in Threads, NEW in \in Requests(t)
    PROVE  /\ in \in Inputs /\ in.c0 # "none"
           /\ in.c0 \in {"Continue", "Switch", "Finish"} => in.s \in DOMAIN agg.sessions
  <1>0. /\ ProcessOf[t] \in Processes /\ turn[ProcessOf[t]].s \in Nat
        /\ DOMAIN agg.sessions \subseteq Nat
        /\ NoInput \in Inputs /\ NoInput.provider \in Providers
    BY ThreadsAssumption, Tables, IdleFrame DEF Typed, Turns, Inputs
  <1>1. PICK c \in Offers[t] : in \in RequestsOf(t, c)
    BY DEF Requests
  <1>2. c \in CommandNames /\ c # "none"
    BY ThreadsAssumption DEF CommandNames
  <1> DEFINE Only == {NoInput.provider}
             last == IF turn[ProcessOf[t]].st = "over" THEN {turn[ProcessOf[t]].s} ELSE {}
  <1>3. Only \subseteq Providers /\ last \subseteq Nat
    BY <1>0
  <1>4. CASE c = "Switch"
    <2>1. in \in To(c, DOMAIN agg.sessions, Providers)
      BY <1>1, <1>4 DEF RequestsOf
    <2> QED BY <1>0, <1>2, <2>1, ToNames
  <1>5. CASE c \in {"Continue", "Finish"}
    <2>1. in \in To(c, DOMAIN agg.sessions, Only)
      BY <1>1, <1>5 DEF RequestsOf
    <2> HIDE DEF Only
    <2> QED BY <1>0, <1>2, <1>3, <2>1, ToNames
  <1>6. CASE c = "Return"
    <2>1. in \in To(c, last, Only)
      BY <1>1, <1>6 DEF RequestsOf
    <2> HIDE DEF Only, last
    <2>2. in \in Inputs /\ in.c0 = c
      BY <1>2, <1>3, <2>1, ToNames
    <2> QED BY <1>6, <2>2
  <1>7. CASE c \notin {"Switch", "Continue", "Finish", "Return"}
    <2>1. in \in To(c, {0}, Only)
      BY <1>1, <1>7 DEF RequestsOf
    <2> HIDE DEF Only
    <2>2. in \in Inputs /\ in.c0 = c
      BY <1>2, <1>3, <2>1, ToNames
    <2> QED BY <1>2, <1>7, <2>2
  <1> QED BY <1>4, <1>5, <1>6, <1>7

(* A new command is well typed and names Sessions that exist.              *)
LEMMA IssueSound ==
    ASSUME CommandsInv, NEW t \in Threads, Issue(t)
    PROVE  CommandsInv'
  <1>1. PICK in \in Requests(t) :
          /\ th' = [th EXCEPT ![t].pc = "prepare", ![t].in = in]
          /\ turn' = IF in.c0 = "Return" THEN [turn EXCEPT ![ProcessOf[t]] = NoTurn] ELSE turn
    BY DEF Issue
  <1>2. /\ in \in Inputs /\ in.c0 # "none"
        /\ in.c0 \in {"Continue", "Switch", "Finish"} => in.s \in DOMAIN agg.sessions
    BY RequestsNameSessions DEF CommandsInv
  <1> DEFINE f == [th[t] EXCEPT !.pc = "prepare", !.in = in]
  <1>3. th \in [Threads -> Frames] /\ th[t] \in Frames
    BY DEF CommandsInv, Typed
  <1>4. th' = [th EXCEPT ![t] = f]
    BY <1>1, <1>3
  <1>5. f \in Frames /\ f.pc = "prepare" /\ f.in = in /\ f.held = th[t].held
    BY <1>2, <1>3 DEF Frames, Steps
  <1> HIDE DEF f
  <1>6. Follows(t, f)
    BY <1>2, <1>5 DEF Follows, Mutates
  <1>7. turn' \in [Processes -> Turns] /\ sets' \in Nat
    BY <1>1 DEF Issue, CommandsInv, Typed, Turns, NoTurn, disk
  <1>8. UNCHANGED <<agg, version, db, handoffs, plans, files, opened>>
    BY DEF Issue, store, disk, locks
  <1> QED BY <1>4, <1>5, <1>6, <1>7, <1>8, ThreadMoves DEF Mutates

(* Preparing keeps the command and its Session.                             *)
LEMMA PreparedInput ==
    ASSUME Typed, NEW in \in Inputs, NEW x \in Prepared(in)
    PROVE  x \in Inputs /\ x.c0 = in.c0 /\ x.s = in.s
  <1>1. Len(handoffs) \in Nat /\ sets \in Nat
    BY LenProperties DEF Typed
  <1>2. CASE in.c0 = "Return"
    <2> DEFINE rows == {p \in RunningProcs(agg) : agg.procs[p].s = in.s}
    <2>1. rows # {} /\ x = [in EXCEPT !.p = First(rows)]
      BY <1>2 DEF Prepared, PrepareReturn
    <2>2. rows \subseteq Nat
      BY Tables DEF RunningProcs, Typed
    <2>3. First(rows) \in Nat
      BY <2>1, <2>2, FirstIsOne
    <2> QED BY <2>1, <2>3 DEF Inputs
  <1>3. CASE in.c0 = "Finish"
    <2>1. x = [in EXCEPT !.cs = sets]
      BY <1>3 DEF Prepared, PrepareFinish, If
    <2> QED BY <1>1, <2>1 DEF Inputs
  <1>4. CASE in.c0 = "Plan"
    <2>1. x = [in EXCEPT !.h = Len(handoffs), !.c = IF Len(handoffs) = 0 THEN 0 ELSE sets]
      BY <1>4 DEF Prepared, PlanInputs, If
    <2> QED BY <1>1, <2>1 DEF Inputs
  <1>5. CASE in.c0 \notin {"Return", "Finish", "Plan"}
    <2>1. x = in
      BY <1>5 DEF Prepared, PrepareNativeDiscussion, PrepareContinue, PrepareSwitchAgent, If
    <2> QED BY <2>1
  <1> QED BY <1>2, <1>3, <1>4, <1>5

(* Preparation and the return from the native turn hold no owner lock and  *)
(* commit nothing.                                                         *)
LEMMA PrepareSound ==
    ASSUME CommandsInv, NEW t \in Threads, Prepare(t) \/ Resume(t)
    PROVE  CommandsInv'
  <1>0. /\ UNCHANGED <<agg, version, db, handoffs, plans, sets, turn>>
        /\ turn' \in [Processes -> Turns] /\ sets' \in Nat
        /\ th[t].pc \in {"prepare", "resume"}
        /\ th \in [Threads -> Frames] /\ th[t] \in Frames /\ th[t].in \in Inputs
    BY DEF Prepare, Resume, store, disk, CommandsInv, Typed, Frames
  <1>1. CASE Return(t)
    BY <1>0, <1>1, ReturnKeeps
  <1>2. CASE \E in \in Prepared(th[t].in) :
               /\ th' = [th EXCEPT ![t].in = in,
                                   ![t].pc = IF in.c0 = "Finish" THEN "resume" ELSE "recover"]
               /\ UNCHANGED locks
    <2>1. PICK in \in Prepared(th[t].in) :
               /\ th' = [th EXCEPT ![t].in = in,
                                   ![t].pc = IF in.c0 = "Finish" THEN "resume" ELSE "recover"]
               /\ UNCHANGED locks
      BY <1>2
    <2>2. in \in Inputs /\ in.c0 = th[t].in.c0 /\ in.s = th[t].in.s
      BY <1>0, PreparedInput DEF CommandsInv
    <2> DEFINE f == [th[t] EXCEPT !.in = in,
                                  !.pc = IF in.c0 = "Finish" THEN "resume" ELSE "recover"]
    <2>3. th' = [th EXCEPT ![t] = f]
      BY <1>0, <2>1
    <2>4. /\ f \in Frames /\ f.pc \in {"resume", "recover"} /\ f.in = in
          /\ f.held = th[t].held
      BY <1>0, <2>2 DEF Frames, Steps
    <2> HIDE DEF f
    <2>5. Follows(t, f)
      BY <1>0, <2>2, <2>4 DEF CommandsInv, Prepares, Follows, Mutates
    <2> QED BY <1>0, <2>1, <2>3, <2>4, <2>5, ThreadMoves DEF Mutates, locks
  <1>3. CASE Resume(t)
    <2>1. th' = [th EXCEPT ![t] = [th[t] EXCEPT !.pc = "recover"]] /\ UNCHANGED <<files, opened>>
      BY <1>3 DEF Resume, Goes, locks
    <2> DEFINE f == [th[t] EXCEPT !.pc = "recover"]
    <2>2. f \in Frames /\ Follows(t, f) /\ f.held = th[t].held /\ f.pc = "recover"
      <3>1. th[t].pc # "idle"
        BY <1>0
      <3>2. "recover" \in Steps /\ "recover" \notin Mutates
        BY DEF Steps, Mutates
      <3> QED BY <3>1, <3>2, GoesOn
    <2>3. th' = [th EXCEPT ![t] = f] /\ UNCHANGED <<files, opened>>
      BY <2>1
    <2> HIDE DEF f
    <2> QED BY <1>0, <2>2, <2>3, ThreadMoves DEF Mutates
  <1> QED BY <1>1, <1>2, <1>3 DEF Prepare

(* Recovery reads under the shared schema lock.                             *)
LEMMA RecoverSound ==
    ASSUME CommandsInv, NEW t \in Threads, Recover(t)
    PROVE  CommandsInv'
  <1> DEFINE f == [th[t] EXCEPT !.pc = "recovering"]
  <1>1. th[t].pc = "recover" /\ UNCHANGED <<agg, version, db, handoffs, plans, sets, turn>>
        /\ Acquire(t, "schema", "S", f)
    BY DEF Recover, store, disk
  <1>2. f \in Frames /\ Follows(t, f) /\ f.held = th[t].held /\ f.pc = "recovering"
    <2>1. th[t].pc = "recover"
      BY <1>1
    <2>2. "recovering" \in Steps /\ "recovering" \notin Mutates
      BY DEF Steps, Mutates
    <2> QED BY <2>1, <2>2, GoesOn
  <1> HIDE DEF f
  <1> QED BY <1>1, <1>2, AcquireKeeps DEF Kinds, Mutates

(* Its verdict releases the lock.                                           *)
LEMMA RecoveredSound ==
    ASSUME CommandsInv, NEW t \in Threads, Recovered(t)
    PROVE  CommandsInv'
  <1>0. /\ UNCHANGED <<agg, version, db, handoffs, plans, sets, turn>>
        /\ turn' \in [Processes -> Turns] /\ sets' \in Nat /\ th[t].pc = "recovering"
        /\ th \in [Threads -> Frames] /\ th[t] \in Frames
    BY DEF Recovered, store, disk, CommandsInv, Typed
  <1>1. CASE Return(t)
    BY <1>0, <1>1, ReturnKeeps
  <1>2. CASE ~Return(t)
    <2>1. PICK r \in BOOLEAN :
            th' = [th EXCEPT ![t].held = <<>>, ![t].restricted = r,
                             ![t].pc = IF ProcessOf[t] \in opened THEN "lock" ELSE "open"]
      BY <1>2 DEF Recovered
    <2>2. files' = Released(t) /\ UNCHANGED opened
      BY <1>2 DEF Recovered
    <2> DEFINE pc == IF ProcessOf[t] \in opened THEN "lock" ELSE "open"
               none == <<>>
               f == [th[t] EXCEPT !.held = none, !.restricted = r, !.pc = pc]
    <2>3. th' = [th EXCEPT ![t] = f]
      BY <1>0, <2>1
    <2>4. pc \in {"lock", "open"} /\ none \in Seq(Kinds)
      OBVIOUS
    <2>5. f \in Frames /\ f.held = <<>> /\ f.pc = pc /\ f.in = th[t].in
      <3> HIDE DEF pc, none
      <3>1. f \in Frames /\ f.held = none /\ f.pc = pc /\ f.in = th[t].in
        BY <1>0, <2>4 DEF Frames, Steps
      <3> QED BY <3>1 DEF none
    <2> HIDE DEF pc, none
    <2> HIDE DEF f
    <2>6. Follows(t, f) /\ f.pc \notin Mutates
      BY <1>0, <2>4, <2>5 DEF CommandsInv, Prepares, Follows, Mutates
    <2>7. opened' # {} => db.schema = "current"
      BY <2>2 DEF CommandsInv, BackedUp, UpgradeHasBackup
    <2> QED BY <1>0, <2>2, <2>3, <2>5, <2>6, <2>7, ThreadReleases
  <1> QED BY <1>1, <1>2

(* The Store is opened under the exclusive schema lock.                     *)
LEMMA OpenStoreSound ==
    ASSUME CommandsInv, NEW t \in Threads, OpenStore(t)
    PROVE  CommandsInv'
  <1> DEFINE f == [th[t] EXCEPT !.pc = "migrate"]
  <1>1. th[t].pc = "open" /\ UNCHANGED <<agg, version, db, handoffs, plans, sets, turn>>
        /\ Acquire(t, "schema", "X", f)
    BY DEF OpenStore, store, disk
  <1>2. f \in Frames /\ Follows(t, f) /\ f.held = th[t].held /\ f.pc = "migrate"
    BY <1>1, GoesOn DEF Steps, Mutates
  <1> HIDE DEF f
  <1> QED BY <1>1, <1>2, AcquireKeeps DEF Kinds, Mutates

(* The database file moves on: its own part of the invariant is given.      *)
LEMMA FileMoves ==
    ASSUME CommandsInv, UNCHANGED <<agg, version, handoffs, plans, sets, turn>>,
           NEW t \in Threads, NEW f \in Frames, th' = [th EXCEPT ![t] = f],
           f.pc \notin Mutates, f.pc # "idle" => f.in.c0 # "none",
           f.in.c0 \in {"Continue", "Switch", "Finish"} => f.in.s \in DOMAIN agg.sessions,
           files' \in [Processes -> [Kinds -> LockFiles]], Locked', BackedUp'
    PROVE  CommandsInv'
  <1>2. /\ th' \in [Threads -> Frames] /\ th'[t] = f
        /\ \A u \in Threads \ {t} : th'[u] = th[u]
    BY FrameSet DEF CommandsInv
  <1>3. Typed'
    BY <1>2 DEF CommandsInv, Typed
  <1>4. Prepares'
    BY <1>2 DEF CommandsInv, Prepares
  <1>5. UpToDate'
    BY <1>2 DEF CommandsInv, UpToDate
  <1>6. \A u \in Threads : InFlight(u)' => InFlight(u) /\ th'[u] = th[u]
    BY <1>2 DEF InFlight, Mutates
  <1>7. Finished'
    BY <1>6 DEF CommandsInv, Finished, HandoffOnce, InFlight
  <1>8. Lineage'
    <2>1. \A u \in Threads : InFlight(u)' => Rests(agg', th'[u].in, th'[u].eff)
      BY <1>6 DEF CommandsInv, Lineage
    <2> QED BY <2>1 DEF CommandsInv, Lineage, InFlight
  <1> QED BY <1>3, <1>4, <1>5, <1>7, <1>8 DEF CommandsInv

(* The Store is served: the schema lock is released.                        *)
LEMMA ServeFrame ==
    ASSUME CommandsInv, NEW t \in Threads, Serve(t), th[t].pc # "idle"
    PROVE  \E f \in Frames : /\ th' = [th EXCEPT ![t] = f]
                             /\ f.pc = "lock" /\ f.held = <<>> /\ f.in = th[t].in
  <1> DEFINE none == <<>>
             f == [th[t] EXCEPT !.pc = "lock", !.held = none]
  <1>1. none \in Seq(Kinds) /\ th[t] \in Frames /\ th \in [Threads -> Frames]
    BY DEF CommandsInv, Typed
  <1>2. th' = [th EXCEPT ![t] = f]
    BY <1>1 DEF Serve
  <1>3. f \in Frames /\ f.held = <<>> /\ f.pc = "lock" /\ f.in = th[t].in
    <2> HIDE DEF none
    <2>1. f \in Frames /\ f.held = none /\ f.pc = "lock" /\ f.in = th[t].in
      BY <1>1 DEF Frames, Steps
    <2> QED BY <2>1 DEF none
  <1> QED BY <1>2, <1>3

(* A migration takes its backup first.                                      *)
LEMMA MigrateSound ==
    ASSUME CommandsInv, NEW t \in Threads, Migrate(t)
    PROVE  CommandsInv'
  <1>0. /\ UNCHANGED <<agg, version, handoffs, plans, sets, turn>>
        /\ turn' \in [Processes -> Turns] /\ sets' \in Nat
        /\ th[t].pc = "migrate" /\ th[t].in.c0 # "none"
        /\ db \in [schema : {"old", "current"}, backup : {"none", "copy", "verified"}]
    BY DEF Migrate, disk, CommandsInv, Typed, BackedUp, Prepares
  <1>1. CASE db.schema = "current" /\ Serve(t) /\ UNCHANGED db
    <2>1. PICK f \in Frames : /\ th' = [th EXCEPT ![t] = f]
                              /\ f.pc = "lock" /\ f.held = <<>> /\ f.in = th[t].in
      BY <1>0, <1>1, ServeFrame
    <2>2. Follows(t, f) /\ f.pc \notin Mutates
      BY <1>0, <2>1 DEF CommandsInv, Prepares, Follows, Mutates
    <2> QED BY <1>0, <1>1, <2>1, <2>2, ThreadReleases DEF Serve
  <1>2. CASE /\ db.schema = "old" /\ db.backup = "none"
             /\ db' = [db EXCEPT !.backup = "copy"]
             /\ Goes(t, "manifest") /\ UNCHANGED locks
    <2> DEFINE f == [th[t] EXCEPT !.pc = "manifest"]
    <2>1. th' = [th EXCEPT ![t] = f] /\ UNCHANGED <<files, opened>>
      BY <1>2 DEF Goes, locks
    <2>2. f \in Frames /\ Follows(t, f) /\ f.held = th[t].held /\ f.pc = "manifest"
      BY <1>0, GoesOn DEF Steps, Mutates
    <2> HIDE DEF f
    <2>3. Locked' /\ files' \in [Processes -> [Kinds -> LockFiles]]
      BY <2>1, <2>2, KeepsLocks DEF CommandsInv, Mutates, Typed
    <2>4. /\ th'[t] = f /\ \A u \in Threads \ {t} : th'[u] = th[u]
      BY <2>1, <2>2, FrameSet DEF CommandsInv
    <2>5. BackedUp'
      BY <1>0, <1>2, <2>1, <2>2, <2>4 DEF CommandsInv, BackedUp, UpgradeHasBackup
    <2> QED BY <1>0, <2>1, <2>2, <2>3, <2>5, FileMoves DEF Follows, Mutates
  <1>3. CASE /\ db.schema = "old" /\ db.backup = "verified"
             /\ Goes(t, "apply") /\ UNCHANGED <<db, locks>>
    <2> DEFINE f == [th[t] EXCEPT !.pc = "apply"]
    <2>1. th' = [th EXCEPT ![t] = f] /\ UNCHANGED <<files, opened>>
      BY <1>3 DEF Goes, locks
    <2>2. f \in Frames /\ f.held = th[t].held /\ f.pc = "apply" /\ f.in = th[t].in
      <3>1. th[t] \in Frames
        BY DEF CommandsInv, Typed
      <3> QED BY <3>1 DEF Frames, Steps
    <2> HIDE DEF f
    <2>3. Follows(t, f)
      BY <1>0, <1>3, <2>2 DEF CommandsInv, Prepares, Follows, Mutates
    <2> QED BY <1>0, <1>3, <2>1, <2>2, <2>3, ThreadMoves DEF Mutates
  <1>4. CASE Return(t) /\ UNCHANGED db
    BY <1>0, <1>4, ReturnKeeps
  <1> QED BY <1>1, <1>2, <1>3, <1>4 DEF Migrate

(* The manifest verifies the backup.                                        *)
LEMMA WriteManifestSound ==
    ASSUME CommandsInv, NEW t \in Threads, WriteManifest(t)
    PROVE  CommandsInv'
  <1>0. /\ UNCHANGED <<agg, version, handoffs, plans, sets, turn, files, opened>>
        /\ th[t].pc = "manifest" /\ th[t].in.c0 # "none"
        /\ db \in [schema : {"old", "current"}, backup : {"none", "copy", "verified"}]
        /\ db' = [db EXCEPT !.backup = "verified"] /\ th[t] \in Frames
    BY DEF WriteManifest, disk, locks, CommandsInv, Typed, BackedUp, Prepares
  <1> DEFINE f == [th[t] EXCEPT !.pc = "apply"]
  <1>1. th' = [th EXCEPT ![t] = f]
    BY DEF WriteManifest, Goes
  <1>2. f \in Frames /\ f.held = th[t].held /\ f.pc = "apply" /\ f.in = th[t].in
    BY <1>0 DEF Frames, Steps
  <1> HIDE DEF f
  <1>3. Locked' /\ files' \in [Processes -> [Kinds -> LockFiles]]
    BY <1>0, <1>1, <1>2, KeepsLocks DEF CommandsInv, Mutates, Typed
  <1>4. /\ th'[t] = f /\ \A u \in Threads \ {t} : th'[u] = th[u]
    BY <1>1, <1>2, FrameSet DEF CommandsInv
  <1>5. BackedUp'
    BY <1>0 DEF CommandsInv, BackedUp, UpgradeHasBackup
  <1>6. /\ f.pc # "idle" => f.in.c0 # "none"
        /\ f.in.c0 \in {"Continue", "Switch", "Finish"} => f.in.s \in DOMAIN agg.sessions
    BY <1>0, <1>2 DEF CommandsInv, Prepares
  <1> QED BY <1>0, <1>1, <1>2, <1>3, <1>5, <1>6, FileMoves DEF Mutates

(* The pending chain commits, on a verified backup.                         *)
LEMMA ApplyMigrationsSound ==
    ASSUME CommandsInv, NEW t \in Threads, ApplyMigrations(t)
    PROVE  CommandsInv'
  <1>0. /\ UNCHANGED <<agg, version, handoffs, plans, sets, turn>>
        /\ th[t].pc = "apply" /\ th[t].in.c0 # "none" /\ Serve(t)
        /\ db \in [schema : {"old", "current"}, backup : {"none", "copy", "verified"}]
        /\ db' = [db EXCEPT !.schema = "current"] /\ db.backup = "verified"
    BY DEF ApplyMigrations, disk, CommandsInv, Typed, BackedUp, Prepares
  <1>1. PICK f \in Frames : /\ th' = [th EXCEPT ![t] = f]
                            /\ f.pc = "lock" /\ f.held = <<>> /\ f.in = th[t].in
    BY <1>0, ServeFrame
  <1>2. Locked' /\ files' \in [Processes -> [Kinds -> LockFiles]]
    BY <1>0, <1>1, ReleasesLocks DEF CommandsInv, Mutates, Serve
  <1>3. BackedUp'
    BY <1>0 DEF BackedUp, UpgradeHasBackup
  <1>4. /\ f.pc # "idle" => f.in.c0 # "none"
        /\ f.in.c0 \in {"Continue", "Switch", "Finish"} => f.in.s \in DOMAIN agg.sessions
    BY <1>0, <1>1 DEF CommandsInv, Prepares
  <1> QED BY <1>0, <1>1, <1>2, <1>3, <1>4, FileMoves DEF Mutates

-----------------------------------------------------------------------------
(* The steps under the mutation locks                                       *)

(* The batch follows LockOrder.                                             *)
LEMMA NextLock ==
    ASSUME NEW q \in {<<>>, <<"schema">>, <<"schema", "writer">>}
    PROVE  LET k == LockOrder[Len(q) + 1] IN
           /\ k \in Kinds
           /\ k # "owner" => Append(q, k) \in {<<>>, <<"schema">>, <<"schema", "writer">>}
  <1>1. CASE q = <<>>
    BY <1>1 DEF LockOrder, Kinds
  <1>2. CASE q = <<"schema">>
    <2>1. Len(q) + 1 = 2 /\ LockOrder[2] = "writer"
      BY <1>2 DEF LockOrder
    <2>2. Append(<<"schema">>, "writer") = <<"schema", "writer">>
      <3> DEFINE a == Append(<<"schema">>, "writer")
                 b == <<"schema", "writer">>
      <3>1. <<"schema">> \in Seq(Kinds)
        BY DEF Kinds
      <3>2. a \in Seq(Kinds) /\ Len(a) = 2 /\ a[1] = "schema" /\ a[2] = "writer"
        BY <3>1, AppendProperties DEF Kinds
      <3>3. b \in Seq(Kinds) /\ Len(b) = 2 /\ b[1] = "schema" /\ b[2] = "writer"
        BY DEF Kinds
      <3> HIDE DEF a, b
      <3>4. \A i \in 1 .. Len(a) : a[i] = b[i]
        BY <3>2, <3>3
      <3>5. a = b
        BY <3>2, <3>3, <3>4, SeqEqual
      <3> QED BY <3>5 DEF a, b
    <2> QED BY <1>2, <2>1, <2>2, Zenon DEF Kinds
  <1>3. CASE q = <<"schema", "writer">>
    <2>1. Len(q) + 1 = 3 /\ LockOrder[3] = "owner"
      BY <1>3 DEF LockOrder
    <2> QED BY <2>1 DEF Kinds
  <1> QED BY <1>1, <1>2, <1>3

(* The next lock of the batch; the last one makes the thread the owner.     *)
LEMMA LockBatchSound ==
    ASSUME CommandsInv, NEW t \in Threads, LockBatch(t)
    PROVE  CommandsInv'
  <1> DEFINE k == LockOrder[Len(th[t].held) + 1]
             new == IF k = "owner" THEN [th[t] EXCEPT !.ver = version, !.pc = "sweep"]
                    ELSE th[t]
  <1>1. /\ th[t].pc = "lock" /\ UNCHANGED <<agg, version, db, handoffs, plans, sets, turn>>
        /\ Acquire(t, k, LockMode(k), new)
    BY DEF LockBatch, store, disk
  <1>2. th[t] \in Frames /\ version \in Nat
    BY DEF CommandsInv, Typed
  <1>3. th[t].held \in {<<>>, <<"schema">>, <<"schema", "writer">>}
    BY <1>1 DEF CommandsInv, Locked
  <1>4. /\ k \in Kinds /\ LockMode(k) \in {"S", "X"} /\ (k = "owner" => LockMode(k) = "X")
        /\ k # "owner" =>
             Append(th[t].held, k) \in {<<>>, <<"schema">>, <<"schema", "writer">>}
    BY <1>3, NextLock DEF LockMode
  <1>5. CASE k = "owner"
    <2> DEFINE f == [th[t] EXCEPT !.ver = version, !.pc = "sweep"]
    <2>1. /\ f \in Frames /\ f.held = th[t].held /\ f.pc = "sweep" /\ f.in = th[t].in
          /\ f.ver = version
      BY <1>2 DEF Frames, Steps
    <2>2. new = f
      BY <1>5
    <2> HIDE DEF f, k, new
    <2>3. Follows(t, f)
      BY <1>1, <2>1 DEF CommandsInv, Prepares, Follows, Mutates
    <2> QED BY <1>1, <1>4, <1>5, <2>1, <2>2, <2>3, AcquireKeeps
  <1>6. CASE k # "owner"
    <2>1. new = th[t]
      BY <1>6
    <2> HIDE DEF k, new
    <2>3. Follows(t, th[t]) /\ th[t].pc \notin Mutates
      BY <1>1 DEF CommandsInv, Prepares, Follows, Mutates
    <2> QED BY <1>1, <1>2, <1>4, <1>6, <2>1, <2>3, AcquireKeeps
  <1> QED BY <1>5, <1>6

(* The owner commits a Decision: nobody else is in flight, and what the     *)
(* written files and prepared commands rest on is kept.                     *)
LEMMA OwnerCommits ==
    ASSUME CommandsInv, NEW t \in Threads, th[t].pc \in Mutates,
           UNCHANGED <<db, handoffs, plans, sets, turn, files, opened>>,
           version' \in Nat, Advances(agg, agg'),
           NEW f \in Frames, th' = [th EXCEPT ![t] = f],
           f.held = th[t].held, f.in = th[t].in, f.ver = version',
           f.pc \in Mutates \ {"result"},
           f.pc = "effect" =>
             /\ f.eff.k # "none" /\ Rests(agg', f.in, f.eff)
             /\ f.eff.k = "write" /\ f.eff.what = "handoff" =>
                  ~Ended(agg, f.eff.s) /\ Ended(agg', f.eff.s)
    PROVE  CommandsInv'
  <1>1. /\ th' \in [Threads -> Frames] /\ th'[t] = f
        /\ \A u \in Threads \ {t} : th'[u] = th[u]
    BY FrameSet DEF CommandsInv
  <1>2. \A u \in Threads \ {t} : th[u].pc \notin Mutates
    BY DEF CommandsInv, Locked
  <1>3. Locked'
    BY KeepsLocks DEF CommandsInv, Mutates
  <1>4. Typed'
    BY <1>1 DEF CommandsInv, Typed, Advances
  <1>5. Prepares'
    BY <1>1 DEF CommandsInv, Prepares, Advances, Mutates
  <1>6. UpToDate'
    BY <1>1, <1>2 DEF UpToDate
  <1>7. BackedUp'
    BY <1>1 DEF CommandsInv, BackedUp, UpgradeHasBackup, Mutates
  <1>8. \A u \in Threads : InFlight(u)' => u = t /\ f.pc = "effect"
    BY <1>1, <1>2 DEF InFlight, Mutates
  <1>9. \A i \in DOMAIN handoffs : Ended(agg, handoffs[i].s) /\ Ended(agg', handoffs[i].s)
    BY DEF CommandsInv, Finished, Advances
  <1>10. Finished'
    <2>1. HandoffOnce'
      BY DEF CommandsInv, Finished, HandoffOnce
    <2>2. ASSUME NEW u \in Threads, th'[u].pc = "effect", th'[u].eff.k = "write",
                 th'[u].eff.what = "handoff"
          PROVE  /\ Ended(agg', th'[u].eff.s)
                 /\ \A i \in DOMAIN handoffs' : handoffs'[i].s # th'[u].eff.s
      <3>1. u = t /\ th'[u] = f
        BY <1>1, <1>8, <2>2 DEF InFlight
      <3> QED BY <1>9, <2>2, <3>1
    <2>3. \A u \in Threads : InFlight(u)' => th'[u].eff.k # "none"
      BY <1>1, <1>8
    <2> QED BY <1>9, <2>1, <2>2, <2>3 DEF Finished
  <1>11. Lineage'
    <2>1. \A i \in DOMAIN plans : agg'.stage = "PLAN" /\ (plans[i].h = 0 => Clear(agg', plans[i].s))
      <3>1. \A i \in DOMAIN plans : plans[i].s \in Nat
        <4>1. plans \in Seq([s : Nat, h : Nat, c : Nat])
          BY DEF CommandsInv, Typed
        <4>2. \A i \in DOMAIN plans : plans[i] \in [s : Nat, h : Nat, c : Nat]
          BY <4>1, LenProperties
        <4> QED BY <4>2
      <3> QED BY <3>1 DEF CommandsInv, Lineage, Advances
    <2>2. \A u \in Threads : InFlight(u)' => Rests(agg', th'[u].in, th'[u].eff)
      BY <1>1, <1>8
    <2> QED BY <2>1, <2>2 DEF Lineage
  <1> QED BY <1>3, <1>4, <1>5, <1>6, <1>7, <1>10, <1>11 DEF CommandsInv

(* The sweep completes a stop protocol: the tables stay as they are.        *)
LEMMA SweepSound ==
    ASSUME CommandsInv, NEW t \in Threads, Sweep(t)
    PROVE  CommandsInv'
  <1>1. /\ th[t].pc = "sweep" /\ th[t] \in Frames /\ th \in [Threads -> Frames]
        /\ agg \in Aggregates /\ PointsBack(agg)
        /\ UNCHANGED <<db, handoffs, plans, sets, turn, files, opened>>
    BY DEF Sweep, disk, locks, CommandsInv, Typed
  <1>2. version' \in Nat
    BY DEF Sweep, CommandsInv, Typed
  <1>3. Advances(agg, agg')
    <2>1. SameTables(agg, agg) /\ SameTables(agg, Converged(agg))
      BY <1>1, ConvergedKeepsTables DEF SameTables
    <2> QED BY <1>1, <2>1, SameAdvances DEF Sweep, DecideReconcile
  <1> DEFINE f == [th[t] EXCEPT !.pc = "decide", !.ver = version']
  <1>4. th' = [th EXCEPT ![t] = f]
    BY <1>1 DEF Sweep
  <1>5. /\ f \in Frames /\ f.pc = "decide" /\ f.held = th[t].held /\ f.in = th[t].in
        /\ f.ver = version'
    BY <1>1, <1>2 DEF Frames, Steps
  <1> HIDE DEF f
  <1> QED BY <1>1, <1>2, <1>3, <1>4, <1>5, OwnerCommits DEF Mutates

(* One transaction of a sound Decision.                                     *)
LEMMA TransactSound ==
    ASSUME CommandsInv, NEW t \in Threads, th[t].pc \in Mutates,
           UNCHANGED <<handoffs, plans, sets, turn>>,
           NEW decisions, NEW settled, Transact(t, decisions, settled),
           \A d \in decisions : Sound(agg, th[t].in, d)
    PROVE  CommandsInv'
  <1>0. /\ th[t] \in Frames /\ th \in [Threads -> Frames] /\ version \in Nat
        /\ turn' \in [Processes -> Turns]
    BY DEF CommandsInv, Typed
  <1>1. CASE Return(t) /\ UNCHANGED store
    BY <1>0, <1>1, ReturnKeeps DEF store
  <1>2. CASE ~(Return(t) /\ UNCHANGED store)
    <2>1. PICK d \in decisions :
            /\ agg' = d.agg /\ version' = version + 1
            /\ th' = [th EXCEPT ![t].ver = version + 1, ![t].eff = d.eff,
                                ![t].ok = FALSE,
                                ![t].pc = IF d.eff = NoEffect THEN "done" ELSE "effect"]
      BY <1>2 DEF Transact
    <2>2. UNCHANGED <<db, files, opened>>
      BY <1>2 DEF Transact, locks
    <2>3. Sound(agg, th[t].in, d)
      BY <2>1
    <2> DEFINE pc == IF d.eff = NoEffect THEN "done" ELSE "effect"
               no == FALSE
               v == version + 1
               e == d.eff
               f == [th[t] EXCEPT !.ver = v, !.eff = e, !.ok = no, !.pc = pc]
    <2>4. th' = [th EXCEPT ![t] = f]
      <3> HIDE DEF pc
      <3>1. th' = [th EXCEPT ![t].ver = version + 1, ![t].eff = d.eff,
                             ![t].ok = FALSE, ![t].pc = pc]
        BY <2>1 DEF pc
      <3> QED BY <1>0, <3>1
    <2>5. pc \in {"done", "effect"} /\ (pc = "effect" => d.eff # NoEffect) /\ no \in BOOLEAN
      OBVIOUS
    <2>6. d.eff \in Effects /\ (d.eff # NoEffect => d.eff.k # "none")
      <3>1. d.eff \in Effects
        BY <2>3 DEF Sound
      <3>2. d.eff = NoEffect \/ d.eff.k \in {"bootstrap", "run", "stop", "write"}
        BY <3>1 DEF Effects
      <3> QED BY <3>1, <3>2
    <2> HIDE DEF pc, no
    <2>7. /\ f \in Frames /\ f.pc = pc /\ f.held = th[t].held /\ f.in = th[t].in
          /\ f.ver = v /\ f.eff = e
      <3>1. v \in Nat /\ e \in Effects /\ pc \in Steps /\ no \in BOOLEAN
        BY <1>0, <2>5, <2>6 DEF Steps
      <3> HIDE DEF v, e
      <3> QED BY <1>0, <3>1 DEF Frames
    <2> HIDE DEF f
    <2>8. Advances(agg, agg') /\ version' \in Nat
      BY <1>0, <2>1, <2>3 DEF Sound
    <2>9. f.pc = "effect" =>
             /\ f.eff.k # "none" /\ Rests(agg', f.in, f.eff)
             /\ f.eff.k = "write" /\ f.eff.what = "handoff" =>
                  ~Ended(agg, f.eff.s) /\ Ended(agg', f.eff.s)
      BY <2>1, <2>3, <2>5, <2>6, <2>7 DEF Sound
    <2> QED BY <2>1, <2>2, <2>4, <2>5, <2>7, <2>8, <2>9, OwnerCommits DEF Mutates
  <1> QED BY <1>1, <1>2

(* The Decision of a command.                                               *)
LEMMA DecideCommandSound ==
    ASSUME CommandsInv, NEW t \in Threads, DecideCommand(t)
    PROVE  CommandsInv'
  <1>1. /\ th[t].pc = "decide" /\ th[t] \in Frames /\ th[t].in \in Inputs
        /\ agg \in Aggregates /\ PointsBack(agg)
        /\ th[t].in.c0 \in CommandNames \ {"Freeze"}
        /\ th[t].in.c0 \in {"Continue", "Switch", "Finish"} =>
             th[t].in.s \in DOMAIN agg.sessions
        /\ UNCHANGED <<handoffs, plans, sets, turn>>
        /\ Transact(t, Decide(agg, th[t].in), {})
    BY DEF DecideCommand, disk, CommandsInv, Typed, Prepares, Frames, Inputs
  <1>2. \A d \in Decide(agg, th[t].in) : Sound(agg, th[t].in, d)
    BY <1>1, DecideSound
  <1> QED BY <1>1, <1>2, TransactSound DEF Mutates

(* The Decision of a Result.                                                *)
LEMMA CommitResultSound ==
    ASSUME CommandsInv, NEW t \in Threads, CommitResult(t)
    PROVE  CommandsInv'
  <1>1. /\ th[t].pc = "result" /\ th[t] \in Frames
        /\ th[t].eff \in Effects /\ th[t].ok \in BOOLEAN
        /\ agg \in Aggregates /\ PointsBack(agg)
        /\ UNCHANGED <<handoffs, plans, sets, turn>>
        /\ Transact(t, DecideResult(agg, th[t].eff, th[t].ok), {th[t].eff})
    BY DEF CommitResult, disk, CommandsInv, Typed, Frames
  <1>2. th[t].eff.k # "none" /\ Rests(agg, th[t].in, th[t].eff)
    BY <1>1 DEF CommandsInv, Finished, Lineage, InFlight
  <1>3. \A d \in DecideResult(agg, th[t].eff, th[t].ok) : Sound(agg, th[t].in, d)
    BY <1>1, <1>2, DecideResultSound
  <1> QED BY <1>1, <1>3, TransactSound DEF Mutates

(* A new Change Set Revision.                                               *)
LEMMA FreezeSound ==
    ASSUME CommandsInv, NEW t \in Threads, Freeze(t)
    PROVE  CommandsInv'
  <1>1. /\ th[t].pc = "decide" /\ sets' \in Nat /\ turn' \in [Processes -> Turns]
        /\ UNCHANGED <<agg, version, db, handoffs, plans, files, opened>>
        /\ th' = [th EXCEPT ![t] = [th[t] EXCEPT !.pc = "done"]]
    BY DEF Freeze, Goes, store, locks, CommandsInv, Typed
  <1> QED BY <1>1, GoesOn, ThreadMoves DEF Steps, Mutates

(* An Effect that writes nothing has its Result.                            *)
LEMMA ResultKeeps ==
    ASSUME CommandsInv, NEW t \in Threads, th[t].pc = "effect", NEW ok \in BOOLEAN,
           ResultIs(t, ok)
    PROVE  \E f \in Frames :
             /\ th' = [th EXCEPT ![t] = f] /\ f.pc = "result" /\ f.held = th[t].held
             /\ f.in = th[t].in /\ f.eff = th[t].eff /\ f.ver = th[t].ver
             /\ Follows(t, f)
  <1> DEFINE f == [th[t] EXCEPT !.pc = "result", !.ok = ok]
  <1>1. th[t] \in Frames /\ th \in [Threads -> Frames]
    BY DEF CommandsInv, Typed
  <1>2. th' = [th EXCEPT ![t] = f]
    BY <1>1 DEF ResultIs
  <1>3. /\ f \in Frames /\ f.pc = "result" /\ f.held = th[t].held
        /\ f.in = th[t].in /\ f.eff = th[t].eff /\ f.ver = th[t].ver
    BY <1>1 DEF Frames, Steps
  <1> HIDE DEF f
  <1>4. Follows(t, f)
    BY <1>3 DEF CommandsInv, Prepares, UpToDate, Follows, Mutates, InFlight
  <1> QED BY <1>2, <1>3, <1>4

(* A handoff or a Plan is written: the Session it names had none.           *)
LEMMA WriteSound ==
    ASSUME CommandsInv, NEW t \in Threads, th[t].pc = "effect", ArtifactWrite(t),
           UNCHANGED <<agg, version, db, files, opened, turn>>
    PROVE  CommandsInv'
  <1> DEFINE e == th[t].eff
             in == th[t].in
             note == [s |-> e.s, cs |-> e.cs]
             plan == [s |-> e.s, h |-> in.h, c |-> in.c]
  <1>1. /\ th[t] \in Frames /\ e \in Effects /\ in \in Inputs /\ e.k = "write"
        /\ handoffs \in Seq([s : Nat, cs : Nat])
        /\ plans \in Seq([s : Nat, h : Nat, c : Nat])
        /\ sets' \in Nat
    BY DEF CommandsInv, Typed, Frames, ArtifactWrite
  <1>2. e \in [k : {"write"}, what : {"handoff", "plan", "turn"}, s : Nat, cs : Nat]
    BY <1>1 DEF Effects, NoEffect
  <1>3. note \in [s : Nat, cs : Nat] /\ plan \in [s : Nat, h : Nat, c : Nat]
    BY <1>1, <1>2 DEF Inputs
  <1>4. /\ handoffs' = IF e.what = "handoff" THEN Append(handoffs, note) ELSE handoffs
        /\ plans' = IF e.what = "plan" THEN Append(plans, plan) ELSE plans
    BY DEF ArtifactWrite
  <1>5. note.s = e.s /\ plan.s = e.s /\ plan.h = in.h
    OBVIOUS
  <1>6. PICK f \in Frames :
             /\ th' = [th EXCEPT ![t] = f] /\ f.pc = "result" /\ f.held = th[t].held
             /\ f.in = in /\ f.eff = e /\ f.ver = th[t].ver
             /\ Follows(t, f)
    BY ResultKeeps DEF ArtifactWrite
  <1> HIDE DEF e, in, note, plan
  <1>7. /\ th' \in [Threads -> Frames] /\ th'[t] = f
        /\ \A u \in Threads \ {t} : th'[u] = th[u]
    BY <1>6, FrameSet DEF CommandsInv
  <1>8. \A u \in Threads \ {t} : th[u].pc \notin Mutates
    BY DEF CommandsInv, Locked, Mutates
  <1>9. Locked'
    BY <1>6, KeepsLocks DEF CommandsInv, Mutates
  <1>10. /\ handoffs' \in Seq([s : Nat, cs : Nat])
         /\ plans' \in Seq([s : Nat, h : Nat, c : Nat])
    BY <1>1, <1>3, <1>4, AppendRow
  <1>11. Typed'
    BY <1>1, <1>7, <1>10 DEF CommandsInv, Typed
  <1>12. Prepares' /\ UpToDate' /\ BackedUp'
    BY <1>6, <1>7 DEF CommandsInv, Prepares, UpToDate, BackedUp, UpgradeHasBackup, Follows
  <1>13. \A u \in Threads : th'[u].pc # "effect" /\ (InFlight(u)' => u = t)
    BY <1>6, <1>7, <1>8 DEF InFlight, Mutates
  <1>14. e.k # "none" /\ Rests(agg, in, e)
    BY DEF CommandsInv, Finished, Lineage, InFlight, e, in
  <1>15. e.what = "handoff" =>
           Ended(agg, e.s) /\ \A i \in DOMAIN handoffs : handoffs[i].s # e.s
    BY <1>1 DEF CommandsInv, Finished, e
  <1>16. /\ \A i, j \in DOMAIN handoffs : handoffs[i].s = handoffs[j].s => i = j
         /\ \A i \in DOMAIN handoffs : Ended(agg, handoffs[i].s)
    BY DEF CommandsInv, Finished, HandoffOnce
  <1>17. /\ \A i, j \in DOMAIN handoffs' : handoffs'[i].s = handoffs'[j].s => i = j
         /\ \A i \in DOMAIN handoffs' : Ended(agg, handoffs'[i].s)
    <2>1. CASE e.what # "handoff"
      BY <1>4, <1>16, <2>1
    <2>2. CASE e.what = "handoff"
      <3>1. handoffs' = Append(handoffs, note)
        BY <1>4, <2>2
      <3>2. /\ Len(handoffs) \in Nat /\ DOMAIN handoffs = 1 .. Len(handoffs)
            /\ DOMAIN handoffs' = 1 .. Len(handoffs) + 1
            /\ \A j \in DOMAIN handoffs : handoffs'[j] = handoffs[j]
            /\ handoffs'[Len(handoffs) + 1] = note
        <4> DEFINE R == [s : Nat, cs : Nat]
        <4>1. handoffs \in Seq(R) /\ note \in R
          BY <1>1, <1>3
        <4> HIDE DEF R
        <4> QED BY <3>1, <4>1, AppendRow
      <3>3. \A j \in DOMAIN handoffs' : j \in DOMAIN handoffs \/ j = Len(handoffs) + 1
        BY <3>2
      <3> QED BY <1>5, <1>15, <1>16, <2>2, <3>2, <3>3
    <2> QED BY <2>1, <2>2
  <1>18. Finished'
    <2>1. \A u \in Threads : InFlight(u)' => th'[u].eff.k # "none"
      BY <1>6, <1>7, <1>13, <1>14
    <2> QED BY <1>13, <1>17, <2>1 DEF Finished, HandoffOnce
  <1>19. \A i \in DOMAIN plans' :
           agg.stage = "PLAN" /\ (plans'[i].h = 0 => Clear(agg, plans'[i].s))
    <2>0. \A i \in DOMAIN plans :
            agg.stage = "PLAN" /\ (plans[i].h = 0 => Clear(agg, plans[i].s))
      BY DEF CommandsInv, Lineage
    <2>1. CASE e.what # "plan"
      BY <1>4, <2>0, <2>1
    <2>2. CASE e.what = "plan"
      <3>1. plans' = Append(plans, plan)
        BY <1>4, <2>2
      <3>2. /\ Len(plans) \in Nat /\ DOMAIN plans = 1 .. Len(plans)
            /\ DOMAIN plans' = 1 .. Len(plans) + 1
            /\ \A j \in DOMAIN plans : plans'[j] = plans[j]
            /\ plans'[Len(plans) + 1] = plan
        <4> DEFINE R == [s : Nat, h : Nat, c : Nat]
        <4>1. plans \in Seq(R) /\ plan \in R
          BY <1>1, <1>3
        <4> HIDE DEF R
        <4> QED BY <3>1, <4>1, AppendRow
      <3>3. \A j \in DOMAIN plans' : j \in DOMAIN plans \/ j = Len(plans) + 1
        BY <3>2
      <3>4. agg.stage = "PLAN" /\ (in.h = 0 => Clear(agg, e.s))
        BY <1>1, <1>14, <2>2 DEF Rests
      <3> QED BY <1>5, <2>0, <3>2, <3>3, <3>4
    <2> QED BY <2>1, <2>2
  <1>20. Lineage'
    <2>1. \A u \in Threads : InFlight(u)' => Rests(agg', th'[u].in, th'[u].eff)
      BY <1>6, <1>7, <1>13, <1>14
    <2> QED BY <1>19, <2>1 DEF Lineage
  <1> QED BY <1>9, <1>11, <1>12, <1>18, <1>20 DEF CommandsInv

(* Every Effect, up to its Result.                                          *)
LEMMA RunEffectSound ==
    ASSUME CommandsInv, NEW t \in Threads, RunEffect(t)
    PROVE  CommandsInv'
  <1>1. /\ th[t].pc = "effect" /\ turn' \in [Processes -> Turns]
        /\ UNCHANGED <<agg, version, db, files, opened, turn>>
    BY DEF RunEffect, store, locks, CommandsInv, Typed
  <1>2. CASE ArtifactWrite(t)
    BY <1>1, <1>2, WriteSound
  <1>3. CASE NativeBootstrap(t) \/ ProviderStart(t) \/ StopManagedProcess(t)
    <2>1. PICK ok \in BOOLEAN : ResultIs(t, ok)
      BY <1>3 DEF NativeBootstrap, ProviderStart, StopManagedProcess
    <2>2. UNCHANGED <<handoffs, plans, sets>> /\ sets' \in Nat
      BY <1>3 DEF NativeBootstrap, ProviderStart, StopManagedProcess, disk, CommandsInv, Typed
    <2>3. PICK f \in Frames :
             /\ th' = [th EXCEPT ![t] = f] /\ f.pc = "result" /\ f.held = th[t].held
             /\ f.in = th[t].in /\ f.eff = th[t].eff /\ f.ver = th[t].ver
             /\ Follows(t, f)
      BY <1>1, <2>1, ResultKeeps
    <2> QED BY <1>1, <2>2, <2>3, ThreadMoves DEF Mutates
  <1> QED BY <1>2, <1>3 DEF RunEffect

-----------------------------------------------------------------------------
(* The end of a command                                                     *)

(* A command completes, and may leave a native turn open.                   *)
LEMMA CompleteSound ==
    ASSUME CommandsInv, NEW t \in Threads, Complete(t)
    PROVE  CommandsInv'
  <1>1. /\ UNCHANGED <<agg, version, db, handoffs, plans, sets>> /\ Return(t)
        /\ turn' = [turn EXCEPT ![ProcessOf[t]] = BridgeOf(t)]
        /\ turn \in [Processes -> Turns] /\ ProcessOf[t] \in Processes
        /\ th[t].in \in Inputs /\ agg \in Aggregates
    BY ThreadsAssumption DEF Complete, store, disk, CommandsInv, Typed, Frames
  <1>2. BridgeOf(t) \in Turns
    <2> DEFINE s == IF th[t].in.c0 = "Continue" THEN th[t].in.s ELSE Len(agg.sessions)
    <2>1. s \in Nat
      BY <1>1, Tables DEF Inputs
    <2>2. BridgeOf(t) = [s |-> s, st |-> "open"] \/ BridgeOf(t) = turn[ProcessOf[t]]
      BY DEF BridgeOf
    <2> HIDE DEF s
    <2> QED BY <1>1, <2>1, <2>2 DEF Turns
  <1> QED BY <1>1, <1>2, ReturnKeeps

(* A call fails.                                                            *)
LEMMA FailSound ==
    ASSUME CommandsInv, NEW t \in Threads, Fail(t)
    PROVE  CommandsInv'
  <1>1. /\ UNCHANGED <<agg, version, db, handoffs, plans, sets>> /\ Return(t)
        /\ turn' \in [Processes -> Turns]
    BY DEF Fail, store, disk, CommandsInv, Typed
  <1> QED BY <1>1, ReturnKeeps

(* Ctrl+C goes on with a Pause.                                             *)
LEMMA InterruptSound ==
    ASSUME CommandsInv, NEW t \in Threads, Interrupt(t)
    PROVE  CommandsInv'
  <1> DEFINE f == [Idle EXCEPT !.pc = "prepare", !.in.c0 = "Pause"]
  <1>1. /\ UNCHANGED <<agg, version, db, handoffs, plans, sets, opened>>
        /\ turn' \in [Processes -> Turns] /\ sets' \in Nat
        /\ th' = [th EXCEPT ![t] = f] /\ files' = Released(t)
    BY DEF Interrupt, store, disk, CommandsInv, Typed
  <1>2. /\ f \in Frames /\ f.pc = "prepare" /\ f.held = <<>>
        /\ f.in.c0 = "Pause"
    <2>1. Idle \in Frames /\ Idle.in \in Inputs /\ Idle.held = <<>>
      BY IdleFrame DEF Idle
    <2> DEFINE in == [Idle.in EXCEPT !.c0 = "Pause"]
    <2>2. in \in Inputs /\ in.c0 = "Pause"
      BY <2>1 DEF Inputs, CommandNames
    <2>3. f = [Idle EXCEPT !.pc = "prepare", !.in = in]
      BY <2>1 DEF Frames
    <2> HIDE DEF in, f
    <2> QED BY <2>1, <2>2, <2>3 DEF Frames, Steps
  <1> HIDE DEF f
  <1>3. Follows(t, f) /\ f.pc \notin Mutates
    BY <1>2 DEF Follows, Mutates
  <1>4. opened' # {} => db.schema = "current"
    BY <1>1 DEF CommandsInv, BackedUp, UpgradeHasBackup
  <1> QED BY <1>1, <1>2, <1>3, <1>4, ThreadReleases

(* A process dies: its commands and its locks are gone together.            *)
LEMMA CrashSound ==
    ASSUME CommandsInv, NEW p \in Processes, Crash(p)
    PROVE  CommandsInv'
  <1> DEFINE row == [k \in Kinds |-> Free]
  <1>1. /\ UNCHANGED <<agg, version, db, handoffs, plans, sets>>
        /\ turn' = [turn EXCEPT ![p] = NoTurn]
        /\ th' = [t \in Threads |-> IF ProcessOf[t] = p THEN Idle ELSE th[t]]
        /\ files' = [files EXCEPT ![p] = row]
        /\ opened' \subseteq opened
        /\ files \in [Processes -> [Kinds -> LockFiles]] /\ th \in [Threads -> Frames]
        /\ turn \in [Processes -> Turns] /\ sets' \in Nat
    BY DEF Crash, store, disk, CommandsInv, Typed
  <1>2. Free \in LockFiles /\ NoTurn \in Turns
    BY DEF Free, LockFiles, NoTurn, Turns
  <1>3. /\ files' \in [Processes -> [Kinds -> LockFiles]] /\ turn' \in [Processes -> Turns]
        /\ \A q \in Processes \ {p} : files'[q] = files[q]
    BY <1>1, <1>2
  <1>4. /\ th' \in [Threads -> Frames]
        /\ \A u \in Threads : IF ProcessOf[u] = p THEN th'[u] = Idle ELSE th'[u] = th[u]
    BY <1>1, IdleFrame
  <1>5. \A u \in Threads : th'[u] = th[u] \/ Follows(u, th'[u])
    BY <1>4, IdleFrame
  <1>6. BackedUp'
    <2>1. opened' # {} => db.schema = "current"
      BY <1>1 DEF CommandsInv, BackedUp, UpgradeHasBackup
    <2> QED BY <1>1, <1>5, <2>1, DatabaseKept
  <1>7. Locked'
    <2>1. \A u \in Threads : Holds(u)' => Holds(u) /\ ProcessOf[u] # p /\ th'[u] = th[u]
      BY <1>4, IdleFrame DEF Holds, Range
    <2>2. \A u \in Threads : ProcessOf[u] # p =>
            files'[ProcessOf[u]]["owner"] = files[ProcessOf[u]]["owner"]
      BY <1>3, ThreadsAssumption
    <2>3. \A u \in Threads : th'[u].pc \in Mutates \union {"lock"} => th'[u] = th[u]
      BY <1>4, IdleFrame DEF Mutates
    <2>4. \A u \in Threads : th'[u].pc \in Mutates => Holds(u)'
      BY <2>3 DEF CommandsInv, Locked, Holds
    <2>5. \A u \in Threads : th'[u].pc = "lock" =>
            th'[u].held \in {<<>>, <<"schema">>, <<"schema", "writer">>}
      BY <2>3 DEF CommandsInv, Locked
    <2> QED BY <2>1, <2>2, <2>4, <2>5 DEF CommandsInv, Locked, Holds
  <1> QED BY <1>1, <1>3, <1>4, <1>5, <1>6, <1>7, ThreadsMove

(* A native turn ends, or nothing happens.                                  *)
LEMMA TurnEndsSound ==
    ASSUME CommandsInv, \/ UNCHANGED vars
                        \/ \E p \in Processes : TurnEnds(p)
    PROVE  CommandsInv'
  <1>1. /\ UNCHANGED <<agg, version, db, handoffs, plans, sets, files, opened, th>>
        /\ files' \in [Processes -> [Kinds -> LockFiles]] /\ th' \in [Threads -> Frames]
        /\ sets' \in Nat
    BY DEF TurnEnds, vars, store, disk, locks, CommandsInv, Typed
  <1>2. turn' \in [Processes -> Turns]
    <2>1. turn \in [Processes -> Turns]
      BY DEF CommandsInv, Typed
    <2>2. CASE UNCHANGED vars
      BY <2>1, <2>2 DEF vars
    <2>3. CASE \E p \in Processes : TurnEnds(p)
      <3>0. PICK p \in Processes : TurnEnds(p)
        BY <2>3
      <3>1. PICK e \in {NoTurn, [turn[p] EXCEPT !.st = "over"]} :
              turn' = [turn EXCEPT ![p] = e]
        BY <3>0 DEF TurnEnds
      <3>2. e \in Turns
        BY <2>1 DEF NoTurn, Turns
      <3> QED BY <2>1, <3>1, <3>2
    <2> QED BY <2>2, <2>3
  <1>3. BackedUp' /\ Locked'
    BY <1>1 DEF CommandsInv, BackedUp, UpgradeHasBackup, Locked, Holds
  <1> QED BY <1>1, <1>2, <1>3, ThreadsMove

-----------------------------------------------------------------------------
(* The invariant                                                            *)

(* Every started database satisfies the invariant.                         *)
LEMMA InitSound == Init => CommandsInv
  <1> SUFFICES ASSUME Init PROVE CommandsInv
    OBVIOUS
  <1>1. PICK i \in Started : agg = i.agg /\ sets = i.sets /\ turn = i.turn
                              /\ db = i.db /\ left = i.left
    BY DEF Init
  <1>2. /\ agg \in Aggregates /\ PointsBack(agg) /\ sets \in Nat
        /\ turn \in [Processes -> Turns]
        /\ db \in [schema : {"old", "current"}, backup : {"none", "copy", "verified"}]
        /\ db.schema = "current" => db.backup = "verified"
    BY <1>1, StartedAssumption
  <1>3. \A t \in Threads : th[t] = Idle
    BY DEF Init
  <1>4. Idle.in.c0 = "none" /\ ~ "owner" \in Range(Idle.held)
    BY DEF Idle, NoInput, Range
  <1>5. Typed
    <2>1. files \in [Processes -> [Kinds -> LockFiles]]
      BY DEF Init, Free, LockFiles
    <2>2. th \in [Threads -> Frames]
      BY IdleFrame DEF Init
    <2>3. version \in Nat /\ handoffs = <<>> /\ plans = <<>>
      BY DEF Init
    <2> QED BY <1>2, <2>1, <2>2, <2>3 DEF Typed
  <1>6. Prepares
    BY <1>3, <1>4, IdleFrame DEF Prepares
  <1>7. Locked
    BY <1>3, <1>4, IdleFrame DEF Locked, Mutates, Holds
  <1>8. UpToDate
    BY <1>3, IdleFrame DEF UpToDate, Mutates
  <1>9. BackedUp
    BY <1>2, <1>3, IdleFrame DEF BackedUp, UpgradeHasBackup, Init
  <1>10. \A t \in Threads : ~InFlight(t) /\ th[t].pc # "effect"
    BY <1>3, IdleFrame DEF InFlight
  <1>11. DOMAIN handoffs = {} /\ DOMAIN plans = {}
    BY DEF Init
  <1>12. Finished /\ Lineage
    BY <1>10, <1>11 DEF Finished, Lineage, HandoffOnce
  <1> QED BY <1>5, <1>6, <1>7, <1>8, <1>9, <1>12 DEF CommandsInv

(* One step of the pipeline, action by action.                             *)
LEMMA StepSound ==
    ASSUME CommandsInv, NEW t \in Threads, Step(t)
    PROVE  CommandsInv'
  <1>1. CASE Prepare(t) \/ Resume(t)
    BY <1>1, PrepareSound
  <1>2. CASE Recover(t)
    BY <1>2, RecoverSound
  <1>3. CASE Recovered(t)
    BY <1>3, RecoveredSound
  <1>4. CASE OpenStore(t)
    BY <1>4, OpenStoreSound
  <1>5. CASE Migrate(t)
    BY <1>5, MigrateSound
  <1>6. CASE WriteManifest(t)
    BY <1>6, WriteManifestSound
  <1>7. CASE ApplyMigrations(t)
    BY <1>7, ApplyMigrationsSound
  <1>8. CASE LockBatch(t)
    BY <1>8, LockBatchSound
  <1>9. CASE Sweep(t)
    BY <1>9, SweepSound
  <1>10. CASE DecideCommand(t)
    BY <1>10, DecideCommandSound
  <1>11. CASE Freeze(t)
    BY <1>11, FreezeSound
  <1>12. CASE RunEffect(t)
    BY <1>12, RunEffectSound
  <1>13. CASE CommitResult(t)
    BY <1>13, CommitResultSound
  <1>14. CASE Complete(t)
    BY <1>14, CompleteSound
  <1> QED BY <1>1, <1>2, <1>3, <1>4, <1>5, <1>6, <1>7, <1>8, <1>9, <1>10, <1>11, <1>12,
             <1>13, <1>14 DEF Step

(* Every step of the system keeps the invariant.                           *)
LEMMA NextSound == CommandsInv /\ [Next]_vars => CommandsInv'
  <1> SUFFICES ASSUME CommandsInv, [Next]_vars PROVE CommandsInv'
    OBVIOUS
  <1>1. CASE UNCHANGED vars \/ \E p \in Processes : TurnEnds(p)
    BY <1>1, TurnEndsSound
  <1>2. ASSUME NEW t \in Threads, Issue(t) PROVE CommandsInv'
    BY <1>2, IssueSound
  <1>3. ASSUME NEW t \in Threads, Step(t) PROVE CommandsInv'
    BY <1>3, StepSound
  <1>4. ASSUME NEW t \in Threads, Fail(t) PROVE CommandsInv'
    BY <1>4, FailSound
  <1>5. ASSUME NEW t \in Threads, Interrupt(t) PROVE CommandsInv'
    BY <1>5, InterruptSound
  <1>6. ASSUME NEW p \in Processes, Crash(p) PROVE CommandsInv'
    BY <1>6, CrashSound
  <1> QED BY <1>1, <1>2, <1>3, <1>4, <1>5, <1>6 DEF Next

(* The invariant of the pipeline.                                           *)
THEOREM PipelineInvariant == Spec => []CommandsInv
  BY InitSound, NextSound, PTL DEF Spec

(* An upgraded database has a verified backup beside it, whatever crashed   *)
(* or failed in an earlier migration (Store.migrate, verifyBackup).         *)
THEOREM UpgradesAreBackedUp == Spec => []UpgradeHasBackup
  <1>1. CommandsInv => UpgradeHasBackup
    BY DEF CommandsInv, BackedUp
  <1> QED BY <1>1, PipelineInvariant, PTL

(* One handoff per Session, although every Finish is prepared before the    *)
(* locks (prepareFinish, decideFinishDiscussion).                           *)
THEOREM OneHandoff == Spec => []HandoffOnce
  <1>1. CommandsInv => HandoffOnce
    BY DEF CommandsInv, Finished
  <1> QED BY <1>1, PipelineInvariant, PTL

(* A Plan written without a handoff hides no earlier native Session         *)
(* (resolvePlanGenerationInputs, hasNativeDiscussionLineage).               *)
THEOREM NoFallback == Spec => []NativeNeverFallsBack
  <1>1. CommandsInv => NativeNeverFallsBack
    BY DEF CommandsInv, Lineage, Clear, NativeNeverFallsBack
  <1> QED BY <1>1, PipelineInvariant, PTL

-----------------------------------------------------------------------------
(* The refinement of SerialStore                                            *)

Seen == IF Owner = NoThread THEN version ELSE th[Owner].ver

(* At most one thread mutates, and it has seen the current version.         *)
OneOwner ==
    /\ \A t, u \in Threads : th[t].pc \in Mutates /\ th[u].pc \in Mutates => t = u
    /\ Owner \in Threads => th[Owner].pc \in Mutates
    /\ Owner \notin Threads => Owner = NoThread /\ \A t \in Threads : th[t].pc \notin Mutates
    /\ Seen = version /\ version \in Nat

(* The owner of the abstract store is the one thread that mutates.          *)
LEMMA OwnerIsCurrent == CommandsInv => OneOwner
  <1> SUFFICES ASSUME CommandsInv PROVE OneOwner
    OBVIOUS
  <1>1. Mutating = {t \in Threads : th[t].pc \in Mutates}
    BY DEF Mutating, Mutates
  <1>2. CASE Mutating = {}
    <2>1. Owner = NoThread
      BY <1>2 DEF Owner
    <2> QED BY <1>1, <1>2, <2>1, ThreadsAssumption DEF OneOwner, Seen, CommandsInv, Typed
  <1>3. CASE Mutating # {}
    <2>1. Owner \in Mutating
      BY <1>3 DEF Owner
    <2>2. Owner \in Threads /\ th[Owner].pc \in Mutates /\ Owner # NoThread
      BY <1>1, <2>1, ThreadsAssumption
    <2>3. th[Owner].ver = version /\ Seen = th[Owner].ver
      BY <2>2 DEF Seen, CommandsInv, UpToDate
    <2> QED BY <2>2, <2>3 DEF OneOwner, CommandsInv, Locked, Typed
  <1> QED BY <1>2, <1>3

(* What a step of one thread leaves alone, and when it commits.             *)
Alone(t) ==
    /\ \A u \in Threads \ {t} : th'[u] = th[u]
    /\ \/ version' = version
       \/ /\ version' = version + 1
          /\ th[t].pc \in Mutates /\ th'[t].pc \in Mutates

(* An early return is a step of its thread alone.                          *)
LEMMA ReturnAlone ==
    ASSUME CommandsInv, NEW t \in Threads, Return(t), version' = version
    PROVE  Alone(t)
  BY DEF Return, Alone, CommandsInv, Typed

(* Taking a lock is a step of its thread alone.                            *)
LEMMA AcquireAlone ==
    ASSUME CommandsInv, NEW t \in Threads, NEW k, NEW mode, NEW new, Acquire(t, k, mode, new),
           version' = version
    PROVE  Alone(t)
  BY ReturnAlone DEF Acquire, Takes, Busy, Polls, Alone, CommandsInv, Typed

(* A transaction of a thread that mutates advances the version by one, or  *)
(* returns early and leaves it.                                            *)
LEMMA TransactAlone ==
    ASSUME CommandsInv, NEW t \in Threads, NEW D, NEW E, Transact(t, D, E),
           th[t].pc \in Mutates
    PROVE  Alone(t)
  <1>1. CASE Return(t) /\ UNCHANGED store
    BY <1>1, ReturnAlone DEF store
  <1>2. CASE ~(Return(t) /\ UNCHANGED store)
    <2>1. PICK d \in D :
            /\ version' = version + 1
            /\ th' = [th EXCEPT ![t].ver = version + 1, ![t].eff = d.eff,
                                ![t].ok = FALSE,
                                ![t].pc = IF d.eff = NoEffect THEN "done" ELSE "effect"]
      BY <1>2 DEF Transact
    <2>2. th[t] \in Frames /\ th \in [Threads -> Frames]
      BY DEF CommandsInv, Typed
    <2> DEFINE pc == IF d.eff = NoEffect THEN "done" ELSE "effect"
    <2>3. pc \in Mutates
      BY DEF Mutates
    <2>4. th' = [th EXCEPT ![t].ver = version + 1, ![t].eff = d.eff, ![t].ok = FALSE,
                           ![t].pc = pc]
      BY <2>1
    <2> HIDE DEF pc
    <2>5. th'[t].pc = pc /\ \A u \in Threads \ {t} : th'[u] = th[u]
      BY <2>2, <2>4 DEF Frames
    <2> QED BY <2>1, <2>3, <2>5 DEF Alone
  <1> QED BY <1>1, <1>2

(* Every step of one thread leaves the other threads alone.                *)
LEMMA StepAlone ==
    ASSUME CommandsInv, NEW t \in Threads, Issue(t) \/ Step(t) \/ Fail(t) \/ Interrupt(t)
    PROVE  Alone(t)
  <1>0. th \in [Threads -> Frames] /\ th[t] \in Frames
    BY DEF CommandsInv, Typed
  <1>1. CASE Issue(t) \/ Fail(t) \/ Interrupt(t)
    BY <1>0, <1>1, ReturnAlone DEF Issue, Fail, Interrupt, Alone, store
  <1>2. CASE Prepare(t) \/ Resume(t) \/ Recovered(t)
    BY <1>0, <1>2, ReturnAlone DEF Prepare, Resume, Recovered, Goes, Alone, store
  <1>3. CASE Recover(t) \/ OpenStore(t) \/ LockBatch(t)
    BY <1>3, AcquireAlone DEF Recover, OpenStore, LockBatch, store
  <1>4. CASE Migrate(t)
    BY <1>0, <1>4, ReturnAlone DEF Migrate, Serve, Goes, Alone
  <1>5. CASE WriteManifest(t) \/ ApplyMigrations(t)
    BY <1>0, <1>5 DEF WriteManifest, ApplyMigrations, Serve, Goes, Alone
  <1>6. CASE Sweep(t)
    <2>1. th[t].pc = "sweep" /\ (version' = version \/ version' = version + 1)
      BY <1>6 DEF Sweep
    <2>2. th' = [th EXCEPT ![t].pc = "decide", ![t].ver = version']
      BY <1>6 DEF Sweep
    <2>3. th'[t].pc = "decide" /\ \A u \in Threads \ {t} : th'[u] = th[u]
      BY <1>0, <2>2 DEF Frames
    <2> QED BY <2>1, <2>3 DEF Alone, Mutates
  <1>7. CASE DecideCommand(t) \/ CommitResult(t)
    BY <1>7, TransactAlone DEF DecideCommand, CommitResult, Mutates
  <1>8. CASE Freeze(t)
    BY <1>0, <1>8 DEF Freeze, Goes, Alone, store
  <1>9. CASE RunEffect(t)
    BY <1>0, <1>9 DEF RunEffect, NativeBootstrap, ProviderStart, StopManagedProcess,
                      ArtifactWrite, ResultIs, Alone, store
  <1>10. CASE Complete(t)
    BY <1>10, ReturnAlone DEF Complete, store
  <1> QED BY <1>1, <1>2, <1>3, <1>4, <1>5, <1>6, <1>7, <1>8, <1>9, <1>10 DEF Step

(* Every step of the pipeline is a step of SerialStore, or none.            *)
LEMMA StepIsSerial ==
    ASSUME CommandsInv, CommandsInv', [Next]_vars
    PROVE  [Serial!Begin \/ Serial!Commit \/ Serial!End]_<<Owner, Seen, version>>
  <1>0. OneOwner /\ OneOwner'
    BY OwnerIsCurrent, PTL
  <1>1. /\ \A t, u \in Threads : th[t].pc \in Mutates /\ th[u].pc \in Mutates => t = u
        /\ Owner \in Threads => th[Owner].pc \in Mutates
        /\ Owner \notin Threads => Owner = NoThread /\ \A t \in Threads : th[t].pc \notin Mutates
        /\ Seen = version /\ version \in Nat
    BY <1>0 DEF OneOwner
  <1>2. /\ \A t, u \in Threads : th'[t].pc \in Mutates /\ th'[u].pc \in Mutates => t = u
        /\ Owner' \in Threads => th'[Owner'].pc \in Mutates
        /\ Owner' \notin Threads => Owner' = NoThread /\ \A t \in Threads : th'[t].pc \notin Mutates
        /\ Seen' = version' /\ version' \in Nat
    BY <1>0 DEF OneOwner
  <1>3. CASE \E t \in Threads : Alone(t)
    <2>1. PICK t \in Threads : Alone(t)
      BY <1>3
    <2>2. CASE version' = version
      <3>1. \/ Owner' = Owner
            \/ Owner = NoThread /\ Owner' \in Threads
            \/ Owner \in Threads /\ Owner' = NoThread
        BY <1>1, <1>2, <2>1 DEF Alone
      <3> QED BY <1>1, <1>2, <2>2, <3>1 DEF Serial!Begin, Serial!End, Seen
    <2>3. CASE version' # version
      <3>1. Owner = t /\ Owner' = t /\ version' = version + 1
        BY <1>1, <1>2, <2>1, <2>3 DEF Alone
      <3> QED BY <1>1, <1>2, <3>1 DEF Serial!Commit, Seen
    <2> QED BY <2>2, <2>3
  <1>4. CASE UNCHANGED vars
    BY <1>1, <1>2, <1>4 DEF vars, store, Owner, Mutating
  <1>5. CASE \E p \in Processes : Crash(p) \/ TurnEnds(p)
    <2>1. version' = version /\ \A u \in Threads : th'[u].pc \in Mutates => th[u].pc \in Mutates
      BY <1>5, IdleFrame DEF Crash, TurnEnds, store, Mutates
    <2>2. Owner' = Owner \/ (Owner \in Threads /\ Owner' = NoThread)
      BY <1>1, <1>2, <2>1
    <2> QED BY <1>1, <1>2, <2>1, <2>2 DEF Serial!End, Seen
  <1>6. CASE \E t \in Threads : Issue(t) \/ Step(t) \/ Fail(t) \/ Interrupt(t)
    BY <1>3, <1>6, StepAlone
  <1> QED BY <1>4, <1>5, <1>6 DEF Next

(* Commands mutate a Workflow one at a time, from the sweep to the last     *)
(* Result (acquireMutationLocks, transact).                                 *)
THEOREM MutationsSerial == Spec => MutationsAreSerial
  <1>1. Init => Owner = NoThread /\ version \in Nat /\ Seen = version
    BY InitSound, OwnerIsCurrent, ThreadsAssumption, IdleFrame DEF OneOwner, Init, Mutates
  <1>2. CommandsInv /\ CommandsInv' /\ [Next]_vars =>
          [Serial!Begin \/ Serial!Commit \/ Serial!End]_<<Owner, Seen, version>>
    BY StepIsSerial
  <1> QED BY <1>1, <1>2, PipelineInvariant, PTL
          DEF Spec, MutationsAreSerial, Serial!Spec, Seen

=============================================================================
