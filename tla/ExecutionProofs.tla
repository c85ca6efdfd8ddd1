--------------------------- MODULE ExecutionProofs ---------------------------
(***************************************************************************)
(* Theorems about the execution, for every graph, every bound and every    *)
(* choice of faults, in three parts.                                       *)
(*                                                                         *)
(* 1. The loops of a dispatch pass (SchedulerLoop) compute the batch that  *)
(*    Execution states.  Both go through their Nodes by rank, so what they *)
(*    have decided is the part of the set that is behind them.             *)
(*                                                                         *)
(* 2. What every execution Decision of the Kernel preserves, for every     *)
(*    aggregate:                                                           *)
(*   - the shape of the rows, the order of the Runs, the place of a        *)
(*     RUNNING Attempt (Good, Follows);                                    *)
(*   - where a Decision leaves the Workflow, its Run and what still runs,  *)
(*     and the books of retries (Calm, Kept, Books, Working);              *)
(*   - what a Decision never takes back: successes, Task Bases, the        *)
(*     verified head (Heir).                                               *)
(*    The lemmas go up the call structure of DecisionKernel, one per       *)
(*    operator, and expand one operator each.                              *)
(*                                                                         *)
(* 3. Execution, from three inductive invariants:                          *)
(*   Inv      the types, at most one active Run with its gate, and the     *)
(*            place of a RUNNING Attempt.  The Decisions keep them only    *)
(*            jointly: the active Run is the newest one only in an ordered *)
(*            table, and a settlement ends the one RUNNING Attempt of a    *)
(*            Node only because there is one.                              *)
(*   PassInv  what a dispatch pass, a stop and the rows know of each       *)
(*            other: which chains may still settle, what a Run that is     *)
(*            STOPPING or QUIESCING waits for, and the books of retries.   *)
(*   WorkInv  what the commits contain: head, Workspace and Task Bases     *)
(*            bring in verified work only, and a Workflow that SUCCEEDED   *)
(*            has all of it in its head.                                   *)
(*    Each is proved from the ones before it.                              *)
(***************************************************************************)
EXTENDS Execution, SchedulerLoop, RowLemmas, SequenceTheorems, FiniteSetTheorems, TLAPS

-----------------------------------------------------------------------------
(*-------------------------------------------------------------------------*)
(* 1. The loops of a dispatch pass                                         *)
(*-------------------------------------------------------------------------*)

(* The inductive invariant.                                                *)

(* Every Node behind the loop ranks below every Node ahead of it.          *)
InOrder(all) == \A m \in all \ todo : \A n \in todo : Rank[m] < Rank[n]

(* What Scheduler.Next has allocated: the cap was reached with it, or      *)
(* nothing schedulable was refused.                                        *)
NextSoFar ==
    /\ todo \subseteq Nodes
    /\ InOrder(Nodes)
    /\ eligible = Eligible(node, gate) \ todo
    /\ eligible = Schedulable(node, gate) \ todo \/ CapReached
    /\ merging = FALSE
    /\ selected = {}

(* The members of a batch are judged against the members before them.      *)
Behind(batch) == batch \ todo

SelectSoFar ==
    /\ eligible = Eligible(node, gate)
    /\ todo \subseteq eligible
    /\ InOrder(eligible)
    /\ merging = (/\ RunningNodes(node) \cap Merges = {}
                  /\ Behind(eligible) \cap Merges # {})
    /\ selected = Behind(SelectedFrom(selected, node, eligible, deferred, exhausted))

LoopInv ==
    /\ node \in [Nodes -> NodeStatuses]
    /\ loop \in {"next", "select", "done"}
    /\ loop = "next" => NextSoFar
    /\ loop \in {"select", "done"} => SelectSoFar
    /\ loop = "done" => todo = {}

-----------------------------------------------------------------------------
(* Walking by rank.                                                        *)

(* The Node the iteration visits is the first one ahead of it.             *)
LEMMA VisitedIsFirst ==
    ASSUME todo \subseteq Nodes, todo # {}
    PROVE  Visited \in todo /\ \A m \in todo : Rank[Visited] <= Rank[m]
  <1> DEFINE ranks == {Rank[n] : n \in todo}
  <1>1. ranks \subseteq Nat /\ ranks # {}
    BY GraphAssumption
  <1> HIDE DEF ranks
  <1>2. PICK r \in ranks : \A q \in ranks : r <= q
    BY <1>1, FirstRow
  <1>3. \E n \in todo : \A m \in todo : Rank[n] <= Rank[m]
    BY <1>2 DEF ranks
  <1> QED BY <1>3 DEF Visited

(* It divides the Nodes of the walk into those behind and those ahead.     *)
LEMMA VisitedDivides ==
    ASSUME NEW all \in SUBSET Nodes, todo \subseteq all, todo # {}, InOrder(all)
    PROVE  /\ Visited \in todo
           /\ \A m \in all : m \notin todo <=> Rank[m] < Rank[Visited]
           /\ \A m \in all \ (todo \ {Visited}), n \in todo \ {Visited} : Rank[m] < Rank[n]
  <1>1. Visited \in todo /\ \A m \in todo : Rank[Visited] <= Rank[m]
    BY VisitedIsFirst
  <1>2. Visited \in Nodes /\ \A n \in Nodes : Rank[n] \in Nat
    BY <1>1, GraphAssumption
  <1>3. \A m \in all : m \notin todo <=> Rank[m] < Rank[Visited]
    BY <1>1, <1>2 DEF InOrder
  <1>4. ASSUME NEW m \in all \ (todo \ {Visited}), NEW n \in todo \ {Visited}
        PROVE  Rank[m] < Rank[n]
    <2>1. Rank[Visited] <= Rank[n] /\ Rank[Visited] # Rank[n]
      BY <1>1, <1>2, GraphAssumption
    <2>2. CASE m = Visited
      BY <1>2, <2>1, <2>2
    <2>3. CASE m # Visited
      BY <2>3 DEF InOrder
    <2> QED BY <2>2, <2>3
  <1> QED BY <1>1, <1>3, <1>4

-----------------------------------------------------------------------------
(* The loop of Scheduler.Next.                                             *)

(* Counting what it has allocated finds the cap where counting all that is *)
(* schedulable before the Node would.                                      *)
LEMMA CapIsEligible ==
    ASSUME NextSoFar, todo # {}, Visited \in Schedulable(node, gate)
    PROVE  Visited \in Eligible(node, gate) <=> ~CapReached
  <1> DEFINE S == Schedulable(node, gate)
             before == {m \in S : Rank[m] < Rank[Visited]}
             running == Cardinality(RunningNodes(node))
  <1>1. S \subseteq Nodes /\ before = S \ todo
    <2>1. \A m \in Nodes : m \notin todo <=> Rank[m] < Rank[Visited]
      BY VisitedDivides DEF NextSoFar
    <2> QED BY <2>1 DEF Schedulable
  <1>2. eligible \subseteq before
    BY <1>1 DEF NextSoFar, Eligible
  <1>3. /\ IsFiniteSet(before) /\ IsFiniteSet(eligible)
        /\ Cardinality(eligible) <= Cardinality(before)
    <2>1. IsFiniteSet(before)
      BY <1>1, FS_Subset, GraphAssumption
    <2> QED BY <1>2, <2>1, FS_Subset
  <1>4. /\ running \in Nat /\ Cardinality(before) \in Nat
        /\ Cardinality(eligible) \in Nat /\ MaxConcurrency \in Nat
    <2>1. IsFiniteSet(RunningNodes(node))
      BY FS_Subset, GraphAssumption DEF RunningNodes
    <2> QED BY <1>3, <2>1, FS_CardinalityType, ConcurrencyAssumption
  <1>5. Visited \in Eligible(node, gate) <=>
          MaxConcurrency = 0 \/ running + Cardinality(before) < MaxConcurrency
    BY DEF Eligible
  <1>6. CapReached <=>
          MaxConcurrency > 0 /\ running + Cardinality(eligible) >= MaxConcurrency
    BY DEF CapReached
  <1>7. eligible = before \/ CapReached
    BY <1>1 DEF NextSoFar
  <1> HIDE DEF before, running, S
  <1> QED BY <1>3, <1>4, <1>5, <1>6, <1>7

(* One iteration of Scheduler.Next visits one Node.                        *)
LEMMA NextVisits ==
    ASSUME LoopInv, NextIteration, loop = "next", todo # {}
    PROVE  LoopInv'
  <1> DEFINE v == Visited
             S == Schedulable(node, gate)
             E == Eligible(node, gate)
  <1>1. NextSoFar
    BY DEF LoopInv
  <1>2. /\ todo' = todo \ {v} /\ loop' = loop
        /\ UNCHANGED <<node, gate, merging, selected>>
        /\ eligible' = IF v \in S /\ ~CapReached THEN eligible \cup {v} ELSE eligible
    <2>1. v \in Nodes
      BY <1>1, VisitedIsFirst DEF NextSoFar
    <2> QED BY <2>1 DEF NextIteration, Schedulable, DepsSucceeded
  <1>3. v \in todo /\ todo' \subseteq Nodes /\ InOrder(Nodes)'
    BY <1>1, <1>2, VisitedDivides DEF NextSoFar, InOrder
  <1>4. v \in S => (v \in E <=> ~CapReached)
    BY <1>1, CapIsEligible
  <1>5. E \subseteq S /\ E' = E /\ S' = S
    BY <1>2 DEF Eligible, Schedulable
  <1> HIDE DEF v, S, E
  <1>6. eligible' = E \ todo'
    BY <1>1, <1>2, <1>3, <1>4, <1>5 DEF NextSoFar, E
  <1>7. eligible' = S \ todo' \/ CapReached'
    <2>1. CASE v \in S /\ ~CapReached
      BY <1>1, <1>2, <1>3, <2>1 DEF NextSoFar, S
    <2>2. CASE ~(v \in S /\ ~CapReached)
      <3>1. eligible' = eligible /\ (CapReached => CapReached')
        BY <1>2, <2>2 DEF CapReached
      <3>2. CASE CapReached
        BY <3>1, <3>2
      <3>3. CASE ~CapReached
        BY <1>1, <1>2, <2>2, <3>1, <3>3 DEF NextSoFar, S
      <3> QED BY <3>2, <3>3
    <2> QED BY <2>1, <2>2
  <1>8. NextSoFar'
    BY <1>1, <1>2, <1>3, <1>5, <1>6, <1>7 DEF NextSoFar, S, E
  <1> QED BY <1>2, <1>8 DEF LoopInv

(* When it has visited all of them the other loop begins.                  *)
LEMMA NextEnds ==
    ASSUME LoopInv, NextIteration, todo = {}
    PROVE  LoopInv'
  <1>1. NextSoFar
    BY DEF LoopInv, NextIteration
  <1>2. /\ loop' = "select" /\ todo' = eligible /\ eligible' = eligible
        /\ UNCHANGED <<node, gate, deferred, exhausted, merging, selected>>
    BY DEF NextIteration
  <1>3. eligible = Eligible(node, gate) /\ merging = FALSE /\ selected = {}
    BY <1>1 DEF NextSoFar
  <1>4. eligible' = Eligible(node, gate)' /\ InOrder(eligible)'
    BY <1>2, <1>3 DEF Eligible, Schedulable, RunningNodes, InOrder
  <1>5. \A batch : SelectedFrom(batch, node, eligible, deferred, exhausted) \subseteq eligible
    BY DEF SelectedFrom
  <1>6. selected' = Behind(SelectedFrom(selected, node, eligible, deferred, exhausted))'
    BY <1>2, <1>3, <1>5 DEF Behind
  <1>7. Behind(eligible)' = {}
    BY <1>2 DEF Behind
  <1>8. SelectSoFar'
    BY <1>2, <1>3, <1>4, <1>6, <1>7 DEF SelectSoFar
  <1> QED BY <1>2, <1>8 DEF LoopInv

-----------------------------------------------------------------------------
(* The loop of selectBatch.                                                *)

(* The judgment of selectBatch on one Node, as SelectedFrom states it.     *)
Judged(n, batch) ==
    /\ n \in Merges => MergeAdmitted(n, node, eligible)
    /\ n \notin deferred
    /\ ~exhausted
    /\ n \in Tasks =>
          /\ \A m \in batch : Rank[m] < Rank[n] => <<m, n>> \notin Conflicts
          /\ \A m \in RunningNodes(node) \cap Tasks : <<m, n>> \notin Conflicts

(* One iteration of selectBatch visits one Node.                           *)
LEMMA SelectVisits ==
    ASSUME LoopInv, SelectIteration, todo # {}
    PROVE  LoopInv'
  <1> DEFINE v == Visited
             none == RunningNodes(node) \cap Merges = {}
             refused == v \in Merges /\ (merging \/ ~none)
             free == v \in Tasks => ConflictFree(v)
             taken == ~refused /\ v \notin deferred /\ ~exhausted /\ free
  <1>1. loop = "select" /\ SelectSoFar
    BY DEF LoopInv, SelectIteration
  <1>2. /\ todo' = todo \ {v} /\ loop' = loop
        /\ merging' = (merging \/ (v \in Merges /\ ~refused))
        /\ selected' = IF taken THEN selected \cup {v} ELSE selected
        /\ UNCHANGED <<node, gate, deferred, exhausted, eligible>>
    BY DEF SelectIteration
  <1>3. eligible \subseteq Nodes
    BY <1>1 DEF SelectSoFar, Eligible, Schedulable
  <1>4. /\ v \in todo /\ v \in eligible /\ InOrder(eligible)'
        /\ \A m \in eligible : m \notin todo <=> Rank[m] < Rank[v]
    BY <1>1, <1>2, <1>3, VisitedDivides DEF SelectSoFar, InOrder
  <1>5. \A n \in eligible : Rank[n] \in Nat
    BY <1>3, GraphAssumption
  <1>6. selected \subseteq eligible \ todo
    BY <1>1 DEF SelectSoFar, Behind, SelectedFrom
  <1>7. merging' = (none /\ (eligible \ todo') \cap Merges # {})
    BY <1>1, <1>2, <1>4 DEF SelectSoFar, Behind
  <1>8. (v \in Merges => MergeAdmitted(v, node, eligible)) <=> ~refused
    <2>1. merging <=> none /\ \E m \in eligible \cap Merges : m \notin todo
      BY <1>1 DEF SelectSoFar, Behind
    <2>2. \A m \in eligible : m \notin todo <=> ~(Rank[v] <= Rank[m])
      BY <1>4, <1>5
    <2> QED BY <2>1, <2>2 DEF MergeAdmitted
  <1> HIDE DEF refused, none
  <1>9. Judged(v, selected') <=> taken
    <2>1. \A m \in selected : Rank[m] < Rank[v]
      BY <1>4, <1>6
    <2>2. ~(Rank[v] < Rank[v])
      BY <1>4, <1>5
    <2>3. (\A m \in selected' : Rank[m] < Rank[v] => <<m, v>> \notin Conflicts)
            <=> \A m \in selected : <<m, v>> \notin Conflicts
      BY <1>2, <2>1, <2>2
    <2> HIDE DEF v
    <2> QED BY <1>8, <2>3 DEF Judged, ConflictFree
  <1>10. \A n \in eligible \ todo : Judged(n, selected') <=> Judged(n, selected)
    <2> SUFFICES ASSUME NEW n \in eligible \ todo
                 PROVE  Judged(n, selected') <=> Judged(n, selected)
      OBVIOUS
    <2>1. ~(Rank[v] < Rank[n])
      BY <1>4, <1>5
    <2>2. \A m : Rank[m] < Rank[n] => (m \in selected' <=> m \in selected)
      BY <1>2, <2>1
    <2> HIDE DEF v, taken
    <2> QED BY <2>2 DEF Judged
  <1>11. \A batch : SelectedFrom(batch, node, eligible, deferred, exhausted)
                      = {n \in eligible : Judged(n, batch)}
    BY DEF SelectedFrom, Judged
  <1>12. \A n \in eligible \ todo : n \in selected <=> Judged(n, selected)
    BY <1>1, <1>11 DEF SelectSoFar, Behind
  <1>13. selected' = {n \in eligible : Judged(n, selected')} \ todo'
    <2>1. v \notin selected
      BY <1>4, <1>6
    <2>2. eligible \ todo' = (eligible \ todo) \cup {v}
      BY <1>2, <1>4
    <2>3. \A n \in eligible \ todo' : n \in selected' <=> Judged(n, selected')
      <3> SUFFICES ASSUME NEW n \in eligible \ todo'
                   PROVE  n \in selected' <=> Judged(n, selected')
        OBVIOUS
      <3>1. CASE n = v
        BY <1>2, <1>9, <2>1, <3>1
      <3>2. CASE n # v
        BY <1>2, <1>10, <1>12, <2>2, <3>2
      <3> QED BY <3>1, <3>2
    <2>4. selected' \subseteq eligible \ todo'
      BY <1>2, <1>4, <1>6
    <2> QED BY <2>3, <2>4
  <1>14. selected' = Behind(SelectedFrom(selected, node, eligible, deferred, exhausted))'
    BY <1>2, <1>11, <1>13 DEF Behind
  <1>15. eligible' = Eligible(node, gate)' /\ todo' \subseteq eligible'
    <2>1. Eligible(node, gate)' = Eligible(node, gate)
      BY <1>2 DEF Eligible, Schedulable, RunningNodes
    <2> QED BY <1>1, <1>2, <2>1 DEF SelectSoFar
  <1>16. SelectSoFar'
    <2>1. merging' = (/\ RunningNodes(node) \cap Merges = {}
                      /\ Behind(eligible) \cap Merges # {})'
      BY <1>2, <1>7 DEF Behind, none, RunningNodes
    <2> QED BY <1>4, <1>14, <1>15, <2>1 DEF SelectSoFar
  <1> QED BY <1>1, <1>2, <1>16 DEF LoopInv

(* What it has decided depends on nothing but the snapshot and the walk.   *)
LEMMA SelectStands ==
    ASSUME SelectSoFar, todo' = todo,
           UNCHANGED <<node, gate, deferred, exhausted, eligible, merging, selected>>
    PROVE  SelectSoFar'
  <1>1. Eligible(node, gate)' = Eligible(node, gate)
    BY DEF Eligible, Schedulable, RunningNodes
  <1>2. SelectedFrom(selected, node, eligible, deferred, exhausted)'
          = SelectedFrom(selected, node, eligible, deferred, exhausted)
    BY DEF SelectedFrom, MergeAdmitted, RunningNodes
  <1>3. RunningNodes(node)' = RunningNodes(node)
    BY DEF RunningNodes
  <1>4. merging' = (/\ RunningNodes(node) \cap Merges = {}
                    /\ Behind(eligible) \cap Merges # {})'
    BY <1>3 DEF SelectSoFar, Behind
  <1>5. selected' = Behind(SelectedFrom(selected, node, eligible, deferred, exhausted))'
    BY <1>2 DEF SelectSoFar, Behind
  <1>6. eligible' = Eligible(node, gate)' /\ InOrder(eligible)' /\ (todo \subseteq eligible)'
    BY <1>1 DEF SelectSoFar, InOrder
  <1> QED BY <1>4, <1>5, <1>6 DEF SelectSoFar

(* When it has visited all of them the batch stands.                       *)
LEMMA SelectEnds ==
    ASSUME LoopInv, SelectIteration, todo = {}
    PROVE  LoopInv'
  <1>1. SelectSoFar
    BY DEF LoopInv, SelectIteration
  <1>2. loop' = "done" /\ todo' = todo
        /\ UNCHANGED <<node, gate, deferred, exhausted, eligible, merging, selected>>
    BY DEF SelectIteration
  <1>3. SelectSoFar'
    BY <1>1, <1>2, SelectStands
  <1> QED BY <1>2, <1>3 DEF LoopInv

-----------------------------------------------------------------------------
(* The theorems.                                                           *)

(* Both loops, from every snapshot, have so far computed what is behind    *)
(* them (internal/schedule/scheduler.go, Next; internal/app/dispatch.go,   *)
(* selectBatch).                                                           *)
THEOREM LoopsInOrder == LoopSpec => []LoopInv
  <1>1. LoopInit => LoopInv
    <2> SUFFICES ASSUME LoopInit PROVE LoopInv
      OBVIOUS
    <2>1. todo = Nodes /\ eligible = {} /\ merging = FALSE /\ selected = {} /\ loop = "next"
      BY DEF LoopInit
    <2>2. node \in [Nodes -> NodeStatuses]
      BY DEF LoopInit
    <2>3. Eligible(node, gate) \subseteq Nodes /\ Schedulable(node, gate) \subseteq Nodes
      BY DEF Eligible, Schedulable
    <2>4. NextSoFar
      BY <2>1, <2>3 DEF NextSoFar, InOrder
    <2> QED BY <2>1, <2>2, <2>4 DEF LoopInv
  <1>2. LoopInv /\ [NextIteration \/ SelectIteration]_loopVars => LoopInv'
    <2> SUFFICES ASSUME LoopInv, [NextIteration \/ SelectIteration]_loopVars
                 PROVE  LoopInv'
      OBVIOUS
    <2>1. CASE NextIteration
      <3>1. loop = "next"
        BY <2>1 DEF NextIteration
      <3> QED BY <2>1, <3>1, NextVisits, NextEnds
    <2>2. CASE SelectIteration
      BY <2>2, SelectVisits, SelectEnds
    <2>3. CASE UNCHANGED loopVars
      <3>1. loop = "next" => NextSoFar'
        <4>1. Eligible(node, gate)' = Eligible(node, gate)
              /\ Schedulable(node, gate)' = Schedulable(node, gate)
              /\ CapReached' = CapReached
          BY <2>3 DEF loopVars, Eligible, Schedulable, RunningNodes, CapReached
        <4>2. loop = "next" => InOrder(Nodes)'
          BY <2>3 DEF loopVars, LoopInv, NextSoFar, InOrder
        <4> QED BY <2>3, <4>1, <4>2 DEF loopVars, LoopInv, NextSoFar
      <3>2. loop \in {"select", "done"} => SelectSoFar'
        BY <2>3, SelectStands DEF loopVars, LoopInv
      <3> QED BY <2>3, <3>1, <3>2 DEF loopVars, LoopInv
    <2> QED BY <2>1, <2>2, <2>3
  <1> QED BY <1>1, <1>2, PTL DEF LoopSpec

(* When the loops end they have computed the eligible set and the batch    *)
(* the module Scheduler states: the greedy count against the concurrency   *)
(* cap and the greedy judgment of conflicts and merges leave nothing out   *)
(* and let nothing in (internal/schedule/scheduler.go, Next;               *)
(* internal/app/dispatch.go, selectBatch).                                 *)
THEOREM BatchIsComputed == LoopSpec => []LoopsComputeBatch
  <1>1. LoopInv => LoopsComputeBatch
    <2> SUFFICES ASSUME LoopInv, loop = "done" PROVE LoopsComputeBatch
      BY DEF LoopsComputeBatch
    <2>1. SelectSoFar /\ todo = {}
      BY DEF LoopInv
    <2>2. /\ eligible = Eligible(node, gate)
          /\ selected = SelectedFrom(selected, node, eligible, deferred, exhausted)
      BY <2>1 DEF SelectSoFar, Behind
    <2> QED BY <2>2 DEF LoopsComputeBatch, IsBatch
  <1> QED BY <1>1, LoopsInOrder, PTL

-----------------------------------------------------------------------------
(*-------------------------------------------------------------------------*)
(* 2. The Decisions                                                        *)
(*-------------------------------------------------------------------------*)

(* The three facts the Decisions preserve.                                 *)

RunsOrdered(d) ==
    \A i \in DOMAIN d.runs :
        /\ d.runs[i].status \notin RunTerminal => i = Len(d.runs)
        /\ d.runs[i].gate = (d.runs[i].status = "RUNNING")

NewestRuns(d) ==
    \A n \in Nodes : \A k \in DOMAIN d.att[n] :
        d.att[n][k].status = "RUNNING" => k = Len(d.att[n]) /\ d.node[n] = "RUNNING"

NothingRuns(d) ==
    \A n \in Nodes : \A k \in DOMAIN d.att[n] : d.att[n][k].status # "RUNNING"

Good(d) == d \in Aggregates /\ RunsOrdered(d) /\ NewestRuns(d)

(* `d` is a good mutation of `s` that opens no Run.                        *)
Follows(s, d) == Good(d) /\ Len(d.runs) = Len(s.runs)

(* wfMut replaces the Workflow row and nothing else.                       *)
LEMMA WfMutSound ==
    ASSUME NEW s, NEW d, Good(s), Follows(s, d),
           NEW stage \in {"EXECUTION", "FINAL_VERIFICATION", "COMPLETED"},
           NEW runtime \in Runtimes, NEW cancel \in BOOLEAN
    PROVE  LET t == WfMut(s, d, stage, runtime, cancel) IN
           Follows(s, t) /\ t.att = d.att /\ t.node = d.node
  <1> DEFINE t == WfMut(s, d, stage, runtime, cancel)
  <1> USE DEF Good
  <1>0. s \in Aggregates /\ d \in Aggregates
    BY DEF Follows
  <1>1. t \in Aggregates
    BY <1>0 DEF WfMut, Aggregates
  <1>2. t.runs = d.runs /\ t.att = d.att /\ t.node = d.node
    BY <1>0 DEF WfMut, Aggregates
  <1>3. RunsOrdered(t) /\ NewestRuns(t)
    BY <1>2 DEF Follows, RunsOrdered, NewestRuns
  <1> QED BY <1>1, <1>2, <1>3 DEF Follows

(* With the Runs in order, the first active Run is the newest one.         *)
LEMMA ActiveRunIsNewest ==
    ASSUME NEW s, Good(s), HasActiveRun(s)
    PROVE  /\ ActiveRun(s) = Len(s.runs)
           /\ ActiveRun(s) \in DOMAIN s.runs
           /\ s.runs[ActiveRun(s)].status \notin RunTerminal
  <1> USE DEF Good
  <1>1. s.runs \in Seq(Runs)
    BY DEF Aggregates
  <1>2. Len(s.runs) \in Nat /\ DOMAIN s.runs = 1 .. Len(s.runs)
    BY <1>1, LenProperties
  <1>3. PICK i \in DOMAIN s.runs : s.runs[i].status \notin RunTerminal
    BY DEF HasActiveRun
  <1>4. \A j \in DOMAIN s.runs : j < i => s.runs[j].status \in RunTerminal
    BY <1>2, <1>3 DEF RunsOrdered
  <1>5. /\ ActiveRun(s) \in DOMAIN s.runs
        /\ s.runs[ActiveRun(s)].status \notin RunTerminal
    BY <1>3, <1>4 DEF ActiveRun
  <1> QED BY <1>5 DEF RunsOrdered

(* RunMutation out of RUNNING: the gate closes on the newest Run.          *)
LEMMA RunMutSound ==
    ASSUME NEW s, NEW d, Good(s), Follows(s, d),
           NEW status \in RunStatuses \ {"RUNNING"}
    PROVE  LET t == RunMut(s, d, status) IN
           Follows(s, t) /\ t.att = d.att /\ t.node = d.node
  <1> DEFINE t == RunMut(s, d, status)
             row == [status |-> status, gate |-> FALSE]
  <1>0. Good(d) /\ d \in Aggregates
    BY DEF Follows, Good
  <1>1. CASE ~HasActiveRun(s)
    BY <1>1 DEF RunMut
  <1>2. CASE HasActiveRun(s)
    <2>1. ActiveRun(s) = Len(s.runs) /\ Len(d.runs) = Len(s.runs)
      BY <1>2, ActiveRunIsNewest DEF Follows
    <2>2. row \in Runs /\ row.status = status /\ row.gate = FALSE
      BY DEF Runs
    <2>3. t = [d EXCEPT !.runs = [d.runs EXCEPT ![ActiveRun(s)] = row]]
      BY <1>2 DEF RunMut
    <2> HIDE DEF row, t
    <2> DEFINE rs == [d.runs EXCEPT ![ActiveRun(s)] = row]
    <2>4. /\ rs \in Seq(Runs) /\ Len(rs) = Len(d.runs) /\ DOMAIN rs = DOMAIN d.runs
          /\ \A j \in DOMAIN d.runs : rs[j] = IF j = ActiveRun(s) THEN row ELSE d.runs[j]
      <3>1. d.runs \in Seq(Runs)
        BY <1>0 DEF Aggregates
      <3> QED BY <2>2, <3>1, ReplaceRow
    <2> HIDE DEF rs
    <2>5. t \in Aggregates /\ t.runs = rs /\ t.att = d.att /\ t.node = d.node
      BY <1>0, <2>3, <2>4 DEF Aggregates, rs
    <2>6. RunsOrdered(t)
      <3> SUFFICES ASSUME NEW i \in DOMAIN t.runs
                   PROVE  /\ t.runs[i].status \notin RunTerminal => i = Len(t.runs)
                          /\ t.runs[i].gate = (t.runs[i].status = "RUNNING")
        BY DEF RunsOrdered
      <3>1. CASE i = ActiveRun(s)
        BY <3>1, <2>1, <2>2, <2>4, <2>5
      <3>2. CASE i # ActiveRun(s)
        BY <1>0, <3>2, <2>4, <2>5 DEF RunsOrdered, Good
      <3> QED BY <3>1, <3>2
    <2>7. NewestRuns(t)
      BY <1>0, <2>5 DEF Good, NewestRuns
    <2>8. Follows(s, t)
      BY <2>1, <2>4, <2>5, <2>6, <2>7 DEF Follows, Good
    <2> QED BY <2>5, <2>8 DEF t
  <1> QED BY <1>1, <1>2

(* finishCancel: allowed once no Attempt runs.                             *)
LEMMA FinishCancelSound ==
    ASSUME NEW s, NEW d, Good(s), Follows(s, d), NothingRuns(d)
    PROVE  Follows(s, FinishCancel(s, d))
  <1> DEFINE w == WfMut(s, d, s.stage, "CANCELLED", TRUE)
             b == RunMut(s, w, "CANCELLED")
             t == FinishCancel(s, d)
             row(n, k) == IF k \in DOMAIN s.att[n] /\ s.att[n][k].status = "READY"
                          THEN [d.att[n][k] EXCEPT !.status = "CANCELLED"]
                          ELSE d.att[n][k]
             table(n) == [k \in DOMAIN d.att[n] |-> row(n, k)]
  <1>1. s \in Aggregates /\ d \in Aggregates
    BY DEF Good, Follows
  <1>2. Follows(s, w)
    BY <1>1, WfMutSound DEF Aggregates, Runtimes, RuntimeTerminal
  <1>3. Follows(s, b)
    BY <1>2, RunMutSound DEF RunStatuses, RunTerminal
  <1>4. ASSUME NEW n \in Nodes
        PROVE  /\ table(n) \in Seq(Attempts)
               /\ Len(table(n)) = Len(d.att[n])
               /\ DOMAIN table(n) = DOMAIN d.att[n]
               /\ \A k \in DOMAIN table(n) : table(n)[k].status # "RUNNING"
    <2>1. d.att[n] \in Seq(Attempts)
      BY <1>1 DEF Aggregates
    <2>2. ASSUME NEW k \in DOMAIN d.att[n]
          PROVE  row(n, k) \in Attempts /\ row(n, k).status # "RUNNING"
      <3>1. d.att[n][k] \in Attempts
        BY <2>1, LenProperties
      <3>2. d.att[n][k].status # "RUNNING"
        BY DEF NothingRuns
      <3> QED BY <3>1, <3>2 DEF Attempts, AttemptStatuses, AttemptTerminal
    <2> HIDE DEF row
    <2>3. table(n) \in [DOMAIN d.att[n] -> Attempts]
      BY <2>2
    <2> QED BY <2>1, <2>2, <2>3, MapRows
  <1>5. b \in Aggregates /\ RunsOrdered(b) /\ Len(b.runs) = Len(s.runs)
    BY <1>3 DEF Follows, Good
  <1>6. t = [b EXCEPT
                !.node = [n \in Nodes |-> IF s.node[n] \in NodeTerminal THEN d.node[n] ELSE "CANCELLED"],
                !.charged = [n \in Nodes |-> IF s.node[n] \in NodeTerminal THEN d.charged[n] ELSE s.charged[n]],
                !.att = [n \in Nodes |-> table(n)]]
    BY DEF FinishCancel
  <1> HIDE DEF b, t, table
  <1>7. t \in Aggregates /\ t.runs = b.runs /\ t.att = [n \in Nodes |-> table(n)]
    BY <1>1, <1>4, <1>5, <1>6 DEF Aggregates, NodeStatuses, NodeTerminal
  <1>8. NewestRuns(t)
    BY <1>4, <1>7 DEF NewestRuns
  <1>9. RunsOrdered(t)
    BY <1>5, <1>7 DEF RunsOrdered
  <1> QED BY <1>5, <1>7, <1>8, <1>9 DEF Follows, Good, t

(* wfMutStatus carries stage and cancel over from the input state.         *)
LEMMA WfMutStatusSound ==
    ASSUME NEW s, NEW d, Good(s), Follows(s, d), NEW runtime \in Runtimes
    PROVE  LET t == WfMutStatus(s, d, runtime) IN
           Follows(s, t) /\ t.att = d.att /\ t.node = d.node
  <1>1. s.stage \in {"EXECUTION", "FINAL_VERIFICATION", "COMPLETED"} /\ s.cancel \in BOOLEAN
    BY DEF Good, Aggregates
  <1> QED BY <1>1, WfMutSound DEF WfMutStatus

(* Closing the Run together with the Workflow row.                         *)
LEMMA CloseRunSound ==
    ASSUME NEW s, NEW d, Good(s), Follows(s, d),
           NEW runtime \in Runtimes, NEW status \in RunStatuses \ {"RUNNING"}
    PROVE  Follows(s, WfMutStatus(s, RunMut(s, d, status), runtime))
  BY RunMutSound, WfMutStatusSound

(* The settlement protocols, once the caller has ended its own Attempt: if *)
(* that was the last one running in `s`, nothing runs in `d`.              *)
LEMMA ConvergeStoppingSound ==
    ASSUME NEW s, NEW d, Good(s), Follows(s, d), NEW exceptAttempt, NEW exceptProcess,
           NEW transitioning \in BOOLEAN,
           ~HasRunningAttemptExcept(s, exceptAttempt) => NothingRuns(d)
    PROVE  Follows(s, ConvergeStopping(s, d, exceptAttempt, exceptProcess, transitioning))
  <1>1. Follows(s, WfMutStatus(s, RunMut(s, d, "INTERRUPTED"),
                               IF HasBlockingFinding(s) THEN "BLOCKED" ELSE "PAUSED"))
    BY CloseRunSound DEF RunStatuses, RunTerminal, Runtimes
  <1>2. NothingRuns(d) => Follows(s, FinishCancel(s, d))
    BY FinishCancelSound
  <1> QED BY <1>1, <1>2 DEF ConvergeStopping

(* The close of a QUIESCING Run keeps the shape of the rows.               *)
LEMMA ConvergeQuiescingSound ==
    ASSUME NEW s, NEW d, Good(s), Follows(s, d)
    PROVE  Follows(s, ConvergeQuiescing(s, d))
  BY CloseRunSound DEF ConvergeQuiescing, RunStatuses, RunTerminal, Runtimes

(* The tail every settlement shares; its FinishCancel branch needs that    *)
(* nothing runs once the settled Attempt is out of the way.                *)
LEMMA SettleAfterAttemptEndSound ==
    ASSUME NEW s, NEW d, Good(s), Follows(s, d), NEW ended,
           ~HasRunningAttemptExcept(s, ended) => NothingRuns(d)
    PROVE  Follows(s, SettleAfterAttemptEnd(s, d, ended))
  <1>1. NothingRuns(d) => Follows(s, FinishCancel(s, d))
    BY FinishCancelSound
  <1>2. Follows(s, ConvergeQuiescing(s, d))
    BY ConvergeQuiescingSound
  <1>3. Follows(s, ConvergeStopping(s, d, ended, NoKey, FALSE))
    BY ConvergeStoppingSound
  <1> QED BY <1>1, <1>2, <1>3 DEF SettleAfterAttemptEnd

(* A blocking failure quiesces the Run or closes it.                       *)
LEMMA CloseDispatchForFailureSound ==
    ASSUME NEW s, NEW d, Good(s), Follows(s, d), NEW ended
    PROVE  Follows(s, CloseDispatchForFailure(s, d, ended))
  <1>1. Follows(s, RunMut(s, d, "QUIESCING"))
    BY RunMutSound DEF RunStatuses
  <1>2. Follows(s, WfMutStatus(s, RunMut(s, d, "BLOCKED"), "BLOCKED"))
    BY CloseRunSound DEF RunStatuses, RunTerminal, Runtimes
  <1> QED BY <1>1, <1>2 DEF CloseDispatchForFailure

-----------------------------------------------------------------------------
(* Ending an Attempt.                                                      *)

(* A good aggregate has at most one RUNNING Attempt per Node, so ending it *)
(* leaves the Node with none.                                              *)
LEMMA EndAttemptSound ==
    ASSUME NEW s, NEW d, Good(s), Follows(s, d), d.att = s.att,
           NEW n \in Nodes, NEW k, IsRunning(s, n, k), NEW status \in AttemptTerminal
    PROVE  LET t == EndAttempt(d, n, k, status) IN
           /\ Follows(s, t)
           /\ \A j \in DOMAIN t.att[n] : t.att[n][j].status # "RUNNING"
           /\ ~HasRunningAttemptExcept(s, <<n, k>>) => NothingRuns(t)
           /\ t.node = d.node
           /\ t.finds = d.finds
           /\ t.base = d.base
           /\ t.charged = d.charged
  <1> DEFINE t == EndAttempt(d, n, k, status)
             row == [d.att[n][k] EXCEPT !.status = status]
             table == [d.att[n] EXCEPT ![k] = row]
  <1>1. d \in Aggregates /\ RunsOrdered(d) /\ NewestRuns(d) /\ Len(d.runs) = Len(s.runs)
    BY DEF Follows, Good
  <1>2. d.att[n] \in Seq(Attempts) /\ k \in DOMAIN d.att[n]
    BY <1>1 DEF Aggregates, IsRunning
  <1>3. d.att[n][k] \in Attempts
    BY <1>2, LenProperties
  <1>4. row \in Attempts /\ row.status = status /\ status # "RUNNING"
    BY <1>3 DEF Attempts, AttemptStatuses, AttemptTerminal
  <1>5. t = [d EXCEPT !.att = [d.att EXCEPT ![n] = table]]
    BY <1>1 DEF EndAttempt, Aggregates
  <1> HIDE DEF t, row
  <1>6. /\ table \in Seq(Attempts) /\ Len(table) = Len(d.att[n]) /\ DOMAIN table = DOMAIN d.att[n]
        /\ \A j \in DOMAIN d.att[n] : table[j] = IF j = k THEN row ELSE d.att[n][j]
    BY <1>2, <1>4, ReplaceRow
  <1> HIDE DEF table
  <1>7. /\ t \in Aggregates /\ t.runs = d.runs /\ t.node = d.node
        /\ t.finds = d.finds /\ t.base = d.base /\ t.charged = d.charged
        /\ t.att[n] = table
        /\ \A m \in Nodes \ {n} : t.att[m] = d.att[m]
    BY <1>1, <1>5, <1>6 DEF Aggregates
  <1>8. \A j \in DOMAIN t.att[n] : t.att[n][j].status # "RUNNING"
    <2>1. k = Len(d.att[n])
      BY <1>1, <1>2 DEF NewestRuns, IsRunning
    <2> QED BY <1>1, <1>4, <1>6, <1>7, <2>1 DEF NewestRuns
  <1>9. RunsOrdered(t)
    BY <1>1, <1>7 DEF RunsOrdered
  <1>10. NewestRuns(t)
    BY <1>1, <1>7, <1>8 DEF NewestRuns
  <1>11. ASSUME ~HasRunningAttemptExcept(s, <<n, k>>) PROVE NothingRuns(t)
    <2> SUFFICES ASSUME NEW m \in Nodes, NEW j \in DOMAIN t.att[m]
                 PROVE  t.att[m][j].status # "RUNNING"
      BY DEF NothingRuns
    <2>1. CASE m = n
      BY <2>1, <1>8
    <2>2. CASE m # n
      BY <2>2, <1>7, <1>11 DEF HasRunningAttemptExcept
    <2> QED BY <2>1, <2>2
  <1>12. Follows(s, t)
    BY <1>1, <1>7, <1>9, <1>10 DEF Follows, Good
  <1> QED BY <1>7, <1>8, <1>11, <1>12 DEF t

(* A Node none of whose Attempts runs may take any status; Findings and   *)
(* the Workflow row do not matter.                                         *)
LEMMA SetNodeSound ==
    ASSUME NEW s, NEW d, Follows(s, d), NEW n \in Nodes,
           \A j \in DOMAIN d.att[n] : d.att[n][j].status # "RUNNING",
           NEW t \in Aggregates, t.runs = d.runs, t.att = d.att,
           \A m \in Nodes \ {n} : t.node[m] = d.node[m]
    PROVE  Follows(s, t)
  <1>1. RunsOrdered(d) /\ NewestRuns(d) /\ Len(d.runs) = Len(s.runs)
    BY DEF Follows, Good
  <1>2. RunsOrdered(t)
    BY <1>1 DEF RunsOrdered
  <1>3. NewestRuns(t)
    BY <1>1 DEF NewestRuns
  <1> QED BY <1>1, <1>2, <1>3 DEF Follows, Good

(* decideAttemptFailure keeps the aggregate good on each of its paths,     *)
(* whatever the failure code.                                              *)
LEMMA DecideAttemptFailureSound ==
    ASSUME NEW s, Good(s), NEW n \in Nodes, NEW k, IsRunning(s, n, k), NEW code
    PROVE  Good(DecideAttemptFailure(s, n, k, code))
  <1> DEFINE ended == EndAttempt(s, n, k, "FAILED")
             fresh == [status |-> "READY", start |-> s.base[n], process |-> "none"]
             retried == [ended EXCEPT !.node[n] = "READY", !.charged[n] = @ + 1,
                                      !.att[n] = Append(@, fresh)]
             waiting == [ended EXCEPT !.node[n] = "READY"]
             blocked == [ended EXCEPT !.node[n] = "FAILED",
                                      !.finds = @ \cup {FindingSubject(code, n)}]
  <1>1. Follows(s, s) /\ s \in Aggregates
    BY DEF Follows, Good
  <1>2. /\ Follows(s, ended)
        /\ \A j \in DOMAIN ended.att[n] : ended.att[n][j].status # "RUNNING"
        /\ ~HasRunningAttemptExcept(s, <<n, k>>) => NothingRuns(ended)
    BY <1>1, EndAttemptSound DEF AttemptTerminal
  <1> HIDE DEF ended
  <1>3. ended \in Aggregates /\ RunsOrdered(ended) /\ NewestRuns(ended)
    BY <1>2 DEF Follows, Good
  <1>4. Good(retried)
    <2>1. fresh \in Attempts /\ fresh.status # "RUNNING"
      BY <1>1 DEF Attempts, AttemptStatuses, Aggregates, ProcessStatuses
    <2> HIDE DEF fresh
    <2>2. ended.att[n] \in Seq(Attempts)
      BY <1>3 DEF Aggregates
    <2> DEFINE table == Append(ended.att[n], fresh)
    <2>3. table \in Seq(Attempts) /\ \A j \in DOMAIN table : table[j].status # "RUNNING"
      BY <1>2, <2>1, <2>2, AppendRow
    <2> HIDE DEF table
    <2>4. retried = [ended EXCEPT !.node = [ended.node EXCEPT ![n] = "READY"],
                                  !.charged = [ended.charged EXCEPT ![n] = ended.charged[n] + 1],
                                  !.att = [ended.att EXCEPT ![n] = table]]
      BY <1>3 DEF table, Aggregates
    <2> HIDE DEF retried
    <2>5. /\ retried \in Aggregates /\ retried.runs = ended.runs
          /\ retried.att[n] = table
          /\ \A m \in Nodes \ {n} : retried.att[m] = ended.att[m] /\ retried.node[m] = ended.node[m]
      <3> DEFINE nodes == [ended.node EXCEPT ![n] = "READY"]
                 charges == [ended.charged EXCEPT ![n] = ended.charged[n] + 1]
                 tables == [ended.att EXCEPT ![n] = table]
      <3>1. nodes \in [Nodes -> NodeStatuses] /\ \A m \in Nodes \ {n} : nodes[m] = ended.node[m]
        BY <1>3 DEF Aggregates, NodeStatuses
      <3>2. charges \in [Nodes -> Nat]
        BY <1>3 DEF Aggregates
      <3>3. /\ tables \in [Nodes -> Seq(Attempts)] /\ tables[n] = table
            /\ \A m \in Nodes \ {n} : tables[m] = ended.att[m]
        BY <1>3, <2>3 DEF Aggregates
      <3>4. retried = [ended EXCEPT !.node = nodes, !.charged = charges, !.att = tables]
        BY <2>4
      <3> HIDE DEF nodes, charges, tables
      <3>5. /\ retried \in Aggregates /\ retried.runs = ended.runs
            /\ retried.att = tables /\ retried.node = nodes
        BY <1>3, <3>1, <3>2, <3>3, <3>4 DEF Aggregates
      <3> QED BY <3>1, <3>3, <3>5
    <2>6. RunsOrdered(retried)
      BY <1>3, <2>5 DEF RunsOrdered
    <2>7. NewestRuns(retried)
      BY <1>3, <2>3, <2>5 DEF NewestRuns
    <2> QED BY <2>5, <2>6, <2>7 DEF Good
  <1>5. Good(SettleAfterAttemptEnd(s, waiting, <<n, k>>))
    <2>1. /\ waiting \in Aggregates /\ waiting.runs = ended.runs /\ waiting.att = ended.att
          /\ \A m \in Nodes \ {n} : waiting.node[m] = ended.node[m]
      BY <1>3 DEF Aggregates, NodeStatuses
    <2> HIDE DEF waiting
    <2>2. Follows(s, waiting) /\ (NothingRuns(ended) => NothingRuns(waiting))
      BY <1>2, <2>1, SetNodeSound DEF NothingRuns
    <2> QED BY <1>2, <2>2, SettleAfterAttemptEndSound DEF Follows
  <1>6. Good(CloseDispatchForFailure(s, blocked, <<n, k>>))
    <2>1. FindingSubject(code, n) \in Nodes \cup {"workflow", "session"}
      BY DEF FindingSubject
    <2>2. /\ blocked \in Aggregates /\ blocked.runs = ended.runs /\ blocked.att = ended.att
          /\ \A m \in Nodes \ {n} : blocked.node[m] = ended.node[m]
      BY <1>3, <2>1 DEF Aggregates, NodeStatuses, NodeTerminal
    <2> HIDE DEF blocked
    <2> QED BY <1>2, <2>2, SetNodeSound, CloseDispatchForFailureSound DEF Follows
  <1> QED BY <1>4, <1>5, <1>6 DEF DecideAttemptFailure, ended, retried, waiting, blocked, fresh

(* settleNodeSucceeded, on top of a Workflow mutation of its caller.       *)
LEMMA SettleNodeSucceededSound ==
    ASSUME NEW s, NEW d, Good(s), Follows(s, d), d.att = s.att,
           NEW n \in Nodes, NEW k, IsRunning(s, n, k)
    PROVE  Good(SettleNodeSucceeded(s, d, n, k))
  <1> DEFINE ended == EndAttempt(d, n, k, "SUCCEEDED")
             done == [ended EXCEPT !.node[n] = "SUCCEEDED"]
  <1>1. /\ Follows(s, ended)
        /\ \A j \in DOMAIN ended.att[n] : ended.att[n][j].status # "RUNNING"
        /\ ~HasRunningAttemptExcept(s, <<n, k>>) => NothingRuns(ended)
    BY EndAttemptSound DEF AttemptTerminal
  <1> HIDE DEF ended
  <1>2. /\ done \in Aggregates /\ done.runs = ended.runs /\ done.att = ended.att
        /\ \A m \in Nodes \ {n} : done.node[m] = ended.node[m]
    <2> DEFINE nodes == [ended.node EXCEPT ![n] = "SUCCEEDED"]
    <2>1. ended \in Aggregates
      BY <1>1 DEF Follows, Good
    <2>2. nodes \in [Nodes -> NodeStatuses] /\ \A m \in Nodes \ {n} : nodes[m] = ended.node[m]
      BY <2>1 DEF Aggregates, NodeStatuses, NodeTerminal
    <2>3. done = [ended EXCEPT !.node = nodes]
      OBVIOUS
    <2> HIDE DEF nodes, done
    <2> QED BY <2>1, <2>2, <2>3 DEF Aggregates
  <1> HIDE DEF done
  <1>3. Follows(s, done) /\ (NothingRuns(ended) => NothingRuns(done))
    BY <1>1, <1>2, SetNodeSound DEF NothingRuns
  <1>4. Good(SettleAfterAttemptEnd(s, done, <<n, k>>))
    BY <1>1, <1>3, SettleAfterAttemptEndSound DEF Follows
  <1> QED BY <1>4 DEF SettleNodeSucceeded, done, ended

(* The settlement of a successful Attempt.                                 *)
LEMMA DecideAttemptSucceededSound ==
    ASSUME NEW s, Good(s), NEW n \in Nodes, NEW k, IsRunning(s, n, k)
    PROVE  Good(DecideAttemptSucceeded(s, n, k))
  BY SettleNodeSucceededSound DEF DecideAttemptSucceeded, Follows

(* The settlement of a merge, which also advances the verified head.       *)
LEMMA DecideWorkspaceMergedSound ==
    ASSUME NEW s, Good(s), NEW n \in Nodes, NEW k, IsRunning(s, n, k), NEW endHead \in Heads
    PROVE  Good(DecideWorkspaceMerged(s, n, k, endHead))
  <1> DEFINE d == [s EXCEPT !.head = endHead]
  <1>1. d \in Aggregates /\ d.runs = s.runs /\ d.att = s.att /\ d.node = s.node
    BY DEF Good, Aggregates
  <1> HIDE DEF d
  <1>2. Follows(s, d)
    BY <1>1 DEF Follows, Good, RunsOrdered, NewestRuns
  <1>3. Good(SettleNodeSucceeded(s, d, n, k))
    BY <1>1, <1>2, SettleNodeSucceededSound
  <1> QED BY <1>3 DEF DecideWorkspaceMerged, d

(* settleInterrupted: ends the Attempt, opens the stop, may converge it.   *)
LEMMA SettleInterruptedSound ==
    ASSUME NEW s, Good(s), NEW n \in Nodes, NEW k, IsRunning(s, n, k)
    PROVE  Good(SettleInterrupted(s, n, k))
  <1> DEFINE ended == EndAttempt(s, n, k, "INTERRUPTED")
             ready == [ended EXCEPT !.node[n] = "READY"]
             opened == IF OpensStop(s) THEN RunMut(s, ready, "STOPPING") ELSE ready
  <1>1. /\ Follows(s, ended)
        /\ \A j \in DOMAIN ended.att[n] : ended.att[n][j].status # "RUNNING"
        /\ ~HasRunningAttemptExcept(s, <<n, k>>) => NothingRuns(ended)
    BY EndAttemptSound DEF AttemptTerminal, Follows
  <1> HIDE DEF ended
  <1>2. /\ ready \in Aggregates /\ ready.runs = ended.runs /\ ready.att = ended.att
        /\ \A m \in Nodes \ {n} : ready.node[m] = ended.node[m]
    BY <1>1 DEF Follows, Good, Aggregates, NodeStatuses
  <1> HIDE DEF ready
  <1>3. Follows(s, ready)
    BY <1>1, <1>2, SetNodeSound
  <1>4. Follows(s, opened) /\ opened.att = ended.att
    <2>1. Follows(s, RunMut(s, ready, "STOPPING")) /\ RunMut(s, ready, "STOPPING").att = ready.att
      BY <1>3, RunMutSound DEF RunStatuses
    <2> QED BY <1>2, <1>3, <2>1
  <1> HIDE DEF opened
  <1>5. NothingRuns(ended) => NothingRuns(opened)
    BY <1>4 DEF NothingRuns
  <1>6. OpensStop(s) \in BOOLEAN
    BY DEF OpensStop
  <1>7. Follows(s, ConvergeStopping(s, opened, <<n, k>>, NoKey, OpensStop(s)))
    BY <1>1, <1>4, <1>5, <1>6, ConvergeStoppingSound
  <1>8. NothingRuns(ended) => Follows(s, FinishCancel(s, ended))
    BY <1>1, FinishCancelSound
  <1> QED BY <1>1, <1>7, <1>8 DEF SettleInterrupted, Follows, ended, ready, opened

-----------------------------------------------------------------------------
(* The managed process stop.                                               *)

(* Only the process column of one row changes.                             *)
LEMMA EndProcessSound ==
    ASSUME NEW s, Good(s), NEW n \in Nodes, NEW k
    PROVE  LET t == EndProcess(s, <<n, k>>) IN
           Follows(s, t) /\ (NothingRuns(s) => NothingRuns(t))
  <1> DEFINE t == EndProcess(s, <<n, k>>)
             row == [s.att[n][k] EXCEPT !.process = "STOPPED"]
             table == [s.att[n] EXCEPT ![k] = row]
  <1>1. s \in Aggregates /\ RunsOrdered(s) /\ NewestRuns(s)
    BY DEF Good
  <1>2. s.att[n] \in Seq(Attempts)
    BY <1>1 DEF Aggregates
  <1>3. k \in DOMAIN s.att[n] => s.att[n][k] \in Attempts
    BY <1>2, LenProperties
  <1>4. k \in DOMAIN s.att[n] => row \in Attempts /\ row.status = s.att[n][k].status
    BY <1>3 DEF Attempts, ProcessStatuses
  <1>5. t = [s EXCEPT !.att = [s.att EXCEPT ![n] = table]]
    BY <1>1 DEF EndProcess, Aggregates
  <1> HIDE DEF t, row
  <1>6. /\ table \in Seq(Attempts) /\ Len(table) = Len(s.att[n]) /\ DOMAIN table = DOMAIN s.att[n]
        /\ \A j \in DOMAIN s.att[n] : table[j] = IF j = k THEN row ELSE s.att[n][j]
    BY <1>2, <1>4, ReplaceRow
  <1> HIDE DEF table
  <1>7. /\ t \in Aggregates /\ t.runs = s.runs /\ t.node = s.node
        /\ t.att[n] = table
        /\ \A m \in Nodes \ {n} : t.att[m] = s.att[m]
    BY <1>1, <1>5, <1>6 DEF Aggregates
  <1>8. \A m \in Nodes : /\ DOMAIN t.att[m] = DOMAIN s.att[m]
                         /\ Len(t.att[m]) = Len(s.att[m])
                         /\ \A j \in DOMAIN s.att[m] : t.att[m][j].status = s.att[m][j].status
    BY <1>4, <1>6, <1>7
  <1>9. RunsOrdered(t)
    BY <1>1, <1>7 DEF RunsOrdered
  <1>10. NewestRuns(t) /\ (NothingRuns(s) => NothingRuns(t))
    BY <1>1, <1>7, <1>8 DEF NewestRuns, NothingRuns
  <1> QED BY <1>7, <1>9, <1>10 DEF Follows, Good, t

(* NoKey is no Attempt's key: no Node is called "none".                    *)
LEMMA QuietMeansNothingRuns ==
    ASSUME NEW s
    PROVE  /\ ~HasRunningAttemptExcept(s, NoKey) => NothingRuns(s)
           /\ ~HasRunningAttempt(s) => NothingRuns(s)
  <1>1. \A m \in Nodes : \A j : <<m, j>> # NoKey
    BY GraphAssumption DEF NoKey
  <1>2. ~HasRunningAttemptExcept(s, NoKey) => NothingRuns(s)
    BY <1>1 DEF HasRunningAttemptExcept, NothingRuns
  <1> QED BY <1>2 DEF HasRunningAttempt

(* The record of a stopped Process, which may be the last thing a STOPPING *)
(* Run waits for.                                                          *)
LEMMA DecideProcessStoppedSound ==
    ASSUME NEW s, Good(s), NEW n \in Nodes, NEW k, NEW orphan \in BOOLEAN
    PROVE  Good(DecideProcessStopped(s, <<n, k>>, orphan))
  <1> DEFINE stopped == EndProcess(s, <<n, k>>)
             found == [stopped EXCEPT !.finds = @ \cup {"workflow"}]
  <1>1. Follows(s, stopped) /\ (NothingRuns(s) => NothingRuns(stopped))
    BY EndProcessSound
  <1> HIDE DEF stopped
  <1>2. ~HasRunningAttemptExcept(s, NoKey) => NothingRuns(s)
    BY QuietMeansNothingRuns
  <1>3. Follows(s, ConvergeStopping(s, stopped, NoKey, <<n, k>>, FALSE))
    BY <1>1, <1>2, ConvergeStoppingSound
  <1>4. found \in Aggregates /\ found.runs = stopped.runs /\ found.att = stopped.att
        /\ found.node = stopped.node
    BY <1>1 DEF Follows, Good, Aggregates
  <1> HIDE DEF found
  <1>5. Follows(s, found)
    BY <1>1, <1>4 DEF Follows, Good, RunsOrdered, NewestRuns
  <1>6. Follows(s, WfMutStatus(s, RunMut(s, found, "INTERRUPTED"), "BLOCKED"))
    BY <1>5, CloseRunSound DEF RunStatuses, RunTerminal, Runtimes
  <1> QED BY <1>3, <1>6 DEF DecideProcessStopped, Follows, stopped, found

-----------------------------------------------------------------------------
(* Commands and the Recovery sweep.                                        *)

(* Pause: the Workflow row and the Run row, no Attempt.                    *)
LEMMA DecidePauseSound ==
    ASSUME NEW s, Good(s)
    PROVE  Good(DecidePause(s))
  <1> DEFINE runtime == IF HasBlockingFinding(s) \/ ActiveStatus(s) = "QUIESCING"
                        THEN "BLOCKED" ELSE "PAUSED"
             wf == WfMutStatus(s, s, runtime)
             transitioned == HasActiveRun(s) /\ ActiveStatus(s) # "STOPPING"
             d == IF transitioned THEN RunMut(s, wf, "STOPPING") ELSE wf
  <1>1. Follows(s, wf) /\ wf.att = s.att
    <2>1. runtime \in Runtimes
      BY DEF Runtimes
    <2> HIDE DEF runtime
    <2> QED BY <2>1, WfMutStatusSound DEF Follows
  <1> HIDE DEF wf
  <1>2. Follows(s, d) /\ d.att = s.att
    BY <1>1, RunMutSound DEF RunStatuses
  <1>3. transitioned \in BOOLEAN
    OBVIOUS
  <1> HIDE DEF d, transitioned
  <1>4. ~HasRunningAttemptExcept(s, NoKey) => NothingRuns(d)
    BY <1>2, QuietMeansNothingRuns DEF NothingRuns
  <1>5. Follows(s, ConvergeStopping(s, d, NoKey, NoKey, transitioned))
    BY <1>2, <1>3, <1>4, ConvergeStoppingSound
  <1> QED BY <1>5 DEF DecidePause, Follows, d, transitioned, wf

(* decideResume closes every earlier Run before it opens the new one.      *)
LEMMA DecideResumeSound ==
    ASSUME NEW s, Good(s)
    PROVE  Good(DecideResume(s))
  <1> DEFINE wf == WfMutStatus(s, s, "RUNNING")
             closed == [i \in DOMAIN s.runs |->
                           IF s.runs[i].status \in RunTerminal
                           THEN s.runs[i]
                           ELSE [status |-> "INTERRUPTED", gate |-> FALSE]]
             row == [status |-> "RUNNING", gate |-> TRUE]
             t == DecideResume(s)
  <1>1. Follows(s, wf) /\ wf.att = s.att /\ wf.node = s.node
    BY WfMutStatusSound DEF Follows, Runtimes
  <1> HIDE DEF wf
  <1>2. s.runs \in Seq(Runs) /\ wf \in Aggregates /\ NewestRuns(wf) /\ RunsOrdered(s)
    BY <1>1 DEF Follows, Good, Aggregates
  <1>3. ASSUME NEW i \in DOMAIN s.runs
        PROVE  /\ closed[i] \in Runs
               /\ closed[i].status \in RunTerminal
               /\ closed[i].gate = (closed[i].status = "RUNNING")
    <2>1. s.runs[i] \in Runs
      BY <1>2, LenProperties
    <2>2. CASE s.runs[i].status \in RunTerminal
      BY <2>1, <2>2, <1>2 DEF RunsOrdered
    <2>3. CASE s.runs[i].status \notin RunTerminal
      <3> DEFINE row1 == [status |-> "INTERRUPTED", gate |-> FALSE]
      <3>1. closed[i] = row1
        BY <2>3
      <3>2. /\ row1 \in Runs /\ row1.status \in RunTerminal
            /\ row1.status = "INTERRUPTED" /\ row1.gate = FALSE
        BY DEF Runs, RunStatuses, RunTerminal
      <3> HIDE DEF row1, closed
      <3> QED BY <3>1, <3>2
    <2> QED BY <2>2, <2>3
  <1>4. closed \in [DOMAIN s.runs -> Runs]
    BY <1>3
  <1>5. t = [wf EXCEPT !.runs = Append(closed, row)]
    BY <1>2 DEF DecideResume, OpenRun, ClosePriorRuns, wf, Aggregates
  <1>6. row \in Runs /\ row.status = "RUNNING" /\ row.gate = TRUE
    BY DEF Runs, RunStatuses
  <1> HIDE DEF closed, row, t
  <1> DEFINE table == Append(closed, row)
  <1>7. closed \in Seq(Runs) /\ DOMAIN closed = DOMAIN s.runs
    BY <1>2, <1>4, MapRows
  <1>8. /\ table \in Seq(Runs) /\ Len(table) = Len(closed) + 1
        /\ Len(closed) \in Nat /\ DOMAIN closed = 1 .. Len(closed)
        /\ DOMAIN table = 1 .. Len(closed) + 1
        /\ \A j \in DOMAIN closed : table[j] = closed[j]
        /\ table[Len(closed) + 1] = row
    BY <1>6, <1>7, AppendRow
  <1> HIDE DEF table
  <1>9. t \in Aggregates /\ t.runs = table /\ t.att = wf.att /\ t.node = wf.node
    BY <1>2, <1>5, <1>8 DEF Aggregates, table
  <1>10. ASSUME NEW i \in DOMAIN t.runs
         PROVE  /\ t.runs[i].status \notin RunTerminal => i = Len(t.runs)
                /\ t.runs[i].gate = (t.runs[i].status = "RUNNING")
    <2>1. CASE i \in DOMAIN closed
      BY <2>1, <1>3, <1>7, <1>8, <1>9
    <2>2. CASE i = Len(closed) + 1
      BY <2>2, <1>6, <1>8, <1>9
    <2> QED BY <2>1, <2>2, <1>8, <1>9
  <1>11. RunsOrdered(t)
    BY <1>10 DEF RunsOrdered
  <1>12. NewestRuns(t)
    BY <1>2, <1>9 DEF NewestRuns
  <1> QED BY <1>9, <1>11, <1>12 DEF Good, t

(* Cancel: at once when nothing runs, else a STOPPING Run with the intent  *)
(* recorded.                                                               *)
LEMMA DecideCancelSound ==
    ASSUME NEW s, Good(s)
    PROVE  Good(DecideCancel(s))
  <1> DEFINE wf == WfMut(s, s, s.stage, s.runtime, TRUE)
             intended == RunMut(s, wf, "STOPPING")
  <1>1. Follows(s, wf) /\ wf.att = s.att
    <2>1. /\ s.stage \in {"EXECUTION", "FINAL_VERIFICATION", "COMPLETED"}
          /\ s.runtime \in Runtimes
      BY DEF Good, Aggregates
    <2>2. Follows(s, s)
      BY DEF Follows
    <2> DEFINE yes == TRUE
               runtime == s.runtime
               stage == s.stage
    <2>3. yes \in BOOLEAN /\ wf = WfMut(s, s, stage, runtime, yes)
      OBVIOUS
    <2>4. /\ stage \in {"EXECUTION", "FINAL_VERIFICATION", "COMPLETED"}
          /\ runtime \in Runtimes
      BY <2>1
    <2> HIDE DEF yes, wf, runtime, stage
    <2> QED BY <2>2, <2>3, <2>4, WfMutSound
  <1> HIDE DEF wf
  <1>2. Follows(s, intended) /\ intended.att = s.att
    BY <1>1, RunMutSound DEF RunStatuses
  <1> HIDE DEF intended
  <1>3. ~HasRunningAttempt(s) => NothingRuns(intended)
    BY <1>2, QuietMeansNothingRuns DEF NothingRuns
  <1>4. ~HasRunningAttempt(s) => Follows(s, FinishCancel(s, intended))
    BY <1>2, <1>3, FinishCancelSound
  <1> QED BY <1>2, <1>4 DEF DecideCancel, Follows, intended, wf

(* Recovery's sweep over a Workflow that a crash left half converged.      *)
LEMMA DecideReconcileSound ==
    ASSUME NEW s, Good(s)
    PROVE  Good(DecideReconcile(s))
  <1>1. Follows(s, s) /\ (~HasRunningAttempt(s) => NothingRuns(s))
    BY QuietMeansNothingRuns DEF Follows
  <1>2. ~HasRunningAttempt(s) => Follows(s, FinishCancel(s, s))
    BY <1>1, FinishCancelSound
  <1>3. Follows(s, ConvergeQuiescing(s, s))
    BY <1>1, ConvergeQuiescingSound
  <1> DEFINE converged == ConvergeStopping(s, s, NoKey, NoKey, FALSE)
  <1>4. Follows(s, converged)
    BY <1>1, QuietMeansNothingRuns, ConvergeStoppingSound
  <1> HIDE DEF converged
  <1>5. Follows(s, RunMut(s, WfMutStatus(s, converged, "BLOCKED"), "BLOCKED"))
    BY <1>4, WfMutStatusSound, RunMutSound DEF RunStatuses, RunTerminal, Runtimes
  <1> QED BY <1>2, <1>3, <1>4, <1>5 DEF DecideReconcile, Follows, converged

(* The sweep as the commands apply it.                                     *)
LEMMA SweepSound ==
    ASSUME NEW s, Good(s)
    PROVE  Good(Sweep(s))
  BY DecideReconcileSound DEF Sweep

(* decideComplete stops the process rows it leaves behind.                 *)
LEMMA DecideCompleteSound ==
    ASSUME NEW s, Good(s)
    PROVE  Good(DecideComplete(s))
  <1> DEFINE wf == WfMut(s, s, "COMPLETED", "SUCCEEDED", FALSE)
             b == RunMut(s, wf, "SUCCEEDED")
             t == DecideComplete(s)
             row(n, k) == IF s.att[n][k].process = "RUNNING"
                          THEN [s.att[n][k] EXCEPT !.process = "STOPPED"]
                          ELSE s.att[n][k]
             table(n) == [k \in DOMAIN s.att[n] |-> row(n, k)]
  <1>1. s \in Aggregates /\ NewestRuns(s) /\ Follows(s, s)
    BY DEF Good, Follows
  <1>2. Follows(s, wf)
    <2>1. "SUCCEEDED" \in Runtimes /\ FALSE \in BOOLEAN
      BY DEF Runtimes, RuntimeTerminal
    <2> QED BY <1>1, <2>1, WfMutSound
  <1> HIDE DEF wf
  <1>3. Follows(s, b) /\ b.node = wf.node
    BY <1>2, RunMutSound DEF RunStatuses, RunTerminal
  <1>4. b \in Aggregates /\ RunsOrdered(b) /\ b.node = s.node
    <2>1. wf.node = s.node
      BY <1>1 DEF wf, WfMut, Aggregates
    <2> QED BY <1>3, <2>1 DEF Follows, Good
  <1>5. ASSUME NEW n \in Nodes
        PROVE  /\ table(n) \in Seq(Attempts)
               /\ Len(table(n)) = Len(s.att[n])
               /\ DOMAIN table(n) = DOMAIN s.att[n]
               /\ \A k \in DOMAIN table(n) : table(n)[k].status = s.att[n][k].status
    <2>1. s.att[n] \in Seq(Attempts)
      BY <1>1 DEF Aggregates
    <2>2. ASSUME NEW k \in DOMAIN s.att[n]
          PROVE  row(n, k) \in Attempts /\ row(n, k).status = s.att[n][k].status
      <3>1. s.att[n][k] \in Attempts
        BY <2>1, LenProperties
      <3> QED BY <3>1 DEF Attempts, ProcessStatuses
    <2> HIDE DEF row
    <2>3. table(n) \in [DOMAIN s.att[n] -> Attempts]
      BY <2>2
    <2> QED BY <2>1, <2>2, <2>3, MapRows
  <1>6. t = [b EXCEPT !.att = [n \in Nodes |-> table(n)]]
    BY DEF DecideComplete, wf
  <1> HIDE DEF b, t, table
  <1>7. /\ t \in Aggregates /\ t.runs = b.runs /\ t.node = s.node
        /\ t.att = [n \in Nodes |-> table(n)]
    BY <1>4, <1>5, <1>6 DEF Aggregates
  <1>8. RunsOrdered(t)
    BY <1>4, <1>7 DEF RunsOrdered
  <1>9. NewestRuns(t)
    BY <1>1, <1>5, <1>7 DEF NewestRuns
  <1> QED BY <1>7, <1>8, <1>9 DEF Good, t

-----------------------------------------------------------------------------
(* Allocation.                                                             *)

(* The commit an Attempt starts from is a commit.                          *)
LEMMA StartHeadSound ==
    ASSUME NEW s, Good(s), NEW n \in Nodes \ Checkpoints, NEW seen \in Heads
    PROVE  StartHead(s, n, seen) \in Heads
  <1>1. s.head \in Heads /\ s.base \in [Nodes -> Heads]
    BY DEF Good, Aggregates
  <1>2. TaskOf[n] \in Nodes /\ Kind[n] \in Kinds
    BY GraphAssumption
  <1>3. s.base[n] \in Heads /\ s.base[TaskOf[n]] \cup {TaskOf[n]} \in Heads
    BY <1>1, <1>2 DEF Heads
  <1> HIDE DEF Heads
  <1> QED BY <1>1, <1>2, <1>3 DEF StartHead, Kinds, Checkpoints

(* A Node that waits has no RUNNING Attempt: the one allocated is the only *)
(* one.                                                                    *)
LEMMA DecideDispatchSound ==
    ASSUME NEW s, Good(s), NEW n \in Nodes \ Checkpoints, CanAllocate(s, n), NEW seen \in Heads
    PROVE  Good(DecideDispatch(s, n, seen))
  <1> DEFINE start == StartHead(s, n, seen)
             row == [status |-> "RUNNING", start |-> start,
                     process |-> IF n \in Merges THEN "none" ELSE "RUNNING"]
             table == Append(s.att[n], row)
             t == DecideDispatch(s, n, seen)
             nodes == [s.node EXCEPT ![n] = "RUNNING"]
             bases == [s.base EXCEPT ![n] = IF n \in Tasks THEN start ELSE s.base[n]]
             stage == IF FinalVerify(n) THEN "FINAL_VERIFICATION" ELSE s.stage
             tables == [s.att EXCEPT ![n] = table]
  <1>1. s \in Aggregates /\ RunsOrdered(s) /\ NewestRuns(s)
    BY DEF Good
  <1>2. start \in Heads
    BY StartHeadSound
  <1> HIDE DEF start
  <1>3. row \in Attempts
    BY <1>2 DEF Attempts, AttemptStatuses, ProcessStatuses
  <1>4. s.att[n] \in Seq(Attempts)
    BY <1>1 DEF Aggregates
  <1>5. t = [s EXCEPT !.node = nodes, !.base = bases, !.stage = stage, !.att = tables]
    BY <1>1 DEF DecideDispatch, start, Aggregates
  <1> HIDE DEF row, t
  <1>6. /\ table \in Seq(Attempts) /\ Len(table) = Len(s.att[n]) + 1
        /\ Len(s.att[n]) \in Nat /\ DOMAIN s.att[n] = 1 .. Len(s.att[n])
        /\ DOMAIN table = 1 .. Len(s.att[n]) + 1
        /\ \A j \in DOMAIN s.att[n] : table[j] = s.att[n][j]
    BY <1>3, <1>4, AppendRow
  <1> HIDE DEF table
  <1>7. /\ nodes \in [Nodes -> NodeStatuses] /\ nodes[n] = "RUNNING"
        /\ \A m \in Nodes \ {n} : nodes[m] = s.node[m]
    BY <1>1 DEF Aggregates, NodeStatuses
  <1>8. bases \in [Nodes -> Heads]
    BY <1>1, <1>2 DEF Aggregates
  <1>9. stage \in {"EXECUTION", "FINAL_VERIFICATION", "COMPLETED"}
    BY <1>1 DEF Aggregates
  <1>10. /\ tables \in [Nodes -> Seq(Attempts)] /\ tables[n] = table
         /\ \A m \in Nodes \ {n} : tables[m] = s.att[m]
    BY <1>1, <1>6 DEF Aggregates
  <1> HIDE DEF nodes, bases, stage, tables
  <1>11. t \in Aggregates /\ t.runs = s.runs /\ t.node = nodes /\ t.att = tables
    BY <1>1, <1>5, <1>7, <1>8, <1>9, <1>10 DEF Aggregates
  <1>12. \A j \in DOMAIN s.att[n] : s.att[n][j].status # "RUNNING"
    BY <1>1 DEF CanAllocate, NewestRuns
  <1>13. RunsOrdered(t)
    BY <1>1, <1>11 DEF RunsOrdered
  <1>14. ASSUME NEW m \in Nodes, NEW j \in DOMAIN t.att[m], t.att[m][j].status = "RUNNING"
         PROVE  j = Len(t.att[m]) /\ t.node[m] = "RUNNING"
    <2>1. CASE m = n
      BY <2>1, <1>6, <1>7, <1>10, <1>11, <1>12, <1>14
    <2>2. CASE m # n
      BY <2>2, <1>1, <1>7, <1>10, <1>11, <1>14 DEF NewestRuns
    <2> QED BY <2>1, <2>2
  <1>15. NewestRuns(t)
    BY <1>14 DEF NewestRuns
  <1> QED BY <1>11, <1>13, <1>15 DEF Good, t

-----------------------------------------------------------------------------
(* Where a Decision leaves the Workflow: its runtime, its active Run, what *)
(* still runs, and the books of retries and processes.                     *)

(* `t` is `s` with the books of retries as they were: no row is added, no  *)
(* Attempt starts, and a row keeps whether a process belongs to it.        *)
SameBooks(s, t) ==
    /\ t.charged = s.charged
    /\ s.finds \subseteq t.finds
    /\ \A n \in Nodes :
          /\ DOMAIN t.att[n] = DOMAIN s.att[n]
          /\ \A k \in DOMAIN s.att[n] :
                /\ t.att[n][k].process = "none" <=> s.att[n][k].process = "none"
                /\ t.att[n][k].status = "RUNNING" => s.att[n][k].status = "RUNNING"

SameProcesses(s, t) ==
    \A n \in Nodes : \A k \in DOMAIN s.att[n] :
        t.att[n][k].process = s.att[n][k].process

(* The Decision changes neither a process row nor the books.               *)
Kept(s, t) == SameBooks(s, t) /\ SameProcesses(s, t)

(* Nothing waits, runs or is open.                                         *)
Quiet(s) ==
    /\ \A n \in Nodes : /\ s.node[n] \in NodeTerminal
                        /\ \A k \in DOMAIN s.att[n] :
                               /\ s.att[n][k].status \in AttemptTerminal
                               /\ s.att[n][k].process # "RUNNING"
    /\ ~HasActiveRun(s)

(* What holds of the aggregate alone between two Decisions.                *)
Calm(s) ==
    /\ s.runtime # "RUNNING" => ActiveStatus(s) \notin {"RUNNING", "QUIESCING"}
    /\ HasBlockingFinding(s) => s.runtime \notin {"PAUSED", "SUCCEEDED"}
    /\ ActiveStatus(s) = "QUIESCING" => HasBlockingFinding(s)
    /\ s.runtime = "CANCELLED" => Quiet(s)
    /\ HasRunningAttempt(s) => HasActiveRun(s) \/ "workflow" \in s.finds
    /\ s.runtime = "SUCCEEDED" =>
          /\ ~s.cancel /\ ~HasActiveRun(s) /\ ~HasRunningProcess(s)
          /\ \A n \in Nodes : s.node[n] = "SUCCEEDED"

(* The three ways a stop or a quiesce ends.                                *)
CancelDone(s, t) ==
    t.runtime = "CANCELLED" /\ t.cancel = TRUE /\ Quiet(t) /\ t.finds = s.finds

Rests(s, t) ==
    /\ t.runtime \in {"BLOCKED", "PAUSED"}
    /\ t.runtime = "PAUSED" => ~HasBlockingFinding(t)
    /\ ~HasActiveRun(t) /\ ~HasRunningAttempt(t)
    /\ t.cancel = s.cancel

(* The status of the active Run depends on the Run rows alone.             *)
LEMMA SameRuns ==
    ASSUME NEW s, NEW t, t.runs = s.runs
    PROVE  /\ HasActiveRun(t) <=> HasActiveRun(s)
           /\ ActiveStatus(t) = ActiveStatus(s)
           /\ GateOpen(t) <=> GateOpen(s)
  <1>1. HasActiveRun(t) <=> HasActiveRun(s)
    BY DEF HasActiveRun
  <1>2. ActiveRun(t) = ActiveRun(s)
    BY DEF ActiveRun
  <1>3. ActiveStatus(t) = ActiveStatus(s)
    BY <1>1, <1>2 DEF ActiveStatus
  <1> QED BY <1>1, <1>2, <1>3 DEF GateOpen

(* The active Run is the newest one: its status is the newest row's.       *)
LEMMA StatusIsNewest ==
    ASSUME NEW s, Good(s), Len(s.runs) \in DOMAIN s.runs
    PROVE  LET st == s.runs[Len(s.runs)].status IN
           /\ HasActiveRun(s) <=> st \notin RunTerminal
           /\ ActiveStatus(s) = IF st \in RunTerminal THEN "none" ELSE st
           /\ ActiveStatus(s) = "none" <=> ~HasActiveRun(s)
  <1> DEFINE st == s.runs[Len(s.runs)].status
  <1>0. s.runs \in Seq(Runs) /\ RunsOrdered(s)
    BY DEF Good, Aggregates
  <1>1. s.runs[Len(s.runs)] \in Runs
    BY <1>0, LenProperties
  <1>2. st \in RunStatuses /\ st # "none"
    BY <1>1 DEF Runs, RunStatuses, RunTerminal
  <1>3. HasActiveRun(s) <=> st \notin RunTerminal
    BY <1>0 DEF HasActiveRun, RunsOrdered
  <1>4. HasActiveRun(s) => ActiveRun(s) = Len(s.runs)
    BY ActiveRunIsNewest
  <1> QED BY <1>2, <1>3, <1>4 DEF ActiveStatus

(* No Run has the status "none".                                           *)
LEMMA NoneIsNoRun ==
    ASSUME NEW s, Good(s)
    PROVE  /\ ActiveStatus(s) = "none" <=> ~HasActiveRun(s)
           /\ ActiveStatus(s) \in {"none", "RUNNING", "STOPPING", "QUIESCING"}
  <1>1. CASE HasActiveRun(s)
    <2>1. /\ ActiveRun(s) \in DOMAIN s.runs
          /\ s.runs[ActiveRun(s)].status \notin RunTerminal
      BY <1>1, ActiveRunIsNewest
    <2>2. s.runs \in Seq(Runs)
      BY DEF Good, Aggregates
    <2>3. s.runs[ActiveRun(s)] \in Runs
      BY <2>1, <2>2, LenProperties
    <2> QED BY <1>1, <2>1, <2>3 DEF ActiveStatus, Runs, RunStatuses, RunTerminal
  <1>2. CASE ~HasActiveRun(s)
    BY <1>2 DEF ActiveStatus
  <1> QED BY <1>1, <1>2

(* RunMutation moves the active Run to the given status and nothing else.  *)
LEMMA RunMutStatus ==
    ASSUME NEW s, NEW d, Good(s), Follows(s, d),
           NEW status \in RunStatuses \ {"RUNNING"}
    PROVE  LET t == RunMut(s, d, status) IN
           /\ t.runtime = d.runtime /\ t.cancel = d.cancel /\ t.finds = d.finds
           /\ t.charged = d.charged /\ t.node = d.node /\ t.att = d.att
           /\ HasActiveRun(s) =>
                /\ HasActiveRun(t) <=> status \notin RunTerminal
                /\ ActiveStatus(t) = IF status \in RunTerminal THEN "none" ELSE status
           /\ ~HasActiveRun(s) => t = d
  <1> DEFINE t == RunMut(s, d, status)
             row == [status |-> status, gate |-> FALSE]
  <1>0. Good(d) /\ d \in Aggregates
    BY DEF Follows, Good
  <1>1. CASE ~HasActiveRun(s)
    BY <1>1 DEF RunMut
  <1>2. CASE HasActiveRun(s)
    <2>1. /\ ActiveRun(s) = Len(s.runs) /\ Len(d.runs) = Len(s.runs)
          /\ ActiveRun(s) \in DOMAIN s.runs
      BY <1>2, ActiveRunIsNewest DEF Follows
    <2>2. Follows(s, t)
      BY RunMutSound
    <2>3. t = [d EXCEPT !.runs = [d.runs EXCEPT ![ActiveRun(s)] = row]]
      BY <1>2 DEF RunMut
    <2>4. row \in Runs /\ row.status = status
      BY DEF Runs
    <2> HIDE DEF row, t
    <2> DEFINE rs == [d.runs EXCEPT ![ActiveRun(s)] = row]
    <2>5. s.runs \in Seq(Runs) /\ d.runs \in Seq(Runs)
      BY <1>0 DEF Aggregates, Good
    <2>6. DOMAIN d.runs = DOMAIN s.runs
      BY <2>1, <2>5, LenProperties
    <2>7. rs[Len(rs)] = row /\ Len(rs) \in DOMAIN rs
      BY <2>1, <2>4, <2>5, <2>6, ReplaceRow
    <2> HIDE DEF rs
    <2>8. /\ t.runs = rs
          /\ t.runtime = d.runtime /\ t.cancel = d.cancel /\ t.finds = d.finds
          /\ t.charged = d.charged /\ t.node = d.node /\ t.att = d.att
      BY <1>0, <2>3 DEF Aggregates, rs
    <2>9. Good(t) /\ Len(t.runs) \in DOMAIN t.runs /\ t.runs[Len(t.runs)].status = status
      BY <2>2, <2>4, <2>7, <2>8 DEF Follows
    <2>10. /\ HasActiveRun(t) <=> status \notin RunTerminal
           /\ ActiveStatus(t) = IF status \in RunTerminal THEN "none" ELSE status
      BY <2>9, StatusIsNewest
    <2> QED BY <1>2, <2>8, <2>10 DEF t
  <1> QED BY <1>1, <1>2

(* The Workflow row replaced: the rest stays.                              *)
LEMMA WfMutFrame ==
    ASSUME NEW s, NEW d \in Aggregates, NEW stage, NEW runtime, NEW cancel
    PROVE  LET t == WfMut(s, d, stage, runtime, cancel) IN
           /\ t.runtime = runtime /\ t.cancel = cancel /\ t.finds = d.finds
           /\ t.charged = d.charged /\ t.node = d.node /\ t.att = d.att
           /\ t.runs = d.runs
  BY DEF WfMut, Aggregates

(* What wfMutStatus leaves of the rows, and the cancel intent it takes from *)
(* the state before the Decision.                                          *)
LEMMA WfMutStatusFrame ==
    ASSUME NEW s, NEW d \in Aggregates, NEW runtime
    PROVE  LET t == WfMutStatus(s, d, runtime) IN
           /\ t.runtime = runtime /\ t.cancel = s.cancel /\ t.finds = d.finds
           /\ t.charged = d.charged /\ t.node = d.node /\ t.att = d.att
           /\ t.runs = d.runs
  BY WfMutFrame DEF WfMutStatus

(* Closing the Run together with the Workflow row: the rows stay, no Run   *)
(* is left active.                                                         *)
LEMMA CloseRunFrame ==
    ASSUME NEW s, NEW d, Good(s), Follows(s, d),
           ~HasActiveRun(s) => ~HasActiveRun(d),
           NEW runtime \in Runtimes, NEW status \in RunTerminal
    PROVE  LET t == WfMutStatus(s, RunMut(s, d, status), runtime) IN
           /\ t.runtime = runtime /\ t.cancel = s.cancel /\ t.finds = d.finds
           /\ t.charged = d.charged /\ t.node = d.node /\ t.att = d.att
           /\ ~HasActiveRun(t)
  <1> DEFINE r == RunMut(s, d, status)
             t == WfMutStatus(s, r, runtime)
  <1>1. status \in RunStatuses \ {"RUNNING"}
    BY DEF RunStatuses, RunTerminal
  <1>2. Follows(s, r)
    BY <1>1, RunMutSound
  <1>3. /\ r.finds = d.finds /\ r.charged = d.charged /\ r.node = d.node /\ r.att = d.att
        /\ ~HasActiveRun(r)
    BY <1>1, RunMutStatus
  <1> HIDE DEF r
  <1>4. r \in Aggregates
    BY <1>2 DEF Follows, Good
  <1>5. /\ t.runtime = runtime /\ t.cancel = s.cancel /\ t.finds = r.finds
        /\ t.charged = r.charged /\ t.node = r.node /\ t.att = r.att
        /\ t.runs = r.runs
    BY <1>4, WfMutStatusFrame
  <1> HIDE DEF t
  <1>6. ~HasActiveRun(t)
    BY <1>3, <1>5, SameRuns
  <1> QED BY <1>3, <1>5, <1>6 DEF t, r

(* The rows of `d` are those of `s`, processes aside.                      *)
SameStatuses(s, d) ==
    /\ d.node = s.node /\ d.charged = s.charged /\ d.finds = s.finds
    /\ \A n \in Nodes : /\ DOMAIN d.att[n] = DOMAIN s.att[n]
                        /\ \A k \in DOMAIN s.att[n] : d.att[n][k].status = s.att[n][k].status

NoProcessRuns(d) ==
    \A n \in Nodes : \A k \in DOMAIN d.att[n] : d.att[n][k].process # "RUNNING"

(* finishCancel leaves a quiet Workflow once nothing runs any more.        *)
LEMMA FinishCancelQuiet ==
    ASSUME NEW s, NEW d, Good(s), Follows(s, d), SameStatuses(s, d),
           NothingRuns(d), NoProcessRuns(d),
           ~HasActiveRun(s) => ~HasActiveRun(d)
    PROVE  CancelDone(s, FinishCancel(s, d)) /\ Kept(d, FinishCancel(s, d))
  <1> DEFINE w == WfMut(s, d, s.stage, "CANCELLED", TRUE)
             b == RunMut(s, w, "CANCELLED")
             t == FinishCancel(s, d)
             row(n, k) == IF k \in DOMAIN s.att[n] /\ s.att[n][k].status = "READY"
                          THEN [d.att[n][k] EXCEPT !.status = "CANCELLED"]
                          ELSE d.att[n][k]
             table(n) == [k \in DOMAIN d.att[n] |-> row(n, k)]
             nodes == [n \in Nodes |-> IF s.node[n] \in NodeTerminal THEN d.node[n] ELSE "CANCELLED"]
             charges == [n \in Nodes |-> IF s.node[n] \in NodeTerminal THEN d.charged[n] ELSE s.charged[n]]
  <1>1. s \in Aggregates /\ d \in Aggregates
    BY DEF Good, Follows
  <1>2. Follows(s, w)
    BY <1>1, WfMutSound DEF Aggregates, Runtimes, RuntimeTerminal
  <1>3. /\ w.runtime = "CANCELLED" /\ w.cancel = TRUE /\ w.finds = d.finds /\ w.runs = d.runs
    <2> DEFINE yes == TRUE
               stage == s.stage
    <2>1. w = WfMut(s, d, stage, "CANCELLED", yes)
      OBVIOUS
    <2> HIDE DEF yes, stage, w
    <2>2. w.runtime = "CANCELLED" /\ w.cancel = yes /\ w.finds = d.finds /\ w.runs = d.runs
      BY <1>1, <2>1, WfMutFrame
    <2> QED BY <2>2 DEF yes
  <1> HIDE DEF w
  <1>4. ~HasActiveRun(s) => ~HasActiveRun(w)
    BY <1>3, SameRuns
  <1>5. "CANCELLED" \in RunStatuses \ {"RUNNING"} /\ "CANCELLED" \in RunTerminal
    BY DEF RunStatuses, RunTerminal
  <1>6. Follows(s, b) /\ b.runtime = "CANCELLED" /\ b.cancel = TRUE /\ b.finds = d.finds
        /\ ~HasActiveRun(b)
    BY <1>2, <1>3, <1>4, <1>5, RunMutSound, RunMutStatus
  <1>7. b \in Aggregates
    BY <1>6 DEF Follows, Good
  <1>8. t = [b EXCEPT !.node = nodes, !.charged = charges, !.att = [n \in Nodes |-> table(n)]]
    BY DEF FinishCancel, w
  <1> HIDE DEF b, t
  <1>9. /\ t.runtime = "CANCELLED" /\ t.cancel = TRUE /\ t.finds = d.finds
        /\ t.runs = b.runs /\ t.node = nodes /\ t.charged = charges
        /\ t.att = [n \in Nodes |-> table(n)]
    BY <1>6, <1>7, <1>8 DEF Aggregates
  <1>10. charges = d.charged
    <2>1. d.charged = [n \in Nodes |-> d.charged[n]] /\ s.charged = d.charged
      BY <1>1 DEF Aggregates, SameStatuses
    <2> QED BY <2>1
  <1>11. ASSUME NEW n \in Nodes
         PROVE  /\ t.node[n] \in NodeTerminal
                /\ DOMAIN t.att[n] = DOMAIN d.att[n]
                /\ \A k \in DOMAIN d.att[n] :
                      /\ t.att[n][k].process = d.att[n][k].process
                      /\ t.att[n][k].status \in AttemptTerminal
    <2>1. t.node[n] \in NodeTerminal
      BY <1>9 DEF SameStatuses, NodeTerminal
    <2>2. t.att[n] = table(n) /\ DOMAIN table(n) = DOMAIN d.att[n]
      BY <1>9
    <2>3. ASSUME NEW k \in DOMAIN d.att[n]
          PROVE  row(n, k).process = d.att[n][k].process /\ row(n, k).status \in AttemptTerminal
      <3>1. d.att[n] \in Seq(Attempts)
        BY <1>1 DEF Aggregates
      <3>2. d.att[n][k] \in Attempts
        BY <3>1, LenProperties
      <3>3. d.att[n][k].status \in AttemptStatuses /\ d.att[n][k].status # "RUNNING"
        BY <3>2 DEF NothingRuns, Attempts
      <3>4. k \in DOMAIN s.att[n] /\ s.att[n][k].status = d.att[n][k].status
        BY DEF SameStatuses
      <3> QED BY <3>2, <3>3, <3>4 DEF Attempts, AttemptStatuses, AttemptTerminal
    <2> HIDE DEF row
    <2> QED BY <2>1, <2>2, <2>3
  <1>12. Quiet(t)
    <2>1. ~HasActiveRun(t)
      BY <1>6, <1>9, SameRuns
    <2> QED BY <2>1, <1>11 DEF Quiet, NoProcessRuns
  <1>13. CancelDone(s, t)
    BY <1>9, <1>12 DEF CancelDone, SameStatuses
  <1>14. Kept(d, t)
    <2>1. t.charged = d.charged /\ d.finds \subseteq t.finds
      BY <1>9, <1>10
    <2>2. "RUNNING" \notin AttemptTerminal
      BY DEF AttemptTerminal
    <2> QED BY <1>11, <2>1, <2>2 DEF Kept, SameBooks, SameProcesses
  <1> QED BY <1>13, <1>14 DEF t

(* What HasRunningAttempt and HasRunningProcess deny.                      *)
LEMMA QuietRows ==
    ASSUME NEW s
    PROVE  /\ HasRunningAttempt(s) <=> ~NothingRuns(s)
           /\ HasRunningAttempt(s) <=> HasRunningAttemptExcept(s, NoKey)
           /\ HasRunningProcess(s) <=> ~NoProcessRuns(s)
           /\ \A n \in Nodes : \A k :
                <<n, k>> \in RunningProcesses(s)
                  <=> k \in DOMAIN s.att[n] /\ s.att[n][k].process = "RUNNING"
           /\ HasRunningProcessExcept(s, NoKey) <=> HasRunningProcess(s)
           /\ \A key : key \in RunningProcesses(s) => \E n \in Nodes : \E k \in DOMAIN s.att[n] : key = <<n, k>>
  <1>1. \A m \in Nodes : \A j : <<m, j>> # NoKey
    BY GraphAssumption DEF NoKey
  <1>2. HasRunningAttempt(s) <=> ~NothingRuns(s)
    BY <1>1 DEF HasRunningAttempt, HasRunningAttemptExcept, NothingRuns
  <1>3. \A n \in Nodes : \A k :
                <<n, k>> \in RunningProcesses(s)
                  <=> k \in DOMAIN s.att[n] /\ s.att[n][k].process = "RUNNING"
    BY DEF RunningProcesses
  <1>4. \A key : key \in RunningProcesses(s) => \E n \in Nodes : \E k \in DOMAIN s.att[n] : key = <<n, k>>
    BY DEF RunningProcesses
  <1>5. HasRunningProcess(s) <=> ~NoProcessRuns(s)
    <2>1. ASSUME NEW key \in RunningProcesses(s) PROVE ~NoProcessRuns(s)
      <3>0. PICK n \in Nodes : \E k \in DOMAIN s.att[n] : key = <<n, k>>
        BY <1>4, <2>1
      <3>1. PICK k \in DOMAIN s.att[n] : key = <<n, k>>
        BY <3>0
      <3>2. <<n, k>> \in RunningProcesses(s)
        BY <2>1, <3>1
      <3> QED BY <1>3, <3>2 DEF NoProcessRuns
    <2>2. ~NoProcessRuns(s) => RunningProcesses(s) # {}
      BY <1>3 DEF NoProcessRuns
    <2> QED BY <2>1, <2>2 DEF HasRunningProcess
  <1>6. NoKey \notin RunningProcesses(s)
    BY <1>1, <1>4
  <1> QED BY <1>2, <1>3, <1>4, <1>5, <1>6 DEF HasRunningAttempt, HasRunningProcessExcept, HasRunningProcess

(* The ways a Run that stops ends, with `d` the rows the caller leaves.    *)
LEMMA ConvergeStoppingOutcome ==
    ASSUME NEW s, NEW d, Good(s), Follows(s, d), NEW exceptAttempt, NEW exceptProcess,
           NEW transitioning \in BOOLEAN,
           d.finds = s.finds,
           ~HasRunningAttemptExcept(s, exceptAttempt) => NothingRuns(d),
           Cancelling(s) /\ ~HasRunningProcessExcept(s, exceptProcess) => NoProcessRuns(d),
           Cancelling(s) => SameStatuses(s, d)
    PROVE  LET t == ConvergeStopping(s, d, exceptAttempt, exceptProcess, transitioning) IN
           \/ /\ t = d
              /\ \/ ~HasActiveRun(s)
                 \/ ~transitioning /\ ActiveStatus(s) # "STOPPING"
                 \/ HasRunningProcessExcept(s, exceptProcess)
                 \/ HasRunningAttemptExcept(s, exceptAttempt)
           \/ CancelDone(s, t) /\ Kept(d, t) /\ Cancelling(s)
           \/ Rests(s, t) /\ Kept(d, t) /\ t.finds = s.finds /\ ~Cancelling(s)
  <1> DEFINE runtime == IF HasBlockingFinding(s) THEN "BLOCKED" ELSE "PAUSED"
             t == ConvergeStopping(s, d, exceptAttempt, exceptProcess, transitioning)
             rest == WfMutStatus(s, RunMut(s, d, "INTERRUPTED"), runtime)
             stays == \/ ~HasActiveRun(s)
                      \/ ~transitioning /\ ActiveStatus(s) # "STOPPING"
                      \/ HasRunningProcessExcept(s, exceptProcess)
                      \/ HasRunningAttemptExcept(s, exceptAttempt)
  <1>1. CASE stays
    BY <1>1 DEF ConvergeStopping
  <1>2. CASE ~stays /\ Cancelling(s)
    <2>1. t = FinishCancel(s, d)
      BY <1>2 DEF ConvergeStopping
    <2>2. NothingRuns(d) /\ NoProcessRuns(d) /\ SameStatuses(s, d) /\ HasActiveRun(s)
      BY <1>2
    <2> QED BY <1>2, <2>1, <2>2, FinishCancelQuiet
  <1>3. CASE ~stays /\ ~Cancelling(s)
    <2>1. t = rest
      BY <1>3 DEF ConvergeStopping
    <2>2. runtime \in Runtimes /\ "INTERRUPTED" \in RunTerminal
      BY DEF Runtimes, RunTerminal
    <2>3. HasActiveRun(s) /\ NothingRuns(d)
      BY <1>3
    <2> HIDE DEF runtime
    <2>4. /\ rest.runtime = runtime /\ rest.cancel = s.cancel /\ rest.finds = d.finds
          /\ rest.charged = d.charged /\ rest.node = d.node /\ rest.att = d.att
          /\ ~HasActiveRun(rest)
      BY <2>2, <2>3, CloseRunFrame
    <2> HIDE DEF rest
    <2>5. ~HasRunningAttempt(rest)
      BY <2>3, <2>4, QuietRows DEF NothingRuns
    <2>6. Rests(s, rest)
      BY <2>4, <2>5 DEF Rests, runtime, HasBlockingFinding
    <2>7. Kept(d, rest)
      BY <2>4 DEF Kept, SameBooks, SameProcesses
    <2> HIDE DEF t
    <2> QED BY <1>3, <2>1, <2>4, <2>6, <2>7 DEF t
  <1> QED BY <1>1, <1>2, <1>3

(* A Decision without mutations keeps the books and the processes.         *)
LEMMA KeptRefl == \A s : Kept(s, s)
  BY DEF Kept, SameBooks, SameProcesses

(* The books survive two Decisions in a row.                               *)
LEMMA KeptTrans ==
    ASSUME NEW s, NEW d, NEW t, SameBooks(s, d), SameBooks(d, t)
    PROVE  /\ SameBooks(s, t)
           /\ SameProcesses(s, d) /\ SameProcesses(d, t) => SameProcesses(s, t)
  BY DEF SameBooks, SameProcesses

(* The ends of a stop are calm.                                            *)
LEMMA EndsAreCalm ==
    ASSUME NEW s, NEW t, CancelDone(s, t) \/ Rests(s, t)
    PROVE  Calm(t)
  <1>1. ~HasActiveRun(t) /\ ActiveStatus(t) = "none"
    BY DEF CancelDone, Rests, Quiet, ActiveStatus
  <1>2. CASE CancelDone(s, t)
    <2>1. ~HasRunningAttempt(t)
      BY <1>2, QuietRows DEF CancelDone, Quiet, NothingRuns, AttemptTerminal
    <2> QED BY <1>1, <1>2, <2>1 DEF CancelDone, Calm
  <1>3. CASE Rests(s, t)
    BY <1>1, <1>3 DEF Rests, Calm
  <1> QED BY <1>2, <1>3

(* decideReconcile, and with it the sweep before every command: it does    *)
(* nothing, finishes the cancel, or closes the Run of a Workflow in which  *)
(* no Attempt runs.                                                        *)
LEMMA SweepOutcome ==
    ASSUME NEW s, Good(s), Calm(s)
    PROVE  LET t == Sweep(s) IN
           /\ Calm(t)
           /\ Kept(s, t)
           /\ t.finds = s.finds
           /\ \/ t = s /\ (Cancelling(s) => HasRunningAttempt(s) \/ HasRunningProcess(s))
              \/ CancelDone(s, t)
              \/ Rests(s, t) /\ (Cancelling(s) => ActiveStatus(s) = "QUIESCING" \/ HasRunningProcess(s))
  <1> DEFINE t == Sweep(s)
             quiesced == ConvergeQuiescing(s, s)
             converged == ConvergeStopping(s, s, NoKey, NoKey, FALSE)
             blocked == RunMut(s, WfMutStatus(s, converged, "BLOCKED"), "BLOCKED")
  <1>1. Follows(s, s) /\ SameStatuses(s, s) /\ s \in Aggregates /\ Kept(s, s)
    BY KeptRefl DEF Follows, SameStatuses, Good
  <1>2. CASE ~NeedsReconcile(s)
    BY <1>1, <1>2 DEF Sweep, NeedsReconcile
  <1>3. CASE NeedsReconcile(s) /\ Cancelling(s) /\ ~HasRunningAttempt(s) /\ ~HasRunningProcess(s)
    <2>1. t = FinishCancel(s, s)
      BY <1>3 DEF Sweep, DecideReconcile
    <2>2. NothingRuns(s) /\ NoProcessRuns(s)
      BY <1>3, QuietRows
    <2>3. CancelDone(s, t) /\ Kept(s, t)
      BY <1>1, <2>1, <2>2, FinishCancelQuiet
    <2> HIDE DEF t
    <2>4. Calm(t)
      BY <2>3, EndsAreCalm
    <2> QED BY <2>3, <2>4 DEF t, CancelDone
  <1> DEFINE live == ~(Cancelling(s) /\ ~HasRunningAttempt(s) /\ ~HasRunningProcess(s))
  <1>4. CASE NeedsReconcile(s) /\ live /\ ActiveStatus(s) = "QUIESCING" /\ ~HasRunningAttempt(s)
    <2>1. t = quiesced
      BY <1>4 DEF Sweep, DecideReconcile
    <2>2. "BLOCKED" \in Runtimes /\ "BLOCKED" \in RunTerminal
      BY DEF Runtimes, RunTerminal
    <2>3. /\ quiesced.runtime = "BLOCKED" /\ quiesced.cancel = s.cancel
          /\ quiesced.finds = s.finds /\ quiesced.charged = s.charged
          /\ quiesced.node = s.node /\ quiesced.att = s.att /\ ~HasActiveRun(quiesced)
      BY <1>1, <2>2, CloseRunFrame DEF ConvergeQuiescing
    <2> HIDE DEF quiesced
    <2>4. ~HasRunningAttempt(quiesced)
      BY <1>4, <2>3, QuietRows DEF NothingRuns
    <2>5. Rests(s, quiesced)
      BY <2>3, <2>4 DEF Rests
    <2>6. Kept(s, quiesced)
      BY <2>3 DEF Kept, SameBooks, SameProcesses
    <2>7. Calm(quiesced)
      BY <2>5, EndsAreCalm
    <2> QED BY <1>4, <2>1, <2>3, <2>5, <2>6, <2>7
  <1>5. CASE NeedsReconcile(s) /\ live /\ ~(ActiveStatus(s) = "QUIESCING" /\ ~HasRunningAttempt(s))
    <2>1. t = IF s.runtime = "RUNNING" /\ AnyFailedNode(s) /\ ~HasRunningAttempt(s)
              THEN blocked ELSE converged
      BY <1>5 DEF Sweep, DecideReconcile
    <2>2. \/ converged = s
          \/ CancelDone(s, converged) /\ Kept(s, converged) /\ Cancelling(s)
          \/ Rests(s, converged) /\ Kept(s, converged) /\ converged.finds = s.finds /\ ~Cancelling(s)
      <3>1. ~HasRunningAttemptExcept(s, NoKey) => NothingRuns(s)
        BY QuietRows
      <3>2. ~HasRunningProcessExcept(s, NoKey) => NoProcessRuns(s)
        BY QuietRows
      <3>3. FALSE \in BOOLEAN
        OBVIOUS
      <3> QED BY <1>1, <3>1, <3>2, <3>3, ConvergeStoppingOutcome
    <2>3. Follows(s, converged)
      BY <1>1, QuietRows, ConvergeStoppingSound
    <2>4. CancelDone(s, converged) => converged.finds = s.finds
      BY DEF CancelDone
    <2>5. converged.finds = s.finds /\ Kept(s, converged)
      BY <1>1, <2>2, <2>4
    <2>6. ~HasActiveRun(s) => ~HasActiveRun(converged)
      BY <2>2 DEF CancelDone, Rests, Quiet
    <2> HIDE DEF converged
    <2>7. CASE s.runtime = "RUNNING" /\ AnyFailedNode(s) /\ ~HasRunningAttempt(s)
      <3> DEFINE w == WfMutStatus(s, converged, "BLOCKED")
      <3>1. converged \in Aggregates
        BY <2>3 DEF Follows, Good
      <3>2. /\ w.runtime = "BLOCKED" /\ w.cancel = s.cancel /\ w.finds = converged.finds
            /\ w.charged = converged.charged /\ w.node = converged.node
            /\ w.att = converged.att /\ w.runs = converged.runs
        BY <3>1, WfMutStatusFrame
      <3>3. Follows(s, w)
        BY <2>3, WfMutStatusSound DEF Runtimes
      <3> HIDE DEF w
      <3>4. ~HasActiveRun(s) => ~HasActiveRun(w)
        BY <2>6, <3>2, SameRuns
      <3>5. "BLOCKED" \in RunStatuses \ {"RUNNING"} /\ "BLOCKED" \in RunTerminal
        BY DEF RunStatuses, RunTerminal
      <3>6. /\ blocked.runtime = "BLOCKED" /\ blocked.cancel = s.cancel /\ blocked.finds = s.finds
            /\ blocked.charged = converged.charged /\ blocked.att = converged.att
            /\ ~HasActiveRun(blocked)
        <4>1. blocked = RunMut(s, w, "BLOCKED")
          BY DEF w
        <4> HIDE DEF blocked
        <4> QED BY <4>1, <2>5, <3>2, <3>3, <3>4, <3>5, RunMutStatus
      <3> HIDE DEF blocked
      <3>7. Kept(s, blocked)
        BY <2>5, <3>6 DEF Kept, SameBooks, SameProcesses
      <3>8. ~HasRunningAttempt(blocked)
        BY <2>7, <3>7, QuietRows DEF NothingRuns, Kept, SameBooks
      <3>9. Rests(s, blocked)
        BY <3>6, <3>8 DEF Rests
      <3>10. Calm(blocked)
        BY <3>9, EndsAreCalm
      <3> QED BY <1>5, <2>1, <2>7, <3>6, <3>7, <3>9, <3>10
    <2>8. CASE ~(s.runtime = "RUNNING" /\ AnyFailedNode(s) /\ ~HasRunningAttempt(s))
      <3>1. t = converged
        BY <2>1, <2>8
      <3>2. converged = s => Calm(converged)
        OBVIOUS
      <3>3. Calm(converged)
        BY <2>2, <3>2, EndsAreCalm
      <3> QED BY <1>5, <2>2, <2>5, <3>1, <3>3
    <2> QED BY <2>7, <2>8
  <1> QED BY <1>2, <1>3, <1>4, <1>5

(* Rows that agree with those of `s`.                                      *)
SameRows(s, t) ==
    t.node = s.node /\ t.charged = s.charged /\ t.finds = s.finds /\ t.att = s.att

(* Equal rows answer every question about what runs alike.                 *)
LEMMA SameRowsFacts ==
    ASSUME NEW s, NEW t, SameRows(s, t)
    PROVE  /\ Kept(s, t) /\ SameStatuses(s, t)
           /\ HasRunningAttempt(t) <=> HasRunningAttempt(s)
           /\ HasRunningProcess(t) <=> HasRunningProcess(s)
           /\ NothingRuns(t) <=> NothingRuns(s)
           /\ NoProcessRuns(t) <=> NoProcessRuns(s)
  <1>1. Kept(s, t) /\ SameStatuses(s, t)
    BY DEF SameRows, Kept, SameBooks, SameProcesses, SameStatuses
  <1>2. /\ NothingRuns(t) <=> NothingRuns(s)
        /\ NoProcessRuns(t) <=> NoProcessRuns(s)
    BY DEF SameRows, NothingRuns, NoProcessRuns
  <1> QED BY <1>1, <1>2, QuietRows

(* The Workflow is stopping, or at rest, with the rows of `s`.             *)
Stops(s, t) ==
    /\ SameRows(s, t) /\ t.cancel = s.cancel
    /\ t.runtime \in {"BLOCKED", "PAUSED"}
    /\ ActiveStatus(t) \in {"STOPPING", "none"}
    /\ HasActiveRun(t) <=> HasActiveRun(s)

(* decidePause of a RUNNING Workflow.                                      *)
LEMMA PauseOutcome ==
    ASSUME NEW s, Good(s), Calm(s), s.runtime = "RUNNING"
    PROVE  LET t == DecidePause(s) IN
           /\ Calm(t) /\ Kept(s, t) /\ t.finds = s.finds
           /\ \/ CancelDone(s, t) /\ Cancelling(s)
              \/ Rests(s, t) /\ ~Cancelling(s)
              \/ Stops(s, t)
  <1> DEFINE runtime == IF HasBlockingFinding(s) \/ ActiveStatus(s) = "QUIESCING"
                        THEN "BLOCKED" ELSE "PAUSED"
             wf == WfMutStatus(s, s, runtime)
             transitioned == HasActiveRun(s) /\ ActiveStatus(s) # "STOPPING"
             r == RunMut(s, wf, "STOPPING")
             d == IF transitioned THEN r ELSE wf
             t == DecidePause(s)
  <1>1. runtime \in Runtimes /\ runtime \in {"BLOCKED", "PAUSED"}
        /\ (runtime = "PAUSED" => ~HasBlockingFinding(s))
    BY DEF Runtimes
  <1>2. t = ConvergeStopping(s, d, NoKey, NoKey, transitioned)
    BY DEF DecidePause
  <1> HIDE DEF runtime
  <1>3. s \in Aggregates /\ Follows(s, s)
    BY DEF Good, Follows
  <1>4. Follows(s, wf)
    BY <1>1, <1>3, WfMutStatusSound
  <1>5. SameRows(s, wf) /\ wf.cancel = s.cancel /\ wf.runtime = runtime /\ wf.runs = s.runs
    BY <1>3, WfMutStatusFrame DEF SameRows
  <1> HIDE DEF wf
  <1>6. (HasActiveRun(wf) <=> HasActiveRun(s)) /\ ActiveStatus(wf) = ActiveStatus(s)
    BY <1>5, SameRuns
  <1>7. "STOPPING" \in RunStatuses \ {"RUNNING"} /\ "STOPPING" \notin RunTerminal
    BY DEF RunStatuses, RunTerminal
  <1>8. /\ Follows(s, r) /\ SameRows(s, r) /\ r.cancel = s.cancel /\ r.runtime = runtime
        /\ HasActiveRun(s) => HasActiveRun(r) /\ ActiveStatus(r) = "STOPPING"
    BY <1>4, <1>5, <1>7, RunMutSound, RunMutStatus DEF SameRows
  <1> HIDE DEF r
  <1>9. Follows(s, d) /\ Stops(s, d) /\ d.runtime = runtime
    <2>1. CASE transitioned
      BY <1>1, <1>8, <2>1 DEF Stops
    <2>2. CASE ~transitioned
      <3>1. ActiveStatus(s) \in {"STOPPING", "none"}
        BY <2>2, NoneIsNoRun
      <3> QED BY <1>1, <1>4, <1>5, <1>6, <2>2, <3>1 DEF Stops
    <2> QED BY <2>1, <2>2
  <1>10. transitioned \in BOOLEAN
    OBVIOUS
  <1> HIDE DEF d, transitioned, t
  <1>11. SameRows(s, d) /\ d.finds = s.finds
    BY <1>9 DEF Stops, SameRows
  <1>12. /\ ~HasRunningAttemptExcept(s, NoKey) => NothingRuns(d)
         /\ ~HasRunningProcessExcept(s, NoKey) => NoProcessRuns(d)
         /\ SameStatuses(s, d) /\ Kept(s, d)
    BY <1>11, QuietRows, SameRowsFacts
  <1>13. \/ t = d
         \/ CancelDone(s, t) /\ Kept(d, t) /\ Cancelling(s)
         \/ Rests(s, t) /\ Kept(d, t) /\ t.finds = s.finds /\ ~Cancelling(s)
    BY <1>2, <1>9, <1>10, <1>11, <1>12, ConvergeStoppingOutcome
  <1>14. Kept(s, t) /\ t.finds = s.finds
    BY <1>11, <1>12, <1>13, KeptTrans DEF Kept, CancelDone
  <1>15. Calm(d)
    <2>1. HasRunningAttempt(d) <=> HasRunningAttempt(s)
      BY <1>11, SameRowsFacts
    <2> QED BY <1>1, <1>9, <1>11, <2>1 DEF Calm, Stops, HasBlockingFinding
  <1>16. Calm(t)
    BY <1>13, <1>15, EndsAreCalm
  <1> QED BY <1>9, <1>13, <1>14, <1>16 DEF t

(* decideResume opens a Run and touches nothing else.                      *)
LEMMA ResumeOutcome ==
    ASSUME NEW s, Good(s), Calm(s)
    PROVE  LET t == DecideResume(s) IN
           /\ Calm(t) /\ SameRows(s, t) /\ t.cancel = s.cancel
           /\ t.runtime = "RUNNING" /\ ActiveStatus(t) = "RUNNING"
  <1> DEFINE wf == WfMutStatus(s, s, "RUNNING")
             closed == [i \in DOMAIN s.runs |->
                           IF s.runs[i].status \in RunTerminal
                           THEN s.runs[i]
                           ELSE [status |-> "INTERRUPTED", gate |-> FALSE]]
             row == [status |-> "RUNNING", gate |-> TRUE]
             t == DecideResume(s)
  <1>1. s \in Aggregates /\ Follows(s, s) /\ s.runs \in Seq(Runs)
    BY DEF Good, Follows, Aggregates
  <1>2. SameRows(s, wf) /\ wf.cancel = s.cancel /\ wf.runtime = "RUNNING"
    BY <1>1, WfMutStatusFrame DEF SameRows
  <1>3. wf \in Aggregates
    BY <1>1, WfMutStatusSound DEF Follows, Good, Runtimes
  <1>4. t = [wf EXCEPT !.runs = Append(closed, row)]
    BY <1>3 DEF DecideResume, OpenRun, ClosePriorRuns, wf, Aggregates
  <1>5. Good(t)
    BY DecideResumeSound
  <1>6. closed \in [DOMAIN s.runs -> Runs] /\ row \in Runs /\ row.status = "RUNNING"
    <2>1. \A i \in DOMAIN s.runs : s.runs[i] \in Runs
      BY <1>1, LenProperties
    <2>2. [status |-> "INTERRUPTED", gate |-> FALSE] \in Runs
      BY DEF Runs, RunStatuses, RunTerminal
    <2>3. row \in Runs /\ row.status = "RUNNING"
      BY DEF Runs, RunStatuses
    <2> QED BY <2>1, <2>2, <2>3
  <1> HIDE DEF wf, t, closed, row
  <1>7. closed \in Seq(Runs)
    BY <1>1, <1>6, MapRows
  <1>8. /\ t.runs = Append(closed, row) /\ t.cancel = wf.cancel /\ t.runtime = wf.runtime
        /\ SameRows(wf, t)
    BY <1>3, <1>4 DEF Aggregates, SameRows
  <1>9. Len(t.runs) \in DOMAIN t.runs /\ t.runs[Len(t.runs)] = row
    BY <1>6, <1>7, <1>8, AppendRow
  <1>10. HasActiveRun(t) /\ ActiveStatus(t) = "RUNNING"
    BY <1>5, <1>6, <1>9, StatusIsNewest DEF RunTerminal
  <1>11. SameRows(s, t) /\ t.cancel = s.cancel /\ t.runtime = "RUNNING"
    BY <1>2, <1>8 DEF SameRows
  <1>12. Calm(t)
    BY <1>10, <1>11 DEF Calm
  <1> QED BY <1>10, <1>11, <1>12 DEF t

(* decideCancel: finished at once, or an intent on a Run that stops.       *)
LEMMA CancelOutcome ==
    ASSUME NEW s, Good(s), Calm(s), s.runtime \notin RuntimeTerminal
    PROVE  LET t == DecideCancel(s) IN
           /\ Calm(t) /\ Kept(s, t) /\ t.finds = s.finds /\ t.cancel = TRUE
           /\ \/ CancelDone(s, t)
              \/ /\ SameRows(s, t) /\ t.runtime = s.runtime
                 /\ HasActiveRun(s) => ActiveStatus(t) = "STOPPING"
                 /\ HasActiveRun(t) <=> HasActiveRun(s)
  <1> DEFINE yes == TRUE
             wf == WfMut(s, s, s.stage, s.runtime, yes)
             intended == RunMut(s, wf, "STOPPING")
             t == DecideCancel(s)
  <1>0. yes = TRUE /\ yes \in BOOLEAN
    OBVIOUS
  <1>1. t = IF HasRunningAttempt(s) \/ HasRunningProcess(s) THEN intended
            ELSE FinishCancel(s, intended)
    BY DEF DecideCancel
  <1> HIDE DEF yes
  <1>2. s \in Aggregates /\ Follows(s, s)
    BY DEF Good, Follows
  <1>3. /\ s.stage \in {"EXECUTION", "FINAL_VERIFICATION", "COMPLETED"}
        /\ s.runtime \in Runtimes
    BY <1>2 DEF Aggregates
  <1>4. Follows(s, wf)
    <2> DEFINE stage == s.stage
               runtime == s.runtime
    <2>1. /\ stage \in {"EXECUTION", "FINAL_VERIFICATION", "COMPLETED"}
          /\ runtime \in Runtimes /\ wf = WfMut(s, s, stage, runtime, yes)
      BY <1>3
    <2> HIDE DEF stage, runtime, wf
    <2> QED BY <1>0, <1>2, <2>1, WfMutSound
  <1>5. SameRows(s, wf) /\ wf.cancel = yes /\ wf.runtime = s.runtime /\ wf.runs = s.runs
    <2> DEFINE stage == s.stage
               runtime == s.runtime
    <2>1. wf = WfMut(s, s, stage, runtime, yes)
      OBVIOUS
    <2> HIDE DEF stage, runtime, wf
    <2>2. SameRows(s, wf) /\ wf.cancel = yes /\ wf.runtime = runtime /\ wf.runs = s.runs
      BY <1>2, <2>1, WfMutFrame DEF SameRows
    <2> QED BY <2>2 DEF runtime
  <1> HIDE DEF wf
  <1>6. (HasActiveRun(wf) <=> HasActiveRun(s)) /\ ActiveStatus(wf) = ActiveStatus(s)
    BY <1>5, SameRuns
  <1>7. "STOPPING" \in RunStatuses \ {"RUNNING"} /\ "STOPPING" \notin RunTerminal
    BY DEF RunStatuses, RunTerminal
  <1>8. /\ Follows(s, intended) /\ SameRows(s, intended)
        /\ intended.cancel = TRUE /\ intended.runtime = s.runtime
        /\ HasActiveRun(s) => HasActiveRun(intended) /\ ActiveStatus(intended) = "STOPPING"
        /\ ~HasActiveRun(s) => ~HasActiveRun(intended)
    <2>1. Follows(s, intended)
      BY <1>4, <1>7, RunMutSound
    <2>2. /\ SameRows(wf, intended) /\ intended.cancel = wf.cancel /\ intended.runtime = wf.runtime
          /\ HasActiveRun(s) => HasActiveRun(intended) /\ ActiveStatus(intended) = "STOPPING"
          /\ ~HasActiveRun(s) => intended = wf
      BY <1>4, <1>7, RunMutStatus DEF SameRows
    <2> HIDE DEF intended
    <2>3. intended.cancel = TRUE
      BY <1>0, <1>5, <2>2
    <2> QED BY <1>5, <1>6, <2>1, <2>2, <2>3 DEF SameRows
  <1> HIDE DEF intended, t
  <1>9. CASE HasRunningAttempt(s) \/ HasRunningProcess(s)
    <2>1. t = intended
      BY <1>1, <1>9
    <2>2. Kept(s, t) /\ (HasRunningAttempt(t) <=> HasRunningAttempt(s))
      BY <1>8, <2>1, SameRowsFacts
    <2>3. ActiveStatus(t) \in {"STOPPING", "none"}
      BY <1>8, <2>1, NoneIsNoRun DEF Follows
    <2>4. Calm(t)
      BY <1>8, <2>1, <2>2, <2>3 DEF Calm, SameRows, HasBlockingFinding, RuntimeTerminal
    <2> QED BY <1>8, <2>1, <2>2, <2>4 DEF t, SameRows
  <1>10. CASE ~(HasRunningAttempt(s) \/ HasRunningProcess(s))
    <2>1. t = FinishCancel(s, intended)
      BY <1>1, <1>10
    <2>2. NothingRuns(intended) /\ NoProcessRuns(intended) /\ SameStatuses(s, intended) /\ Kept(s, intended)
      BY <1>8, <1>10, QuietRows, SameRowsFacts
    <2>3. CancelDone(s, t) /\ Kept(intended, t)
      BY <1>8, <2>1, <2>2, FinishCancelQuiet
    <2>4. Kept(s, t) /\ Calm(t)
      BY <2>2, <2>3, KeptTrans, EndsAreCalm DEF Kept
    <2> QED BY <2>3, <2>4 DEF t, CancelDone
  <1> QED BY <1>9, <1>10

(* decideComplete: every Node has SUCCEEDED, so nothing runs any more.     *)
LEMMA CompleteOutcome ==
    ASSUME NEW s, Good(s), CanComplete(s)
    PROVE  LET t == DecideComplete(s) IN
           /\ Calm(t) /\ SameBooks(s, t) /\ t.finds = s.finds
           /\ t.cancel = FALSE /\ t.runtime = "SUCCEEDED"
           /\ ~HasRunningAttempt(s)
  <1> DEFINE no == FALSE
             wf == WfMut(s, s, "COMPLETED", "SUCCEEDED", no)
             b == RunMut(s, wf, "SUCCEEDED")
             t == DecideComplete(s)
             row(n, k) == IF s.att[n][k].process = "RUNNING"
                          THEN [s.att[n][k] EXCEPT !.process = "STOPPED"]
                          ELSE s.att[n][k]
             table(n) == [k \in DOMAIN s.att[n] |-> row(n, k)]
  <1>0. no = FALSE /\ no \in BOOLEAN
    OBVIOUS
  <1>1. t = [b EXCEPT !.att = [n \in Nodes |-> table(n)]]
    BY DEF DecideComplete
  <1> HIDE DEF no
  <1>2. s \in Aggregates /\ Follows(s, s) /\ NewestRuns(s)
    BY DEF Good, Follows
  <1>3. Follows(s, wf)
    <2>1. "SUCCEEDED" \in Runtimes
      BY DEF Runtimes, RuntimeTerminal
    <2> QED BY <1>0, <1>2, <2>1, WfMutSound
  <1>4. SameRows(s, wf) /\ wf.cancel = no /\ wf.runtime = "SUCCEEDED" /\ wf.runs = s.runs
    BY <1>2, WfMutFrame DEF SameRows
  <1> HIDE DEF wf
  <1>5. HasActiveRun(wf) <=> HasActiveRun(s)
    BY <1>4, SameRuns
  <1>6. "SUCCEEDED" \in RunStatuses \ {"RUNNING"} /\ "SUCCEEDED" \in RunTerminal
    BY DEF RunStatuses, RunTerminal
  <1>7. Follows(s, b) /\ SameRows(s, b) /\ b.cancel = FALSE /\ b.runtime = "SUCCEEDED" /\ ~HasActiveRun(b)
    BY <1>0, <1>3, <1>4, <1>5, <1>6, RunMutSound, RunMutStatus DEF SameRows
  <1>8. b \in Aggregates
    BY <1>7 DEF Follows, Good
  <1> HIDE DEF b, t
  <1>9. /\ t.runs = b.runs /\ t.node = s.node /\ t.charged = s.charged /\ t.finds = s.finds
        /\ t.cancel = FALSE /\ t.runtime = "SUCCEEDED"
        /\ t.att = [n \in Nodes |-> table(n)]
    BY <1>1, <1>7, <1>8 DEF Aggregates, SameRows
  <1>10. ASSUME NEW n \in Nodes
         PROVE  /\ DOMAIN t.att[n] = DOMAIN s.att[n]
                /\ \A k \in DOMAIN s.att[n] :
                      /\ t.att[n][k].process # "RUNNING"
                      /\ t.att[n][k].process = "none" <=> s.att[n][k].process = "none"
                      /\ t.att[n][k].status = s.att[n][k].status
    <2>1. t.att[n] = table(n) /\ DOMAIN table(n) = DOMAIN s.att[n]
      BY <1>9
    <2>2. ASSUME NEW k \in DOMAIN s.att[n]
          PROVE  /\ row(n, k).process # "RUNNING"
                 /\ row(n, k).process = "none" <=> s.att[n][k].process = "none"
                 /\ row(n, k).status = s.att[n][k].status
      <3>1. s.att[n] \in Seq(Attempts)
        BY <1>2 DEF Aggregates
      <3>2. s.att[n][k] \in Attempts
        BY <3>1, LenProperties
      <3> QED BY <3>2 DEF Attempts
    <2> HIDE DEF row
    <2> QED BY <2>1, <2>2
  <1>11. NothingRuns(s)
    BY <1>2 DEF CanComplete, NewestRuns, NothingRuns
  <1>12. NothingRuns(t) /\ NoProcessRuns(t)
    BY <1>10, <1>11 DEF NothingRuns, NoProcessRuns
  <1>13. SameBooks(s, t)
    BY <1>9, <1>10 DEF SameBooks
  <1>14. ~HasActiveRun(t) /\ ~HasRunningAttempt(t) /\ ~HasRunningProcess(t) /\ ~HasRunningAttempt(s)
    BY <1>7, <1>9, <1>11, <1>12, SameRuns, QuietRows
  <1>15. ActiveStatus(t) = "none"
    BY <1>14 DEF ActiveStatus
  <1>16. Calm(t)
    BY <1>9, <1>14, <1>15 DEF Calm, CanComplete, HasBlockingFinding
  <1> QED BY <1>9, <1>13, <1>14, <1>16 DEF t

(* Ending one RUNNING process: that row and no other.                      *)
LEMMA EndProcessFrame ==
    ASSUME NEW s, Good(s), NEW n \in Nodes, NEW k, <<n, k>> \in RunningProcesses(s)
    PROVE  LET t == EndProcess(s, <<n, k>>) IN
           /\ SameStatuses(s, t) /\ SameBooks(s, t)
           /\ t.runtime = s.runtime /\ t.cancel = s.cancel /\ t.runs = s.runs
           /\ RunningProcesses(t) = RunningProcesses(s) \ {<<n, k>>}
  <1> DEFINE t == EndProcess(s, <<n, k>>)
             row == [s.att[n][k] EXCEPT !.process = "STOPPED"]
             table == [s.att[n] EXCEPT ![k] = row]
  <1>1. s \in Aggregates
    BY DEF Good
  <1>2. s.att[n] \in Seq(Attempts)
    BY <1>1 DEF Aggregates
  <1>3. k \in DOMAIN s.att[n] /\ s.att[n][k].process = "RUNNING"
    BY QuietRows
  <1>4. s.att[n][k] \in Attempts
    BY <1>2, <1>3, LenProperties
  <1>5. row \in Attempts /\ row.status = s.att[n][k].status /\ row.process = "STOPPED"
    BY <1>4 DEF Attempts, ProcessStatuses
  <1>6. t = [s EXCEPT !.att = [s.att EXCEPT ![n] = table]]
    BY <1>1 DEF EndProcess, Aggregates
  <1> HIDE DEF t, row
  <1>7. /\ DOMAIN table = DOMAIN s.att[n]
        /\ \A j \in DOMAIN s.att[n] : table[j] = IF j = k THEN row ELSE s.att[n][j]
    BY <1>2, <1>5, ReplaceRow
  <1> HIDE DEF table
  <1>8. /\ t.runs = s.runs /\ t.node = s.node /\ t.charged = s.charged /\ t.finds = s.finds
        /\ t.runtime = s.runtime /\ t.cancel = s.cancel
        /\ t.att[n] = table
        /\ \A m \in Nodes \ {n} : t.att[m] = s.att[m]
    BY <1>1, <1>6 DEF Aggregates
  <1>9. ASSUME NEW m \in Nodes
        PROVE  /\ DOMAIN t.att[m] = DOMAIN s.att[m]
               /\ \A j \in DOMAIN s.att[m] :
                     /\ t.att[m][j].status = s.att[m][j].status
                     /\ t.att[m][j].process = "none" <=> s.att[m][j].process = "none"
                     /\ t.att[m][j].process = "RUNNING" <=>
                          s.att[m][j].process = "RUNNING" /\ <<m, j>> # <<n, k>>
    <2>1. CASE m = n
      <3>1. DOMAIN t.att[m] = DOMAIN s.att[m] /\ t.att[m] = table
        BY <1>7, <1>8, <2>1
      <3>2. ASSUME NEW j \in DOMAIN s.att[m], j = k
            PROVE  /\ t.att[m][j] = row /\ s.att[m][j].process = "RUNNING"
                   /\ s.att[m][j].status = row.status
        BY <1>3, <1>5, <1>7, <2>1, <3>1, <3>2
      <3>3. ASSUME NEW j \in DOMAIN s.att[m], j # k
            PROVE  t.att[m][j] = s.att[m][j] /\ <<m, j>> # <<n, k>>
        BY <1>7, <2>1, <3>1, <3>3
      <3> QED BY <1>5, <2>1, <3>1, <3>2, <3>3
    <2>2. CASE m # n
      BY <1>8, <2>2
    <2> QED BY <2>1, <2>2
  <1>10. SameStatuses(s, t) /\ SameBooks(s, t)
    BY <1>8, <1>9 DEF SameStatuses, SameBooks
  <1>11. ASSUME NEW m \in Nodes, NEW j
         PROVE  <<m, j>> \in RunningProcesses(t) <=> <<m, j>> \in RunningProcesses(s) \ {<<n, k>>}
    BY <1>9, QuietRows
  <1>12. \A key : key \in RunningProcesses(t) => key \in RunningProcesses(s) \ {<<n, k>>}
    <2> SUFFICES ASSUME NEW key \in RunningProcesses(t)
                 PROVE  key \in RunningProcesses(s) \ {<<n, k>>}
      OBVIOUS
    <2>1. PICK m \in Nodes : \E j \in DOMAIN t.att[m] : key = <<m, j>>
      BY QuietRows
    <2>2. PICK j \in DOMAIN t.att[m] : key = <<m, j>>
      BY <2>1
    <2> QED BY <2>2, <1>11
  <1>13. \A key : key \in RunningProcesses(s) \ {<<n, k>>} => key \in RunningProcesses(t)
    <2> SUFFICES ASSUME NEW key \in RunningProcesses(s) \ {<<n, k>>}
                 PROVE  key \in RunningProcesses(t)
      OBVIOUS
    <2>1. PICK m \in Nodes : \E j \in DOMAIN s.att[m] : key = <<m, j>>
      BY QuietRows
    <2>2. PICK j \in DOMAIN s.att[m] : key = <<m, j>>
      BY <2>1
    <2> QED BY <2>2, <1>11
  <1>14. RunningProcesses(t) = RunningProcesses(s) \ {<<n, k>>}
    BY <1>12, <1>13
  <1> QED BY <1>8, <1>10, <1>14 DEF t

(* decideProcessStopped, on the process the stop loop waited for.          *)
LEMMA ProcessStoppedOutcome ==
    ASSUME NEW s, Good(s), Calm(s), NEW n \in Nodes, NEW k,
           <<n, k>> \in RunningProcesses(s), NEW orphan \in BOOLEAN
    PROVE  LET t == DecideProcessStopped(s, <<n, k>>, orphan) IN
           /\ Calm(t) /\ SameBooks(s, t)
           /\ RunningProcesses(t) = RunningProcesses(s) \ {<<n, k>>}
           /\ t.cancel = s.cancel
           /\ orphan => "workflow" \in t.finds
           /\ ~orphan => t.finds = s.finds
           /\ \/ CancelDone(s, t)
              \/ Rests(s, t) /\ (orphan \/ ~Cancelling(s))
              \/ orphan
              \/ /\ t.runtime = s.runtime /\ ActiveStatus(t) = ActiveStatus(s)
                 /\ HasActiveRun(t) <=> HasActiveRun(s)
                 /\ HasRunningAttempt(t) <=> HasRunningAttempt(s)
  <1> DEFINE key == <<n, k>>
             stopped == EndProcess(s, key)
             found == [stopped EXCEPT !.finds = @ \cup {"workflow"}]
             lost == WfMutStatus(s, RunMut(s, found, "INTERRUPTED"), "BLOCKED")
             met == ConvergeStopping(s, stopped, NoKey, key, FALSE)
             t == DecideProcessStopped(s, key, orphan)
  <1>1. t = IF orphan THEN lost ELSE met
    BY DEF DecideProcessStopped
  <1>2. /\ SameStatuses(s, stopped) /\ SameBooks(s, stopped)
        /\ stopped.runtime = s.runtime /\ stopped.cancel = s.cancel /\ stopped.runs = s.runs
        /\ RunningProcesses(stopped) = RunningProcesses(s) \ {key}
    BY EndProcessFrame
  <1>3. Follows(s, stopped)
    BY EndProcessSound
  <1> HIDE DEF stopped
  <1>4. stopped \in Aggregates
    BY <1>3 DEF Follows, Good
  <1>5. /\ ActiveStatus(stopped) = ActiveStatus(s)
        /\ HasActiveRun(stopped) <=> HasActiveRun(s)
    BY <1>2, SameRuns
  <1>6. NothingRuns(stopped) <=> NothingRuns(s)
    BY <1>2 DEF NothingRuns, SameStatuses
  <1>7. HasRunningAttempt(stopped) <=> HasRunningAttempt(s)
    BY <1>6, QuietRows
  <1>8. CASE orphan
    <2>1. /\ found.runs = stopped.runs /\ found.att = stopped.att /\ found.node = stopped.node
          /\ found.charged = stopped.charged /\ found.finds = stopped.finds \cup {"workflow"}
          /\ found \in Aggregates
      BY <1>4 DEF Aggregates
    <2> HIDE DEF found
    <2>2. Follows(s, found)
      BY <1>3, <2>1 DEF Follows, Good, RunsOrdered, NewestRuns
    <2>3. ~HasActiveRun(s) => ~HasActiveRun(found)
      BY <1>5, <2>1, SameRuns
    <2>4. "BLOCKED" \in Runtimes /\ "INTERRUPTED" \in RunTerminal
      BY DEF Runtimes, RunTerminal
    <2>5. /\ lost.runtime = "BLOCKED" /\ lost.cancel = s.cancel /\ lost.finds = found.finds
          /\ lost.charged = found.charged /\ lost.node = found.node /\ lost.att = found.att
          /\ ~HasActiveRun(lost)
      BY <2>2, <2>3, <2>4, CloseRunFrame
    <2> HIDE DEF lost
    <2>6. SameBooks(s, lost)
      BY <1>2, <2>1, <2>5 DEF SameBooks
    <2>7. RunningProcesses(lost) = RunningProcesses(stopped)
      BY <2>1, <2>5 DEF RunningProcesses
    <2>8. ActiveStatus(lost) = "none"
      BY <2>5 DEF ActiveStatus
    <2>9. Calm(lost)
      BY <2>1, <2>5, <2>8 DEF Calm
    <2>10. t = lost /\ "workflow" \in lost.finds
      BY <1>1, <1>8, <2>1, <2>5
    <2> HIDE DEF t
    <2> QED BY <1>2, <1>8, <2>5, <2>6, <2>7, <2>9, <2>10 DEF t
  <1>9. CASE ~orphan
    <2>1. FALSE \in BOOLEAN
      OBVIOUS
    <2>2. stopped.finds = s.finds
      BY <1>2 DEF SameStatuses
    <2>3. ~HasRunningAttemptExcept(s, NoKey) => NothingRuns(stopped)
      BY <1>6, QuietRows
    <2>4. ~HasRunningProcessExcept(s, key) => NoProcessRuns(stopped)
      <3>1. ~HasRunningProcessExcept(s, key) => ~HasRunningProcess(stopped)
        BY <1>2 DEF HasRunningProcessExcept, HasRunningProcess
      <3> QED BY <3>1, QuietRows
    <2> HIDE DEF key
    <2>5. \/ met = stopped
          \/ CancelDone(s, met) /\ Kept(stopped, met) /\ Cancelling(s)
          \/ Rests(s, met) /\ Kept(stopped, met) /\ met.finds = s.finds /\ ~Cancelling(s)
      BY <1>2, <1>3, <2>1, <2>2, <2>3, <2>4, ConvergeStoppingOutcome
    <2> HIDE DEF met
    <2>6. Kept(stopped, met) /\ met.finds = s.finds
      BY <2>2, <2>5, KeptRefl DEF CancelDone
    <2>7. SameBooks(s, met)
      BY <1>2, <2>6, KeptTrans DEF Kept
    <2>8. RunningProcesses(met) = RunningProcesses(stopped)
      BY <2>6 DEF Kept, SameBooks, SameProcesses, RunningProcesses
    <2>9. met.cancel = s.cancel
      <3>1. CASE met = stopped
        BY <1>2, <3>1
      <3>2. CASE CancelDone(s, met) /\ Cancelling(s)
        <4>1. s.cancel = TRUE
          BY <3>2 DEF Cancelling, Good, Aggregates
        <4> QED BY <3>2, <4>1 DEF CancelDone
      <3>3. CASE Rests(s, met)
        BY <3>3 DEF Rests
      <3> QED BY <2>5, <3>1, <3>2, <3>3
    <2>10. Calm(met)
      <3>1. HasRunningProcess(s)
        BY DEF HasRunningProcess
      <3>2. s.runtime \notin {"CANCELLED", "SUCCEEDED"}
        BY <3>1, QuietRows DEF Calm, Quiet, NoProcessRuns
      <3>3. Calm(stopped)
        BY <1>2, <1>5, <1>7, <2>2, <3>2 DEF Calm, HasBlockingFinding
      <3> QED BY <2>5, <3>3, EndsAreCalm
    <2>11. t = met
      BY <1>1, <1>9
    <2> HIDE DEF t
    <2> QED BY <1>2, <1>5, <1>7, <1>9, <2>5, <2>6, <2>7, <2>8, <2>9, <2>10, <2>11 DEF t, key
  <1> QED BY <1>8, <1>9

-----------------------------------------------------------------------------
(* The Decisions of a chain, while its pass is live.                       *)

(* The row <<n, k>> has stopped running; the others are as they were.      *)
EndedRow(s, t, n, k) ==
    \A m \in Nodes :
        /\ DOMAIN t.att[m] = DOMAIN s.att[m]
        /\ m # n => t.att[m] = s.att[m]
        /\ \A j \in DOMAIN s.att[m] :
              /\ t.att[m][j].process = s.att[m][j].process
              /\ t.att[m][j].status = "RUNNING" <=>
                   s.att[m][j].status = "RUNNING" /\ <<m, j>> # <<n, k>>

(* Ending an Attempt changes that one row and nothing else.                *)
LEMMA EndAttemptFrame ==
    ASSUME NEW s, Good(s), NEW d \in Aggregates, d.att = s.att,
           NEW n \in Nodes, NEW k, IsRunning(s, n, k), NEW status \in AttemptTerminal
    PROVE  LET t == EndAttempt(d, n, k, status) IN
           /\ t.runs = d.runs /\ t.runtime = d.runtime /\ t.cancel = d.cancel
           /\ t.finds = d.finds /\ t.charged = d.charged /\ t.node = d.node
           /\ t.base = d.base /\ EndedRow(s, t, n, k)
  <1> DEFINE t == EndAttempt(d, n, k, status)
             row == [d.att[n][k] EXCEPT !.status = status]
             table == [d.att[n] EXCEPT ![k] = row]
  <1>1. d.att[n] \in Seq(Attempts) /\ k \in DOMAIN d.att[n]
    BY DEF Aggregates, IsRunning
  <1>2. d.att[n][k] \in Attempts
    BY <1>1, LenProperties
  <1>3. row \in Attempts /\ row.status # "RUNNING" /\ row.process = d.att[n][k].process
    BY <1>2 DEF Attempts, AttemptStatuses, AttemptTerminal
  <1>4. t = [d EXCEPT !.att = [d.att EXCEPT ![n] = table]]
    BY DEF EndAttempt, Aggregates
  <1> HIDE DEF t, row
  <1>5. /\ DOMAIN table = DOMAIN d.att[n]
        /\ \A j \in DOMAIN d.att[n] : table[j] = IF j = k THEN row ELSE d.att[n][j]
    BY <1>1, <1>3, ReplaceRow
  <1> HIDE DEF table
  <1>6. /\ t.runs = d.runs /\ t.runtime = d.runtime /\ t.cancel = d.cancel
        /\ t.finds = d.finds /\ t.charged = d.charged /\ t.node = d.node
        /\ t.base = d.base
        /\ t.att[n] = table
        /\ \A m \in Nodes \ {n} : t.att[m] = d.att[m]
    BY <1>4 DEF Aggregates
  <1>7. ASSUME NEW m \in Nodes
        PROVE  /\ DOMAIN t.att[m] = DOMAIN s.att[m]
               /\ m # n => t.att[m] = s.att[m]
               /\ \A j \in DOMAIN s.att[m] :
                     /\ t.att[m][j].process = s.att[m][j].process
                     /\ t.att[m][j].status = "RUNNING" <=>
                          s.att[m][j].status = "RUNNING" /\ <<m, j>> # <<n, k>>
    <2>1. CASE m = n
      <3>1. DOMAIN t.att[m] = DOMAIN s.att[m] /\ t.att[m] = table
        BY <1>5, <1>6, <2>1
      <3>2. ASSUME NEW j \in DOMAIN s.att[m], j = k
            PROVE  t.att[m][j] = row /\ s.att[m][j].process = row.process
        BY <1>3, <1>5, <2>1, <3>1, <3>2
      <3>3. ASSUME NEW j \in DOMAIN s.att[m], j # k
            PROVE  t.att[m][j] = s.att[m][j] /\ <<m, j>> # <<n, k>>
        BY <1>5, <2>1, <3>1, <3>3
      <3> QED BY <1>3, <2>1, <3>1, <3>2, <3>3
    <2>2. CASE m # n
      BY <1>6, <2>2
    <2> QED BY <2>1, <2>2
  <1>8. EndedRow(s, t, n, k)
    BY <1>7 DEF EndedRow
  <1> QED BY <1>6, <1>8 DEF t

(* What follows from one row that ended.                                   *)
LEMMA EndedRowFacts ==
    ASSUME NEW s, NEW t, NEW n \in Nodes, NEW k, EndedRow(s, t, n, k),
           t.charged = s.charged, s.finds \subseteq t.finds
    PROVE  /\ Kept(s, t)
           /\ NothingRuns(t) <=> ~HasRunningAttemptExcept(s, <<n, k>>)
           /\ HasRunningAttempt(t) <=> HasRunningAttemptExcept(s, <<n, k>>)
  <1>1. Kept(s, t)
    BY DEF EndedRow, Kept, SameBooks, SameProcesses
  <1>2. NothingRuns(t) <=> ~HasRunningAttemptExcept(s, <<n, k>>)
    BY DEF EndedRow, NothingRuns, HasRunningAttemptExcept
  <1> QED BY <1>1, <1>2, QuietRows

(* The retry accounting of the aggregate.                                  *)
Bare(s, n) == {k \in DOMAIN s.att[n] : s.att[n][k].process = "none"}

Books(s) ==
    \A n \in Nodes :
        /\ s.charged[n] <= RetryBudget[n]
        /\ n \in Tasks => s.charged[n] = Cardinality(Bare(s, n))

(* The account of retries depends on the books alone.                      *)
LEMMA SameBooksSameAccount ==
    ASSUME NEW s, NEW t, SameBooks(s, t), Books(s)
    PROVE  Books(t)
  <1>1. \A n \in Nodes : Bare(t, n) = Bare(s, n)
    BY DEF SameBooks, Bare
  <1> QED BY <1>1 DEF SameBooks, Books

(* A Workflow whose pass is live: nothing but a failure closes its Run.    *)
Working(s) ==
    /\ s.runtime = "RUNNING" /\ ~s.cancel
    /\ ActiveStatus(s) \in {"RUNNING", "QUIESCING"}

Elsewhere(s, n) ==
    \E m \in Nodes \ {n} : \E j \in DOMAIN s.att[m] : s.att[m][j].status = "RUNNING"

(* One chain has settled its Attempt: the Workflow goes on while another   *)
(* Attempt runs.                                                           *)
Settled(s, t, n) ==
    /\ Calm(t) /\ t.cancel = s.cancel
    /\ Books(s) => Books(t)
    /\ \A m \in Nodes \ {n} : t.att[m] = s.att[m]
    /\ \A k \in DOMAIN t.att[n] : t.att[n][k].status # "RUNNING"
    /\ Elsewhere(s, n) => Working(t)

(* At most one Attempt of a Node runs.                                     *)
LEMMA OneRunsPerNode ==
    ASSUME NEW s, Good(s), NEW n \in Nodes, NEW k, IsRunning(s, n, k)
    PROVE  /\ \A j \in DOMAIN s.att[n] : s.att[n][j].status = "RUNNING" => j = k
           /\ HasRunningAttemptExcept(s, <<n, k>>) <=> Elsewhere(s, n)
  <1>1. k = Len(s.att[n]) /\ k \in DOMAIN s.att[n]
    BY DEF IsRunning, Good, NewestRuns
  <1>2. \A j \in DOMAIN s.att[n] : s.att[n][j].status = "RUNNING" => j = k
    BY <1>1 DEF Good, NewestRuns
  <1>3. Elsewhere(s, n) => HasRunningAttemptExcept(s, <<n, k>>)
    BY DEF Elsewhere, HasRunningAttemptExcept
  <1>4. HasRunningAttemptExcept(s, <<n, k>>) => Elsewhere(s, n)
    BY <1>2 DEF Elsewhere, HasRunningAttemptExcept
  <1> QED BY <1>2, <1>3, <1>4

(* A Node whose Attempt ended has none that runs.                          *)
LEMMA EndedNodeIsIdle ==
    ASSUME NEW s, Good(s), NEW t, NEW n \in Nodes, NEW k, IsRunning(s, n, k),
           EndedRow(s, t, n, k)
    PROVE  \A j \in DOMAIN t.att[n] : t.att[n][j].status # "RUNNING"
  <1>1. \A j \in DOMAIN s.att[n] : s.att[n][j].status = "RUNNING" => j = k
    BY OneRunsPerNode
  <1>2. ASSUME NEW j \in DOMAIN t.att[n], t.att[n][j].status = "RUNNING"
        PROVE  FALSE
    <2>1. j \in DOMAIN s.att[n] /\ s.att[n][j].status = "RUNNING" /\ <<n, j>> # <<n, k>>
      BY <1>2 DEF EndedRow
    <2> QED BY <1>1, <2>1
  <1> QED BY <1>2

(* The common end of a success and of a deferred retry: the Run goes on,   *)
(* or it was quiescing and this was the last Attempt.                      *)
LEMMA SettleAfterAttemptEndOutcome ==
    ASSUME NEW s, NEW d, Good(s), Calm(s), Working(s), NEW n \in Nodes, NEW k,
           IsRunning(s, n, k), Follows(s, d), EndedRow(s, d, n, k),
           d.charged = s.charged, d.finds = s.finds, d.runs = s.runs,
           d.runtime = s.runtime, d.cancel = s.cancel
    PROVE  Settled(s, SettleAfterAttemptEnd(s, d, <<n, k>>), n)
  <1> DEFINE t == SettleAfterAttemptEnd(s, d, <<n, k>>)
             quiesced == ConvergeQuiescing(s, d)
             met == ConvergeStopping(s, d, <<n, k>>, NoKey, FALSE)
             last == ActiveStatus(s) = "QUIESCING" /\ ~HasRunningAttemptExcept(s, <<n, k>>)
  <1>1. ~Cancelling(s)
    BY DEF Working, Cancelling
  <1>2. met = d
    BY DEF ConvergeStopping, Working
  <1>3. t = IF last THEN quiesced ELSE d
    BY <1>1, <1>2 DEF SettleAfterAttemptEnd
  <1>4. /\ HasActiveRun(d) <=> HasActiveRun(s)
        /\ ActiveStatus(d) = ActiveStatus(s)
    BY SameRuns
  <1>5. /\ Kept(s, d)
        /\ NothingRuns(d) <=> ~HasRunningAttemptExcept(s, <<n, k>>)
        /\ HasRunningAttempt(d) <=> HasRunningAttemptExcept(s, <<n, k>>)
    BY EndedRowFacts
  <1>6. /\ \A j \in DOMAIN s.att[n] : s.att[n][j].status = "RUNNING" => j = k
        /\ HasRunningAttemptExcept(s, <<n, k>>) <=> Elsewhere(s, n)
    BY OneRunsPerNode
  <1>7. /\ \A m \in Nodes \ {n} : d.att[m] = s.att[m]
        /\ \A j \in DOMAIN d.att[n] : d.att[n][j].status # "RUNNING"
    BY <1>6 DEF EndedRow
  <1>8. HasActiveRun(s)
    BY NoneIsNoRun DEF Working
  <1>9. CASE last
    <2>1. "BLOCKED" \in Runtimes /\ "BLOCKED" \in RunTerminal
      BY DEF Runtimes, RunTerminal
    <2>2. /\ quiesced.runtime = "BLOCKED" /\ quiesced.cancel = s.cancel
          /\ quiesced.finds = d.finds /\ quiesced.charged = d.charged
          /\ quiesced.att = d.att /\ ~HasActiveRun(quiesced)
      BY <1>8, <2>1, CloseRunFrame DEF ConvergeQuiescing
    <2> HIDE DEF quiesced
    <2>3. ~HasRunningAttempt(quiesced)
      BY <1>5, <1>9, <2>2, QuietRows DEF NothingRuns
    <2>4. Calm(quiesced)
      <3>1. Rests(s, quiesced)
        BY <2>2, <2>3 DEF Rests
      <3> QED BY <3>1, EndsAreCalm
    <2>5. SameBooks(s, quiesced)
      BY <1>5, <2>2 DEF Kept, SameBooks
    <2>6. Books(s) => Books(quiesced)
      BY <2>5, SameBooksSameAccount
    <2> QED BY <1>3, <1>6, <1>7, <1>9, <2>2, <2>4, <2>6 DEF Settled
  <1>10. CASE ~last
    <2>1. Calm(d)
      BY <1>4, <1>8 DEF Calm, Working, HasBlockingFinding
    <2>2. Books(s) => Books(d)
      BY <1>5, SameBooksSameAccount DEF Kept
    <2>3. Working(d)
      BY <1>4 DEF Working
    <2> QED BY <1>3, <1>7, <1>10, <2>1, <2>2, <2>3 DEF Settled
  <1> QED BY <1>9, <1>10

(* An Attempt that succeeds, with or without a Merge Commit.               *)
LEMMA SucceededOutcome ==
    ASSUME NEW s, NEW d, Good(s), Calm(s), Working(s), Follows(s, d),
           d.att = s.att, d.charged = s.charged, d.finds = s.finds, d.runs = s.runs,
           d.runtime = s.runtime, d.cancel = s.cancel,
           NEW n \in Nodes, NEW k, IsRunning(s, n, k)
    PROVE  Settled(s, SettleNodeSucceeded(s, d, n, k), n)
  <1> DEFINE ended == EndAttempt(d, n, k, "SUCCEEDED")
             done == [ended EXCEPT !.node[n] = "SUCCEEDED"]
  <1>1. d \in Aggregates
    BY DEF Follows, Good
  <1>2. Follows(s, ended)
    BY EndAttemptSound DEF AttemptTerminal
  <1>3. /\ ended.runs = d.runs /\ ended.runtime = d.runtime /\ ended.cancel = d.cancel
        /\ ended.finds = d.finds /\ ended.charged = d.charged
        /\ EndedRow(s, ended, n, k)
    BY <1>1, EndAttemptFrame DEF AttemptTerminal
  <1> HIDE DEF ended
  <1>8. \A j \in DOMAIN ended.att[n] : ended.att[n][j].status # "RUNNING"
    BY <1>3, EndedNodeIsIdle
  <1>4. /\ done \in Aggregates /\ done.runs = ended.runs /\ done.att = ended.att
        /\ done.runtime = ended.runtime /\ done.cancel = ended.cancel
        /\ done.finds = ended.finds /\ done.charged = ended.charged
        /\ \A m \in Nodes \ {n} : done.node[m] = ended.node[m]
    BY <1>2, ZenonT(30) DEF Follows, Good, Aggregates, NodeStatuses, NodeTerminal
  <1> HIDE DEF done
  <1>5. Follows(s, done)
    BY <1>2, <1>8, <1>4, SetNodeSound
  <1>6. EndedRow(s, done, n, k)
    BY <1>3, <1>4 DEF EndedRow
  <1>7. Settled(s, SettleAfterAttemptEnd(s, done, <<n, k>>), n)
    BY <1>3, <1>4, <1>5, <1>6, SettleAfterAttemptEndOutcome
  <1> QED BY <1>7 DEF SettleNodeSucceeded, done, ended

(* An Attempt that fails: a budgeted retry, a deferred one, or a Finding   *)
(* that closes the Run as soon as no Attempt runs.                         *)
LEMMA FailureOutcome ==
    ASSUME NEW s, Good(s), Calm(s), Working(s), NEW n \in Nodes, NEW k,
           IsRunning(s, n, k), NEW code
    PROVE  Settled(s, DecideAttemptFailure(s, n, k, code), n)
  <1> DEFINE ended == EndAttempt(s, n, k, "FAILED")
             fresh == [status |-> "READY", start |-> s.base[n], process |-> "none"]
             retried == [ended EXCEPT !.node[n] = "READY", !.charged[n] = @ + 1,
                                      !.att[n] = Append(@, fresh)]
             waiting == [ended EXCEPT !.node[n] = "READY"]
             blocked == [ended EXCEPT !.node[n] = "FAILED",
                                      !.finds = @ \cup {FindingSubject(code, n)}]
             retryable == AllowsSuccessor(code) /\ s.charged[n] < RetryBudget[n]
             held == ActiveStatus(s) = "QUIESCING" \/ Cancelling(s)
             t == DecideAttemptFailure(s, n, k, code)
  <1>1. t = IF retryable /\ ~held THEN retried
            ELSE IF retryable THEN SettleAfterAttemptEnd(s, waiting, <<n, k>>)
            ELSE CloseDispatchForFailure(s, blocked, <<n, k>>)
    BY DEF DecideAttemptFailure
  <1>2. Follows(s, s) /\ s \in Aggregates
    BY DEF Follows, Good
  <1>3. Follows(s, ended)
    BY <1>2, EndAttemptSound DEF AttemptTerminal
  <1>4. /\ ended.runs = s.runs /\ ended.runtime = s.runtime /\ ended.cancel = s.cancel
        /\ ended.finds = s.finds /\ ended.charged = s.charged
        /\ EndedRow(s, ended, n, k)
    BY <1>2, EndAttemptFrame DEF AttemptTerminal
  <1> HIDE DEF ended
  <1>5. ended \in Aggregates
    BY <1>3 DEF Follows, Good
  <1>6. /\ \A j \in DOMAIN ended.att[n] : ended.att[n][j].status # "RUNNING"
        /\ \A m \in Nodes \ {n} : ended.att[m] = s.att[m]
    BY <1>4, EndedNodeIsIdle DEF EndedRow
  <1>7. /\ Kept(s, ended)
        /\ HasRunningAttempt(ended) <=> HasRunningAttemptExcept(s, <<n, k>>)
        /\ HasRunningAttemptExcept(s, <<n, k>>) <=> Elsewhere(s, n)
    BY <1>4, EndedRowFacts, OneRunsPerNode
  <1>8. HasActiveRun(s)
    BY NoneIsNoRun DEF Working
  <1>9. CASE retryable /\ ~held
    <2>1. fresh \in Attempts /\ fresh.status # "RUNNING" /\ fresh.process = "none"
      BY <1>2 DEF Attempts, AttemptStatuses, Aggregates, ProcessStatuses
    <2> HIDE DEF fresh
    <2>2. ended.att[n] \in Seq(Attempts)
      BY <1>5 DEF Aggregates
    <2> DEFINE table == Append(ended.att[n], fresh)
               len == Len(ended.att[n])
    <2>3. /\ len \in Nat /\ DOMAIN ended.att[n] = 1 .. len /\ DOMAIN table = 1 .. len + 1
          /\ \A j \in DOMAIN ended.att[n] : table[j] = ended.att[n][j]
          /\ table[len + 1] = fresh
      BY <2>1, <2>2, AppendRow
    <2> HIDE DEF table, len
    <2> DEFINE charges == [ended.charged EXCEPT ![n] = ended.charged[n] + 1]
               tables == [ended.att EXCEPT ![n] = table]
    <2>4. retried = [ended EXCEPT !.node = [ended.node EXCEPT ![n] = "READY"],
                                  !.charged = charges, !.att = tables]
      BY <1>5 DEF table, Aggregates
    <2>5. /\ tables[n] = table /\ \A m \in Nodes \ {n} : tables[m] = ended.att[m]
          /\ charges[n] = s.charged[n] + 1 /\ \A m \in Nodes \ {n} : charges[m] = s.charged[m]
      BY <1>4, <1>5 DEF Aggregates
    <2> HIDE DEF charges, tables, retried
    <2>6. /\ retried.runs = s.runs /\ retried.runtime = s.runtime /\ retried.cancel = s.cancel
          /\ retried.finds = s.finds /\ retried.charged = charges /\ retried.att = tables
      BY <1>4, <1>5, <2>4 DEF Aggregates
    <2>7. ActiveStatus(retried) = ActiveStatus(s) /\ HasActiveRun(retried)
      BY <1>8, <2>6, SameRuns
    <2>8. Calm(retried) /\ Working(retried)
      BY <2>6, <2>7 DEF Calm, Working, HasBlockingFinding
    <2>9. ASSUME NEW j \in DOMAIN retried.att[n] PROVE retried.att[n][j].status # "RUNNING"
      <3>1. CASE j = len + 1
        BY <2>1, <2>3, <2>5, <2>6, <3>1
      <3>2. CASE j # len + 1
        <4>1. j \in DOMAIN ended.att[n]
          BY <2>3, <2>5, <2>6, <3>2
        <4> QED BY <1>6, <2>3, <2>5, <2>6, <4>1
      <3> QED BY <3>1, <3>2
    <2>10. ASSUME Books(s) PROVE Books(retried)
      <3>1. ASSUME NEW m \in Nodes, m # n
            PROVE  /\ retried.charged[m] <= RetryBudget[m]
                   /\ m \in Tasks => retried.charged[m] = Cardinality(Bare(retried, m))
        <4>1. retried.att[m] = s.att[m] /\ retried.charged[m] = s.charged[m]
          BY <1>6, <2>5, <2>6, <3>1
        <4>2. Bare(retried, m) = Bare(s, m)
          BY <4>1 DEF Bare
        <4> QED BY <2>10, <4>1, <4>2 DEF Books
      <3>2. s.charged[n] \in Nat /\ RetryBudget[n] \in Nat
        BY <1>2, GraphAssumption DEF Aggregates
      <3>3. retried.charged[n] = s.charged[n] + 1 /\ retried.charged[n] <= RetryBudget[n]
        BY <1>9, <2>5, <2>6, <3>2
      <3>4. Bare(ended, n) = Bare(s, n)
        BY <1>4 DEF EndedRow, Bare
      <3>5. retried.att[n] = table
        BY <2>5, <2>6
      <3>6. Bare(retried, n) = Bare(ended, n) \cup {len + 1} /\ len + 1 \notin Bare(ended, n)
        <4>1. /\ DOMAIN retried.att[n] = 1 .. len + 1
              /\ \A j \in 1 .. len : retried.att[n][j] = ended.att[n][j]
              /\ retried.att[n][len + 1].process = "none"
          BY <2>1, <2>3, <3>5
        <4>2. \A j : j \in 1 .. len + 1 <=> j \in 1 .. len \/ j = len + 1
          BY <2>3
        <4>3. len + 1 \notin 1 .. len
          BY <2>3
        <4>4. \A j : j \in Bare(retried, n) <=> j \in Bare(ended, n) \/ j = len + 1
          BY <2>3, <4>1, <4>2 DEF Bare
        <4> QED BY <2>3, <4>3, <4>4 DEF Bare
      <3>7. IsFiniteSet(Bare(ended, n))
        <4>0. len \in Int
          BY <2>3
        <4>1. IsFiniteSet(1 .. len)
          BY <4>0, FS_Interval
        <4>2. Bare(ended, n) \subseteq 1 .. len
          BY <2>3 DEF Bare
        <4> QED BY <4>1, <4>2, FS_Subset
      <3>8. Cardinality(Bare(retried, n)) = Cardinality(Bare(s, n)) + 1
        BY <3>4, <3>6, <3>7, FS_AddElement
      <3>9. n \in Tasks => retried.charged[n] = Cardinality(Bare(retried, n))
        BY <2>10, <3>3, <3>8 DEF Books
      <3> QED BY <3>1, <3>3, <3>9 DEF Books
    <2>11. \A m \in Nodes \ {n} : retried.att[m] = s.att[m]
      BY <1>6, <2>5, <2>6
    <2> QED BY <1>1, <1>9, <2>6, <2>8, <2>9, <2>10, <2>11 DEF Settled
  <1>10. CASE retryable /\ held
    <2>1. /\ waiting \in Aggregates /\ waiting.runs = ended.runs /\ waiting.att = ended.att
          /\ waiting.runtime = ended.runtime /\ waiting.cancel = ended.cancel
          /\ waiting.finds = ended.finds /\ waiting.charged = ended.charged
          /\ \A m \in Nodes \ {n} : waiting.node[m] = ended.node[m]
      BY <1>5 DEF Aggregates, NodeStatuses
    <2> HIDE DEF waiting
    <2>2. Follows(s, waiting)
      BY <1>3, <1>6, <2>1, SetNodeSound
    <2>3. EndedRow(s, waiting, n, k)
      BY <1>4, <2>1 DEF EndedRow
    <2>4. Settled(s, SettleAfterAttemptEnd(s, waiting, <<n, k>>), n)
      BY <1>4, <2>1, <2>2, <2>3, SettleAfterAttemptEndOutcome
    <2> QED BY <1>1, <1>10, <2>4
  <1>11. CASE ~retryable
    <2>1. FindingSubject(code, n) \in Nodes \cup {"workflow", "session"}
      BY DEF FindingSubject
    <2>2. /\ blocked \in Aggregates /\ blocked.runs = ended.runs /\ blocked.att = ended.att
          /\ blocked.runtime = ended.runtime /\ blocked.cancel = ended.cancel
          /\ blocked.finds = ended.finds \cup {FindingSubject(code, n)}
          /\ blocked.charged = ended.charged
          /\ \A m \in Nodes \ {n} : blocked.node[m] = ended.node[m]
      BY <1>5, <2>1 DEF Aggregates, NodeStatuses, NodeTerminal
    <2> HIDE DEF blocked
    <2>3. Follows(s, blocked)
      BY <1>3, <1>6, <2>2, SetNodeSound
    <2>4. SameBooks(s, blocked)
      BY <1>7, <2>2 DEF Kept, SameBooks
    <2> DEFINE wound == RunMut(s, blocked, "QUIESCING")
               shut == WfMutStatus(s, RunMut(s, blocked, "BLOCKED"), "BLOCKED")
    <2>5. t = IF HasRunningAttemptExcept(s, <<n, k>>) THEN wound ELSE shut
      BY <1>1, <1>8, <1>11 DEF CloseDispatchForFailure
    <2>6. CASE HasRunningAttemptExcept(s, <<n, k>>)
      <3>1. "QUIESCING" \in RunStatuses \ {"RUNNING"} /\ "QUIESCING" \notin RunTerminal
        BY DEF RunStatuses, RunTerminal
      <3>2. /\ wound.runtime = blocked.runtime /\ wound.cancel = blocked.cancel
            /\ wound.finds = blocked.finds /\ wound.charged = blocked.charged
            /\ wound.att = blocked.att /\ HasActiveRun(wound) /\ ActiveStatus(wound) = "QUIESCING"
        BY <1>8, <2>3, <3>1, RunMutStatus
      <3> HIDE DEF wound
      <3>3. Calm(wound) /\ Working(wound)
        BY <1>4, <2>2, <3>2 DEF Calm, Working, HasBlockingFinding
      <3>4. SameBooks(s, wound)
        BY <2>4, <3>2 DEF SameBooks
      <3>5. Books(s) => Books(wound)
        BY <3>4, SameBooksSameAccount
      <3> QED BY <1>4, <1>6, <2>2, <2>5, <2>6, <3>2, <3>3, <3>5 DEF Settled
    <2>7. CASE ~HasRunningAttemptExcept(s, <<n, k>>)
      <3>1. "BLOCKED" \in Runtimes /\ "BLOCKED" \in RunTerminal
        BY DEF Runtimes, RunTerminal
      <3>2. /\ shut.runtime = "BLOCKED" /\ shut.cancel = s.cancel
            /\ shut.finds = blocked.finds /\ shut.charged = blocked.charged
            /\ shut.att = blocked.att /\ ~HasActiveRun(shut)
        BY <1>8, <2>3, <3>1, CloseRunFrame
      <3> HIDE DEF shut
      <3>3. ~HasRunningAttempt(shut)
        BY <1>7, <2>2, <2>7, <3>2, QuietRows DEF NothingRuns
      <3>4. Calm(shut)
        <4>1. Rests(s, shut)
          BY <3>2, <3>3 DEF Rests
        <4> QED BY <4>1, EndsAreCalm
      <3>5. SameBooks(s, shut)
        BY <2>4, <3>2 DEF SameBooks
      <3>6. Books(s) => Books(shut)
        BY <3>5, SameBooksSameAccount
      <3> QED BY <1>6, <1>7, <2>2, <2>5, <2>7, <3>2, <3>4, <3>6 DEF Settled
    <2> QED BY <2>6, <2>7
  <1> QED BY <1>9, <1>10, <1>11

(* settleInterrupted, without a cancel intent: the Run stops, or it rests. *)
LEMMA InterruptedOutcome ==
    ASSUME NEW s, Good(s), Calm(s), ~s.cancel, NEW n \in Nodes, NEW k, IsRunning(s, n, k)
    PROVE  LET t == SettleInterrupted(s, n, k) IN
           Calm(t) /\ t.cancel = s.cancel /\ Kept(s, t)
  <1> DEFINE ended == EndAttempt(s, n, k, "INTERRUPTED")
             ready == [ended EXCEPT !.node[n] = "READY"]
             wound == RunMut(s, ready, "STOPPING")
             opened == IF OpensStop(s) THEN wound ELSE ready
             t == SettleInterrupted(s, n, k)
  <1>1. ~Cancelling(s)
    BY DEF Cancelling
  <1>2. t = ConvergeStopping(s, opened, <<n, k>>, NoKey, OpensStop(s))
    BY <1>1 DEF SettleInterrupted
  <1>3. Follows(s, s) /\ s \in Aggregates
    BY DEF Follows, Good
  <1>4. Follows(s, ended)
    BY <1>3, EndAttemptSound DEF AttemptTerminal
  <1>5. /\ ended.runs = s.runs /\ ended.runtime = s.runtime /\ ended.cancel = s.cancel
        /\ ended.finds = s.finds /\ ended.charged = s.charged
        /\ EndedRow(s, ended, n, k)
    BY <1>3, EndAttemptFrame DEF AttemptTerminal
  <1> HIDE DEF ended
  <1>6. ended \in Aggregates
    BY <1>4 DEF Follows, Good
  <1>7. \A j \in DOMAIN ended.att[n] : ended.att[n][j].status # "RUNNING"
    BY <1>5, EndedNodeIsIdle
  <1>8. /\ ready \in Aggregates /\ ready.runs = ended.runs /\ ready.att = ended.att
        /\ ready.runtime = ended.runtime /\ ready.cancel = ended.cancel
        /\ ready.finds = ended.finds /\ ready.charged = ended.charged
        /\ \A m \in Nodes \ {n} : ready.node[m] = ended.node[m]
    BY <1>6 DEF Aggregates, NodeStatuses
  <1> HIDE DEF ready
  <1>9. Follows(s, ready)
    BY <1>4, <1>7, <1>8, SetNodeSound
  <1>10. "STOPPING" \in RunStatuses \ {"RUNNING"} /\ "STOPPING" \notin RunTerminal
    BY DEF RunStatuses, RunTerminal
  <1>11. /\ Follows(s, wound)
         /\ wound.runtime = ready.runtime /\ wound.cancel = ready.cancel
         /\ wound.finds = ready.finds /\ wound.charged = ready.charged /\ wound.att = ready.att
         /\ HasActiveRun(s) => HasActiveRun(wound) /\ ActiveStatus(wound) = "STOPPING"
    BY <1>9, <1>10, RunMutSound, RunMutStatus
  <1> HIDE DEF wound
  <1>12. (HasActiveRun(ready) <=> HasActiveRun(s)) /\ ActiveStatus(ready) = ActiveStatus(s)
    BY <1>5, <1>8, SameRuns
  <1>13. /\ Follows(s, opened)
         /\ opened.runtime = s.runtime /\ opened.cancel = s.cancel /\ opened.finds = s.finds
         /\ opened.charged = s.charged /\ opened.att = ended.att
         /\ HasActiveRun(opened) <=> HasActiveRun(s)
         /\ ActiveStatus(opened) \in {"STOPPING", "none"}
    <2>1. CASE OpensStop(s)
      <3>1. HasActiveRun(s) /\ opened = wound
        BY <2>1 DEF OpensStop
      <3> QED BY <1>5, <1>8, <1>11, <3>1
    <2>2. CASE ~OpensStop(s)
      <3>1. ActiveStatus(s) \in {"STOPPING", "none"}
        BY <1>1, <2>2, NoneIsNoRun DEF OpensStop
      <3> QED BY <1>5, <1>8, <1>9, <1>12, <2>2, <3>1
    <2> QED BY <2>1, <2>2
  <1>14. OpensStop(s) \in BOOLEAN
    BY DEF OpensStop
  <1> HIDE DEF opened, t
  <1>15. EndedRow(s, opened, n, k)
    BY <1>5, <1>13 DEF EndedRow
  <1>16. /\ Kept(s, opened)
         /\ ~HasRunningAttemptExcept(s, <<n, k>>) => NothingRuns(opened)
    BY <1>13, <1>15, EndedRowFacts
  <1>17. \/ t = opened
         \/ Rests(s, t) /\ Kept(opened, t)
    BY <1>1, <1>2, <1>13, <1>14, <1>16, ConvergeStoppingOutcome
  <1>18. HasRunningAttempt(s)
    BY QuietRows DEF NothingRuns, IsRunning
  <1>19. s.runtime \notin {"CANCELLED", "SUCCEEDED"}
    BY DEF Calm, Quiet, IsRunning, AttemptTerminal, Good, NewestRuns
  <1>20. Calm(opened)
    BY <1>13, <1>18, <1>19 DEF Calm, HasBlockingFinding
  <1>21. Calm(t) /\ t.cancel = s.cancel
    BY <1>13, <1>17, <1>20, EndsAreCalm DEF Rests
  <1>22. Kept(s, t)
    BY <1>16, <1>17, KeptTrans DEF Kept
  <1> QED BY <1>21, <1>22 DEF t

(* Allocation: the one new row runs, and it is charged to nobody.          *)
LEMMA DispatchOutcome ==
    ASSUME NEW s, Good(s), Calm(s), ~s.cancel, NEW n \in Nodes \ Checkpoints, CanAllocate(s, n),
           NEW seen \in Heads
    PROVE  LET t == DecideDispatch(s, n, seen) IN
           /\ Calm(t) /\ Working(t) /\ t.cancel = s.cancel
           /\ Books(s) => Books(t)
           /\ \A m \in Nodes \ {n} : t.att[m] = s.att[m]
           /\ \E k \in DOMAIN t.att[n] : t.att[n][k].status = "RUNNING"
  <1> DEFINE start == StartHead(s, n, seen)
             row == [status |-> "RUNNING", start |-> start,
                     process |-> IF n \in Merges THEN "none" ELSE "RUNNING"]
             table == Append(s.att[n], row)
             t == DecideDispatch(s, n, seen)
             nodes == [s.node EXCEPT ![n] = "RUNNING"]
             bases == [s.base EXCEPT ![n] = IF n \in Tasks THEN start ELSE s.base[n]]
             stage == IF FinalVerify(n) THEN "FINAL_VERIFICATION" ELSE s.stage
             tables == [s.att EXCEPT ![n] = table]
             len == Len(s.att[n])
  <1>1. s \in Aggregates
    BY DEF Good
  <1>2. start \in Heads
    BY StartHeadSound
  <1> HIDE DEF start
  <1>3. row \in Attempts /\ row.status = "RUNNING" /\ (n \in Tasks => row.process # "none")
    BY <1>2 DEF Attempts, AttemptStatuses, ProcessStatuses, Tasks, Merges
  <1>4. s.att[n] \in Seq(Attempts)
    BY <1>1 DEF Aggregates
  <1>5. t = [s EXCEPT !.node = nodes, !.base = bases, !.stage = stage, !.att = tables]
    BY <1>1 DEF DecideDispatch, start, Aggregates
  <1> HIDE DEF row, t
  <1>6. /\ len \in Nat /\ DOMAIN s.att[n] = 1 .. len /\ DOMAIN table = 1 .. len + 1
        /\ \A j \in DOMAIN s.att[n] : table[j] = s.att[n][j]
        /\ table[len + 1] = row
    BY <1>3, <1>4, AppendRow
  <1> HIDE DEF table, len
  <1>7. tables[n] = table /\ \A m \in Nodes \ {n} : tables[m] = s.att[m]
    BY <1>1 DEF Aggregates
  <1> HIDE DEF nodes, bases, stage, tables
  <1>8. /\ t.runs = s.runs /\ t.runtime = s.runtime /\ t.cancel = s.cancel
        /\ t.finds = s.finds /\ t.charged = s.charged /\ t.att = tables
    BY <1>1, <1>5 DEF Aggregates
  <1>9. ActiveStatus(s) = "RUNNING"
    BY DEF CanAllocate, GateOpen
  <1>10. s.runtime = "RUNNING" /\ HasActiveRun(s)
    BY <1>9, NoneIsNoRun DEF Calm
  <1>11. ActiveStatus(t) = "RUNNING" /\ HasActiveRun(t)
    BY <1>8, <1>9, <1>10, SameRuns
  <1>12. Calm(t) /\ Working(t)
    BY <1>8, <1>10, <1>11 DEF Calm, Working
  <1>13. ASSUME Books(s) PROVE Books(t)
    <2> SUFFICES ASSUME NEW m \in Nodes
                 PROVE  /\ t.charged[m] <= RetryBudget[m]
                        /\ m \in Tasks => t.charged[m] = Cardinality(Bare(t, m))
      BY DEF Books
    <2>1. m \in Tasks => Bare(t, m) = Bare(s, m)
      <3>1. CASE m = n
        BY <1>3, <1>6, <1>7, <1>8, <3>1 DEF Bare
      <3>2. CASE m # n
        BY <1>7, <1>8, <3>2 DEF Bare
      <3> QED BY <3>1, <3>2
    <2> QED BY <1>8, <1>13, <2>1 DEF Books
  <1>14. len + 1 \in DOMAIN t.att[n] /\ t.att[n][len + 1].status = "RUNNING"
    BY <1>3, <1>6, <1>7, <1>8
  <1> QED BY <1>7, <1>8, <1>12, <1>13, <1>14 DEF t

-----------------------------------------------------------------------------
(* What the Decisions never take back: successes, Task Bases, the commit a *)
(* RUNNING Attempt started from, and the verified head.                    *)

(* `d` is `s` with its successes; of the Nodes only those of N may have    *)
(* succeeded since, and the head is the one of `s` or one of H.            *)
Heir(s, d, N, H) ==
    /\ d.base = s.base
    /\ s.finds \subseteq d.finds
    /\ d.head \in {s.head} \cup H
    /\ d.runtime = "SUCCEEDED" => s.runtime = "SUCCEEDED" \/ (s.head # NoHead /\ d.head = s.head)
    /\ \A n \in Nodes :
          /\ s.node[n] = "SUCCEEDED" => d.node[n] = "SUCCEEDED"
          /\ d.node[n] = "SUCCEEDED" => s.node[n] = "SUCCEEDED" \/ n \in N
          /\ \A k \in DOMAIN s.att[n] : s.att[n][k].status = "SUCCEEDED" =>
                k \in DOMAIN d.att[n] /\ d.att[n][k].status = "SUCCEEDED"
          /\ \A k \in DOMAIN d.att[n] : d.att[n][k].status = "RUNNING" =>
                /\ k \in DOMAIN s.att[n] /\ s.att[n][k].status = "RUNNING"
                /\ s.att[n][k].start = d.att[n][k].start

(* A Decision without mutations takes nothing back.                        *)
LEMMA HeirRefl == \A s, N, H : Heir(s, s, N, H)
  BY DEF Heir

(* Two Decisions in a row take nothing back.                               *)
LEMMA HeirTrans ==
    ASSUME NEW s, NEW d, NEW t, NEW N, Heir(s, d, {}, {}), Heir(d, t, N, {})
    PROVE  Heir(s, t, N, {})
  BY DEF Heir

(* The Workflow row: no mutation but the completion's writes SUCCEEDED.    *)
LEMMA WfMutHeir ==
    ASSUME NEW s, NEW d \in Aggregates, NEW stage, NEW runtime, runtime # "SUCCEEDED", NEW cancel,
           NEW N, NEW H, Heir(s, d, N, H)
    PROVE  Heir(s, WfMut(s, d, stage, runtime, cancel), N, H)
  <1> DEFINE t == WfMut(s, d, stage, runtime, cancel)
  <1>1. /\ t.runtime = runtime /\ t.finds = d.finds /\ t.node = d.node /\ t.att = d.att
        /\ t.base = d.base /\ t.head = s.head
    BY DEF WfMut, Aggregates
  <1> HIDE DEF t
  <1>2. Heir(s, t, N, H)
    BY <1>1 DEF Heir
  <1> QED BY <1>2 DEF t

(* A mutation of the Run row concerns none of it.                          *)
LEMMA RunMutHeir ==
    ASSUME NEW s, NEW d \in Aggregates, NEW status, NEW N, NEW H, Heir(s, d, N, H)
    PROVE  Heir(s, RunMut(s, d, status), N, H)
  <1> DEFINE t == RunMut(s, d, status)
  <1>1. /\ t.runtime = d.runtime /\ t.finds = d.finds /\ t.node = d.node /\ t.att = d.att
        /\ t.base = d.base /\ t.head = d.head
    BY DEF RunMut, Aggregates
  <1> HIDE DEF t
  <1>2. Heir(s, t, N, H)
    BY <1>1 DEF Heir
  <1> QED BY <1>2 DEF t

(* Closing the Run with a runtime short of SUCCEEDED; wfMutStatus may put  *)
(* the head back where it was before the Decision.                         *)
LEMMA CloseRunHeir ==
    ASSUME NEW s, NEW d, Good(s), Follows(s, d), NEW runtime, runtime # "SUCCEEDED",
           NEW status \in RunStatuses \ {"RUNNING"},
           NEW N, NEW H, Heir(s, d, N, H)
    PROVE  Heir(s, WfMutStatus(s, RunMut(s, d, status), runtime), N, H)
  <1>1. d \in Aggregates /\ RunMut(s, d, status) \in Aggregates
    BY RunMutSound DEF Follows, Good
  <1> QED BY <1>1, RunMutHeir, WfMutHeir DEF WfMutStatus

(* finishCancel touches only what waits.                                   *)
LEMMA FinishCancelHeir ==
    ASSUME NEW s, NEW d, Good(s), Follows(s, d), NEW N, NEW H, Heir(s, d, N, H)
    PROVE  Heir(s, FinishCancel(s, d), N, H)
  <1> DEFINE w == WfMut(s, d, s.stage, "CANCELLED", TRUE)
             b == RunMut(s, w, "CANCELLED")
             t == FinishCancel(s, d)
             row(n, k) == IF k \in DOMAIN s.att[n] /\ s.att[n][k].status = "READY"
                          THEN [d.att[n][k] EXCEPT !.status = "CANCELLED"]
                          ELSE d.att[n][k]
             table(n) == [k \in DOMAIN d.att[n] |-> row(n, k)]
  <1>1. s \in Aggregates /\ d \in Aggregates
    BY DEF Good, Follows
  <1>2. Follows(s, w)
    BY <1>1, WfMutSound DEF Aggregates, Runtimes, RuntimeTerminal
  <1>3. w \in Aggregates
    BY <1>2 DEF Follows, Good
  <1>4. b \in Aggregates
    BY <1>2, RunMutSound DEF RunStatuses, RunTerminal, Follows, Good
  <1>5. Heir(s, b, N, H)
    BY <1>1, <1>3, WfMutHeir, RunMutHeir
  <1>6. t = [b EXCEPT
                !.node = [n \in Nodes |-> IF s.node[n] \in NodeTerminal THEN d.node[n] ELSE "CANCELLED"],
                !.charged = [n \in Nodes |-> IF s.node[n] \in NodeTerminal THEN d.charged[n] ELSE s.charged[n]],
                !.att = [n \in Nodes |-> table(n)]]
    BY DEF FinishCancel
  <1>7. ASSUME NEW n \in Nodes, NEW k \in DOMAIN d.att[n]
        PROVE  /\ row(n, k).status = "RUNNING" => row(n, k) = d.att[n][k]
               /\ k \in DOMAIN s.att[n] /\ s.att[n][k].status = "SUCCEEDED" => row(n, k) = d.att[n][k]
    <2>1. d.att[n] \in Seq(Attempts)
      BY <1>1 DEF Aggregates
    <2>2. d.att[n][k] \in Attempts
      BY <2>1, LenProperties
    <2> QED BY <2>2 DEF Attempts
  <1> HIDE DEF b, t, row
  <1>8. /\ t.att = [n \in Nodes |-> table(n)]
        /\ t.node = [n \in Nodes |-> IF s.node[n] \in NodeTerminal THEN d.node[n] ELSE "CANCELLED"]
        /\ t.runtime = b.runtime /\ t.finds = b.finds /\ t.base = b.base /\ t.head = b.head
    BY <1>4, <1>6 DEF Aggregates
  <1>9. \A n \in Nodes : t.att[n] = table(n) /\ DOMAIN t.att[n] = DOMAIN d.att[n]
                      /\ \A k \in DOMAIN d.att[n] : t.att[n][k] = row(n, k)
    BY <1>8
  <1> HIDE DEF table
  <1>10. ASSUME NEW n \in Nodes
         PROVE  /\ s.node[n] = "SUCCEEDED" => t.node[n] = "SUCCEEDED"
                /\ t.node[n] = "SUCCEEDED" => s.node[n] = "SUCCEEDED" \/ n \in N
    BY <1>8 DEF Heir, NodeTerminal
  <1>11. ASSUME NEW n \in Nodes, NEW k \in DOMAIN s.att[n], s.att[n][k].status = "SUCCEEDED"
         PROVE  k \in DOMAIN t.att[n] /\ t.att[n][k].status = "SUCCEEDED"
    BY <1>7, <1>9, <1>11 DEF Heir
  <1>12. ASSUME NEW n \in Nodes, NEW k \in DOMAIN t.att[n], t.att[n][k].status = "RUNNING"
         PROVE  /\ k \in DOMAIN s.att[n] /\ s.att[n][k].status = "RUNNING"
                /\ s.att[n][k].start = t.att[n][k].start
    BY <1>7, <1>9, <1>12 DEF Heir
  <1>13. Heir(s, t, N, H)
    BY <1>5, <1>8, <1>10, <1>11, <1>12 DEF Heir
  <1> QED BY <1>13 DEF t

(* The close of a STOPPING Run.                                            *)
LEMMA ConvergeStoppingHeir ==
    ASSUME NEW s, NEW d, Good(s), Follows(s, d), NEW exceptAttempt, NEW exceptProcess,
           NEW transitioning, NEW N, NEW H, Heir(s, d, N, H)
    PROVE  Heir(s, ConvergeStopping(s, d, exceptAttempt, exceptProcess, transitioning), N, H)
  <1>1. Heir(s, WfMutStatus(s, RunMut(s, d, "INTERRUPTED"),
                            IF HasBlockingFinding(s) THEN "BLOCKED" ELSE "PAUSED"), N, H)
    BY CloseRunHeir DEF RunStatuses, RunTerminal
  <1>2. Heir(s, FinishCancel(s, d), N, H)
    BY FinishCancelHeir
  <1> QED BY <1>1, <1>2 DEF ConvergeStopping

(* The tail every settlement shares.                                       *)
LEMMA SettleAfterAttemptEndHeir ==
    ASSUME NEW s, NEW d, Good(s), Follows(s, d), NEW ended, NEW N, NEW H, Heir(s, d, N, H)
    PROVE  Heir(s, SettleAfterAttemptEnd(s, d, ended), N, H)
  <1>1. Heir(s, FinishCancel(s, d), N, H)
    BY FinishCancelHeir
  <1>2. Heir(s, ConvergeQuiescing(s, d), N, H)
    BY CloseRunHeir DEF ConvergeQuiescing, RunStatuses, RunTerminal
  <1>3. Heir(s, ConvergeStopping(s, d, ended, NoKey, FALSE), N, H)
    BY ConvergeStoppingHeir
  <1> QED BY <1>1, <1>2, <1>3 DEF SettleAfterAttemptEnd

(* A blocking failure quiesces the Run or closes it.                       *)
LEMMA CloseDispatchHeir ==
    ASSUME NEW s, NEW d, Good(s), Follows(s, d), NEW ended, NEW N, NEW H, Heir(s, d, N, H)
    PROVE  Heir(s, CloseDispatchForFailure(s, d, ended), N, H)
  <1>1. Heir(s, RunMut(s, d, "QUIESCING"), N, H)
    BY RunMutHeir DEF Follows, Good
  <1>2. Heir(s, WfMutStatus(s, RunMut(s, d, "BLOCKED"), "BLOCKED"), N, H)
    BY CloseRunHeir DEF RunStatuses, RunTerminal
  <1> QED BY <1>1, <1>2 DEF CloseDispatchForFailure

(* Ending a RUNNING Attempt ends no success.                               *)
LEMMA EndAttemptHeir ==
    ASSUME NEW s, Good(s), NEW d \in Aggregates, d.att = s.att, NEW N, NEW H, Heir(s, d, N, H),
           NEW n \in Nodes, NEW k, IsRunning(s, n, k), NEW status \in AttemptTerminal
    PROVE  LET t == EndAttempt(d, n, k, status) IN
           Heir(s, t, N, H) /\ t.head = d.head /\ t.node = d.node
  <1> DEFINE t == EndAttempt(d, n, k, status)
             row == [d.att[n][k] EXCEPT !.status = status]
             table == [d.att[n] EXCEPT ![k] = row]
  <1>1. d.att[n] \in Seq(Attempts) /\ k \in DOMAIN d.att[n]
    BY DEF Aggregates, IsRunning
  <1>2. d.att[n][k] \in Attempts
    BY <1>1, LenProperties
  <1>3. row \in Attempts /\ row.status # "RUNNING"
    BY <1>2 DEF Attempts, AttemptStatuses, AttemptTerminal
  <1>4. t = [d EXCEPT !.att = [d.att EXCEPT ![n] = table]]
    BY DEF EndAttempt, Aggregates
  <1> HIDE DEF t, row
  <1>5. /\ DOMAIN table = DOMAIN d.att[n]
        /\ \A j \in DOMAIN d.att[n] : table[j] = IF j = k THEN row ELSE d.att[n][j]
    BY <1>1, <1>3, ReplaceRow
  <1> HIDE DEF table
  <1>6. /\ t.runtime = d.runtime /\ t.finds = d.finds /\ t.node = d.node
        /\ t.base = d.base /\ t.head = d.head
        /\ t.att[n] = table
        /\ \A m \in Nodes \ {n} : t.att[m] = d.att[m]
    BY <1>4 DEF Aggregates
  <1>7. ASSUME NEW j \in DOMAIN s.att[n], s.att[n][j].status = "SUCCEEDED"
        PROVE  j \in DOMAIN t.att[n] /\ t.att[n][j].status = "SUCCEEDED"
    <2>1. j # k
      BY <1>7 DEF IsRunning
    <2> QED BY <1>5, <1>6, <1>7, <2>1
  <1>8. ASSUME NEW j \in DOMAIN t.att[n], t.att[n][j].status = "RUNNING"
        PROVE  /\ j \in DOMAIN s.att[n] /\ s.att[n][j].status = "RUNNING"
               /\ s.att[n][j].start = t.att[n][j].start
    <2>1. j \in DOMAIN d.att[n] /\ j # k
      BY <1>3, <1>5, <1>6, <1>8
    <2> QED BY <1>5, <1>6, <1>8, <2>1
  <1>9. Heir(s, t, N, H)
    <2>1. ASSUME NEW m \in Nodes
          PROVE  /\ s.node[m] = "SUCCEEDED" => t.node[m] = "SUCCEEDED"
                 /\ t.node[m] = "SUCCEEDED" => s.node[m] = "SUCCEEDED" \/ m \in N
                 /\ \A j \in DOMAIN s.att[m] : s.att[m][j].status = "SUCCEEDED" =>
                       j \in DOMAIN t.att[m] /\ t.att[m][j].status = "SUCCEEDED"
                 /\ \A j \in DOMAIN t.att[m] : t.att[m][j].status = "RUNNING" =>
                       /\ j \in DOMAIN s.att[m] /\ s.att[m][j].status = "RUNNING"
                       /\ s.att[m][j].start = t.att[m][j].start
      <3>1. CASE m = n
        BY <1>6, <1>7, <1>8, <3>1 DEF Heir
      <3>2. CASE m # n
        BY <1>6, <3>2 DEF Heir
      <3> QED BY <3>1, <3>2
    <2> QED BY <1>6, <2>1 DEF Heir
  <1> QED BY <1>6, <1>9 DEF t

(* The Node of the Attempt that ended, and Findings, may change.           *)
LEMMA SetNodeHeir ==
    ASSUME NEW s, NEW d, NEW n \in Nodes, s.node[n] # "SUCCEEDED", NEW N, NEW H, Heir(s, d, N, H),
           NEW t, t.att = d.att, t.base = d.base, t.head = d.head, t.runtime = d.runtime,
           d.finds \subseteq t.finds, \A m \in Nodes \ {n} : t.node[m] = d.node[m],
           t.node[n] = "SUCCEEDED" => n \in N
    PROVE  Heir(s, t, N, H)
  <1>1. ASSUME NEW m \in Nodes
        PROVE  /\ s.node[m] = "SUCCEEDED" => t.node[m] = "SUCCEEDED"
               /\ t.node[m] = "SUCCEEDED" => s.node[m] = "SUCCEEDED" \/ m \in N
    BY DEF Heir
  <1> QED BY <1>1 DEF Heir

(* The Node of a RUNNING Attempt has not succeeded.                        *)
LEMMA RunningHasNotSucceeded ==
    ASSUME NEW s, Good(s), NEW n \in Nodes, NEW k, IsRunning(s, n, k)
    PROVE  s.node[n] = "RUNNING"
  BY DEF Good, NewestRuns, IsRunning

(* A success adds one Node to those that succeeded; in a Workflow that goes *)
(* on without a Finding the head it advanced stays.                        *)
LEMMA SucceededHeir ==
    ASSUME NEW s, NEW d, Good(s), Follows(s, d), d.att = s.att, NEW H, Heir(s, d, {}, H),
           NEW n \in Nodes, NEW k, IsRunning(s, n, k)
    PROVE  /\ Heir(s, SettleNodeSucceeded(s, d, n, k), {n}, H)
           /\ Calm(s) /\ Working(s) /\ s.finds = {} =>
                 SettleNodeSucceeded(s, d, n, k).head = d.head
  <1> DEFINE ended == EndAttempt(d, n, k, "SUCCEEDED")
             done == [ended EXCEPT !.node[n] = "SUCCEEDED"]
  <1>1. d \in Aggregates /\ "SUCCEEDED" \in AttemptTerminal
    BY DEF Follows, Good, AttemptTerminal
  <1>2. /\ Follows(s, ended)
        /\ \A j \in DOMAIN ended.att[n] : ended.att[n][j].status # "RUNNING"
        /\ ~HasRunningAttemptExcept(s, <<n, k>>) => NothingRuns(ended)
    BY EndAttemptSound DEF AttemptTerminal, Follows
  <1>3. Heir(s, d, {n}, H)
    BY DEF Heir
  <1>4. Heir(s, ended, {n}, H) /\ ended.head = d.head
    BY <1>1, <1>3, EndAttemptHeir
  <1> HIDE DEF ended
  <1>5. /\ done \in Aggregates /\ done.runs = ended.runs /\ done.att = ended.att
        /\ done.base = ended.base /\ done.head = ended.head /\ done.runtime = ended.runtime
        /\ done.finds = ended.finds
        /\ \A m \in Nodes \ {n} : done.node[m] = ended.node[m]
    BY <1>2 DEF Follows, Good, Aggregates, NodeStatuses, NodeTerminal
  <1> HIDE DEF done
  <1>6. Follows(s, done)
    BY <1>2, <1>5, SetNodeSound
  <1>7. s.node[n] # "SUCCEEDED"
    BY RunningHasNotSucceeded
  <1>8. Heir(s, done, {n}, H)
    BY <1>4, <1>5, <1>7, SetNodeHeir
  <1>9. SettleNodeSucceeded(s, d, n, k) = SettleAfterAttemptEnd(s, done, <<n, k>>)
    BY DEF SettleNodeSucceeded, done, ended
  <1>10. Heir(s, SettleAfterAttemptEnd(s, done, <<n, k>>), {n}, H)
    BY <1>6, <1>8, SettleAfterAttemptEndHeir
  <1>11. ASSUME Calm(s), Working(s), s.finds = {}
         PROVE  SettleAfterAttemptEnd(s, done, <<n, k>>) = done
    <2>1. ActiveStatus(s) = "RUNNING" /\ ~Cancelling(s)
      BY <1>11 DEF Calm, Working, HasBlockingFinding, Cancelling
    <2> QED BY <2>1 DEF SettleAfterAttemptEnd, ConvergeStopping
  <1> QED BY <1>4, <1>5, <1>9, <1>10, <1>11

(* A failure, retried or blocking, takes back no success.                  *)
LEMMA FailureHeir ==
    ASSUME NEW s, Good(s), NEW n \in Nodes, NEW k, IsRunning(s, n, k), NEW code
    PROVE  Heir(s, DecideAttemptFailure(s, n, k, code), {}, {})
  <1> DEFINE ended == EndAttempt(s, n, k, "FAILED")
             fresh == [status |-> "READY", start |-> s.base[n], process |-> "none"]
             retried == [ended EXCEPT !.node[n] = "READY", !.charged[n] = @ + 1,
                                      !.att[n] = Append(@, fresh)]
             waiting == [ended EXCEPT !.node[n] = "READY"]
             blocked == [ended EXCEPT !.node[n] = "FAILED",
                                      !.finds = @ \cup {FindingSubject(code, n)}]
  <1>1. Follows(s, s) /\ s \in Aggregates /\ "FAILED" \in AttemptTerminal /\ Heir(s, s, {}, {})
    BY HeirRefl DEF Follows, Good, AttemptTerminal
  <1>2. /\ Follows(s, ended)
        /\ \A j \in DOMAIN ended.att[n] : ended.att[n][j].status # "RUNNING"
        /\ ~HasRunningAttemptExcept(s, <<n, k>>) => NothingRuns(ended)
    BY EndAttemptSound DEF AttemptTerminal, Follows
  <1>3. Heir(s, ended, {}, {})
    BY <1>1, EndAttemptHeir
  <1>4. s.node[n] # "SUCCEEDED"
    BY RunningHasNotSucceeded
  <1> HIDE DEF ended
  <1>5. ended \in Aggregates
    BY <1>2 DEF Follows, Good
  <1>6. Heir(s, retried, {}, {})
    <2>1. fresh \in Attempts /\ fresh.status = "READY"
      BY <1>1 DEF Attempts, AttemptStatuses, Aggregates, ProcessStatuses
    <2> HIDE DEF fresh
    <2>2. ended.att[n] \in Seq(Attempts)
      BY <1>5 DEF Aggregates
    <2> DEFINE table == Append(ended.att[n], fresh)
               len == Len(ended.att[n])
               tables == [ended.att EXCEPT ![n] = table]
    <2>3. /\ len \in Nat /\ DOMAIN ended.att[n] = 1 .. len /\ DOMAIN table = 1 .. len + 1
          /\ \A j \in DOMAIN ended.att[n] : table[j] = ended.att[n][j]
          /\ table[len + 1] = fresh
      BY <2>1, <2>2, AppendRow
    <2> HIDE DEF table, len
    <2>4. retried = [ended EXCEPT !.node = [ended.node EXCEPT ![n] = "READY"],
                                  !.charged = [ended.charged EXCEPT ![n] = ended.charged[n] + 1],
                                  !.att = tables]
      BY <1>5 DEF table, Aggregates
    <2>5. tables[n] = table /\ \A m \in Nodes \ {n} : tables[m] = ended.att[m]
      BY <1>5 DEF Aggregates
    <2> HIDE DEF tables, retried
    <2>6. /\ retried.base = ended.base /\ retried.head = ended.head /\ retried.finds = ended.finds
          /\ retried.runtime = ended.runtime /\ retried.att = tables
          /\ retried.node[n] = "READY" /\ \A m \in Nodes \ {n} : retried.node[m] = ended.node[m]
      BY <1>5, <2>4 DEF Aggregates
    <2> DEFINE plain == [ended EXCEPT !.node = retried.node]
    <2>7. \A j \in DOMAIN ended.att[n] : j \in DOMAIN retried.att[n] /\ retried.att[n][j] = ended.att[n][j]
      BY <2>3, <2>5, <2>6
    <2>8. \A j \in DOMAIN retried.att[n] : retried.att[n][j].status # "RUNNING"
      <3> SUFFICES ASSUME NEW j \in DOMAIN retried.att[n] PROVE retried.att[n][j].status # "RUNNING"
        OBVIOUS
      <3>1. CASE j = len + 1
        BY <2>1, <2>3, <2>5, <2>6, <3>1
      <3>2. CASE j # len + 1
        <4>1. j \in DOMAIN ended.att[n]
          BY <2>3, <2>5, <2>6, <3>2
        <4> QED BY <1>2, <2>7, <4>1
      <3> QED BY <3>1, <3>2
    <2>9. ASSUME NEW m \in Nodes
          PROVE  /\ s.node[m] = "SUCCEEDED" => retried.node[m] = "SUCCEEDED"
                 /\ retried.node[m] = "SUCCEEDED" => s.node[m] = "SUCCEEDED"
                 /\ \A j \in DOMAIN s.att[m] : s.att[m][j].status = "SUCCEEDED" =>
                       j \in DOMAIN retried.att[m] /\ retried.att[m][j].status = "SUCCEEDED"
                 /\ \A j \in DOMAIN retried.att[m] : retried.att[m][j].status = "RUNNING" =>
                       /\ j \in DOMAIN s.att[m] /\ s.att[m][j].status = "RUNNING"
                       /\ s.att[m][j].start = retried.att[m][j].start
      <3>1. CASE m = n
        BY <1>3, <1>4, <2>6, <2>7, <2>8, <3>1 DEF Heir
      <3>2. CASE m # n
        BY <1>3, <2>5, <2>6, <3>2 DEF Heir
      <3> QED BY <3>1, <3>2
    <2> QED BY <1>3, <2>6, <2>9 DEF Heir
  <1>7. Heir(s, SettleAfterAttemptEnd(s, waiting, <<n, k>>), {}, {})
    <2>1. /\ waiting \in Aggregates /\ waiting.runs = ended.runs /\ waiting.att = ended.att
          /\ waiting.base = ended.base /\ waiting.head = ended.head /\ waiting.runtime = ended.runtime
          /\ waiting.finds = ended.finds /\ waiting.node[n] = "READY"
          /\ \A m \in Nodes \ {n} : waiting.node[m] = ended.node[m]
      BY <1>5 DEF Aggregates, NodeStatuses
    <2> HIDE DEF waiting
    <2>2. Follows(s, waiting)
      BY <1>2, <2>1, SetNodeSound
    <2>3. Heir(s, waiting, {}, {})
      BY <1>3, <1>4, <2>1, SetNodeHeir
    <2> QED BY <2>2, <2>3, SettleAfterAttemptEndHeir
  <1>8. Heir(s, CloseDispatchForFailure(s, blocked, <<n, k>>), {}, {})
    <2>1. FindingSubject(code, n) \in Nodes \cup {"workflow", "session"}
      BY DEF FindingSubject
    <2> DEFINE subject == FindingSubject(code, n)
    <2> HIDE DEF subject
    <2>2. blocked = [ended EXCEPT !.node[n] = "FAILED", !.finds = @ \cup {subject}]
      BY DEF subject
    <2>3. subject \in Nodes \cup {"workflow", "session"}
      BY <2>1 DEF subject
    <2> HIDE DEF blocked
    <2>4. /\ blocked \in Aggregates /\ blocked.runs = ended.runs /\ blocked.att = ended.att
          /\ blocked.base = ended.base /\ blocked.head = ended.head /\ blocked.runtime = ended.runtime
          /\ ended.finds \subseteq blocked.finds /\ blocked.node[n] = "FAILED"
          /\ \A m \in Nodes \ {n} : blocked.node[m] = ended.node[m]
      BY <1>5, <2>2, <2>3 DEF Aggregates, NodeStatuses, NodeTerminal
    <2>5. Follows(s, blocked)
      BY <1>2, <2>4, SetNodeSound
    <2>6. Heir(s, blocked, {}, {})
      BY <1>3, <1>4, <2>4, SetNodeHeir
    <2> QED BY <2>5, <2>6, CloseDispatchHeir
  <1> QED BY <1>6, <1>7, <1>8 DEF DecideAttemptFailure, ended

(* Nor does an interruption.                                               *)
LEMMA InterruptedHeir ==
    ASSUME NEW s, Good(s), NEW n \in Nodes, NEW k, IsRunning(s, n, k)
    PROVE  Heir(s, SettleInterrupted(s, n, k), {}, {})
  <1> DEFINE ended == EndAttempt(s, n, k, "INTERRUPTED")
             ready == [ended EXCEPT !.node[n] = "READY"]
             opened == IF OpensStop(s) THEN RunMut(s, ready, "STOPPING") ELSE ready
  <1>1. Follows(s, s) /\ s \in Aggregates /\ "INTERRUPTED" \in AttemptTerminal /\ Heir(s, s, {}, {})
    BY HeirRefl DEF Follows, Good, AttemptTerminal
  <1>2. /\ Follows(s, ended)
        /\ \A j \in DOMAIN ended.att[n] : ended.att[n][j].status # "RUNNING"
        /\ ~HasRunningAttemptExcept(s, <<n, k>>) => NothingRuns(ended)
    BY EndAttemptSound DEF AttemptTerminal, Follows
  <1>3. Heir(s, ended, {}, {})
    BY <1>1, EndAttemptHeir
  <1>4. s.node[n] # "SUCCEEDED"
    BY RunningHasNotSucceeded
  <1> HIDE DEF ended
  <1>5. /\ ready \in Aggregates /\ ready.runs = ended.runs /\ ready.att = ended.att
        /\ ready.base = ended.base /\ ready.head = ended.head /\ ready.runtime = ended.runtime
        /\ ready.finds = ended.finds /\ ready.node[n] = "READY"
        /\ \A m \in Nodes \ {n} : ready.node[m] = ended.node[m]
    BY <1>2 DEF Follows, Good, Aggregates, NodeStatuses
  <1> HIDE DEF ready
  <1>6. Follows(s, ready)
    BY <1>2, <1>5, SetNodeSound
  <1>7. Heir(s, ready, {}, {})
    BY <1>3, <1>4, <1>5, SetNodeHeir
  <1>8. Follows(s, opened)
    <2>1. Follows(s, RunMut(s, ready, "STOPPING"))
      BY <1>6, RunMutSound DEF RunStatuses
    <2> QED BY <1>6, <2>1
  <1>9. Heir(s, opened, {}, {})
    BY <1>5, <1>7, RunMutHeir
  <1> HIDE DEF opened
  <1>10. Heir(s, ConvergeStopping(s, opened, <<n, k>>, NoKey, OpensStop(s)), {}, {})
    BY <1>8, <1>9, ConvergeStoppingHeir
  <1>11. Heir(s, FinishCancel(s, ended), {}, {})
    BY <1>2, <1>3, FinishCancelHeir
  <1> QED BY <1>3, <1>10, <1>11 DEF SettleInterrupted, ended, ready, opened

(* Stopping a process touches no column a success is recorded in.          *)
LEMMA EndProcessHeir ==
    ASSUME NEW s, Good(s), NEW n \in Nodes, NEW k
    PROVE  Heir(s, EndProcess(s, <<n, k>>), {}, {})
  <1> DEFINE t == EndProcess(s, <<n, k>>)
             row == [s.att[n][k] EXCEPT !.process = "STOPPED"]
             table == [s.att[n] EXCEPT ![k] = row]
  <1>1. s \in Aggregates
    BY DEF Good
  <1>2. s.att[n] \in Seq(Attempts)
    BY <1>1 DEF Aggregates
  <1>3. k \in DOMAIN s.att[n] => s.att[n][k] \in Attempts
    BY <1>2, LenProperties
  <1>4. k \in DOMAIN s.att[n] =>
           row \in Attempts /\ row.status = s.att[n][k].status /\ row.start = s.att[n][k].start
    BY <1>3 DEF Attempts, ProcessStatuses
  <1>5. t = [s EXCEPT !.att = [s.att EXCEPT ![n] = table]]
    BY <1>1 DEF EndProcess, Aggregates
  <1> HIDE DEF t, row
  <1>6. /\ DOMAIN table = DOMAIN s.att[n]
        /\ \A j \in DOMAIN s.att[n] : table[j] = IF j = k THEN row ELSE s.att[n][j]
    BY <1>2, <1>4, ReplaceRow
  <1> HIDE DEF table
  <1>7. /\ t.node = s.node /\ t.finds = s.finds /\ t.runtime = s.runtime
        /\ t.base = s.base /\ t.head = s.head
        /\ t.att[n] = table
        /\ \A m \in Nodes \ {n} : t.att[m] = s.att[m]
    BY <1>1, <1>5 DEF Aggregates
  <1>8. \A m \in Nodes : /\ DOMAIN t.att[m] = DOMAIN s.att[m]
                         /\ \A j \in DOMAIN s.att[m] : /\ t.att[m][j].status = s.att[m][j].status
                                                       /\ t.att[m][j].start = s.att[m][j].start
    BY <1>4, <1>6, <1>7
  <1> QED BY <1>7, <1>8 DEF Heir, t

(* Nor does the record of a stopped Process.                               *)
LEMMA ProcessStoppedHeir ==
    ASSUME NEW s, Good(s), NEW n \in Nodes, NEW k, NEW orphan \in BOOLEAN
    PROVE  Heir(s, DecideProcessStopped(s, <<n, k>>, orphan), {}, {})
  <1> DEFINE stopped == EndProcess(s, <<n, k>>)
             found == [stopped EXCEPT !.finds = @ \cup {"workflow"}]
  <1>1. Follows(s, stopped) /\ (NothingRuns(s) => NothingRuns(stopped))
    BY EndProcessSound
  <1>2. Heir(s, stopped, {}, {})
    BY EndProcessHeir
  <1> HIDE DEF stopped
  <1>3. Heir(s, ConvergeStopping(s, stopped, NoKey, <<n, k>>, FALSE), {}, {})
    BY <1>1, <1>2, ConvergeStoppingHeir
  <1>4. /\ found \in Aggregates /\ found.runs = stopped.runs /\ found.att = stopped.att
        /\ found.node = stopped.node /\ found.base = stopped.base /\ found.head = stopped.head
        /\ found.runtime = stopped.runtime /\ stopped.finds \subseteq found.finds
    BY <1>1 DEF Follows, Good, Aggregates
  <1> HIDE DEF found
  <1>5. Follows(s, found)
    BY <1>1, <1>4 DEF Follows, Good, RunsOrdered, NewestRuns
  <1>6. Heir(s, found, {}, {})
    BY <1>2, <1>4 DEF Heir
  <1>7. Heir(s, WfMutStatus(s, RunMut(s, found, "INTERRUPTED"), "BLOCKED"), {}, {})
    BY <1>5, <1>6, CloseRunHeir DEF RunStatuses, RunTerminal
  <1> QED BY <1>3, <1>7 DEF DecideProcessStopped, stopped, found

(* Nor does a pause.                                                       *)
LEMMA PauseHeir ==
    ASSUME NEW s, Good(s)
    PROVE  Heir(s, DecidePause(s), {}, {})
  <1> DEFINE runtime == IF HasBlockingFinding(s) \/ ActiveStatus(s) = "QUIESCING"
                        THEN "BLOCKED" ELSE "PAUSED"
             wf == WfMutStatus(s, s, runtime)
             transitioned == HasActiveRun(s) /\ ActiveStatus(s) # "STOPPING"
             d == IF transitioned THEN RunMut(s, wf, "STOPPING") ELSE wf
  <1>1. Follows(s, wf) /\ Heir(s, wf, {}, {})
    <2>1. runtime \in Runtimes /\ runtime # "SUCCEEDED"
      BY DEF Runtimes
    <2>2. Heir(s, s, {}, {}) /\ s \in Aggregates
      BY HeirRefl DEF Good
    <2> HIDE DEF runtime
    <2>3. Follows(s, wf)
      BY <2>1, WfMutStatusSound DEF Follows
    <2>4. Heir(s, wf, {}, {})
      BY <2>1, <2>2, WfMutHeir DEF WfMutStatus
    <2> QED BY <2>3, <2>4
  <1> HIDE DEF wf
  <1>2. Follows(s, d) /\ Heir(s, d, {}, {})
    <2>1. Follows(s, RunMut(s, wf, "STOPPING"))
      BY <1>1, RunMutSound DEF RunStatuses
    <2>2. Heir(s, RunMut(s, wf, "STOPPING"), {}, {})
      BY <1>1, RunMutHeir DEF Follows, Good
    <2> QED BY <1>1, <2>1, <2>2
  <1> HIDE DEF d, transitioned
  <1>3. Heir(s, ConvergeStopping(s, d, NoKey, NoKey, transitioned), {}, {})
    BY <1>2, ConvergeStoppingHeir
  <1> QED BY <1>3 DEF DecidePause, d, transitioned, wf

(* Nor does a resumption, which opens a Run.                               *)
LEMMA ResumeHeir ==
    ASSUME NEW s, Good(s)
    PROVE  Heir(s, DecideResume(s), {}, {})
  <1> DEFINE wf == WfMutStatus(s, s, "RUNNING")
             t == DecideResume(s)
  <1>1. Heir(s, s, {}, {}) /\ s \in Aggregates
    BY HeirRefl DEF Good
  <1>2. Heir(s, wf, {}, {})
    BY <1>1, WfMutHeir DEF WfMutStatus
  <1>3. wf \in Aggregates
    BY WfMutStatusSound DEF Follows, Good, Runtimes
  <1> HIDE DEF wf
  <1>4. /\ t.node = wf.node /\ t.finds = wf.finds /\ t.runtime = wf.runtime
        /\ t.base = wf.base /\ t.head = wf.head /\ t.att = wf.att
    BY <1>3 DEF DecideResume, OpenRun, ClosePriorRuns, wf, Aggregates
  <1> HIDE DEF t
  <1>5. Heir(s, t, {}, {})
    BY <1>2, <1>4 DEF Heir
  <1> QED BY <1>5 DEF t

(* Nor does a cancellation.                                                *)
LEMMA CancelHeir ==
    ASSUME NEW s, Good(s), s.runtime \notin RuntimeTerminal
    PROVE  Heir(s, DecideCancel(s), {}, {})
  <1> DEFINE wf == WfMut(s, s, s.stage, s.runtime, TRUE)
             intended == RunMut(s, wf, "STOPPING")
  <1>1. Heir(s, s, {}, {}) /\ s \in Aggregates
    BY HeirRefl DEF Good
  <1>2. Heir(s, wf, {}, {})
    <2> DEFINE yes == TRUE
               runtime == s.runtime
    <2>1. runtime # "SUCCEEDED" /\ wf = WfMut(s, s, s.stage, runtime, yes)
      BY DEF RuntimeTerminal
    <2> HIDE DEF yes, runtime, wf
    <2> QED BY <1>1, <2>1, WfMutHeir
  <1>3. Follows(s, wf)
    <2>1. /\ s.stage \in {"EXECUTION", "FINAL_VERIFICATION", "COMPLETED"}
          /\ s.runtime \in Runtimes
      BY DEF Good, Aggregates
    <2>2. Follows(s, s)
      BY DEF Follows
    <2> DEFINE yes == TRUE
               runtime == s.runtime
               stage == s.stage
    <2>3. yes \in BOOLEAN /\ wf = WfMut(s, s, stage, runtime, yes)
      OBVIOUS
    <2>4. /\ stage \in {"EXECUTION", "FINAL_VERIFICATION", "COMPLETED"}
          /\ runtime \in Runtimes
      BY <2>1
    <2> HIDE DEF yes, wf, runtime, stage
    <2> QED BY <2>2, <2>3, <2>4, WfMutSound
  <1> HIDE DEF wf
  <1>4. Follows(s, intended)
    BY <1>3, RunMutSound DEF RunStatuses
  <1>5. Heir(s, intended, {}, {})
    BY <1>2, <1>3, RunMutHeir DEF Follows, Good
  <1> HIDE DEF intended
  <1>6. Heir(s, FinishCancel(s, intended), {}, {})
    BY <1>4, <1>5, FinishCancelHeir
  <1> QED BY <1>5, <1>6 DEF DecideCancel, intended, wf

(* Nor does Recovery's sweep.                                              *)
LEMMA SweepHeir ==
    ASSUME NEW s, Good(s)
    PROVE  Heir(s, Sweep(s), {}, {})
  <1>1. Follows(s, s) /\ Heir(s, s, {}, {})
    BY HeirRefl DEF Follows
  <1>2. Heir(s, FinishCancel(s, s), {}, {})
    BY <1>1, FinishCancelHeir
  <1>3. Heir(s, ConvergeQuiescing(s, s), {}, {})
    BY <1>1, CloseRunHeir DEF ConvergeQuiescing, RunStatuses, RunTerminal
  <1> DEFINE converged == ConvergeStopping(s, s, NoKey, NoKey, FALSE)
             w == WfMutStatus(s, converged, "BLOCKED")
  <1>4. Follows(s, converged)
    BY <1>1, QuietMeansNothingRuns, ConvergeStoppingSound
  <1>5. Heir(s, converged, {}, {})
    BY <1>1, ConvergeStoppingHeir
  <1> HIDE DEF converged
  <1>6. Follows(s, w)
    BY <1>4, WfMutStatusSound DEF Runtimes
  <1>7. Heir(s, w, {}, {})
    BY <1>4, <1>5, WfMutHeir DEF WfMutStatus, Follows, Good
  <1> HIDE DEF w
  <1>8. Heir(s, RunMut(s, w, "BLOCKED"), {}, {})
    BY <1>6, <1>7, RunMutHeir DEF Follows, Good
  <1> QED BY <1>1, <1>2, <1>3, <1>5, <1>8 DEF Sweep, DecideReconcile, converged, w

(* decideComplete: the one Decision that writes SUCCEEDED has a head.      *)
LEMMA CompleteHeir ==
    ASSUME NEW s, Good(s), CanComplete(s)
    PROVE  Heir(s, DecideComplete(s), {}, {})
  <1> DEFINE wf == WfMut(s, s, "COMPLETED", "SUCCEEDED", FALSE)
             b == RunMut(s, wf, "SUCCEEDED")
             t == DecideComplete(s)
             row(n, k) == IF s.att[n][k].process = "RUNNING"
                          THEN [s.att[n][k] EXCEPT !.process = "STOPPED"]
                          ELSE s.att[n][k]
             table(n) == [k \in DOMAIN s.att[n] |-> row(n, k)]
  <1>1. s \in Aggregates
    BY DEF Good
  <1>2. /\ wf \in Aggregates
        /\ wf.finds = s.finds /\ wf.node = s.node /\ wf.base = s.base /\ wf.head = s.head
    BY <1>1 DEF WfMut, Aggregates, Runtimes, RuntimeTerminal
  <1>3. t = [b EXCEPT !.att = [n \in Nodes |-> table(n)]]
    BY DEF DecideComplete
  <1> HIDE DEF wf
  <1>4. /\ b = [b EXCEPT !.att = b.att]
        /\ b.finds = wf.finds /\ b.node = wf.node /\ b.base = wf.base /\ b.head = wf.head
        /\ DOMAIN b = DOMAIN wf
    BY <1>2 DEF RunMut, Aggregates
  <1> HIDE DEF b, t
  <1>5. /\ t.finds = s.finds /\ t.node = s.node /\ t.base = s.base /\ t.head = s.head
        /\ t.att = [n \in Nodes |-> table(n)]
    BY <1>2, <1>3, <1>4 DEF Aggregates
  <1>6. ASSUME NEW n \in Nodes
        PROVE  /\ DOMAIN t.att[n] = DOMAIN s.att[n]
               /\ \A k \in DOMAIN s.att[n] : /\ t.att[n][k].status = s.att[n][k].status
                                             /\ t.att[n][k].start = s.att[n][k].start
    <2>1. t.att[n] = table(n) /\ DOMAIN table(n) = DOMAIN s.att[n]
      BY <1>5
    <2>2. ASSUME NEW k \in DOMAIN s.att[n]
          PROVE  row(n, k).status = s.att[n][k].status /\ row(n, k).start = s.att[n][k].start
      <3>1. s.att[n] \in Seq(Attempts)
        BY <1>1 DEF Aggregates
      <3>2. s.att[n][k] \in Attempts
        BY <3>1, LenProperties
      <3> QED BY <3>2 DEF Attempts
    <2> HIDE DEF row
    <2> QED BY <2>1, <2>2
  <1>7. s.head # NoHead
    BY DEF CanComplete
  <1> QED BY <1>5, <1>6, <1>7 DEF Heir, t

(* An allocation adds one RUNNING row; the Node it runs had not succeeded. *)
LEMMA DispatchHeir ==
    ASSUME NEW s, Good(s), NEW n \in Nodes \ Checkpoints, CanAllocate(s, n), NEW seen \in Heads
    PROVE  LET t == DecideDispatch(s, n, seen) IN
           /\ t.head = s.head /\ t.finds = s.finds /\ t.runtime = s.runtime
           /\ t.base[n] = (IF n \in Tasks THEN StartHead(s, n, seen) ELSE s.base[n])
           /\ s.node[n] # "SUCCEEDED" /\ t.node[n] = "RUNNING"
           /\ \A m \in Nodes \ {n} :
                 t.node[m] = s.node[m] /\ t.base[m] = s.base[m] /\ t.att[m] = s.att[m]
           /\ \A j \in DOMAIN s.att[n] : j \in DOMAIN t.att[n] /\ t.att[n][j] = s.att[n][j]
           /\ \A j \in DOMAIN t.att[n] :
                 t.att[n][j].status = "RUNNING" => t.att[n][j].start = StartHead(s, n, seen)
  <1> DEFINE start == StartHead(s, n, seen)
             row == [status |-> "RUNNING", start |-> start,
                     process |-> IF n \in Merges THEN "none" ELSE "RUNNING"]
             table == Append(s.att[n], row)
             t == DecideDispatch(s, n, seen)
             nodes == [s.node EXCEPT ![n] = "RUNNING"]
             bases == [s.base EXCEPT ![n] = IF n \in Tasks THEN start ELSE s.base[n]]
             stage == IF FinalVerify(n) THEN "FINAL_VERIFICATION" ELSE s.stage
             tables == [s.att EXCEPT ![n] = table]
             len == Len(s.att[n])
  <1>1. s \in Aggregates /\ NewestRuns(s)
    BY DEF Good
  <1>2. start \in Heads
    BY StartHeadSound
  <1> HIDE DEF start
  <1>3. row \in Attempts /\ row.start = start
    BY <1>2 DEF Attempts, AttemptStatuses, ProcessStatuses
  <1>4. s.att[n] \in Seq(Attempts)
    BY <1>1 DEF Aggregates
  <1>5. t = [s EXCEPT !.node = nodes, !.base = bases, !.stage = stage, !.att = tables]
    BY <1>1 DEF DecideDispatch, start, Aggregates
  <1> HIDE DEF row, t
  <1>6. /\ len \in Nat /\ DOMAIN s.att[n] = 1 .. len /\ DOMAIN table = 1 .. len + 1
        /\ \A j \in DOMAIN s.att[n] : table[j] = s.att[n][j]
        /\ table[len + 1] = row
    BY <1>3, <1>4, AppendRow
  <1> HIDE DEF table, len
  <1>7. /\ tables[n] = table /\ nodes[n] = "RUNNING"
        /\ bases[n] = (IF n \in Tasks THEN start ELSE s.base[n])
        /\ \A m \in Nodes \ {n} :
              tables[m] = s.att[m] /\ nodes[m] = s.node[m] /\ bases[m] = s.base[m]
    BY <1>1 DEF Aggregates
  <1> HIDE DEF nodes, bases, stage, tables
  <1>8. /\ t.runtime = s.runtime /\ t.finds = s.finds /\ t.head = s.head
        /\ t.node = nodes /\ t.base = bases /\ t.att = tables
    BY <1>1, <1>5 DEF Aggregates
  <1>9. \A j \in DOMAIN s.att[n] : s.att[n][j].status # "RUNNING"
    BY <1>1 DEF CanAllocate, NewestRuns
  <1>10. \A j \in DOMAIN s.att[n] : j \in DOMAIN t.att[n] /\ t.att[n][j] = s.att[n][j]
    BY <1>6, <1>7, <1>8
  <1>11. \A j \in DOMAIN t.att[n] : t.att[n][j].status = "RUNNING" => t.att[n][j].start = start
    <2> SUFFICES ASSUME NEW j \in DOMAIN t.att[n], t.att[n][j].status = "RUNNING"
                 PROVE  t.att[n][j].start = start
      OBVIOUS
    <2>1. CASE j = len + 1
      BY <1>3, <1>6, <1>7, <1>8, <2>1
    <2>2. CASE j # len + 1
      <3>1. j \in DOMAIN s.att[n]
        BY <1>6, <1>7, <1>8, <2>2
      <3> QED BY <1>9, <1>10, <3>1
    <2> QED BY <2>1, <2>2
  <1>12. s.node[n] # "SUCCEEDED"
    BY DEF CanAllocate
  <1> QED BY <1>7, <1>8, <1>10, <1>11, <1>12 DEF t, start

(* A checkpoint changes the status of a Node that waits, and no Attempt.   *)
LEMMA CheckpointRows ==
    ASSUME NEW s, Good(s), NEW n \in Nodes, CanAllocate(s, n)
    PROVE  LET t == DecideCheckpoint(s, n) IN
           /\ t \in Aggregates /\ t.node[n] = "SUCCEEDED"
           /\ \A m \in Nodes \ {n} : t.node[m] = s.node[m]
           /\ t.runs = s.runs /\ t.runtime = s.runtime /\ t.cancel = s.cancel /\ t.att = s.att
           /\ t.finds = s.finds /\ t.charged = s.charged /\ t.base = s.base /\ t.head = s.head
  <1> DEFINE nodes == [s.node EXCEPT ![n] = "SUCCEEDED"]
             t == DecideCheckpoint(s, n)
  <1>1. s \in Aggregates
    BY DEF Good
  <1>2. /\ nodes \in [Nodes -> NodeStatuses] /\ nodes[n] = "SUCCEEDED"
        /\ \A m \in Nodes \ {n} : nodes[m] = s.node[m]
    BY <1>1 DEF Aggregates, NodeStatuses, NodeTerminal
  <1>3. t = [s EXCEPT !.node = nodes]
    BY <1>1 DEF DecideCheckpoint, Aggregates
  <1> HIDE DEF nodes, t
  <1>4. t \in Aggregates /\ t.node = nodes
    BY <1>1, <1>2, <1>3 DEF Aggregates
  <1>5. /\ t.runs = s.runs /\ t.runtime = s.runtime /\ t.cancel = s.cancel /\ t.att = s.att
        /\ t.finds = s.finds /\ t.charged = s.charged /\ t.base = s.base /\ t.head = s.head
    BY <1>1, <1>3 DEF Aggregates
  <1> QED BY <1>2, <1>4, <1>5 DEF t

LEMMA CheckpointSound ==
    ASSUME NEW s, Good(s), NEW n \in Nodes, CanAllocate(s, n)
    PROVE  Good(DecideCheckpoint(s, n))
  <1> DEFINE t == DecideCheckpoint(s, n)
  <1>1. /\ t \in Aggregates /\ t.runs = s.runs /\ t.att = s.att
        /\ \A m \in Nodes \ {n} : t.node[m] = s.node[m]
    BY CheckpointRows
  <1> HIDE DEF t
  <1>2. s.node[n] # "RUNNING"
    BY DEF CanAllocate
  <1>3. RunsOrdered(t) /\ NewestRuns(t)
    BY <1>1, <1>2 DEF Good, RunsOrdered, NewestRuns
  <1> QED BY <1>1, <1>3 DEF Good, t

(* The Workflow goes on as before, with the books as they were.            *)
LEMMA CheckpointOutcome ==
    ASSUME NEW s, Good(s), Calm(s), NEW n \in Nodes, CanAllocate(s, n)
    PROVE  LET t == DecideCheckpoint(s, n) IN
           /\ Calm(t) /\ t.cancel = s.cancel /\ t.att = s.att
           /\ SameBooks(s, t) /\ (Working(s) => Working(t))
  <1> DEFINE t == DecideCheckpoint(s, n)
  <1>1. /\ t.runs = s.runs /\ t.runtime = s.runtime /\ t.cancel = s.cancel /\ t.att = s.att
        /\ t.finds = s.finds /\ t.charged = s.charged
    BY CheckpointRows
  <1> HIDE DEF t
  <1>2. ActiveStatus(s) = "RUNNING"
    BY DEF CanAllocate, GateOpen
  <1>3. s.runtime = "RUNNING" /\ HasActiveRun(s)
    BY <1>2, NoneIsNoRun DEF Calm
  <1>4. ActiveStatus(t) = "RUNNING" /\ HasActiveRun(t)
    BY <1>1, <1>2, <1>3, SameRuns
  <1>5. Calm(t)
    BY <1>1, <1>3, <1>4 DEF Calm
  <1>6. SameBooks(s, t)
    BY <1>1 DEF SameBooks
  <1>7. Working(s) => Working(t)
    BY <1>1, <1>4 DEF Working
  <1> QED BY <1>1, <1>5, <1>6, <1>7 DEF t

LEMMA CheckpointHeir ==
    ASSUME NEW s, Good(s), NEW n \in Nodes, CanAllocate(s, n)
    PROVE  Heir(s, DecideCheckpoint(s, n), {n}, {})
  <1> DEFINE t == DecideCheckpoint(s, n)
  <1>1. /\ t.node[n] = "SUCCEEDED" /\ \A m \in Nodes \ {n} : t.node[m] = s.node[m]
        /\ t.runtime = s.runtime /\ t.att = s.att
        /\ t.finds = s.finds /\ t.base = s.base /\ t.head = s.head
    BY CheckpointRows
  <1> HIDE DEF t
  <1>2. Heir(s, t, {n}, {})
    BY <1>1 DEF Heir
  <1> QED BY <1>2 DEF t

-----------------------------------------------------------------------------
(*-------------------------------------------------------------------------*)
(* 3. The execution                                                        *)
(*-------------------------------------------------------------------------*)

(* The inductive invariant.                                                *)
Inv == TypeOK /\ OneActiveRun /\ RunningAttemptIsNewest

(* The types of everything but the aggregate.                              *)
RestOK ==
    /\ chain \in [Nodes -> Chains]
    /\ interrupted \in BOOLEAN
    /\ stop \in (Nodes \X Nat) \cup {NoKey}
    /\ ledger \subseteq Intents
    /\ ws \in Heads
    /\ dirty \in BOOLEAN
    /\ observed \in Heads

(* Inv in the terms of the lemmas about Decisions.                         *)
LEMMA InvIsGood == Inv <=> Good(agg) /\ RestOK
  BY DEF Inv, TypeOK, OneActiveRun, RunningAttemptIsNewest, IsRunning,
         Good, RunsOrdered, NewestRuns, RestOK

(* The same after a step.                                                  *)
LEMMA InvIsGoodNext == Inv' <=> Good(agg') /\ RestOK'
  BY DEF Inv, TypeOK, OneActiveRun, RunningAttemptIsNewest, IsRunning,
         Good, RunsOrdered, NewestRuns, RestOK

(* The start of the execution.                                             *)
LEMMA InitSound == Init => Inv
  <1> SUFFICES ASSUME Init PROVE Inv
    OBVIOUS
  <1> DEFINE row == [status |-> "RUNNING", gate |-> TRUE]
  <1>1. PICK adopted \in Adopted :
         agg = [stage |-> "EXECUTION", runtime |-> "RUNNING", cancel |-> FALSE,
                head |-> IF adopted THEN {} ELSE NoHead,
                runs |-> <<row>>,
                node |-> [n \in Nodes |-> "PENDING"],
                charged |-> [n \in Nodes |-> 0],
                base |-> [n \in Nodes |-> NoHead],
                att |-> [n \in Nodes |-> <<>>],
                finds |-> {}]
    BY DEF Init
  <1>2. row \in Runs /\ row.status = "RUNNING" /\ row.gate = TRUE
    BY DEF Runs, RunStatuses
  <1> HIDE DEF row
  <1>3. <<row>> \in Seq(Runs) /\ Len(<<row>>) = 1 /\ DOMAIN <<row>> = {1} /\ <<row>>[1] = row
    BY <1>2
  <1>4. {} \in Heads /\ NoHead \in Heads
    BY DEF Heads, NoHead
  <1>5. <<>> \in Seq(Attempts) /\ DOMAIN <<>> = {}
    OBVIOUS
  <1>6. agg \in Aggregates /\ agg.runs = <<row>> /\ \A n \in Nodes : agg.att[n] = <<>>
    BY <1>1, <1>3, <1>4, <1>5 DEF Aggregates, Runtimes, NodeStatuses
  <1>7. RunsOrdered(agg)
    BY <1>2, <1>3, <1>6 DEF RunsOrdered
  <1>8. NewestRuns(agg)
    BY <1>5, <1>6 DEF NewestRuns
  <1>9. RestOK
    BY <1>4 DEF RestOK, Init, Chains, Off, Phases
  <1> QED BY <1>6, <1>7, <1>8, <1>9, InvIsGood DEF Good

-----------------------------------------------------------------------------
(* Types of what the actions write.                                        *)

(* A stop Effect names the row of a managed process.                       *)
LEMMA StoppingSound ==
    ASSUME Good(agg), RestOK, NEW emits \in BOOLEAN, NEW s, Good(s), NEW exclude, NEW settled,
           Stopping(emits, s, exclude, settled)
    PROVE  stop' \in (Nodes \X Nat) \cup {NoKey} /\ ledger' \subseteq Intents
  <1>1. RunningProcesses(s) \subseteq Nodes \X Nat
    <2>1. \A n \in Nodes : DOMAIN s.att[n] \subseteq Nat
      <3> SUFFICES ASSUME NEW n \in Nodes PROVE DOMAIN s.att[n] \subseteq Nat
        OBVIOUS
      <3>1. s.att[n] \in Seq(Attempts)
        BY DEF Good, Aggregates
      <3> QED BY <3>1, LenProperties
    <2> QED BY <2>1 DEF RunningProcesses
  <1>2. stop' \in (Nodes \X Nat) \cup {NoKey}
    BY <1>1 DEF Stopping, NextStop
  <1>3. StopIntents(stop') \subseteq Intents
    BY <1>2 DEF StopIntents, Intents
  <1> QED BY <1>2, <1>3 DEF Stopping, RestOK

(* A chain's transaction.                                                  *)
LEMMA SettlesSound ==
    ASSUME Inv, NEW n \in Nodes, NEW t, Good(t), NEW then \in Chains, NEW settled,
           Settles(n, t, then, settled)
    PROVE  Inv'
  <1>1. RestOK'
    BY InvIsGood DEF Settles, RestOK
  <1>2. Good(agg')
    BY DEF Settles
  <1> QED BY <1>1, <1>2, InvIsGoodNext

(* The values the actions give a chain are chains.                         *)
LEMMA ChainTypes ==
    /\ Off \in Chains
    /\ \A phase \in Phases : At(phase) \in Chains
    /\ \A code \in Codes : FailedMerge(code) \in Chains
  BY DEF Off, At, FailedMerge, Chains, Phases

(* A git effect moves the Workspace and the chain, nothing persisted.      *)
LEMMA GitStepSound ==
    ASSUME Inv, NEW n \in Nodes, NEW to \in Chains, NEW head \in Heads,
           NEW unmerged \in BOOLEAN, GitStep(n, to, head, unmerged)
    PROVE  Inv'
  <1>1. RestOK'
    BY InvIsGood DEF GitStep, RestOK
  <1>2. Good(agg')
    BY InvIsGood DEF GitStep
  <1> QED BY <1>1, <1>2, InvIsGoodNext

(* The commit an Attempt starts from is a commit.                          *)
LEMMA StartIsHead ==
    ASSUME Inv, NEW n \in Nodes, NEW k \in DOMAIN agg.att[n]
    PROVE  agg.att[n][k].start \in Heads
  <1>1. agg.att[n] \in Seq(Attempts)
    BY InvIsGood DEF Good, Aggregates
  <1>2. agg.att[n][k] \in Attempts
    BY <1>1, LenProperties
  <1> QED BY <1>2 DEF Attempts

-----------------------------------------------------------------------------
(* One lemma per group of actions.                                         *)

(* Pause, resume, cancel and complete, each after Recovery's sweep.        *)
LEMMA CommandsSound ==
    ASSUME Inv, PauseCommand \/ ResumeCommand \/ CancelCommand \/ CompleteCommand
    PROVE  Inv'
  <1> DEFINE s == Sweep(agg)
  <1>1. Good(agg) /\ RestOK /\ Good(s)
    BY InvIsGood, SweepSound
  <1> HIDE DEF s
  <1>2. CASE PauseCommand
    <2>1. Good(agg')
      BY <1>1, <1>2, DecidePauseSound DEF PauseCommand, s
    <2>2. PauseStops(s) \in BOOLEAN /\ Stopping(PauseStops(s), s, NoKey, {})
      BY <1>2 DEF PauseCommand, PauseStops, s
    <2>3. stop' \in (Nodes \X Nat) \cup {NoKey} /\ ledger' \subseteq Intents
      BY <1>1, <2>2, StoppingSound
    <2>4. RestOK'
      BY <1>1, <1>2, <2>3 DEF PauseCommand, RestOK
    <2> QED BY <2>1, <2>4, InvIsGoodNext
  <1>3. CASE ResumeCommand
    <2>1. Good(agg')
      BY <1>1, <1>3, DecideResumeSound DEF ResumeCommand, s
    <2>2. RestOK'
      BY <1>1, <1>3 DEF ResumeCommand, RestOK
    <2> QED BY <2>1, <2>2, InvIsGoodNext
  <1>4. CASE CancelCommand
    <2>1. Good(agg')
      BY <1>1, <1>4, DecideCancelSound DEF CancelCommand, s
    <2>2. Stopping(TRUE, s, NoKey, {})
      BY <1>4 DEF CancelCommand, s
    <2>3. stop' \in (Nodes \X Nat) \cup {NoKey} /\ ledger' \subseteq Intents
      BY <1>1, <2>2, StoppingSound
    <2>4. RestOK'
      BY <1>1, <1>4, <2>3 DEF CancelCommand, RestOK
    <2> QED BY <2>1, <2>4, InvIsGoodNext
  <1>5. CASE CompleteCommand
    <2>1. Good(agg')
      BY <1>1, <1>5, DecideCompleteSound DEF CompleteCommand, s
    <2>2. RestOK'
      BY <1>1, <1>5 DEF CompleteCommand, RestOK
    <2> QED BY <2>1, <2>2, InvIsGoodNext
  <1> QED BY <1>2, <1>3, <1>4, <1>5

(* The command that starts a dispatch pass.                                *)
LEMMA DispatchCommandSound ==
    ASSUME Inv, DispatchCommand
    PROVE  Inv'
  <1>1. Good(agg) /\ RestOK
    BY InvIsGood
  <1>2. Good(agg')
    BY <1>1, SweepSound DEF DispatchCommand
  <1>3. At("queued") \in Chains /\ Off \in Chains
    BY ChainTypes DEF Phases
  <1>4. chain' \in [Nodes -> Chains]
    BY <1>3 DEF DispatchCommand
  <1>5. RestOK'
    BY <1>1, <1>4 DEF DispatchCommand, RestOK
  <1> QED BY <1>2, <1>5, InvIsGoodNext

(* The dispatch of one Node.                                               *)
LEMMA DispatchSound ==
    ASSUME Inv, NEW n \in Nodes, Dispatch(n)
    PROVE  Inv'
  <1>1. Good(agg) /\ RestOK /\ observed \in Heads
    BY InvIsGood DEF RestOK
  <1>2. At("working") \in Chains /\ Off \in Chains
    BY ChainTypes DEF Phases
  <1> n \notin Checkpoints
    BY DEF Dispatch
  <1>3. MergeIntent(n, StartHead(agg, n, observed)) \in Intents
    BY <1>1, StartHeadSound DEF MergeIntent, Intents
  <1>4. chain' \in [Nodes -> Chains] /\ ledger' \subseteq Intents
    BY <1>1, <1>2, <1>3 DEF Dispatch, RestOK
  <1>5. RestOK'
    BY <1>1, <1>4 DEF Dispatch, RestOK
  <1>6. Good(agg')
    BY <1>1, DecideDispatchSound DEF Dispatch
  <1> QED BY <1>5, <1>6, InvIsGoodNext

(* The one transaction of a checkpoint's chain.                            *)
LEMMA ReachCheckpointSound ==
    ASSUME Inv, NEW n \in Nodes, ReachCheckpoint(n)
    PROVE  Inv'
  <1> DEFINE t == IF CanAllocate(agg, n) THEN DecideCheckpoint(agg, n) ELSE agg
  <1>1. Settles(n, t, Off, {})
    BY DEF ReachCheckpoint
  <1>2. Good(t)
    BY InvIsGood, CheckpointSound
  <1>3. Off \in Chains
    BY ChainTypes
  <1> HIDE DEF t
  <1> QED BY <1>1, <1>2, <1>3, SettlesSound

(* The chains' transactions that end an Attempt or go on to the next phase.*)
LEMMA SessionsSound ==
    ASSUME Inv, NEW n \in Nodes,
           \/ TaskSucceeds(n) \/ TaskFails(n)
           \/ VerificationPasses(n) \/ VerificationFails(n)
           \/ ReviewPasses(n) \/ ReviewFails(n) \/ Complete(n)
    PROVE  Inv'
  <1>1. Good(agg) /\ RestOK
    BY InvIsGood
  <1>2. Off \in Chains /\ At("reviewing") \in Chains /\ At("completing") \in Chains
    BY ChainTypes DEF Phases
  <1>3. CASE TaskSucceeds(n)
    <2>1. PICK k \in DOMAIN agg.att[n] :
              IsRunning(agg, n, k) /\ Settles(n, DecideAttemptSucceeded(agg, n, k), Off, {})
      BY <1>3 DEF TaskSucceeds
    <2> QED BY <1>1, <1>2, <2>1, DecideAttemptSucceededSound, SettlesSound
  <1>4. CASE TaskFails(n)
    <2>1. PICK k \in DOMAIN agg.att[n], code \in TaskCodes :
              IsRunning(agg, n, k) /\ Settles(n, DecideAttemptFailure(agg, n, k, code), Off, {})
      BY <1>4 DEF TaskFails
    <2> QED BY <1>1, <1>2, <2>1, DecideAttemptFailureSound, SettlesSound
  <1>5. CASE VerificationPasses(n)
    <2>1. Settles(n, agg, At("reviewing"), {})
      BY <1>5 DEF VerificationPasses
    <2> QED BY <1>1, <1>2, <2>1, SettlesSound
  <1>6. CASE VerificationFails(n)
    <2>1. PICK k \in DOMAIN agg.att[n], code \in (IF FinalVerify(n) THEN FinalCodes ELSE VerifyCodes) :
              IsRunning(agg, n, k) /\ Settles(n, DecideAttemptFailure(agg, n, k, code), Off, {})
      BY <1>6 DEF VerificationFails
    <2> QED BY <1>1, <1>2, <2>1, DecideAttemptFailureSound, SettlesSound
  <1>7. CASE ReviewPasses(n)
    <2>1. PICK k \in DOMAIN agg.att[n], then \in {At("completing"), Off} :
              IsRunning(agg, n, k) /\ Settles(n, DecideAttemptSucceeded(agg, n, k), then, {})
      BY <1>7 DEF ReviewPasses
    <2> QED BY <1>1, <1>2, <2>1, DecideAttemptSucceededSound, SettlesSound
  <1>8. CASE ReviewFails(n)
    <2>1. PICK k \in DOMAIN agg.att[n], code \in ReviewCodes :
              IsRunning(agg, n, k) /\ Settles(n, DecideAttemptFailure(agg, n, k, code), Off, {})
      BY <1>8 DEF ReviewFails
    <2> QED BY <1>1, <1>2, <2>1, DecideAttemptFailureSound, SettlesSound
  <1>9. CASE Complete(n)
    <2>1. Settles(n, IF CanComplete(agg) THEN DecideComplete(agg) ELSE agg, Off, {})
      BY <1>9 DEF Complete
    <2>2. Good(IF CanComplete(agg) THEN DecideComplete(agg) ELSE agg)
      BY <1>1, DecideCompleteSound
    <2> QED BY <1>2, <2>1, <2>2, SettlesSound
  <1> QED BY <1>3, <1>4, <1>5, <1>6, <1>7, <1>8, <1>9

(* The serial merge: git effects and the transactions that record them.    *)
LEMMA MergeSound ==
    ASSUME Inv, NEW n \in Nodes,
           \/ GitMerge(n) \/ MergeSettles(n) \/ MergeFails(n)
           \/ GitRollback(n) \/ RollbackSettles(n)
    PROVE  Inv'
  <1>1. Good(agg) /\ RestOK /\ ws \in Heads /\ dirty \in BOOLEAN /\ chain[n] \in Chains
    BY InvIsGood DEF RestOK
  <1>2. Off \in Chains /\ At("merged") \in Chains
    BY ChainTypes DEF Phases
  <1>3. CASE GitMerge(n)
    <2>1. MergeCommit(n) \in Heads
      <3>1. TaskOf[n] \in Nodes
        BY GraphAssumption
      <3>2. agg.base[TaskOf[n]] \in Heads
        BY <1>1, <3>1 DEF Good, Aggregates
      <3> QED BY <1>1, <3>1, <3>2 DEF MergeCommit, Heads
    <2>2. /\ FailedMerge("MERGE_CONFLICT") \in Chains
          /\ FailedMerge("STATE_INVARIANT_VIOLATION") \in Chains
      BY ChainTypes DEF Codes, MergeCodes
    <2>3. \/ GitStep(n, At("merged"), MergeCommit(n), FALSE)
          \/ GitStep(n, FailedMerge("MERGE_CONFLICT"), MergeCommit(n), FALSE)
          \/ GitStep(n, FailedMerge("MERGE_CONFLICT"), ws, TRUE)
          \/ GitStep(n, FailedMerge("STATE_INVARIANT_VIOLATION"), ws, dirty)
      BY <1>3 DEF GitMerge
    <2> QED BY <1>1, <1>2, <2>1, <2>2, <2>3, GitStepSound
  <1>4. CASE MergeSettles(n)
    <2>1. PICK k \in DOMAIN agg.att[n] :
            /\ IsRunning(agg, n, k)
            /\ \/ Settles(n, DecideWorkspaceMerged(agg, n, k, ws), Off,
                          {MergeIntent(n, agg.att[n][k].start)})
               \/ Settles(n, agg, Off, {})
      BY <1>4 DEF MergeSettles
    <2> QED BY <1>1, <1>2, <2>1, DecideWorkspaceMergedSound, SettlesSound
  <1>5. CASE MergeFails(n)
    <2>1. PICK k \in DOMAIN agg.att[n] :
            /\ chain' = [chain EXCEPT ![n].phase = "rollback"]
            /\ ledger' = (ledger \ {MergeIntent(n, agg.att[n][k].start)})
                            \cup {RollbackIntent(n, agg.att[n][k].start)}
      BY <1>5 DEF MergeFails
    <2>2. RollbackIntent(n, agg.att[n][k].start) \in Intents
      BY StartIsHead DEF RollbackIntent, Intents
    <2>3. chain' \in [Nodes -> Chains]
      BY <1>1, <2>1 DEF RestOK, Chains, Phases
    <2>4. RestOK'
      BY <1>1, <1>5, <2>1, <2>2, <2>3 DEF MergeFails, RestOK
    <2>5. Good(agg')
      BY <1>1, <1>5 DEF MergeFails
    <2> QED BY <2>4, <2>5, InvIsGoodNext
  <1>6. CASE GitRollback(n)
    <2>1. PICK k \in DOMAIN agg.att[n] :
            \/ GitStep(n, [chain[n] EXCEPT !.phase = "rolledback"], agg.att[n][k].start, FALSE)
            \/ GitStep(n, Off, ws, dirty)
      BY <1>6 DEF GitRollback
    <2>2. [chain[n] EXCEPT !.phase = "rolledback"] \in Chains
      BY <1>1 DEF Chains, Phases
    <2> QED BY <1>1, <1>2, <2>1, <2>2, StartIsHead, GitStepSound
  <1>7. CASE RollbackSettles(n)
    <2>1. PICK k \in DOMAIN agg.att[n] :
            /\ IsRunning(agg, n, k)
            /\ Settles(n, DecideAttemptFailure(agg, n, k, chain[n].code), Off,
                       {RollbackIntent(n, agg.att[n][k].start)})
      BY <1>7 DEF RollbackSettles
    <2> QED BY <1>1, <1>2, <2>1, DecideAttemptFailureSound, SettlesSound
  <1> QED BY <1>3, <1>4, <1>5, <1>6, <1>7

(* An interrupted chain, which settles its Attempt or leaves it to         *)
(* Recovery.                                                               *)
LEMMA ChainInterruptedSound ==
    ASSUME Inv, NEW n \in Nodes, ChainInterrupted(n)
    PROVE  Inv'
  <1>1. Good(agg) /\ RestOK
    BY InvIsGood
  <1>2. stop' \in (Nodes \X Nat) \cup {NoKey} /\ ledger' \subseteq Intents
    <2>1. Stopping(TRUE, agg, NoKey, {}) \/ UNCHANGED <<stop, ledger>>
      BY DEF ChainInterrupted
    <2>2. CASE Stopping(TRUE, agg, NoKey, {})
      BY <1>1, <2>2, StoppingSound
    <2>3. CASE UNCHANGED <<stop, ledger>>
      BY <1>1, <2>3 DEF RestOK
    <2> QED BY <2>1, <2>2, <2>3
  <1>3. RestOK'
    BY <1>1, <1>2, ChainTypes DEF ChainInterrupted, RestOK
  <1>4. Good(agg')
    BY <1>1, SettleInterruptedSound DEF ChainInterrupted
  <1> QED BY <1>3, <1>4, InvIsGoodNext

(* The stop loop records one stopped Process.                              *)
LEMMA ProcessStoppedSound ==
    ASSUME Inv, ProcessStopped
    PROVE  Inv'
  <1>1. Good(agg) /\ RestOK
    BY InvIsGood
  <1>2. PICK n \in Nodes, k \in Nat : stop = <<n, k>>
    BY <1>1 DEF ProcessStopped, RestOK
  <1>3. PICK orphan \in BOOLEAN :
          /\ agg' = DecideProcessStopped(agg, stop, orphan)
          /\ Stopping(ContinuesStop(agg, orphan), agg, stop, StopIntents(stop))
    BY DEF ProcessStopped
  <1>4. Good(agg')
    BY <1>1, <1>2, <1>3, DecideProcessStoppedSound
  <1>5. ContinuesStop(agg, orphan) \in BOOLEAN
    BY DEF ContinuesStop
  <1>6. stop' \in (Nodes \X Nat) \cup {NoKey} /\ ledger' \subseteq Intents
    BY <1>1, <1>3, <1>5, StoppingSound
  <1>7. RestOK'
    BY <1>1, <1>6 DEF ProcessStopped, RestOK
  <1> QED BY <1>4, <1>7, InvIsGoodNext

(* Ctrl+C, an error and a crash touch no persisted row.                    *)
LEMMA FaultsSound ==
    ASSUME Inv, Interrupt \/ (\E n \in Nodes : ChainError(n)) \/ Crash
    PROVE  Inv'
  <1>1. Good(agg) /\ RestOK
    BY InvIsGood
  <1>2. Good(agg')
    BY <1>1 DEF Interrupt, ChainError, Crash
  <1>3. RestOK'
    BY <1>1, ChainTypes DEF Interrupt, ChainError, Crash, RestOK
  <1> QED BY <1>2, <1>3, InvIsGoodNext

-----------------------------------------------------------------------------
(* Every step keeps the invariant.                                         *)
LEMMA NextSound == Inv /\ [Next]_vars => Inv'
  <1> SUFFICES ASSUME Inv, [Next]_vars PROVE Inv'
    OBVIOUS
  <1>1. CASE PauseCommand \/ ResumeCommand \/ CancelCommand \/ CompleteCommand
    BY <1>1, CommandsSound
  <1>2. CASE DispatchCommand
    BY <1>2, DispatchCommandSound
  <1>3. ASSUME NEW n \in Nodes, ChainStep(n) PROVE Inv'
    <2>1. CASE Dispatch(n)
      BY <2>1, DispatchSound
    <2>2. CASE \/ TaskSucceeds(n) \/ TaskFails(n)
               \/ VerificationPasses(n) \/ VerificationFails(n)
               \/ ReviewPasses(n) \/ ReviewFails(n) \/ Complete(n)
      BY <2>2, SessionsSound
    <2>3. CASE \/ GitMerge(n) \/ MergeSettles(n) \/ MergeFails(n)
               \/ GitRollback(n) \/ RollbackSettles(n)
      BY <2>3, MergeSound
    <2>4. CASE ChainInterrupted(n)
      BY <2>4, ChainInterruptedSound
    <2>5. CASE ReachCheckpoint(n)
      BY <2>5, ReachCheckpointSound
    <2> QED BY <1>3, <2>1, <2>2, <2>3, <2>4, <2>5 DEF ChainStep
  <1>4. CASE ProcessStopped
    BY <1>4, ProcessStoppedSound
  <1>5. CASE Interrupt \/ (\E n \in Nodes : ChainError(n)) \/ Crash
    BY <1>5, FaultsSound
  <1>6. CASE UNCHANGED vars
    BY <1>6 DEF vars, Inv, TypeOK, OneActiveRun, RunningAttemptIsNewest, IsRunning
  <1> QED BY <1>1, <1>2, <1>3, <1>4, <1>5, <1>6 DEF Next

(* The inductive invariant holds throughout every execution.               *)
THEOREM InvHolds == Spec => []Inv
  BY InitSound, NextSound, PTL DEF Spec

(* Every row the execution writes has the shape the State Store declares   *)
(* for it, whatever the graph, the bounds and the faults                   *)
(* (internal/model/runtime.go, internal/decision).                         *)
THEOREM TypeCorrect == Spec => []TypeOK
  <1>1. Inv => TypeOK
    BY DEF Inv
  <1> QED BY <1>1, InvHolds, PTL

(* At most one Run is active, it is the newest, and a Dispatch Gate is     *)
(* open only on a RUNNING Run (internal/decision/kernel.go, activeRun and  *)
(* closePriorRuns).                                                        *)
THEOREM RunsAreOrdered == Spec => []OneActiveRun
  <1>1. Inv => OneActiveRun
    BY DEF Inv
  <1> QED BY <1>1, InvHolds, PTL

(* No Node has two Attempts in flight and no settlement leaves an Attempt  *)
(* running behind its Node (internal/decision/execution.go).               *)
THEOREM AttemptsAreNewest == Spec => []RunningAttemptIsNewest
  <1>1. Inv => RunningAttemptIsNewest
    BY DEF Inv
  <1> QED BY <1>1, InvHolds, PTL

-----------------------------------------------------------------------------
(* The second invariant: where the Workflow, the chains of a pass and the  *)
(* stop loop stand to each other.                                          *)

(* A chain that has dispatched its Attempt and not settled it.             *)
Underway(n) == chain[n].phase \notin {"off", "queued", "completing"}

(* While a pass is live nothing but a failure closes the Run: the chains   *)
(* find the Workflow RUNNING and their Attempts in flight.                 *)
PassAlive ==
    ~interrupted =>
        \A n \in Nodes : Underway(n) => Working(agg) /\ \E k \in DOMAIN agg.att[n] : IsRunning(agg, n, k)

(* A pass and a persisted cancel intent exclude each other.                *)
NoPassCancels == \A n \in Nodes : chain[n].phase # "off" => ~agg.cancel

(* The stop loop waits for a process that runs; a pass it shares the       *)
(* process with was interrupted.                                           *)
StopIsRunning ==
    stop # NoKey =>
        /\ stop \in RunningProcesses(agg)
        /\ \A n \in Nodes : chain[n].phase # "off" => interrupted

(* A cancel that is not finished is on its way: the Run stops, and a       *)
(* process that still runs has a persisted stop intent.                    *)
CancelIsPending ==
    Cancelling(agg) /\ "workflow" \notin agg.finds =>
        /\ \/ ActiveStatus(agg) = "STOPPING"
           \/ ~HasActiveRun(agg) /\ ~HasRunningAttempt(agg)
        /\ HasRunningProcess(agg) =>
              \E key \in RunningProcesses(agg) : StopIntents(key) \subseteq ledger

(* A merge that waits for its chain's first transaction is the only merge. *)
QueuedMergeIsAlone ==
    \A m, n \in Merges : chain[n].phase = "queued" /\ m # n =>
        /\ chain[m].phase = "off"
        /\ \A k \in DOMAIN agg.att[m] : ~IsRunning(agg, m, k)

PassInv ==
    /\ Calm(agg) /\ Books(agg)
    /\ PassAlive /\ NoPassCancels /\ StopIsRunning /\ CancelIsPending
    /\ QueuedMergeIsAlone /\ MergesAreSerial

-----------------------------------------------------------------------------

(* The merges of the graph are Nodes.                                      *)
LEMMA MergesAreNodes == Merges \subseteq Nodes
  BY DEF Merges

(* With the same process rows the same processes run.                      *)
LEMMA KeptProcesses ==
    ASSUME NEW s, NEW t, Kept(s, t)
    PROVE  RunningProcesses(t) = RunningProcesses(s)
  <1>1. \A n \in Nodes : {j \in DOMAIN t.att[n] : t.att[n][j].process = "RUNNING"}
                       = {j \in DOMAIN s.att[n] : s.att[n][j].process = "RUNNING"}
    BY DEF Kept, SameBooks, SameProcesses
  <1>2. ASSUME NEW key, key \in RunningProcesses(t) PROVE key \in RunningProcesses(s)
    <2>1. PICK n \in Nodes : \E k \in DOMAIN t.att[n] : key = <<n, k>>
      BY <1>2, QuietRows
    <2>2. PICK k \in DOMAIN t.att[n] : key = <<n, k>>
      BY <2>1
    <2>3. t.att[n][k].process = "RUNNING"
      BY <1>2, <2>2, QuietRows
    <2> QED BY <1>1, <2>2, <2>3, QuietRows
  <1>3. ASSUME NEW key, key \in RunningProcesses(s) PROVE key \in RunningProcesses(t)
    <2>1. PICK n \in Nodes : \E k \in DOMAIN s.att[n] : key = <<n, k>>
      BY <1>3, QuietRows
    <2>2. PICK k \in DOMAIN s.att[n] : key = <<n, k>>
      BY <2>1
    <2>3. s.att[n][k].process = "RUNNING"
      BY <1>3, <2>2, QuietRows
    <2> QED BY <1>1, <2>2, <2>3, QuietRows
  <1> QED BY <1>2, <1>3

(* No Attempt starts: what held of the merges in flight still holds.       *)
LEMMA MergesStay ==
    ASSUME PassInv, SameBooks(agg, agg'),
           \A n \in Nodes : chain'[n].phase = "off" \/ chain'[n] = chain[n]
    PROVE  QueuedMergeIsAlone' /\ MergesAreSerial'
  <1>1. \A n \in Nodes : \A k \in DOMAIN agg'.att[n] :
           IsRunning(agg', n, k) => k \in DOMAIN agg.att[n] /\ IsRunning(agg, n, k)
    BY DEF SameBooks, IsRunning
  <1>2. MergesAreSerial'
    BY <1>1, MergesAreNodes DEF PassInv, MergesAreSerial
  <1>3. QueuedMergeIsAlone'
    <2> SUFFICES ASSUME NEW m \in Merges, NEW n \in Merges, chain'[n].phase = "queued", m # n
                 PROVE  /\ chain'[m].phase = "off"
                        /\ \A k \in DOMAIN agg'.att[m] : ~IsRunning(agg', m, k)
      BY DEF QueuedMergeIsAlone
    <2>1. m \in Nodes /\ n \in Nodes
      BY MergesAreNodes
    <2>2. chain[n].phase = "queued"
      BY <2>1
    <2>3. chain[m].phase = "off" /\ \A k \in DOMAIN agg.att[m] : ~IsRunning(agg, m, k)
      BY <2>2 DEF PassInv, QueuedMergeIsAlone
    <2> QED BY <1>1, <2>1, <2>3
  <1> QED BY <1>2, <1>3

(* A step of a command, of the stop loop or of an interrupted chain.       *)
LEMMA RestFrame ==
    ASSUME PassInv, Calm(agg'), SameBooks(agg, agg'),
           \A n \in Nodes : \/ chain'[n].phase = "off"
                            \/ chain'[n] = chain[n] /\ interrupted' /\ agg'.cancel = agg.cancel,
           StopIsRunning', CancelIsPending'
    PROVE  PassInv'
  <1>1. Books(agg')
    BY SameBooksSameAccount DEF PassInv
  <1>2. PassAlive'
    BY DEF PassAlive, Underway
  <1>3. NoPassCancels'
    BY DEF PassInv, NoPassCancels
  <1>4. QueuedMergeIsAlone' /\ MergesAreSerial'
    BY MergesStay
  <1> QED BY <1>1, <1>2, <1>3, <1>4 DEF PassInv

-----------------------------------------------------------------------------
(* Commands.                                                               *)

(* Recovery lets a command run only when every process with a stop intent  *)
(* has ended: a cancel under way has no process left to wait for.          *)
LEMMA RecoveredCancel ==
    ASSUME Inv, PassInv, Command, Cancelling(agg), "workflow" \notin agg.finds
    PROVE  /\ ~HasRunningProcess(agg)
           /\ ActiveStatus(agg) # "QUIESCING"
           /\ HasRunningAttempt(agg) => ActiveStatus(agg) = "STOPPING"
  <1>1. CancelIsPending /\ Good(agg)
    BY InvIsGood DEF PassInv
  <1>2. ~HasRunningProcess(agg)
    <2> SUFFICES ASSUME HasRunningProcess(agg) PROVE FALSE
      OBVIOUS
    <2>1. PICK key \in RunningProcesses(agg) : StopIntents(key) \subseteq ledger
      BY <1>1 DEF CancelIsPending
    <2>2. PICK n \in Nodes : \E k \in DOMAIN agg.att[n] : key = <<n, k>>
      BY <2>1, QuietRows
    <2>3. PICK k \in DOMAIN agg.att[n] : key = <<n, k>>
      BY <2>2
    <2>4. key # NoKey
      BY <2>3, GraphAssumption DEF NoKey
    <2> DEFINE i == [kind |-> "stop", node |-> n, number |-> k, head |-> {}]
    <2>5. i \in ledger
      BY <2>1, <2>3, <2>4 DEF StopIntents
    <2>6. i.kind = "stop" /\ i.node = n /\ i.number = k
      OBVIOUS
    <2>7. Accepted(i)
      BY <2>5 DEF Command, RecoveryAccepts
    <2> HIDE DEF i
    <2>8. agg.att[n][k].process # "RUNNING"
      BY <2>6, <2>7 DEF Accepted
    <2> QED BY <2>1, <2>3, <2>8, QuietRows
  <1>3. ActiveStatus(agg) # "QUIESCING"
    BY <1>1, NoneIsNoRun DEF CancelIsPending
  <1>4. HasRunningAttempt(agg) => ActiveStatus(agg) = "STOPPING"
    BY <1>1 DEF CancelIsPending
  <1> QED BY <1>2, <1>3, <1>4

(* What the sweep leaves of a cancel intent: it is finished, or an Attempt *)
(* that runs keeps the Run stopping.                                       *)
LEMMA SweptCommand ==
    ASSUME Inv, PassInv, Command
    PROVE  LET s == Sweep(agg) IN
           /\ Good(s) /\ Calm(s) /\ Kept(agg, s) /\ s.finds = agg.finds
           /\ Cancelling(s) /\ "workflow" \notin s.finds =>
                 s = agg /\ ~HasRunningProcess(s) /\ ActiveStatus(s) = "STOPPING"
  <1> DEFINE s == Sweep(agg)
  <1>1. Good(agg) /\ Calm(agg) /\ Good(s)
    BY InvIsGood, SweepSound DEF PassInv
  <1>2. /\ Calm(s) /\ Kept(agg, s) /\ s.finds = agg.finds
        /\ \/ s = agg /\ (Cancelling(agg) => HasRunningAttempt(agg) \/ HasRunningProcess(agg))
           \/ CancelDone(agg, s)
           \/ /\ Rests(agg, s)
              /\ Cancelling(agg) => ActiveStatus(agg) = "QUIESCING" \/ HasRunningProcess(agg)
    BY <1>1, SweepOutcome
  <1>3. ASSUME Cancelling(s), "workflow" \notin s.finds
        PROVE  s = agg /\ ~HasRunningProcess(s) /\ ActiveStatus(s) = "STOPPING"
    <2>1. ~CancelDone(agg, s)
      BY <1>3 DEF Cancelling, CancelDone, RuntimeTerminal
    <2>2. ASSUME ~Cancelling(agg) PROVE FALSE
      <3>1. s # agg
        BY <1>3, <2>2
      <3>2. agg.cancel = s.cancel
        BY <1>2, <2>1, <3>1 DEF Rests
      <3>3. agg.runtime = "CANCELLED"
        BY <1>1, <1>3, <2>2, <3>2 DEF Cancelling, Calm, RuntimeTerminal
      <3>4. ~HasActiveRun(agg)
        BY <1>1, <3>3 DEF Calm, Quiet
      <3>5. ActiveStatus(agg) = "none"
        BY <3>4 DEF ActiveStatus
      <3>6. ~NeedsReconcile(agg)
        BY <2>2, <3>3, <3>5 DEF NeedsReconcile
      <3> QED BY <3>1, <3>6 DEF Sweep
    <2>3. /\ ~HasRunningProcess(agg) /\ ActiveStatus(agg) # "QUIESCING"
          /\ HasRunningAttempt(agg) => ActiveStatus(agg) = "STOPPING"
      BY <1>2, <1>3, <2>2, RecoveredCancel
    <2> QED BY <1>2, <2>1, <2>2, <2>3
  <1> QED BY <1>1, <1>2, <1>3

(* A command starts with every chain off and leaves them off.              *)
LEMMA CommandFrame ==
    ASSUME PassInv, Command, chain' = chain, Calm(agg'), SameBooks(agg, agg'),
           stop' = NoKey \/ stop' \in RunningProcesses(agg'), CancelIsPending'
    PROVE  PassInv'
  <1>1. \A n \in Nodes : chain'[n].phase = "off"
    BY DEF Command, Idle
  <1>2. StopIsRunning'
    BY <1>1 DEF StopIsRunning
  <1> QED BY <1>1, <1>2, RestFrame

(* A pause.                                                                *)
LEMMA PauseKeeps ==
    ASSUME Inv, PassInv, PauseCommand
    PROVE  PassInv' /\ SameBooks(agg, agg')
  <1> DEFINE s == Sweep(agg)
             t == DecidePause(s)
  <1>1. /\ Good(s) /\ Calm(s) /\ Kept(agg, s) /\ s.finds = agg.finds
        /\ Cancelling(s) /\ "workflow" \notin s.finds =>
               s = agg /\ ~HasRunningProcess(s) /\ ActiveStatus(s) = "STOPPING"
    BY SweptCommand DEF PauseCommand
  <1>2. /\ Command /\ s.runtime = "RUNNING" /\ agg' = t
        /\ Stopping(PauseStops(s), s, NoKey, {}) /\ chain' = chain
    BY DEF PauseCommand
  <1> HIDE DEF s
  <1>3. /\ Calm(t) /\ Kept(s, t) /\ t.finds = s.finds
        /\ \/ CancelDone(s, t) /\ Cancelling(s)
           \/ Rests(s, t) /\ ~Cancelling(s)
           \/ Stops(s, t)
    BY <1>1, <1>2, PauseOutcome
  <1> HIDE DEF t
  <1>4. SameBooks(agg, t) /\ RunningProcesses(t) = RunningProcesses(s)
    BY <1>1, <1>3, KeptTrans, KeptProcesses DEF Kept
  <1>5. stop' = NoKey \/ stop' \in RunningProcesses(agg')
    BY <1>2, <1>4 DEF Stopping, NextStop
  <1>6. ASSUME Cancelling(t), "workflow" \notin t.finds
        PROVE  ActiveStatus(t) = "STOPPING" /\ ~HasRunningProcess(t)
    <2>1. Stops(s, t) /\ Cancelling(s)
      BY <1>2, <1>3, <1>6 DEF Cancelling, CancelDone, Rests, Stops, RuntimeTerminal
    <2>2. ~HasRunningProcess(s) /\ ActiveStatus(s) = "STOPPING"
      BY <1>1, <1>3, <1>6, <2>1
    <2>3. HasActiveRun(t)
      BY <1>1, <2>1, <2>2, NoneIsNoRun DEF Stops
    <2>4. Good(t)
      BY <1>1, <1>2, DecidePauseSound DEF t
    <2> QED BY <1>4, <2>1, <2>2, <2>3, <2>4, NoneIsNoRun DEF Stops, HasRunningProcess
  <1>7. CancelIsPending'
    BY <1>2, <1>6 DEF CancelIsPending
  <1> QED BY <1>2, <1>3, <1>4, <1>5, <1>7, CommandFrame

(* A resumption.                                                           *)
LEMMA ResumeKeeps ==
    ASSUME Inv, PassInv, ResumeCommand
    PROVE  PassInv' /\ SameBooks(agg, agg')
  <1> DEFINE s == Sweep(agg)
             t == DecideResume(s)
  <1>1. /\ Good(s) /\ Calm(s) /\ Kept(agg, s) /\ s.finds = agg.finds
        /\ Cancelling(s) /\ "workflow" \notin s.finds =>
               s = agg /\ ~HasRunningProcess(s) /\ ActiveStatus(s) = "STOPPING"
    BY SweptCommand DEF ResumeCommand
  <1>2. Command /\ CanResume(s) /\ agg' = t /\ stop' = stop /\ chain' = chain
    BY DEF ResumeCommand
  <1> HIDE DEF s
  <1>3. Calm(t) /\ SameRows(s, t) /\ t.cancel = s.cancel
    BY <1>1, ResumeOutcome
  <1> HIDE DEF t
  <1>4. SameBooks(agg, t)
    BY <1>1, <1>3, SameRowsFacts, KeptTrans DEF Kept
  <1>5. stop' = NoKey
    BY <1>2 DEF Command, Idle
  <1>6. ~(Cancelling(t) /\ "workflow" \notin t.finds)
    BY <1>1, <1>2, <1>3 DEF Cancelling, CanResume, SameRows, RuntimeTerminal
  <1>7. CancelIsPending'
    BY <1>2, <1>6 DEF CancelIsPending
  <1> QED BY <1>2, <1>3, <1>4, <1>5, <1>7, CommandFrame

(* A cancellation.                                                         *)
LEMMA CancelKeeps ==
    ASSUME Inv, PassInv, CancelCommand
    PROVE  PassInv' /\ SameBooks(agg, agg')
  <1> DEFINE s == Sweep(agg)
             t == DecideCancel(s)
  <1>1. Good(s) /\ Calm(s) /\ Kept(agg, s) /\ s.finds = agg.finds
    BY SweptCommand DEF CancelCommand
  <1>2. /\ Command /\ s.runtime \notin RuntimeTerminal /\ agg' = t
        /\ Stopping(TRUE, s, NoKey, {}) /\ chain' = chain
    BY DEF CancelCommand
  <1> HIDE DEF s
  <1>3. /\ Calm(t) /\ Kept(s, t) /\ t.finds = s.finds
        /\ \/ CancelDone(s, t)
           \/ /\ SameRows(s, t) /\ t.runtime = s.runtime
              /\ HasActiveRun(s) => ActiveStatus(t) = "STOPPING"
              /\ HasActiveRun(t) <=> HasActiveRun(s)
    BY <1>1, <1>2, CancelOutcome
  <1> HIDE DEF t
  <1>4. SameBooks(agg, t) /\ RunningProcesses(t) = RunningProcesses(s)
    BY <1>1, <1>3, KeptTrans, KeptProcesses DEF Kept
  <1>5. /\ stop' = NoKey \/ stop' \in RunningProcesses(t)
        /\ HasRunningProcess(t) => stop' \in RunningProcesses(t)
        /\ StopIntents(stop') \subseteq ledger'
    BY <1>2, <1>4, QuietRows DEF Stopping, NextStop, HasRunningProcess
  <1>6. ASSUME Cancelling(t), "workflow" \notin t.finds
        PROVE  \/ ActiveStatus(t) = "STOPPING"
               \/ ~HasActiveRun(t) /\ ~HasRunningAttempt(t)
    BY <1>3, <1>6 DEF Cancelling, CancelDone, RuntimeTerminal, Calm
  <1>7. CancelIsPending'
    BY <1>2, <1>5, <1>6 DEF CancelIsPending
  <1> QED BY <1>2, <1>3, <1>4, <1>5, <1>7, CommandFrame

(* The command that completes the Workflow.                                *)
LEMMA CompleteCommandKeeps ==
    ASSUME Inv, PassInv, CompleteCommand
    PROVE  PassInv' /\ SameBooks(agg, agg')
  <1> DEFINE s == Sweep(agg)
             t == DecideComplete(s)
  <1>1. Good(s) /\ Calm(s) /\ Kept(agg, s) /\ s.finds = agg.finds
    BY SweptCommand DEF CompleteCommand
  <1>2. Command /\ CanComplete(s) /\ agg' = t /\ stop' = stop /\ chain' = chain
    BY DEF CompleteCommand
  <1> HIDE DEF s
  <1>3. Calm(t) /\ SameBooks(s, t) /\ t.cancel = FALSE
    BY <1>1, <1>2, CompleteOutcome
  <1> HIDE DEF t
  <1>4. SameBooks(agg, t)
    BY <1>1, <1>3, KeptTrans DEF Kept
  <1>5. stop' = NoKey
    BY <1>2 DEF Command, Idle
  <1>6. CancelIsPending'
    BY <1>2, <1>3 DEF CancelIsPending, Cancelling
  <1> QED BY <1>2, <1>3, <1>4, <1>5, <1>6, CommandFrame

(* A pass starts only with an open gate, which no cancel intent leaves,    *)
(* and admits a merge only when no other merge runs.                       *)
LEMMA DispatchCommandKeeps ==
    ASSUME Inv, PassInv, DispatchCommand
    PROVE  PassInv' /\ SameBooks(agg, agg')
  <1> DEFINE s == Sweep(agg)
  <1>1. /\ Good(s) /\ Calm(s) /\ Kept(agg, s) /\ s.finds = agg.finds
        /\ Cancelling(s) /\ "workflow" \notin s.finds =>
               s = agg /\ ~HasRunningProcess(s) /\ ActiveStatus(s) = "STOPPING"
    BY SweptCommand DEF DispatchCommand
  <1>2. Command /\ agg' = s /\ stop' = stop /\ ledger' = ledger
    BY DEF DispatchCommand
  <1>3. PICK batch \in SUBSET Nodes :
          /\ IsBatch(batch, s.node, GateOpen(s), Deferred(s), AttemptCount(s) >= RunBudget)
          /\ chain' = [n \in Nodes |-> IF n \in batch THEN At("queued") ELSE Off]
    BY DEF DispatchCommand
  <1> HIDE DEF s
  <1>4. \A n \in Nodes : /\ n \in batch => chain'[n].phase = "queued"
                         /\ n \notin batch => chain'[n].phase = "off"
    BY <1>3 DEF At, Off
  <1>5. \A n \in batch :
          /\ n \in Eligible(s.node, GateOpen(s)) /\ GateOpen(s)
          /\ n \in Merges => MergeAdmitted(n, s.node, Eligible(s.node, GateOpen(s)))
          /\ n \notin Deferred(s)
    BY <1>3 DEF IsBatch, SelectedFrom, Eligible, Schedulable
  <1>6. SameBooks(agg, s)
    BY <1>1 DEF Kept
  <1>7. Books(agg')
    BY <1>2, <1>6, SameBooksSameAccount DEF PassInv
  <1>8. PassAlive'
    BY <1>4 DEF PassAlive, Underway
  <1>9. NoPassCancels'
    <2> SUFFICES ASSUME NEW n \in Nodes, chain'[n].phase # "off", s.cancel PROVE FALSE
      BY <1>2 DEF NoPassCancels
    <2>1. n \in batch /\ GateOpen(s) /\ "workflow" \notin s.finds
      BY <1>4, <1>5 DEF Deferred
    <2>2. ActiveStatus(s) = "RUNNING"
      BY <2>1 DEF GateOpen
    <2>3. s.runtime \notin RuntimeTerminal
      BY <1>1, <2>2, NoneIsNoRun DEF Calm, Quiet, RuntimeTerminal
    <2> QED BY <1>1, <2>1, <2>2, <2>3 DEF Cancelling
  <1>10. StopIsRunning'
    BY <1>2 DEF StopIsRunning, Command, Idle
  <1>11. CancelIsPending'
    BY <1>1, <1>2 DEF CancelIsPending
  <1>12. MergesAreSerial'
    <2>1. \A n \in Nodes : \A k \in DOMAIN s.att[n] :
             IsRunning(s, n, k) => k \in DOMAIN agg.att[n] /\ IsRunning(agg, n, k)
      BY <1>6 DEF SameBooks, IsRunning
    <2> QED BY <1>2, <2>1, MergesAreNodes DEF PassInv, MergesAreSerial
  <1>13. QueuedMergeIsAlone'
    <2> SUFFICES ASSUME NEW m \in Merges, NEW n \in Merges, chain'[n].phase = "queued", m # n
                 PROVE  /\ chain'[m].phase = "off"
                        /\ \A k \in DOMAIN s.att[m] : ~IsRunning(s, m, k)
      BY <1>2 DEF QueuedMergeIsAlone
    <2>1. m \in Nodes /\ n \in Nodes /\ n \in batch
      BY <1>4, MergesAreNodes
    <2>2. /\ RunningNodes(s.node) \cap Merges = {}
          /\ \A j \in Eligible(s.node, GateOpen(s)) \cap Merges : Rank[n] <= Rank[j]
      BY <1>5, <2>1 DEF MergeAdmitted
    <2>3. m \notin batch
      <3> SUFFICES ASSUME m \in batch PROVE FALSE
        OBVIOUS
      <3>1. Rank[n] <= Rank[m] /\ Rank[m] <= Rank[n]
        BY <1>5, <2>1, <2>2 DEF MergeAdmitted
      <3>2. Rank[n] \in Nat /\ Rank[m] \in Nat
        BY <2>1, GraphAssumption
      <3>3. Rank[n] = Rank[m]
        BY <3>1, <3>2
      <3> QED BY <2>1, <3>3, GraphAssumption
    <2>4. s.node[m] # "RUNNING"
      BY <2>1, <2>2 DEF RunningNodes
    <2> QED BY <1>1, <1>4, <2>1, <2>3, <2>4 DEF Good, NewestRuns, IsRunning
  <1> QED BY <1>1, <1>2, <1>6, <1>7, <1>8, <1>9, <1>10, <1>11, <1>12, <1>13 DEF PassInv

-----------------------------------------------------------------------------
(* The stop loop and the interrupted chains.                               *)

(* A step of the stop loop.                                                *)
LEMMA ProcessStoppedKeeps ==
    ASSUME Inv, PassInv, ProcessStopped
    PROVE  PassInv' /\ SameBooks(agg, agg')
  <1>1. /\ Good(agg) /\ Calm(agg) /\ stop # NoKey /\ stop \in RunningProcesses(agg)
        /\ \A n \in Nodes : chain[n].phase # "off" => interrupted
    BY InvIsGood DEF PassInv, StopIsRunning, ProcessStopped
  <1>2. PICK n \in Nodes : \E k \in DOMAIN agg.att[n] : stop = <<n, k>>
    BY <1>1, QuietRows
  <1>3. PICK k \in DOMAIN agg.att[n] : stop = <<n, k>>
    BY <1>2
  <1>4. PICK orphan \in BOOLEAN :
          /\ agg' = DecideProcessStopped(agg, stop, orphan)
          /\ Stopping(ContinuesStop(agg, orphan), agg, stop, StopIntents(stop))
    BY DEF ProcessStopped
  <1>5. chain' = chain /\ interrupted' = interrupted
    BY DEF ProcessStopped
  <1> DEFINE t == DecideProcessStopped(agg, <<n, k>>, orphan)
  <1>6. /\ Calm(t) /\ SameBooks(agg, t)
        /\ RunningProcesses(t) = RunningProcesses(agg) \ {<<n, k>>}
        /\ t.cancel = agg.cancel
        /\ orphan => "workflow" \in t.finds
        /\ ~orphan => t.finds = agg.finds
        /\ \/ CancelDone(agg, t)
           \/ Rests(agg, t) /\ (orphan \/ ~Cancelling(agg))
           \/ orphan
           \/ /\ t.runtime = agg.runtime /\ ActiveStatus(t) = ActiveStatus(agg)
              /\ HasActiveRun(t) <=> HasActiveRun(agg)
              /\ HasRunningAttempt(t) <=> HasRunningAttempt(agg)
    BY <1>1, <1>3, ProcessStoppedOutcome
  <1>7. agg' = t
    BY <1>3, <1>4
  <1> HIDE DEF t
  <1>8. stop' = NoKey \/ stop' \in RunningProcesses(t)
    BY <1>3, <1>4, <1>6 DEF Stopping, NextStop
  <1>9. StopIsRunning'
    BY <1>1, <1>5, <1>7, <1>8 DEF StopIsRunning
  <1>10. ASSUME Cancelling(t), "workflow" \notin t.finds
         PROVE  /\ \/ ActiveStatus(t) = "STOPPING"
                   \/ ~HasActiveRun(t) /\ ~HasRunningAttempt(t)
                /\ HasRunningProcess(t) =>
                      \E key \in RunningProcesses(t) : StopIntents(key) \subseteq ledger'
    <2>1. ~orphan /\ agg.cancel /\ t.finds = agg.finds
      BY <1>6, <1>10 DEF Cancelling
    <2>2. Cancelling(agg)
      <3>1. agg.runtime # "CANCELLED"
        <4> SUFFICES ASSUME agg.runtime = "CANCELLED" PROVE FALSE
          OBVIOUS
        <4>1. agg.att[n][k].process # "RUNNING"
          BY <1>1, <1>3 DEF Calm, Quiet
        <4> QED BY <1>1, <1>3, <4>1, QuietRows
      <3>2. agg.runtime # "SUCCEEDED"
        BY <1>1, <2>1 DEF Calm
      <3> QED BY <2>1, <3>1, <3>2 DEF Cancelling, RuntimeTerminal
    <2>3. ~CancelDone(agg, t)
      BY <1>10 DEF CancelDone, Cancelling, RuntimeTerminal
    <2>4. /\ ActiveStatus(t) = ActiveStatus(agg)
          /\ HasActiveRun(t) <=> HasActiveRun(agg)
          /\ HasRunningAttempt(t) <=> HasRunningAttempt(agg)
      BY <1>6, <2>1, <2>2, <2>3
    <2>5. ActiveStatus(agg) = "STOPPING" \/ (~HasActiveRun(agg) /\ ~HasRunningAttempt(agg))
      BY <1>10, <2>1, <2>2 DEF PassInv, CancelIsPending
    <2>6. ASSUME HasRunningProcess(t)
          PROVE  \E key \in RunningProcesses(t) : StopIntents(key) \subseteq ledger'
      <3>1. ContinuesStop(agg, orphan)
        BY <2>1 DEF ContinuesStop
      <3>2. HasRunningProcessExcept(agg, stop)
        BY <1>3, <1>6, <2>6 DEF HasRunningProcess, HasRunningProcessExcept
      <3>3. stop' \in RunningProcesses(t) /\ StopIntents(stop') \subseteq ledger'
        BY <1>3, <1>4, <1>6, <3>1, <3>2 DEF Stopping, NextStop
      <3> QED BY <3>3
    <2> QED BY <2>4, <2>5, <2>6
  <1>11. CancelIsPending'
    BY <1>7, <1>10 DEF CancelIsPending
  <1>12. \A m \in Nodes : \/ chain'[m].phase = "off"
                          \/ chain'[m] = chain[m] /\ interrupted' /\ agg'.cancel = agg.cancel
    BY <1>1, <1>5, <1>6, <1>7
  <1> QED BY <1>6, <1>7, <1>9, <1>11, <1>12, RestFrame

(* An interrupted chain.                                                   *)
LEMMA ChainInterruptedKeeps ==
    ASSUME Inv, PassInv, NEW n \in Nodes, ChainInterrupted(n)
    PROVE  PassInv'
  <1>1. Good(agg) /\ Calm(agg) /\ ~agg.cancel /\ interrupted
    BY InvIsGood DEF PassInv, NoPassCancels, ChainInterrupted
  <1>2. Calm(agg') /\ agg'.cancel = agg.cancel /\ Kept(agg, agg')
    <2>1. CASE agg' = agg
      BY <1>1, <2>1, KeptRefl
    <2>2. CASE agg' # agg
      <3>1. PICK k \in DOMAIN agg.att[n] : IsRunning(agg, n, k) /\ agg' = SettleInterrupted(agg, n, k)
        BY <2>2 DEF ChainInterrupted
      <3> QED BY <1>1, <3>1, InterruptedOutcome
    <2> QED BY <2>1, <2>2
  <1>3. RunningProcesses(agg') = RunningProcesses(agg)
    BY <1>2, KeptProcesses
  <1>4. stop' = stop \/ stop' = NoKey \/ stop' \in RunningProcesses(agg)
    BY DEF ChainInterrupted, Stopping, NextStop
  <1>5. interrupted' = interrupted /\ chain' = [chain EXCEPT ![n] = Off]
    BY DEF ChainInterrupted
  <1>6. StopIsRunning'
    BY <1>1, <1>3, <1>4, <1>5 DEF StopIsRunning, PassInv
  <1>7. CancelIsPending'
    BY <1>1, <1>2 DEF CancelIsPending, Cancelling
  <1>8. \A m \in Nodes : \/ chain'[m].phase = "off"
                         \/ chain'[m] = chain[m] /\ interrupted' /\ agg'.cancel = agg.cancel
    BY <1>1, <1>2, <1>5, InvIsGood DEF RestOK, Off
  <1> QED BY <1>2, <1>6, <1>7, <1>8, RestFrame DEF Kept

-----------------------------------------------------------------------------
(* The chains of a live pass.                                              *)

(* One chain's transaction: its Attempt alone changes, and the Workflow    *)
(* still works wherever another chain has an Attempt in flight.            *)
LEMMA LiveFrame ==
    ASSUME Inv, PassInv, NEW n \in Nodes, ~interrupted, chain[n].phase # "off",
           NEW then, then.phase # "queued", chain' = [chain EXCEPT ![n] = then],
           interrupted' = interrupted, stop' = stop,
           Calm(agg'), Books(agg'), agg'.cancel = agg.cancel,
           \A m \in Nodes \ {n} : agg'.att[m] = agg.att[m],
           Elsewhere(agg, n) => Working(agg'),
           then.phase \notin {"off", "completing"} =>
               Working(agg') /\ \E k \in DOMAIN agg'.att[n] : IsRunning(agg', n, k),
           (\E k \in DOMAIN agg'.att[n] : IsRunning(agg', n, k)) =>
               chain[n].phase = "queued" \/ \E k \in DOMAIN agg.att[n] : IsRunning(agg, n, k)
    PROVE  PassInv'
  <1>1. /\ chain'[n] = then
        /\ \A m \in Nodes \ {n} : chain'[m] = chain[m]
    BY InvIsGood DEF RestOK
  <1>2. ~agg.cancel /\ ~agg'.cancel /\ stop = NoKey
    BY DEF PassInv, NoPassCancels, StopIsRunning
  <1>3. \A m \in Nodes \ {n} : \A k : IsRunning(agg', m, k) <=> IsRunning(agg, m, k)
    BY DEF IsRunning
  <1>4. PassAlive'
    <2> SUFFICES ASSUME NEW m \in Nodes, chain'[m].phase \notin {"off", "queued", "completing"}
                 PROVE  Working(agg') /\ \E k \in DOMAIN agg'.att[m] : IsRunning(agg', m, k)
      BY DEF PassAlive, Underway
    <2>1. CASE m = n
      BY <1>1, <2>1
    <2>2. CASE m # n
      <3>1. Underway(m)
        BY <1>1, <2>2 DEF Underway
      <3>2. PICK k \in DOMAIN agg.att[m] : IsRunning(agg, m, k)
        BY <3>1 DEF PassInv, PassAlive
      <3>3. Elsewhere(agg, n)
        BY <2>2, <3>2 DEF Elsewhere, IsRunning
      <3> QED BY <1>3, <2>2, <3>2, <3>3
    <2> QED BY <2>1, <2>2
  <1>5. NoPassCancels' /\ StopIsRunning' /\ CancelIsPending'
    BY <1>2 DEF NoPassCancels, StopIsRunning, CancelIsPending, Cancelling
  <1>6. QueuedMergeIsAlone'
    <2> SUFFICES ASSUME NEW m \in Merges, NEW q \in Merges, chain'[q].phase = "queued", m # q
                 PROVE  /\ chain'[m].phase = "off"
                        /\ \A k \in DOMAIN agg'.att[m] : ~IsRunning(agg', m, k)
      BY DEF QueuedMergeIsAlone
    <2>1. m \in Nodes /\ q \in Nodes /\ q # n
      BY <1>1, MergesAreNodes
    <2>2. chain[q].phase = "queued"
      BY <1>1, <2>1
    <2>3. chain[m].phase = "off" /\ \A k \in DOMAIN agg.att[m] : ~IsRunning(agg, m, k)
      BY <2>2 DEF PassInv, QueuedMergeIsAlone
    <2>4. m # n
      BY <2>3
    <2> QED BY <1>1, <1>3, <2>1, <2>3, <2>4
  <1>7. MergesAreSerial'
    <2> SUFFICES ASSUME NEW m \in Merges, NEW q \in Merges, m # q,
                        \E i \in DOMAIN agg'.att[m] : IsRunning(agg', m, i),
                        \E j \in DOMAIN agg'.att[q] : IsRunning(agg', q, j)
                 PROVE  FALSE
      BY DEF MergesAreSerial
    <2>1. m \in Nodes /\ q \in Nodes
      BY MergesAreNodes
    <2>2. /\ m # n => \E i \in DOMAIN agg.att[m] : IsRunning(agg, m, i)
          /\ q # n => \E j \in DOMAIN agg.att[q] : IsRunning(agg, q, j)
      BY <1>3, <2>1
    <2>3. (\E k \in DOMAIN agg.att[n] : IsRunning(agg, n, k)) => FALSE
      BY <2>2 DEF PassInv, MergesAreSerial
    <2>4. (m = n \/ q = n) => chain[n].phase = "queued"
      BY <2>3
    <2>5. CASE m = n
      BY <2>2, <2>4, <2>5 DEF PassInv, QueuedMergeIsAlone
    <2>6. CASE q = n
      BY <2>2, <2>4, <2>6 DEF PassInv, QueuedMergeIsAlone
    <2>7. CASE m # n /\ q # n
      BY <2>2, <2>7 DEF PassInv, MergesAreSerial
    <2> QED BY <2>5, <2>6, <2>7
  <1> QED BY <1>4, <1>5, <1>6, <1>7 DEF PassInv

(* A chain settles its Attempt with a Decision that settled it.            *)
LEMMA SettlesKeeps ==
    ASSUME Inv, PassInv, NEW n \in Nodes, ~interrupted, Underway(n),
           NEW t, Settled(agg, t, n), NEW then \in {Off, At("completing")}, NEW settled,
           Settles(n, t, then, settled)
    PROVE  PassInv'
  <1>1. /\ agg' = t /\ chain' = [chain EXCEPT ![n] = then]
        /\ interrupted' = interrupted /\ stop' = stop
    BY DEF Settles
  <1>2. then.phase \in {"off", "completing"}
    BY DEF Off, At
  <1>3. ~\E k \in DOMAIN t.att[n] : IsRunning(t, n, k)
    BY DEF Settled, IsRunning
  <1>4. Calm(t) /\ Books(t) /\ t.cancel = agg.cancel
    BY DEF Settled, PassInv
  <1>5. /\ \A m \in Nodes \ {n} : t.att[m] = agg.att[m]
        /\ Elsewhere(agg, n) => Working(t)
    BY DEF Settled
  <1>6. chain[n].phase # "off"
    BY DEF Underway
  <1> QED BY <1>1, <1>2, <1>3, <1>4, <1>5, <1>6, LiveFrame

(* A step that leaves the aggregate alone and its chain under way or off.  *)
LEMMA StaysKeeps ==
    ASSUME Inv, PassInv, NEW n \in Nodes, Underway(n),
           NEW then, then.phase \notin {"queued", "completing"},
           chain' = [chain EXCEPT ![n] = then],
           agg' = agg, interrupted' = interrupted, stop' = stop, ~agg.cancel
    PROVE  PassInv'
  <1>1. /\ chain'[n] = then
        /\ \A m \in Nodes \ {n} : chain'[m] = chain[m]
    BY InvIsGood DEF RestOK
  <1>2. PassAlive'
    BY <1>1 DEF PassInv, PassAlive, Underway
  <1>3. NoPassCancels' /\ CancelIsPending'
    BY DEF NoPassCancels, CancelIsPending, Cancelling
  <1>4. StopIsRunning'
    BY <1>1 DEF PassInv, StopIsRunning, Underway
  <1>5. MergesAreSerial'
    BY DEF PassInv, MergesAreSerial
  <1>6. QueuedMergeIsAlone'
    <2> SUFFICES ASSUME NEW m \in Merges, NEW q \in Merges, chain'[q].phase = "queued", m # q
                 PROVE  /\ chain'[m].phase = "off"
                        /\ \A k \in DOMAIN agg.att[m] : ~IsRunning(agg, m, k)
      BY DEF QueuedMergeIsAlone
    <2>1. m \in Nodes /\ q \in Nodes /\ q # n
      BY <1>1, MergesAreNodes
    <2>2. chain[m].phase = "off" /\ \A k \in DOMAIN agg.att[m] : ~IsRunning(agg, m, k)
      BY <1>1, <2>1 DEF PassInv, QueuedMergeIsAlone
    <2> QED BY <1>1, <2>1, <2>2 DEF Underway
  <1> QED BY <1>2, <1>3, <1>4, <1>5, <1>6 DEF PassInv

(* The dispatch of one Node.                                               *)
LEMMA DispatchKeeps ==
    ASSUME Inv, PassInv, NEW n \in Nodes, Dispatch(n)
    PROVE  PassInv'
  <1>1. /\ Good(agg) /\ Calm(agg) /\ Books(agg) /\ observed \in Heads /\ ~agg.cancel
        /\ ~interrupted /\ chain[n].phase = "queued"
    BY InvIsGood DEF PassInv, NoPassCancels, Dispatch, Live, RestOK
  <1> n \notin Checkpoints
    BY DEF Dispatch
  <1>2. interrupted' = interrupted /\ stop' = stop
    BY DEF Dispatch
  <1>3. CASE CanAllocate(agg, n)
    <2> DEFINE t == DecideDispatch(agg, n, observed)
    <2>1. agg' = t /\ chain' = [chain EXCEPT ![n] = At("working")]
      BY <1>3 DEF Dispatch
    <2>2. /\ Calm(t) /\ Working(t) /\ t.cancel = agg.cancel /\ Books(t)
          /\ \A m \in Nodes \ {n} : t.att[m] = agg.att[m]
          /\ \E k \in DOMAIN t.att[n] : t.att[n][k].status = "RUNNING"
      BY <1>1, <1>3, DispatchOutcome
    <2> HIDE DEF t
    <2>3. \E k \in DOMAIN t.att[n] : IsRunning(t, n, k)
      BY <2>2 DEF IsRunning
    <2>4. At("working").phase = "working"
      BY DEF At
    <2> DEFINE then == At("working")
    <2> HIDE DEF then
    <2>5. then.phase = "working" /\ chain' = [chain EXCEPT ![n] = then]
      BY <2>1, <2>4 DEF then
    <2> QED BY <1>1, <1>2, <2>1, <2>2, <2>3, <2>5, LiveFrame, ZenonT(30)
  <1>4. CASE ~CanAllocate(agg, n)
    <2>1. agg' = agg /\ chain' = [chain EXCEPT ![n] = Off]
      BY <1>4 DEF Dispatch
    <2>2. Off.phase = "off"
      BY DEF Off
    <2>4. \A m \in Nodes : chain'[m].phase = "off" \/ chain'[m] = chain[m]
      BY <2>1, <2>2, InvIsGood DEF RestOK
    <2>5. SameBooks(agg, agg')
      BY <2>1, KeptRefl DEF Kept
    <2>6. QueuedMergeIsAlone' /\ MergesAreSerial'
      BY <2>4, <2>5, MergesStay
    <2>7. PassAlive' /\ NoPassCancels' /\ StopIsRunning' /\ CancelIsPending'
      BY <1>1, <1>2, <2>1, <2>4 DEF PassInv, PassAlive, Underway, NoPassCancels, StopIsRunning,
                              CancelIsPending, Cancelling
    <2> QED BY <1>1, <2>1, <2>6, <2>7 DEF PassInv
  <1> QED BY <1>3, <1>4

(* A checkpoint leaves every Attempt as it is.                             *)
LEMMA ReachCheckpointKeeps ==
    ASSUME Inv, PassInv, NEW n \in Nodes, ReachCheckpoint(n)
    PROVE  PassInv'
  <1> DEFINE t == IF CanAllocate(agg, n) THEN DecideCheckpoint(agg, n) ELSE agg
  <1>1. /\ Good(agg) /\ Calm(agg) /\ ~agg.cancel /\ stop = NoKey
        /\ ~interrupted /\ chain[n].phase = "queued"
    BY InvIsGood DEF PassInv, NoPassCancels, StopIsRunning, ReachCheckpoint, Live
  <1>2. /\ agg' = t /\ chain' = [chain EXCEPT ![n] = Off]
        /\ interrupted' = interrupted /\ stop' = stop
    BY DEF ReachCheckpoint, Settles
  <1>3. /\ Calm(t) /\ t.cancel = agg.cancel /\ t.att = agg.att
        /\ SameBooks(agg, t) /\ (Working(agg) => Working(t))
    BY <1>1, CheckpointOutcome, KeptRefl DEF Kept
  <1> HIDE DEF t
  <1>4. \A m \in Nodes : chain'[m].phase = "off" \/ chain'[m] = chain[m]
    BY <1>2, InvIsGood DEF RestOK, Off
  <1>5. Books(agg')
    BY <1>2, <1>3, SameBooksSameAccount DEF PassInv
  <1>6. QueuedMergeIsAlone' /\ MergesAreSerial'
    BY <1>2, <1>3, <1>4, MergesStay
  <1>7. NoPassCancels' /\ StopIsRunning' /\ CancelIsPending'
    BY <1>1, <1>2, <1>3 DEF NoPassCancels, StopIsRunning, CancelIsPending, Cancelling
  <1>8. PassAlive'
    <2>1. \A m, k : IsRunning(agg', m, k) <=> IsRunning(agg, m, k)
      BY <1>2, <1>3 DEF IsRunning
    <2>2. \A m \in Nodes : Underway(m)' => Underway(m)
      BY <1>4 DEF Underway
    <2> QED BY <1>1, <1>2, <1>3, <2>1, <2>2 DEF PassInv, PassAlive
  <1> QED BY <1>2, <1>3, <1>5, <1>6, <1>7, <1>8 DEF PassInv

(* A chain under way in a live pass finds the Workflow working.            *)
LEMMA LiveWorks ==
    ASSUME Inv, PassInv, NEW n \in Nodes, ~interrupted, Underway(n)
    PROVE  Good(agg) /\ Calm(agg) /\ Working(agg) /\ ~agg.cancel
  BY InvIsGood DEF PassInv, PassAlive, Working

(* Sessions, verification and review.                                      *)
LEMMA SessionsKeep ==
    ASSUME Inv, PassInv, NEW n \in Nodes,
           \/ TaskSucceeds(n) \/ TaskFails(n)
           \/ VerificationPasses(n) \/ VerificationFails(n)
           \/ ReviewPasses(n) \/ ReviewFails(n)
    PROVE  PassInv'
  <1>1. ~interrupted /\ Underway(n)
    BY DEF TaskSucceeds, TaskFails, VerificationPasses, VerificationFails, ReviewPasses,
           ReviewFails, Live, Underway
  <1>2. Good(agg) /\ Calm(agg) /\ Working(agg) /\ ~agg.cancel
    BY <1>1, LiveWorks
  <1>3. \A k : IsRunning(agg, n, k) => Settled(agg, DecideAttemptSucceeded(agg, n, k), n)
    BY <1>2, SucceededOutcome DEF DecideAttemptSucceeded, Follows
  <1>4. \A k, code : IsRunning(agg, n, k) => Settled(agg, DecideAttemptFailure(agg, n, k, code), n)
    BY <1>2, FailureOutcome
  <1>5. CASE VerificationPasses(n)
    <2>1. Settles(n, agg, At("reviewing"), {})
      BY <1>5 DEF VerificationPasses
    <2>2. /\ agg' = agg /\ interrupted' = interrupted /\ stop' = stop
          /\ chain' = [chain EXCEPT ![n] = At("reviewing")]
      BY <2>1 DEF Settles
    <2> DEFINE then == At("reviewing")
    <2>3. then.phase = "reviewing"
      BY DEF At
    <2> HIDE DEF then
    <2>4. chain' = [chain EXCEPT ![n] = then]
      BY <2>2 DEF then
    <2> QED BY <1>1, <1>2, <2>2, <2>3, <2>4, StaysKeeps
  <1>6. CASE TaskSucceeds(n)
    <2>1. PICK k \in DOMAIN agg.att[n] :
              IsRunning(agg, n, k) /\ Settles(n, DecideAttemptSucceeded(agg, n, k), Off, {})
      BY <1>6 DEF TaskSucceeds
    <2> QED BY <1>1, <1>3, <2>1, SettlesKeeps
  <1>7. CASE ReviewPasses(n)
    <2>1. PICK k \in DOMAIN agg.att[n], then \in {Off, At("completing")} :
              IsRunning(agg, n, k) /\ Settles(n, DecideAttemptSucceeded(agg, n, k), then, {})
      BY <1>7 DEF ReviewPasses
    <2> QED BY <1>1, <1>3, <2>1, SettlesKeeps
  <1>8. CASE TaskFails(n) \/ VerificationFails(n) \/ ReviewFails(n)
    <2>1. \E k \in DOMAIN agg.att[n] : \E code :
              IsRunning(agg, n, k) /\ Settles(n, DecideAttemptFailure(agg, n, k, code), Off, {})
      BY <1>8 DEF TaskFails, VerificationFails, ReviewFails
    <2>2. PICK k \in DOMAIN agg.att[n] : \E code :
              IsRunning(agg, n, k) /\ Settles(n, DecideAttemptFailure(agg, n, k, code), Off, {})
      BY <2>1
    <2>3. PICK code : IsRunning(agg, n, k) /\ Settles(n, DecideAttemptFailure(agg, n, k, code), Off, {})
      BY <2>2
    <2> QED BY <1>1, <1>4, <2>3, SettlesKeeps
  <1> QED BY <1>5, <1>6, <1>7, <1>8

(* The completion: every Node has SUCCEEDED, so no chain is under way.     *)
LEMMA CompleteKeeps ==
    ASSUME Inv, PassInv, NEW n \in Nodes, Complete(n)
    PROVE  PassInv'
  <1>1. /\ ~interrupted /\ chain[n].phase = "completing" /\ ~agg.cancel /\ stop = NoKey
        /\ Good(agg) /\ Calm(agg)
    BY InvIsGood DEF Complete, Live, PassInv, NoPassCancels, StopIsRunning
  <1>2. /\ agg' = (IF CanComplete(agg) THEN DecideComplete(agg) ELSE agg)
        /\ chain' = [chain EXCEPT ![n] = Off] /\ interrupted' = interrupted /\ stop' = stop
    BY DEF Complete, Settles
  <1>3. \A m \in Nodes : chain'[m].phase = "off" \/ chain'[m] = chain[m]
    BY <1>2, InvIsGood DEF RestOK, Off
  <1>4. Calm(agg') /\ SameBooks(agg, agg') /\ agg'.cancel = FALSE
        /\ (agg' = agg \/ ~HasRunningAttempt(agg))
    <2>1. CASE CanComplete(agg)
      BY <1>1, <1>2, <2>1, CompleteOutcome
    <2>2. CASE ~CanComplete(agg)
      <3>1. agg' = agg
        BY <1>2, <2>2
      <3>2. agg.cancel = FALSE
        BY <1>1 DEF Good, Aggregates
      <3> QED BY <1>1, <3>1, <3>2, KeptRefl DEF Kept
    <2> QED BY <2>1, <2>2
  <1>5. Books(agg')
    BY <1>4, SameBooksSameAccount DEF PassInv
  <1>6. QueuedMergeIsAlone' /\ MergesAreSerial'
    BY <1>3, <1>4, MergesStay
  <1>7. NoPassCancels' /\ StopIsRunning' /\ CancelIsPending'
    BY <1>1, <1>2, <1>4 DEF NoPassCancels, StopIsRunning, CancelIsPending, Cancelling
  <1>8. PassAlive'
    <2>1. ASSUME NEW m \in Nodes, Underway(m), ~HasRunningAttempt(agg) PROVE FALSE
      <3>1. PICK k \in DOMAIN agg.att[m] : IsRunning(agg, m, k)
        BY <1>1, <2>1 DEF PassInv, PassAlive
      <3> QED BY <2>1, <3>1, QuietRows DEF NothingRuns, IsRunning
    <2>2. \A m \in Nodes : Underway(m)' => Underway(m)
      BY <1>3 DEF Underway
    <2>3. CASE agg' = agg
      BY <1>1, <2>2, <2>3 DEF PassInv, PassAlive
    <2>4. CASE ~HasRunningAttempt(agg)
      BY <2>1, <2>2, <2>4 DEF PassAlive
    <2> QED BY <1>4, <2>3, <2>4
  <1> QED BY <1>4, <1>5, <1>6, <1>7, <1>8 DEF PassInv

(* The serial merge.                                                       *)
LEMMA MergeKeeps ==
    ASSUME Inv, PassInv, NEW n \in Nodes,
           \/ GitMerge(n) \/ MergeSettles(n) \/ MergeFails(n)
           \/ GitRollback(n) \/ RollbackSettles(n)
    PROVE  PassInv'
  <1>1. Underway(n) /\ chain[n].phase # "off"
    BY DEF GitMerge, MergeSettles, MergeFails, GitRollback, RollbackSettles, Live, Underway
  <1>2. ~agg.cancel /\ Good(agg) /\ chain[n] \in Chains
    BY <1>1, InvIsGood DEF PassInv, NoPassCancels, RestOK
  <1>3. Off.phase = "off"
    BY DEF Off
  <1>4. ASSUME NEW then, then.phase \notin {"queued", "completing"}, NEW head, NEW unmerged,
               GitStep(n, then, head, unmerged)
        PROVE  PassInv'
    BY <1>1, <1>2, <1>4, StaysKeeps DEF GitStep
  <1>5. CASE GitMerge(n)
    <2>1. \E then \in {At("merged"), FailedMerge("MERGE_CONFLICT"),
                       FailedMerge("STATE_INVARIANT_VIOLATION")} :
              \E head, unmerged : GitStep(n, then, head, unmerged)
      BY <1>5 DEF GitMerge
    <2>2. PICK then \in {At("merged"), FailedMerge("MERGE_CONFLICT"),
                       FailedMerge("STATE_INVARIANT_VIOLATION")} :
              \E head, unmerged : GitStep(n, then, head, unmerged)
      BY <2>1
    <2>3. then.phase \in {"merged", "mergefailed"}
      BY <2>2 DEF At, FailedMerge
    <2> QED BY <1>4, <2>2, <2>3
  <1>6. CASE MergeSettles(n)
    <2>1. ~interrupted
      BY <1>6 DEF MergeSettles, Live
    <2>2. Calm(agg) /\ Working(agg)
      BY <1>1, <2>1, LiveWorks
    <2>3. PICK k \in DOMAIN agg.att[n] :
            /\ IsRunning(agg, n, k)
            /\ \/ Settles(n, DecideWorkspaceMerged(agg, n, k, ws), Off,
                          {MergeIntent(n, agg.att[n][k].start)})
               \/ Settles(n, agg, Off, {})
      BY <1>6 DEF MergeSettles
    <2>4. CASE Settles(n, agg, Off, {})
      BY <1>1, <1>2, <1>3, <2>4, StaysKeeps DEF Settles
    <2>5. CASE Settles(n, DecideWorkspaceMerged(agg, n, k, ws), Off,
                       {MergeIntent(n, agg.att[n][k].start)})
      <3> DEFINE d == [agg EXCEPT !.head = ws]
      <3>1. ws \in Heads
        BY InvIsGood DEF RestOK
      <3>2. /\ d \in Aggregates /\ d.att = agg.att /\ d.charged = agg.charged /\ d.finds = agg.finds
            /\ d.runs = agg.runs /\ d.runtime = agg.runtime /\ d.cancel = agg.cancel /\ d.node = agg.node
        BY <1>2, <3>1 DEF Good, Aggregates
      <3>3. DecideWorkspaceMerged(agg, n, k, ws) = SettleNodeSucceeded(agg, d, n, k)
        BY DEF DecideWorkspaceMerged
      <3> HIDE DEF d
      <3>4. Follows(agg, d)
        BY <1>2, <3>2 DEF Follows, Good, RunsOrdered, NewestRuns
      <3>5. Settled(agg, SettleNodeSucceeded(agg, d, n, k), n)
        BY <1>2, <2>2, <2>3, <3>2, <3>4, SucceededOutcome
      <3> QED BY <1>1, <2>1, <2>5, <3>3, <3>5, SettlesKeeps
    <2> QED BY <2>3, <2>4, <2>5
  <1>7. CASE MergeFails(n)
    <2> DEFINE then == [chain[n] EXCEPT !.phase = "rollback"]
    <2>1. then.phase = "rollback"
      BY <1>2 DEF Chains
    <2>2. /\ chain' = [chain EXCEPT ![n] = then]
          /\ agg' = agg /\ interrupted' = interrupted /\ stop' = stop
      BY <1>7 DEF MergeFails
    <2> HIDE DEF then
    <2> QED BY <1>1, <1>2, <2>1, <2>2, StaysKeeps
  <1>8. CASE GitRollback(n)
    <2> DEFINE back == [chain[n] EXCEPT !.phase = "rolledback"]
    <2>1. \E then \in {back, Off} : \E head, unmerged : GitStep(n, then, head, unmerged)
      BY <1>8 DEF GitRollback
    <2>2. back.phase = "rolledback"
      BY <1>2 DEF Chains
    <2> HIDE DEF back
    <2>3. PICK then \in {back, Off} : \E head, unmerged : GitStep(n, then, head, unmerged)
      BY <2>1
    <2>4. then.phase \in {"rolledback", "off"}
      BY <1>3, <2>2, <2>3
    <2> QED BY <1>4, <2>3, <2>4
  <1>9. CASE RollbackSettles(n)
    <2>1. ~interrupted
      BY <1>9 DEF RollbackSettles, Live
    <2>2. Calm(agg) /\ Working(agg)
      BY <1>1, <2>1, LiveWorks
    <2>3. PICK k \in DOMAIN agg.att[n] :
            /\ IsRunning(agg, n, k)
            /\ Settles(n, DecideAttemptFailure(agg, n, k, chain[n].code), Off,
                       {RollbackIntent(n, agg.att[n][k].start)})
      BY <1>9 DEF RollbackSettles
    <2>4. Settled(agg, DecideAttemptFailure(agg, n, k, chain[n].code), n)
      BY <1>2, <2>2, <2>3, FailureOutcome
    <2> QED BY <1>1, <2>1, <2>3, <2>4, SettlesKeeps
  <1> QED BY <1>5, <1>6, <1>7, <1>8, <1>9

-----------------------------------------------------------------------------
(* Ctrl+C, an error and a crash leave what is persisted as it is.          *)
LEMMA FaultsKeep ==
    ASSUME Inv, PassInv, Interrupt \/ (\E n \in Nodes : ChainError(n)) \/ Crash
    PROVE  PassInv'
  <1>1. /\ agg' = agg /\ ledger' = ledger
        /\ \A n \in Nodes : chain'[n].phase = "off" \/ chain'[n] = chain[n]
    BY InvIsGood DEF Interrupt, ChainError, Crash, RestOK, Off
  <1>2. SameBooks(agg, agg')
    BY <1>1, KeptRefl DEF Kept
  <1>3. QueuedMergeIsAlone' /\ MergesAreSerial'
    BY <1>1, <1>2, MergesStay
  <1>4. NoPassCancels' /\ CancelIsPending'
    BY <1>1 DEF PassInv, NoPassCancels, CancelIsPending
  <1>5. PassAlive'
    <2>1. CASE Interrupt
      BY <2>1 DEF Interrupt, PassAlive
    <2>2. CASE Crash
      BY <2>2 DEF Crash, PassAlive, Underway, Off
    <2>3. CASE \E n \in Nodes : ChainError(n)
      BY <1>1, <2>3 DEF ChainError, PassInv, PassAlive, Underway
    <2> QED BY <2>1, <2>2, <2>3
  <1>6. StopIsRunning'
    <2>1. CASE Interrupt
      BY <2>1 DEF Interrupt, PassInv, StopIsRunning
    <2>2. CASE Crash
      BY <2>2 DEF Crash, StopIsRunning
    <2>3. CASE \E n \in Nodes : ChainError(n)
      BY <1>1, <2>3 DEF ChainError, PassInv, StopIsRunning
    <2> QED BY <2>1, <2>2, <2>3
  <1> QED BY <1>1, <1>3, <1>4, <1>5, <1>6 DEF PassInv

(* Before the first pass nothing runs and nothing was charged.             *)
LEMMA InitCalm == Init => PassInv
  <1> SUFFICES ASSUME Init PROVE PassInv
    OBVIOUS
  <1>1. /\ agg.runtime = "RUNNING" /\ agg.cancel = FALSE /\ agg.finds = {}
        /\ agg.runs = <<[status |-> "RUNNING", gate |-> TRUE]>>
        /\ \A n \in Nodes : agg.att[n] = <<>> /\ agg.charged[n] = 0
    <2> DEFINE runs == <<[status |-> "RUNNING", gate |-> TRUE]>>
               att == [n \in Nodes |-> <<>>]
    <2>1. PICK adopted \in Adopted :
           agg = [stage |-> "EXECUTION", runtime |-> "RUNNING", cancel |-> FALSE,
                  head |-> IF adopted THEN {} ELSE NoHead,
                  runs |-> runs,
                  node |-> [n \in Nodes |-> "PENDING"],
                  charged |-> [n \in Nodes |-> 0],
                  base |-> [n \in Nodes |-> NoHead],
                  att |-> att,
                  finds |-> {}]
      BY DEF Init
    <2>2. \A n \in Nodes : att[n] = <<>>
      OBVIOUS
    <2> HIDE DEF runs, att
    <2>3. /\ agg.runtime = "RUNNING" /\ agg.cancel = FALSE /\ agg.finds = {}
          /\ agg.runs = runs /\ agg.att = att /\ \A n \in Nodes : agg.charged[n] = 0
      BY <2>1
    <2> QED BY <2>2, <2>3 DEF runs
  <1>2. \A n \in Nodes : chain[n].phase = "off"
    BY DEF Init, Off
  <1>3. \A n \in Nodes : DOMAIN agg.att[n] = {}
    BY <1>1
  <1>4. ~HasRunningAttempt(agg)
    BY <1>3, QuietRows DEF NothingRuns
  <1>5. ActiveStatus(agg) = "RUNNING"
    <2> DEFINE row == [status |-> "RUNNING", gate |-> TRUE]
    <2>1. row.status = "RUNNING"
      OBVIOUS
    <2> HIDE DEF row
    <2>2. Len(agg.runs) = 1 /\ 1 \in DOMAIN agg.runs /\ agg.runs[1] = row
      BY <1>1 DEF row
    <2>3. Good(agg)
      BY InitSound, InvIsGood
    <2> QED BY <2>1, <2>2, <2>3, StatusIsNewest DEF RunTerminal
  <1>6. Calm(agg)
    BY <1>1, <1>4, <1>5 DEF Calm, HasBlockingFinding
  <1>7. Books(agg)
    <2>1. \A n \in Nodes : Bare(agg, n) = {} /\ RetryBudget[n] \in Nat
      BY <1>3, GraphAssumption DEF Bare
    <2>2. Cardinality({}) = 0
      BY FS_EmptySet
    <2>3. \A n \in Nodes : agg.charged[n] <= RetryBudget[n]
      BY <1>1, <2>1
    <2>4. \A n \in Nodes : agg.charged[n] = Cardinality(Bare(agg, n))
      BY <1>1, <2>1, <2>2
    <2> QED BY <2>3, <2>4 DEF Books
  <1>8. PassAlive /\ NoPassCancels /\ StopIsRunning /\ CancelIsPending
    BY <1>1, <1>2 DEF PassAlive, Underway, NoPassCancels, StopIsRunning, CancelIsPending,
                      Cancelling, Init
  <1>9. QueuedMergeIsAlone /\ MergesAreSerial
    BY <1>2, <1>3, MergesAreNodes DEF QueuedMergeIsAlone, MergesAreSerial
  <1> QED BY <1>6, <1>7, <1>8, <1>9 DEF PassInv

(* Every step keeps the second invariant, given the first.                 *)
LEMMA NextKeeps == Inv /\ PassInv /\ [Next]_vars => PassInv'
  <1> SUFFICES ASSUME Inv, PassInv, [Next]_vars PROVE PassInv'
    OBVIOUS
  <1>1. CASE PauseCommand \/ ResumeCommand \/ CancelCommand \/ CompleteCommand \/ DispatchCommand
    BY <1>1, PauseKeeps, ResumeKeeps, CancelKeeps, CompleteCommandKeeps, DispatchCommandKeeps
  <1>2. ASSUME NEW n \in Nodes, ChainStep(n) PROVE PassInv'
    BY <1>2, DispatchKeeps, ReachCheckpointKeeps, SessionsKeep, CompleteKeeps, MergeKeeps,
       ChainInterruptedKeeps
       DEF ChainStep
  <1>3. CASE ProcessStopped
    BY <1>3, ProcessStoppedKeeps
  <1>4. CASE Interrupt \/ (\E n \in Nodes : ChainError(n)) \/ Crash
    BY <1>4, FaultsKeep
  <1>5. CASE UNCHANGED vars
    BY <1>5 DEF vars, PassInv, PassAlive, Underway, NoPassCancels, StopIsRunning,
                CancelIsPending, QueuedMergeIsAlone, MergesAreSerial
  <1> QED BY <1>1, <1>2, <1>3, <1>4, <1>5 DEF Next

(* The second invariant holds throughout every execution.                  *)
THEOREM PassInvHolds == Spec => []PassInv
  BY InitCalm, NextKeeps, InvHolds, PTL DEF Spec

(* A Workflow at rest has no Run that could dispatch, whichever of pause,  *)
(* failure, interruption and orphan came first                             *)
(* (internal/decision/execution.go, workflow.go).                          *)
THEOREM RestIsClosed == Spec => []ClosedAtRest
  <1>1. PassInv => ClosedAtRest
    BY DEF PassInv, Calm, ClosedAtRest
  <1> QED BY <1>1, PassInvHolds, PTL

(* A blocking Finding is never lost in a stop: the Workflow that carries   *)
(* one neither pauses nor succeeds, and a Run quiesces only because of one *)
(* (internal/decision/execution.go, convergeStopping).                     *)
THEOREM FindingsOutrank == Spec => []FindingOutranksStop
  <1>1. PassInv => FindingOutranksStop
    BY DEF PassInv, Calm, FindingOutranksStop
  <1> QED BY <1>1, PassInvHolds, PTL

(* A cancel is reported only when nothing waits, runs or is open, over     *)
(* every order of settlements, stops, crashes and commands                 *)
(* (internal/decision/execution.go, finishCancel).                         *)
THEOREM CancelIsQuiet == Spec => []CancelledIsQuiet
  <1>1. PassInv => CancelledIsQuiet
    BY DEF PassInv, Calm, Quiet, CancelledIsQuiet
  <1> QED BY <1>1, PassInvHolds, PTL

(* The retry accounting is exact and within the approved budget            *)
(* (internal/decision/execution.go, decideAttemptFailure).                 *)
THEOREM RetriesAreBudgeted == Spec => []RetriesWithinBudget
  <1>1. PassInv => RetriesWithinBudget
    BY DEF PassInv, Books, Bare, RetriesWithinBudget
  <1> QED BY <1>1, PassInvHolds, PTL

(* At most one merge Attempt is in flight, also across passes and crashes  *)
(* (internal/app/dispatch.go, selectBatch).                                *)
THEOREM SerialMerges == Spec => []MergesAreSerial
  <1>1. PassInv => MergesAreSerial
    BY DEF PassInv
  <1> QED BY <1>1, PassInvHolds, PTL

(* The number of Attempts depends on which rows there are.                 *)
LEMMA SameBooksSameCount ==
    ASSUME NEW s, NEW t, SameBooks(s, t)
    PROVE  AttemptCount(t) = AttemptCount(s) /\ t.charged = s.charged
  <1>1. UNION {{n} \X DOMAIN t.att[n] : n \in Nodes} = UNION {{n} \X DOMAIN s.att[n] : n \in Nodes}
    BY DEF SameBooks
  <1> QED BY <1>1 DEF SameBooks, AttemptCount

(* With a cancel intent no chain is on, so only commands, the stop loop    *)
(* and faults move: none of them touches the books.                        *)
LEMMA CancelKeepsBooks ==
    ASSUME Inv, PassInv, [Next]_vars, agg.cancel
    PROVE  SameBooks(agg, agg')
  <1>1. \A n \in Nodes : chain[n].phase = "off"
    BY DEF PassInv, NoPassCancels
  <1>2. CASE PauseCommand \/ ResumeCommand \/ CancelCommand \/ CompleteCommand
             \/ DispatchCommand \/ ProcessStopped
    BY <1>2, PauseKeeps, ResumeKeeps, CancelKeeps, CompleteCommandKeeps, DispatchCommandKeeps,
       ProcessStoppedKeeps
  <1>3. ASSUME NEW n \in Nodes, ChainStep(n) PROVE FALSE
    BY <1>1, <1>3 DEF ChainStep, Dispatch, ReachCheckpoint, TaskSucceeds, TaskFails, VerificationPasses,
       VerificationFails, ReviewPasses, ReviewFails, Complete, GitMerge, MergeSettles,
       MergeFails, GitRollback, RollbackSettles, ChainInterrupted, Live
  <1>4. CASE Interrupt \/ (\E n \in Nodes : ChainError(n)) \/ Crash \/ UNCHANGED vars
    BY <1>4, KeptRefl DEF Interrupt, ChainError, Crash, vars, Kept
  <1> QED BY <1>2, <1>3, <1>4 DEF Next

(* Once a cancel intent is persisted no step creates an Attempt or charges *)
(* a retry (internal/decision/apply_cleanup.go, decideCancel).             *)
THEOREM CancelFreezesBooks == Spec => CancelAllocatesNothing
  <1>1. Inv /\ PassInv /\ [Next]_vars =>
          [agg.cancel => AttemptCount(agg') = AttemptCount(agg) /\ agg'.charged = agg.charged]_vars
    BY CancelKeepsBooks, SameBooksSameCount
  <1> QED BY <1>1, InvHolds, PassInvHolds, PTL DEF Spec, CancelAllocatesNothing

-----------------------------------------------------------------------------
(* The third invariant: what the commits contain.                          *)

(* Which Nodes a chain's phase is for; a chain starts only when what its   *)
(* Node depends on has succeeded.                                          *)
MergePhases ==
    \A n \in Nodes :
        /\ chain[n].phase \in {"merged", "mergefailed", "rollback", "rolledback"} => n \in Merges
        /\ chain[n].phase = "reviewing" => Verifying(n)
        /\ chain[n].phase # "off" => \A d \in Deps[n] : agg.node[d] = "SUCCEEDED"

(* What a merge in flight brings into the Workspace, and what it returns   *)
(* to, is verified; it started at the verified head, and once committed    *)
(* its commit is the Workspace.                                            *)
MergesVerified ==
    /\ OnlyVerified(agg, observed)
    /\ \A m \in Merges : \A k \in DOMAIN agg.att[m] : IsRunning(agg, m, k) =>
          /\ VerifiedTask(agg, TaskOf[m])
          /\ OnlyVerified(agg, agg.att[m][k].start)
          /\ agg.head # NoHead => agg.att[m][k].start = agg.head
          /\ chain[m].phase = "merged" =>
                agg.att[m][k].start \subseteq ws /\ TaskOf[m] \in ws /\ ~dirty

(* Without a blocking Finding no merge that succeeded is lost, and after   *)
(* the last one the Workspace is at the verified head.                     *)
Delivered ==
    /\ agg.runtime = "SUCCEEDED" => agg.head # NoHead
    /\ agg.finds = {} =>
          /\ \A m \in Merges : agg.node[m] = "SUCCEEDED" => TaskOf[m] \in agg.head
          /\ (\A m \in Merges : agg.node[m] = "SUCCEEDED") =>
                (agg.head # NoHead => ws = agg.head) /\ ~dirty

WorkInv == MergePhases /\ MergesVerified /\ Delivered /\ HeadIsVerified

-----------------------------------------------------------------------------

(* What was verified stays verified.                                       *)
LEMMA VerifiedStays ==
    ASSUME NEW s, NEW d,
           \A n \in Nodes :
              /\ s.node[n] = "SUCCEEDED" => d.node[n] = "SUCCEEDED"
              /\ \A k \in DOMAIN s.att[n] : s.att[n][k].status = "SUCCEEDED" =>
                    k \in DOMAIN d.att[n] /\ d.att[n][k].status = "SUCCEEDED"
    PROVE  /\ \A t \in Nodes : VerifiedTask(s, t) => VerifiedTask(d, t)
           /\ \A head \in Heads : OnlyVerified(s, head) => OnlyVerified(d, head)
  <1>1. \A t \in Nodes : VerifiedTask(s, t) => VerifiedTask(d, t)
    BY DEF VerifiedTask, Succeeded
  <1>2. \A head \in Heads : \A t \in head \ NoHead : t \in Nodes
    BY DEF Heads, NoHead
  <1> QED BY <1>1, <1>2 DEF OnlyVerified

(* An heir verifies what its ancestor verified.                            *)
LEMMA HeirVerified ==
    ASSUME NEW s, NEW d, NEW N, NEW H, Heir(s, d, N, H)
    PROVE  /\ \A t \in Nodes : VerifiedTask(s, t) => VerifiedTask(d, t)
           /\ \A head \in Heads : OnlyVerified(s, head) => OnlyVerified(d, head)
  BY VerifiedStays DEF Heir

(* The commits have their types.                                           *)
LEMMA CommitsAreHeads ==
    ASSUME Inv
    PROVE  /\ ws \in Heads /\ observed \in Heads /\ agg.head \in Heads
           /\ \A n \in Nodes : agg.base[n] \in Heads
           /\ \A n \in Nodes : \A k \in DOMAIN agg.att[n] : agg.att[n][k].start \in Heads
           /\ \A n \in Nodes : TaskOf[n] \in Nodes
  <1>1. agg \in Aggregates /\ RestOK
    BY InvIsGood DEF Good
  <1>2. \A n \in Nodes : \A k \in DOMAIN agg.att[n] : agg.att[n][k].start \in Heads
    <2> SUFFICES ASSUME NEW n \in Nodes, NEW k \in DOMAIN agg.att[n]
                 PROVE  agg.att[n][k].start \in Heads
      OBVIOUS
    <2>1. agg.att[n] \in Seq(Attempts)
      BY <1>1 DEF Aggregates
    <2>2. agg.att[n][k] \in Attempts
      BY <2>1, LenProperties
    <2> QED BY <2>2 DEF Attempts
  <1>3. ws \in Heads /\ observed \in Heads
    BY <1>1 DEF RestOK
  <1>4. agg.head \in Heads /\ \A n \in Nodes : agg.base[n] \in Heads
    BY <1>1 DEF Aggregates
  <1> QED BY <1>2, <1>3, <1>4, GraphAssumption

(* The phase of a chain after a step that makes no commit.                 *)
PhaseFollows(n) ==
    \/ chain'[n].phase = "off"
    \/ chain'[n].phase = chain[n].phase
    \/ chain'[n].phase = "queued" /\ \A d \in Deps[n] : agg'.node[d] = "SUCCEEDED"
    \/ /\ chain[n].phase # "off"
       /\ \/ chain'[n].phase = "completing"
          \/ chain'[n].phase = "reviewing" /\ Verifying(n)
          \/ chain'[n].phase = "rollback" /\ n \in Merges

(* A step that makes no commit and after which no further merge has        *)
(* succeeded.                                                              *)
LEMMA WorkFrame ==
    ASSUME Inv, WorkInv, NEW N, N \cap Merges = {}, Heir(agg, agg', N, {}),
           ws' = ws, dirty' = dirty, observed' \in {observed, ws},
           \A n \in Nodes : PhaseFollows(n)
    PROVE  WorkInv'
  <1>1. /\ \A t \in Nodes : VerifiedTask(agg, t) => VerifiedTask(agg', t)
        /\ \A head \in Heads : OnlyVerified(agg, head) => OnlyVerified(agg', head)
    BY HeirVerified
  <1>2. /\ ws \in Heads /\ observed \in Heads /\ agg.head \in Heads
        /\ \A n \in Nodes : agg.base[n] \in Heads
        /\ \A n \in Nodes : \A k \in DOMAIN agg.att[n] : agg.att[n][k].start \in Heads
        /\ \A n \in Nodes : TaskOf[n] \in Nodes
    BY CommitsAreHeads
  <1>3. agg'.head = agg.head /\ agg'.base = agg.base /\ (agg'.finds = {} => agg.finds = {})
    BY DEF Heir
  <1>4. HeadIsVerified'
    BY <1>1, <1>2, <1>3 DEF WorkInv, HeadIsVerified
  <1>5. MergePhases'
    <2> SUFFICES ASSUME NEW n \in Nodes
                 PROVE  /\ chain'[n].phase \in {"merged", "mergefailed", "rollback", "rolledback"} => n \in Merges
                        /\ chain'[n].phase = "reviewing" => Verifying(n)
                        /\ chain'[n].phase # "off" => \A d \in Deps[n] : agg'.node[d] = "SUCCEEDED"
      BY DEF MergePhases
    <2>1. \A d \in Deps[n] : agg.node[d] = "SUCCEEDED" => agg'.node[d] = "SUCCEEDED"
      BY GraphAssumption DEF Heir
    <2> QED BY <2>1 DEF WorkInv, MergePhases, PhaseFollows
  <1>6. MergesVerified'
    <2>1. OnlyVerified(agg', observed')
      BY <1>1, <1>2 DEF WorkInv, MergesVerified, HeadIsVerified
    <2>2. ASSUME NEW m \in Merges, NEW k \in DOMAIN agg'.att[m], IsRunning(agg', m, k)
          PROVE  /\ VerifiedTask(agg', TaskOf[m])
                 /\ OnlyVerified(agg', agg'.att[m][k].start)
                 /\ agg'.head # NoHead => agg'.att[m][k].start = agg'.head
                 /\ chain'[m].phase = "merged" =>
                       agg'.att[m][k].start \subseteq ws /\ TaskOf[m] \in ws /\ ~dirty
      <3>1. m \in Nodes
        BY MergesAreNodes
      <3>2. /\ k \in DOMAIN agg.att[m] /\ IsRunning(agg, m, k)
            /\ agg'.att[m][k].start = agg.att[m][k].start
        BY <2>2, <3>1 DEF Heir, IsRunning
      <3>3. chain'[m].phase = "merged" => chain[m].phase = "merged"
        BY <3>1 DEF PhaseFollows
      <3>4. /\ VerifiedTask(agg, TaskOf[m])
            /\ OnlyVerified(agg, agg.att[m][k].start)
            /\ agg.head # NoHead => agg.att[m][k].start = agg.head
            /\ chain[m].phase = "merged" =>
                  agg.att[m][k].start \subseteq ws /\ TaskOf[m] \in ws /\ ~dirty
        BY <3>2 DEF WorkInv, MergesVerified
      <3> QED BY <1>1, <1>2, <1>3, <3>1, <3>2, <3>3, <3>4
    <2> QED BY <2>1, <2>2 DEF MergesVerified
  <1>7. Delivered'
    <2>1. \A m \in Merges : agg'.node[m] = "SUCCEEDED" => agg.node[m] = "SUCCEEDED"
      BY MergesAreNodes DEF Heir
    <2>2. agg'.runtime = "SUCCEEDED" => agg'.head # NoHead
      BY <1>3 DEF Heir, WorkInv, Delivered
    <2> QED BY <1>3, <2>1, <2>2 DEF WorkInv, Delivered
  <1> QED BY <1>4, <1>5, <1>6, <1>7 DEF WorkInv

(* One chain moves.                                                        *)
LEMMA OnePhaseFollows ==
    ASSUME Inv, NEW n \in Nodes, NEW then, chain' = [chain EXCEPT ![n] = then],
           \/ then.phase = "off"
           \/ /\ chain[n].phase # "off"
              /\ \/ then.phase = "completing"
                 \/ then.phase = "reviewing" /\ Verifying(n)
                 \/ then.phase = "rollback" /\ n \in Merges
    PROVE  \A m \in Nodes : PhaseFollows(m)
  <1>1. chain'[n] = then /\ \A m \in Nodes \ {n} : chain'[m] = chain[m]
    BY InvIsGood DEF RestOK
  <1> QED BY <1>1 DEF PhaseFollows

(* Commands, the stop loop, the interrupted chains.                        *)
LEMMA CommandsWork ==
    ASSUME Inv, WorkInv,
           \/ PauseCommand \/ ResumeCommand \/ CancelCommand \/ CompleteCommand
           \/ DispatchCommand \/ ProcessStopped
    PROVE  WorkInv'
  <1> DEFINE s == Sweep(agg)
  <1>1. Good(agg) /\ Good(s) /\ Heir(agg, s, {}, {})
    BY InvIsGood, SweepSound, SweepHeir
  <1>2. ASSUME NEW t, Heir(s, t, {}, {}) PROVE Heir(agg, t, {}, {})
    BY <1>1, <1>2, HeirTrans
  <1> HIDE DEF s
  <1>3. CASE PauseCommand \/ ResumeCommand \/ CancelCommand \/ CompleteCommand
    <2>1. Heir(agg, agg', {}, {})
      <3>1. CASE PauseCommand
        BY <1>1, <1>2, <3>1, PauseHeir DEF PauseCommand, s
      <3>2. CASE ResumeCommand
        BY <1>1, <1>2, <3>2, ResumeHeir DEF ResumeCommand, s
      <3>3. CASE CancelCommand
        BY <1>1, <1>2, <3>3, CancelHeir DEF CancelCommand, s
      <3>4. CASE CompleteCommand
        BY <1>1, <1>2, <3>4, CompleteHeir DEF CompleteCommand, s
      <3> QED BY <1>3, <3>1, <3>2, <3>3, <3>4
    <2>2. chain' = chain /\ ws' = ws /\ dirty' = dirty /\ observed' = observed
      BY <1>3 DEF PauseCommand, ResumeCommand, CancelCommand, CompleteCommand
    <2>3. \A n \in Nodes : PhaseFollows(n)
      BY <2>2 DEF PhaseFollows
    <2> QED BY <2>1, <2>2, <2>3, WorkFrame
  <1>4. CASE DispatchCommand
    <2>1. agg' = s /\ ws' = ws /\ dirty' = dirty /\ observed' = ws
      BY <1>4 DEF DispatchCommand, s
    <2>2. PICK batch \in SUBSET Nodes :
            /\ IsBatch(batch, s.node, GateOpen(s), Deferred(s), AttemptCount(s) >= RunBudget)
            /\ chain' = [n \in Nodes |-> IF n \in batch THEN At("queued") ELSE Off]
      BY <1>4 DEF DispatchCommand, s
    <2>3. \A n \in batch : \A d \in Deps[n] : s.node[d] = "SUCCEEDED"
      BY <2>2 DEF IsBatch, SelectedFrom, Eligible, Schedulable
    <2>4. \A n \in Nodes : PhaseFollows(n)
      BY <2>1, <2>2, <2>3 DEF PhaseFollows, At, Off
    <2> QED BY <1>1, <2>1, <2>4, WorkFrame
  <1>5. CASE ProcessStopped
    <2>1. /\ stop # NoKey /\ chain' = chain /\ ws' = ws /\ dirty' = dirty /\ observed' = observed
      BY <1>5 DEF ProcessStopped
    <2>2. PICK orphan \in BOOLEAN : agg' = DecideProcessStopped(agg, stop, orphan)
      BY <1>5 DEF ProcessStopped
    <2>3. PICK n \in Nodes, k \in Nat : stop = <<n, k>>
      BY <2>1, InvIsGood DEF RestOK
    <2>4. Heir(agg, agg', {}, {})
      BY <1>1, <2>2, <2>3, ProcessStoppedHeir
    <2>5. \A m \in Nodes : PhaseFollows(m)
      BY <2>1 DEF PhaseFollows
    <2> QED BY <2>1, <2>4, <2>5, WorkFrame
  <1> QED BY <1>3, <1>4, <1>5

(* An interrupt, an error of a chain and a crash lose chains, no commit and *)
(* no row.                                                                 *)
LEMMA FaultsWork ==
    ASSUME Inv, WorkInv, Interrupt \/ (\E n \in Nodes : ChainError(n)) \/ Crash
    PROVE  WorkInv'
  <1>1. /\ agg' = agg /\ ws' = ws /\ dirty' = dirty /\ observed' = observed
        /\ \A n \in Nodes : chain'[n].phase = "off" \/ chain'[n] = chain[n]
    BY InvIsGood DEF Interrupt, ChainError, Crash, RestOK, Off
  <1>2. Heir(agg, agg', {}, {})
    BY <1>1, HeirRefl
  <1>3. \A n \in Nodes : PhaseFollows(n)
    BY <1>1 DEF PhaseFollows
  <1> QED BY <1>1, <1>2, <1>3, WorkFrame

(* An interrupted chain.                                                   *)
LEMMA ChainInterruptedWorks ==
    ASSUME Inv, WorkInv, NEW n \in Nodes, ChainInterrupted(n)
    PROVE  WorkInv'
  <1>1. /\ chain' = [chain EXCEPT ![n] = Off]
        /\ ws' = ws /\ dirty' = dirty /\ observed' = observed
        /\ agg' = agg \/ \E k \in DOMAIN agg.att[n] :
                            IsRunning(agg, n, k) /\ agg' = SettleInterrupted(agg, n, k)
    BY DEF ChainInterrupted
  <1>2. Heir(agg, agg', {}, {})
    BY <1>1, InvIsGood, HeirRefl, InterruptedHeir
  <1>3. Off.phase = "off"
    BY DEF Off
  <1>4. \A m \in Nodes : PhaseFollows(m)
    BY <1>1, <1>3, OnePhaseFollows
  <1> QED BY <1>1, <1>2, <1>4, WorkFrame

(* A chain's transaction that makes no commit.                             *)
LEMMA SettlesWorks ==
    ASSUME Inv, WorkInv, NEW n \in Nodes, NEW t, NEW N, N \cap Merges = {}, Heir(agg, t, N, {}),
           NEW then, NEW settled, Settles(n, t, then, settled),
           \/ then.phase = "off"
           \/ /\ chain[n].phase # "off"
              /\ then.phase = "completing" \/ (then.phase = "reviewing" /\ Verifying(n))
    PROVE  WorkInv'
  <1>1. /\ agg' = t /\ chain' = [chain EXCEPT ![n] = then]
        /\ ws' = ws /\ dirty' = dirty /\ observed' = observed
    BY DEF Settles
  <1>2. \A m \in Nodes : PhaseFollows(m)
    BY <1>1, OnePhaseFollows
  <1> QED BY <1>1, <1>2, WorkFrame

(* The Nodes that make no commit.                                          *)
LEMMA SessionsWork ==
    ASSUME Inv, WorkInv, NEW n \in Nodes,
           \/ TaskSucceeds(n) \/ TaskFails(n)
           \/ VerificationPasses(n) \/ VerificationFails(n)
           \/ ReviewPasses(n) \/ ReviewFails(n) \/ Complete(n)
           \/ RollbackSettles(n) \/ ReachCheckpoint(n)
    PROVE  WorkInv'
  <1>1. Good(agg) /\ Follows(agg, agg) /\ Heir(agg, agg, {}, {})
    BY InvIsGood, HeirRefl DEF Follows
  <1>2. Off.phase = "off" /\ At("completing").phase = "completing" /\ At("reviewing").phase = "reviewing"
    BY DEF Off, At
  <1>3. \A k : IsRunning(agg, n, k) => Heir(agg, DecideAttemptSucceeded(agg, n, k), {n}, {})
    BY <1>1, SucceededHeir DEF DecideAttemptSucceeded
  <1>4. \A k, code : IsRunning(agg, n, k) => Heir(agg, DecideAttemptFailure(agg, n, k, code), {}, {})
    BY <1>1, FailureHeir
  <1>5. n \in Tasks \/ Verifying(n) => {n} \cap Merges = {}
    BY DEF Tasks, Verifying, Merges
  <1>6. CASE VerificationPasses(n)
    <2>1. Settles(n, agg, At("reviewing"), {}) /\ chain[n].phase = "working" /\ Verifying(n)
      BY <1>6 DEF VerificationPasses, Live
    <2> DEFINE then == At("reviewing")
    <2>2. Settles(n, agg, then, {}) /\ then.phase = "reviewing"
      BY <1>2, <2>1
    <2> HIDE DEF then
    <2> QED BY <1>1, <2>1, <2>2, SettlesWorks
  <1>7. CASE TaskSucceeds(n)
    <2>1. PICK k \in DOMAIN agg.att[n] :
              IsRunning(agg, n, k) /\ Settles(n, DecideAttemptSucceeded(agg, n, k), Off, {})
      BY <1>7 DEF TaskSucceeds
    <2>2. n \in Tasks
      BY <1>7 DEF TaskSucceeds
    <2> QED BY <1>2, <1>3, <1>5, <2>1, <2>2, SettlesWorks
  <1>8. CASE ReviewPasses(n)
    <2>1. PICK k \in DOMAIN agg.att[n], then \in {Off, At("completing")} :
              IsRunning(agg, n, k) /\ Settles(n, DecideAttemptSucceeded(agg, n, k), then, {})
      BY <1>8 DEF ReviewPasses
    <2>2. Verifying(n) /\ chain[n].phase = "reviewing"
      BY <1>8 DEF ReviewPasses, Live, WorkInv, MergePhases
    <2>3. then.phase = "off" \/ then.phase = "completing"
      BY <1>2, <2>1
    <2> QED BY <1>3, <1>5, <2>1, <2>2, <2>3, SettlesWorks
  <1>9. CASE TaskFails(n) \/ VerificationFails(n) \/ ReviewFails(n) \/ RollbackSettles(n)
    <2>1. \E k \in DOMAIN agg.att[n] : \E code, settled :
              IsRunning(agg, n, k) /\ Settles(n, DecideAttemptFailure(agg, n, k, code), Off, settled)
      BY <1>9 DEF TaskFails, VerificationFails, ReviewFails, RollbackSettles
    <2>2. PICK k \in DOMAIN agg.att[n] : \E code, settled :
              IsRunning(agg, n, k) /\ Settles(n, DecideAttemptFailure(agg, n, k, code), Off, settled)
      BY <2>1
    <2>3. PICK code, settled :
              IsRunning(agg, n, k) /\ Settles(n, DecideAttemptFailure(agg, n, k, code), Off, settled)
      BY <2>2
    <2> QED BY <1>2, <1>4, <2>3, SettlesWorks
  <1>10. CASE Complete(n)
    <2> DEFINE t == IF CanComplete(agg) THEN DecideComplete(agg) ELSE agg
    <2>1. Settles(n, t, Off, {})
      BY <1>10 DEF Complete
    <2>2. Heir(agg, t, {}, {})
      BY <1>1, CompleteHeir
    <2> HIDE DEF t
    <2> QED BY <1>2, <2>1, <2>2, SettlesWorks
  <1>11. CASE ReachCheckpoint(n)
    <2> DEFINE t == IF CanAllocate(agg, n) THEN DecideCheckpoint(agg, n) ELSE agg
    <2>1. Settles(n, t, Off, {})
      BY <1>11 DEF ReachCheckpoint
    <2>2. Heir(agg, t, {n}, {})
      BY <1>1, CheckpointHeir, HeirRefl
    <2>3. {n} \cap Merges = {}
      BY <1>11 DEF ReachCheckpoint, Checkpoints, Merges
    <2> HIDE DEF t
    <2> QED BY <1>2, <2>1, <2>2, <2>3, SettlesWorks
  <1> QED BY <1>6, <1>7, <1>8, <1>9, <1>10, <1>11

(* The first transaction: a task starts at a commit that is verified, a    *)
(* merge at the verified head, and only when its task is.                  *)
LEMMA DispatchWorks ==
    ASSUME Inv, WorkInv, NEW n \in Nodes, Dispatch(n)
    PROVE  WorkInv'
  <1>1. /\ Good(agg) /\ chain[n].phase = "queued"
        /\ ws' = ws /\ dirty' = dirty /\ observed' = observed
    BY InvIsGood DEF Dispatch, Live
  <1> n \notin Checkpoints
    BY DEF Dispatch
  <1>2. /\ ws \in Heads /\ observed \in Heads /\ agg.head \in Heads
        /\ \A m \in Nodes : agg.base[m] \in Heads
        /\ \A m \in Nodes : \A k \in DOMAIN agg.att[m] : agg.att[m][k].start \in Heads
        /\ \A m \in Nodes : TaskOf[m] \in Nodes
    BY CommitsAreHeads
  <1>3. CASE ~CanAllocate(agg, n)
    <2>1. agg' = agg /\ chain' = [chain EXCEPT ![n] = Off]
      BY <1>3 DEF Dispatch
    <2>2. Off.phase = "off"
      BY DEF Off
    <2>3. \A m \in Nodes : PhaseFollows(m)
      BY <2>1, <2>2, OnePhaseFollows
    <2>4. Heir(agg, agg', {}, {})
      BY <2>1, HeirRefl
    <2> QED BY <1>1, <2>3, <2>4, WorkFrame
  <1>4. CASE CanAllocate(agg, n)
    <2> DEFINE start == StartHead(agg, n, observed)
               t == DecideDispatch(agg, n, observed)
               then == At("working")
    <2>1. agg' = t /\ chain' = [chain EXCEPT ![n] = then] /\ then.phase = "working"
      BY <1>4 DEF Dispatch, At
    <2>2. /\ t.head = agg.head /\ t.finds = agg.finds /\ t.runtime = agg.runtime
          /\ t.base[n] = (IF n \in Tasks THEN start ELSE agg.base[n])
          /\ agg.node[n] # "SUCCEEDED" /\ t.node[n] = "RUNNING"
          /\ \A m \in Nodes \ {n} :
                t.node[m] = agg.node[m] /\ t.base[m] = agg.base[m] /\ t.att[m] = agg.att[m]
          /\ \A j \in DOMAIN agg.att[n] : j \in DOMAIN t.att[n] /\ t.att[n][j] = agg.att[n][j]
          /\ \A j \in DOMAIN t.att[n] : t.att[n][j].status = "RUNNING" => t.att[n][j].start = start
      BY <1>1, <1>2, <1>4, DispatchHeir
    <2> HIDE DEF t, then
    <2>3. chain'[n].phase = "working" /\ \A m \in Nodes \ {n} : chain'[m] = chain[m]
      BY <2>1, InvIsGood DEF RestOK
    <2>4. \A m \in Nodes :
             /\ agg.node[m] = "SUCCEEDED" => t.node[m] = "SUCCEEDED"
             /\ \A k \in DOMAIN agg.att[m] : agg.att[m][k].status = "SUCCEEDED" =>
                   k \in DOMAIN t.att[m] /\ t.att[m][k].status = "SUCCEEDED"
      BY <2>2
    <2>5. /\ \A q \in Nodes : VerifiedTask(agg, q) => VerifiedTask(t, q)
          /\ \A head \in Heads : OnlyVerified(agg, head) => OnlyVerified(t, head)
      BY <2>4, VerifiedStays
    <2>6. start \in Heads
      BY <1>1, <1>2, StartHeadSound
    <2>7. n \in Tasks => start = observed \/ start = agg.base[n]
      BY DEF StartHead, Tasks
    <2>8. n \in Merges => start = IF agg.head = NoHead THEN observed ELSE agg.head
      BY DEF StartHead, Merges
    <2> HIDE DEF start
    <2>9. n \in Tasks \/ n \in Merges => OnlyVerified(t, start)
      BY <1>2, <2>5, <2>7, <2>8 DEF WorkInv, HeadIsVerified, MergesVerified
    <2>10. HeadIsVerified'
      <3>1. ASSUME NEW m \in Nodes PROVE OnlyVerified(t, t.base[m])
        <4>1. CASE m = n /\ n \in Tasks
          BY <2>2, <2>9, <4>1
        <4>2. CASE ~(m = n /\ n \in Tasks)
          BY <1>2, <2>2, <2>5, <4>2 DEF WorkInv, HeadIsVerified
        <4> QED BY <4>1, <4>2
      <3>2. OnlyVerified(t, t.head) /\ OnlyVerified(t, ws)
        BY <1>2, <2>2, <2>5 DEF WorkInv, HeadIsVerified
      <3> QED BY <1>1, <2>1, <3>1, <3>2 DEF HeadIsVerified
    <2>11. MergePhases'
      <3>1. \A m \in Nodes : \A d \in Deps[m] : agg.node[d] = "SUCCEEDED" => t.node[d] = "SUCCEEDED"
        BY <2>4, GraphAssumption
      <3> QED BY <1>1, <2>1, <2>3, <3>1 DEF WorkInv, MergePhases
    <2>12. n \in Merges => VerifiedTask(t, TaskOf[n])
      <3> SUFFICES ASSUME n \in Merges PROVE VerifiedTask(t, TaskOf[n])
        OBVIOUS
      <3>1. Succeeded(agg, TaskOf[n])
        BY <1>4 DEF CanAllocate, Merges
      <3>2. \A d \in Deps[n] : agg.node[d] = "SUCCEEDED"
        BY <1>1 DEF WorkInv, MergePhases
      <3>3. VerifiedTask(agg, TaskOf[n])
        BY <3>1, <3>2, SkeletonAssumption DEF VerifiedTask
      <3> QED BY <1>2, <2>5, <3>3
    <2>13. MergesVerified'
      <3>1. OnlyVerified(t, observed)
        BY <1>2, <2>5 DEF WorkInv, MergesVerified
      <3>2. ASSUME NEW m \in Merges, NEW k \in DOMAIN t.att[m], IsRunning(t, m, k)
            PROVE  /\ VerifiedTask(t, TaskOf[m])
                   /\ OnlyVerified(t, t.att[m][k].start)
                   /\ t.head # NoHead => t.att[m][k].start = t.head
                   /\ chain'[m].phase = "merged" =>
                         t.att[m][k].start \subseteq ws /\ TaskOf[m] \in ws /\ ~dirty
        <4>1. m \in Nodes
          BY MergesAreNodes
        <4>2. CASE m = n
          <5>1. t.att[m][k].start = start
            BY <2>2, <3>2, <4>2 DEF IsRunning
          <5> QED BY <2>2, <2>3, <2>8, <2>9, <2>12, <4>2, <5>1
        <4>3. CASE m # n
          <5>1. t.att[m] = agg.att[m] /\ chain'[m] = chain[m]
            BY <2>2, <2>3, <4>1, <4>3
          <5>2. k \in DOMAIN agg.att[m] /\ IsRunning(agg, m, k)
            BY <3>2, <5>1 DEF IsRunning
          <5>3. /\ VerifiedTask(agg, TaskOf[m])
                /\ OnlyVerified(agg, agg.att[m][k].start)
                /\ agg.head # NoHead => agg.att[m][k].start = agg.head
                /\ chain[m].phase = "merged" =>
                      agg.att[m][k].start \subseteq ws /\ TaskOf[m] \in ws /\ ~dirty
            BY <5>2 DEF WorkInv, MergesVerified
          <5> QED BY <1>2, <2>2, <2>5, <4>1, <5>1, <5>2, <5>3
        <4> QED BY <4>2, <4>3
      <3> QED BY <1>1, <2>1, <3>1, <3>2 DEF MergesVerified
    <2>14. Delivered'
      <3>1. \A m \in Merges : t.node[m] = "SUCCEEDED" => agg.node[m] = "SUCCEEDED"
        BY <2>2, MergesAreNodes
      <3> QED BY <1>1, <2>1, <2>2, <3>1 DEF WorkInv, Delivered
    <2> QED BY <2>10, <2>11, <2>13, <2>14 DEF WorkInv
  <1> QED BY <1>3, <1>4

(* A git step of the one merge in flight leaves a verified Workspace.      *)
LEMMA GitStepWorks ==
    ASSUME Inv, PassInv, WorkInv, NEW n \in Merges, NEW k \in DOMAIN agg.att[n], IsRunning(agg, n, k),
           chain[n].phase # "off",
           NEW then, then.phase \in {"off", "merged", "mergefailed", "rolledback"},
           NEW head, NEW unmerged, GitStep(n, then, head, unmerged), OnlyVerified(agg, head),
           then.phase = "merged" =>
               agg.att[n][k].start \subseteq head /\ TaskOf[n] \in head /\ ~unmerged
    PROVE  WorkInv'
  <1>1. /\ agg' = agg /\ chain' = [chain EXCEPT ![n] = then]
        /\ ws' = head /\ dirty' = unmerged /\ observed' = observed
    BY DEF GitStep
  <1>2. n \in Nodes /\ Good(agg)
    BY MergesAreNodes, InvIsGood
  <1>3. chain'[n] = then /\ \A m \in Nodes \ {n} : chain'[m] = chain[m]
    BY <1>1, <1>2, InvIsGood DEF RestOK
  <1>4. HeadIsVerified'
    BY <1>1 DEF WorkInv, HeadIsVerified
  <1>5. MergePhases'
    BY <1>1, <1>3 DEF WorkInv, MergePhases
  <1>6. MergesVerified'
    <2>1. ASSUME NEW m \in Merges, NEW j \in DOMAIN agg.att[m], IsRunning(agg, m, j)
          PROVE  m = n /\ j = k
      <3>1. m = n
        BY <2>1 DEF PassInv, MergesAreSerial
      <3> QED BY <1>2, <2>1, <3>1, OneRunsPerNode DEF IsRunning
    <2> QED BY <1>1, <1>3, <2>1 DEF WorkInv, MergesVerified
  <1>7. Delivered'
    <2>1. agg.node[n] # "SUCCEEDED"
      BY <1>2, RunningHasNotSucceeded
    <2> QED BY <1>1, <2>1 DEF WorkInv, Delivered
  <1> QED BY <1>4, <1>5, <1>6, <1>7 DEF WorkInv

(* The merge and its rollback in the Workspace.                            *)
LEMMA GitWorks ==
    ASSUME Inv, PassInv, WorkInv, NEW n \in Nodes, GitMerge(n) \/ GitRollback(n)
    PROVE  WorkInv'
  <1>1. n \in Merges /\ chain[n].phase # "off" /\ chain[n] \in Chains
    BY InvIsGood DEF GitMerge, GitRollback, WorkInv, MergePhases, RestOK
  <1>2. /\ ws \in Heads /\ OnlyVerified(agg, ws) /\ TaskOf[n] \in Nodes
        /\ OnlyVerified(agg, agg.base[TaskOf[n]])
    BY CommitsAreHeads DEF WorkInv, HeadIsVerified
  <1>3. CASE GitMerge(n)
    <2>1. PICK k \in DOMAIN agg.att[n] :
            /\ IsRunning(agg, n, k)
            /\ IF ws = agg.att[n][k].start /\ ~dirty
               THEN \/ GitStep(n, At("merged"), MergeCommit(n), FALSE)
                    \/ GitStep(n, FailedMerge("MERGE_CONFLICT"), MergeCommit(n), FALSE)
                    \/ GitStep(n, FailedMerge("MERGE_CONFLICT"), ws, TRUE)
               ELSE GitStep(n, FailedMerge("STATE_INVARIANT_VIOLATION"), ws, dirty)
      BY <1>3 DEF GitMerge
    <2>2. OnlyVerified(agg, MergeCommit(n))
      <3>1. VerifiedTask(agg, TaskOf[n])
        BY <1>1, <2>1 DEF WorkInv, MergesVerified
      <3> QED BY <1>2, <3>1 DEF OnlyVerified, MergeCommit
    <2> DEFINE failed(code) == FailedMerge(code)
               merged == At("merged")
               commit == MergeCommit(n)
    <2>3. merged.phase = "merged" /\ \A code : failed(code).phase = "mergefailed"
      BY DEF At, FailedMerge
    <2>4. ws \subseteq commit /\ TaskOf[n] \in commit
      BY DEF MergeCommit
    <2>5. CASE GitStep(n, merged, commit, FALSE) /\ ws = agg.att[n][k].start
      <3> DEFINE no == FALSE
      <3>1. GitStep(n, merged, commit, no) /\ ~no
        BY <2>5
      <3> HIDE DEF merged, commit, no
      <3> QED BY <1>1, <2>1, <2>2, <2>3, <2>4, <2>5, <3>1, GitStepWorks DEF commit
    <2>6. ASSUME NEW code, NEW head, head = ws \/ head = commit, NEW unmerged,
                 GitStep(n, failed(code), head, unmerged)
          PROVE  WorkInv'
      <3> DEFINE then == failed(code)
      <3>1. then.phase = "mergefailed" /\ GitStep(n, then, head, unmerged)
        BY <2>3, <2>6
      <3>2. OnlyVerified(agg, head)
        BY <1>2, <2>2, <2>6
      <3> HIDE DEF then
      <3> QED BY <1>1, <2>1, <3>1, <3>2, GitStepWorks
    <2> HIDE DEF merged, commit, failed
    <2>7. \/ GitStep(n, merged, commit, FALSE) /\ ws = agg.att[n][k].start
          \/ GitStep(n, failed("MERGE_CONFLICT"), commit, FALSE)
          \/ GitStep(n, failed("MERGE_CONFLICT"), ws, TRUE)
          \/ GitStep(n, failed("STATE_INVARIANT_VIOLATION"), ws, dirty)
      BY <2>1 DEF merged, commit, failed
    <2> QED BY <2>5, <2>6, <2>7
  <1>4. CASE GitRollback(n)
    <2> DEFINE back == [chain[n] EXCEPT !.phase = "rolledback"]
    <2>1. PICK k \in DOMAIN agg.att[n] :
            /\ IsRunning(agg, n, k)
            /\ \/ GitStep(n, back, agg.att[n][k].start, FALSE)
               \/ GitStep(n, Off, ws, dirty)
      BY <1>4 DEF GitRollback
    <2>2. OnlyVerified(agg, agg.att[n][k].start)
      BY <1>1, <2>1 DEF WorkInv, MergesVerified
    <2>3. back.phase = "rolledback" /\ Off.phase = "off"
      BY <1>1 DEF Chains, Off
    <2> HIDE DEF back
    <2>4. CASE GitStep(n, back, agg.att[n][k].start, FALSE)
      <3> DEFINE head == agg.att[n][k].start
                 no == FALSE
      <3>1. GitStep(n, back, head, no) /\ OnlyVerified(agg, head)
        BY <2>2, <2>4
      <3>2. back.phase \in {"off", "merged", "mergefailed", "rolledback"} /\ back.phase # "merged"
        BY <2>3
      <3> HIDE DEF head, no
      <3> QED BY <1>1, <2>1, <3>1, <3>2, GitStepWorks
    <2>5. CASE GitStep(n, Off, ws, dirty)
      BY <1>1, <1>2, <2>1, <2>3, <2>5, GitStepWorks
    <2> QED BY <2>1, <2>4, <2>5
  <1> QED BY <1>3, <1>4

(* A merge fails before its transaction: the rollback is asked for.        *)
LEMMA MergeFailsWorks ==
    ASSUME Inv, WorkInv, NEW n \in Nodes, MergeFails(n)
    PROVE  WorkInv'
  <1> DEFINE then == [chain[n] EXCEPT !.phase = "rollback"]
  <1>1. /\ chain' = [chain EXCEPT ![n] = then] /\ chain[n].phase = "mergefailed"
        /\ agg' = agg /\ ws' = ws /\ dirty' = dirty /\ observed' = observed
    BY DEF MergeFails, Live
  <1>2. n \in Merges /\ chain[n] \in Chains
    BY <1>1, InvIsGood DEF WorkInv, MergePhases, RestOK
  <1>3. then.phase = "rollback"
    BY <1>2 DEF Chains
  <1> HIDE DEF then
  <1>4. \A m \in Nodes : PhaseFollows(m)
    BY <1>1, <1>2, <1>3, OnePhaseFollows
  <1>5. Heir(agg, agg', {}, {})
    BY <1>1, HeirRefl
  <1> QED BY <1>1, <1>4, <1>5, WorkFrame

(* decideWorkspaceMerged: the head advances to a commit that contains the  *)
(* head before it and the work of the merge's task.                        *)
LEMMA MergeSettlesWorks ==
    ASSUME Inv, PassInv, WorkInv, NEW n \in Nodes, MergeSettles(n)
    PROVE  WorkInv'
  <1>1. /\ ~interrupted /\ chain[n].phase = "merged" /\ Underway(n) /\ n \in Merges /\ Good(agg)
    BY InvIsGood DEF MergeSettles, Live, Underway, WorkInv, MergePhases
  <1>2. Calm(agg) /\ Working(agg)
    BY <1>1, LiveWorks
  <1>3. PICK k \in DOMAIN agg.att[n] :
          /\ IsRunning(agg, n, k)
          /\ \/ Settles(n, DecideWorkspaceMerged(agg, n, k, ws), Off,
                        {MergeIntent(n, agg.att[n][k].start)})
             \/ Settles(n, agg, Off, {})
    BY DEF MergeSettles
  <1>4. Off.phase = "off"
    BY DEF Off
  <1>5. CASE Settles(n, agg, Off, {})
    BY <1>4, <1>5, HeirRefl, SettlesWorks
  <1>6. CASE Settles(n, DecideWorkspaceMerged(agg, n, k, ws), Off,
                     {MergeIntent(n, agg.att[n][k].start)})
    <2> DEFINE d == [agg EXCEPT !.head = ws]
               t == SettleNodeSucceeded(agg, d, n, k)
    <2>1. /\ agg' = t /\ chain' = [chain EXCEPT ![n] = Off]
          /\ ws' = ws /\ dirty' = dirty /\ observed' = observed
      BY <1>6 DEF Settles, DecideWorkspaceMerged
    <2>2. /\ ws \in Heads /\ observed \in Heads /\ agg.head \in Heads
          /\ \A m \in Nodes : agg.base[m] \in Heads
          /\ \A m \in Nodes : \A j \in DOMAIN agg.att[m] : agg.att[m][j].start \in Heads
          /\ \A m \in Nodes : TaskOf[m] \in Nodes
      BY CommitsAreHeads
    <2>3. /\ d \in Aggregates /\ d.att = agg.att /\ d.finds = agg.finds /\ d.base = agg.base
          /\ d.runs = agg.runs /\ d.runtime = agg.runtime /\ d.node = agg.node /\ d.head = ws
          /\ d.charged = agg.charged /\ d.cancel = agg.cancel
      BY <1>1, <2>2 DEF Good, Aggregates
    <2> HIDE DEF d
    <2>4. Follows(agg, d)
      BY <1>1, <2>3 DEF Follows, Good, RunsOrdered, NewestRuns
    <2>5. agg.runtime = "RUNNING"
      BY <1>2 DEF Working
    <2>6. Heir(agg, d, {}, {ws})
      BY <2>3, <2>5 DEF Heir
    <2>7. /\ Heir(agg, t, {n}, {ws})
          /\ agg.finds = {} => t.head = ws
      BY <1>1, <1>2, <1>3, <2>3, <2>4, <2>6, SucceededHeir
    <2> HIDE DEF t
    <2>8. chain'[n].phase = "off" /\ \A m \in Nodes \ {n} : chain'[m] = chain[m]
      BY <1>4, <2>1, InvIsGood DEF RestOK
    <2>9. /\ \A q \in Nodes : VerifiedTask(agg, q) => VerifiedTask(t, q)
          /\ \A head \in Heads : OnlyVerified(agg, head) => OnlyVerified(t, head)
      BY <2>7, HeirVerified
    <2>10. /\ t.base = agg.base /\ t.head \in {agg.head, ws}
           /\ t.finds = {} => agg.finds = {}
      BY <2>7 DEF Heir
    <2>11. HeadIsVerified'
      BY <2>1, <2>2, <2>9, <2>10 DEF WorkInv, HeadIsVerified
    <2>12. MergePhases'
      <3>1. \A m \in Nodes : \A e \in Deps[m] : agg.node[e] = "SUCCEEDED" => t.node[e] = "SUCCEEDED"
        BY <2>7, GraphAssumption DEF Heir
      <3> QED BY <2>1, <2>8, <3>1 DEF WorkInv, MergePhases
    <2>13. \A j \in DOMAIN t.att[n] : t.att[n][j].status # "RUNNING"
      <3>1. Settled(agg, SettleNodeSucceeded(agg, d, n, k), n)
        BY <1>1, <1>2, <1>3, <2>3, <2>4, SucceededOutcome
      <3> QED BY <3>1 DEF Settled, t
    <2>14. MergesVerified'
      <3>1. ASSUME NEW m \in Merges, NEW j \in DOMAIN t.att[m], IsRunning(t, m, j)
            PROVE  FALSE
        <4>1. m \in Nodes
          BY MergesAreNodes
        <4>2. j \in DOMAIN agg.att[m] /\ IsRunning(agg, m, j)
          BY <2>7, <3>1, <4>1 DEF Heir, IsRunning
        <4>3. m = n
          BY <1>1, <1>3, <4>2 DEF PassInv, MergesAreSerial
        <4> QED BY <2>13, <3>1, <4>3 DEF IsRunning
      <3>2. OnlyVerified(t, observed)
        BY <2>2, <2>9 DEF WorkInv, MergesVerified
      <3> QED BY <2>1, <3>1, <3>2 DEF MergesVerified
    <2>15. /\ agg.head # NoHead => agg.att[n][k].start = agg.head
           /\ agg.att[n][k].start \subseteq ws /\ TaskOf[n] \in ws /\ ~dirty
      BY <1>1, <1>3 DEF WorkInv, MergesVerified
    <2>16. Delivered'
      <3>1. t.runtime # "SUCCEEDED" \/ (agg.head # NoHead /\ t.head = agg.head)
        BY <2>5, <2>7 DEF Heir
      <3>2. ASSUME t.finds = {} PROVE t.head = ws
        BY <2>7, <2>10, <3>2
      <3>3. ASSUME t.finds = {}, NEW m \in Merges, t.node[m] = "SUCCEEDED"
            PROVE  TaskOf[m] \in ws
        <4>1. CASE m = n
          BY <2>15, <4>1
        <4>2. CASE m # n
          <5>1. agg.node[m] = "SUCCEEDED" /\ m \in Nodes
            BY <2>7, <3>3, <4>2, MergesAreNodes DEF Heir
          <5>2. TaskOf[m] \in agg.head
            BY <2>10, <3>3, <5>1 DEF WorkInv, Delivered
          <5>3. agg.head # NoHead
            BY <2>2, <5>1, <5>2, GraphAssumption DEF NoHead
          <5> QED BY <2>15, <5>2, <5>3
        <4> QED BY <4>1, <4>2
      <3> QED BY <2>1, <2>15, <3>1, <3>2, <3>3 DEF Delivered
    <2> QED BY <2>11, <2>12, <2>14, <2>16 DEF WorkInv
  <1> QED BY <1>3, <1>5, <1>6

-----------------------------------------------------------------------------

(* At the start there is no commit but the base.                           *)
LEMMA InitWorks == Init => WorkInv
  <1> SUFFICES ASSUME Init PROVE WorkInv
    OBVIOUS
  <1>1. PICK adopted \in Adopted :
         agg = [stage |-> "EXECUTION", runtime |-> "RUNNING", cancel |-> FALSE,
                head |-> IF adopted THEN {} ELSE NoHead,
                runs |-> <<[status |-> "RUNNING", gate |-> TRUE]>>,
                node |-> [n \in Nodes |-> "PENDING"],
                charged |-> [n \in Nodes |-> 0],
                base |-> [n \in Nodes |-> NoHead],
                att |-> [n \in Nodes |-> <<>>],
                finds |-> {}]
    BY DEF Init
  <1>2. /\ agg.runtime = "RUNNING" /\ agg.head \in {{}, NoHead}
        /\ \A n \in Nodes : agg.node[n] = "PENDING" /\ agg.base[n] = NoHead /\ agg.att[n] = <<>>
    BY <1>1
  <1>3. /\ \A n \in Nodes : chain[n].phase = "off"
        /\ ws = {} /\ dirty = FALSE /\ observed = {}
    BY DEF Init, Off
  <1>4. OnlyVerified(agg, {}) /\ OnlyVerified(agg, NoHead)
    BY DEF OnlyVerified
  <1>5. HeadIsVerified
    BY <1>2, <1>3, <1>4 DEF HeadIsVerified
  <1>6. MergePhases
    BY <1>3 DEF MergePhases
  <1>7. MergesVerified
    BY <1>2, <1>3, <1>4, MergesAreNodes DEF MergesVerified
  <1>8. Delivered
    <2>1. \A m \in Merges : agg.node[m] # "SUCCEEDED"
      BY <1>2, MergesAreNodes
    <2>2. agg.head # NoHead => agg.head = ws
      BY <1>2, <1>3
    <2> QED BY <1>2, <1>3, <2>1, <2>2 DEF Delivered
  <1> QED BY <1>5, <1>6, <1>7, <1>8 DEF WorkInv

(* Every step keeps the third invariant, given the other two.              *)
LEMMA NextWorks == Inv /\ PassInv /\ WorkInv /\ [Next]_vars => WorkInv'
  <1> SUFFICES ASSUME Inv, PassInv, WorkInv, [Next]_vars PROVE WorkInv'
    OBVIOUS
  <1>1. CASE \/ PauseCommand \/ ResumeCommand \/ CancelCommand \/ CompleteCommand
             \/ DispatchCommand \/ ProcessStopped
    BY <1>1, CommandsWork
  <1>2. ASSUME NEW n \in Nodes, ChainStep(n) PROVE WorkInv'
    <2>1. CASE Dispatch(n)
      BY <2>1, DispatchWorks
    <2>2. CASE \/ TaskSucceeds(n) \/ TaskFails(n)
               \/ VerificationPasses(n) \/ VerificationFails(n)
               \/ ReviewPasses(n) \/ ReviewFails(n) \/ Complete(n) \/ RollbackSettles(n)
               \/ ReachCheckpoint(n)
      BY <2>2, SessionsWork
    <2>3. CASE GitMerge(n) \/ GitRollback(n)
      BY <2>3, GitWorks
    <2>4. CASE MergeSettles(n)
      BY <2>4, MergeSettlesWorks
    <2>5. CASE MergeFails(n)
      BY <2>5, MergeFailsWorks
    <2>6. CASE ChainInterrupted(n)
      BY <2>6, ChainInterruptedWorks
    <2> QED BY <1>2, <2>1, <2>2, <2>3, <2>4, <2>5, <2>6 DEF ChainStep
  <1>3. CASE Interrupt \/ (\E n \in Nodes : ChainError(n)) \/ Crash
    BY <1>3, FaultsWork
  <1>4. CASE UNCHANGED vars
    BY <1>4 DEF vars, WorkInv, MergePhases, MergesVerified, Delivered, HeadIsVerified
  <1> QED BY <1>1, <1>2, <1>3, <1>4 DEF Next

(* The third inductive invariant, in every reachable state.                *)
THEOREM WorkInvHolds == Spec => []WorkInv
  <1>1. Spec => [](Inv /\ PassInv)
    BY InvHolds, PassInvHolds, PTL
  <1> QED BY <1>1, InitWorks, NextWorks, PTL DEF Spec

(* Nothing unverified reaches the verified head, the Workspace or a Task   *)
(* Base, in whatever order merges are interrupted, rolled back or left     *)
(* behind (internal/decision/verify.go, decideWorkspaceMerged).            *)
THEOREM OnlyVerifiedWork == Spec => []HeadIsVerified
  <1>1. WorkInv => HeadIsVerified
    BY DEF WorkInv
  <1> QED BY <1>1, WorkInvHolds, PTL

(* A Workflow that SUCCEEDED has delivered every task, its Workspace is at *)
(* the verified head and nothing runs (internal/decision/workflow.go,      *)
(* decideComplete).                                                        *)
THEOREM SuccessDelivers == Spec => []SucceededDeliversAll
  <1>1. ASSUME Inv, PassInv, WorkInv PROVE SucceededDeliversAll
    <2> SUFFICES ASSUME agg.runtime = "SUCCEEDED"
                 PROVE  /\ Tasks \subseteq agg.head
                        /\ ws = agg.head
                        /\ ~dirty
                        /\ ~HasRunningAttempt(agg) /\ ~HasRunningProcess(agg)
      BY DEF SucceededDeliversAll
    <2>1. Calm(agg) /\ Good(agg)
      BY <1>1, InvIsGood DEF PassInv
    <2>2. /\ agg.finds = {} /\ ~HasRunningProcess(agg)
          /\ \A n \in Nodes : agg.node[n] = "SUCCEEDED"
      BY <2>1 DEF Calm, HasBlockingFinding
    <2>3. ~HasRunningAttempt(agg)
      BY <2>1, <2>2, QuietRows DEF Good, NewestRuns, NothingRuns
    <2>4. Tasks \subseteq agg.head
      BY <1>1, <2>2, MergesAreNodes, SkeletonAssumption DEF WorkInv, Delivered
    <2> QED BY <1>1, <2>2, <2>3, <2>4, MergesAreNodes DEF WorkInv, Delivered
  <1>2. Spec => [](Inv /\ PassInv /\ WorkInv)
    BY InvHolds, PassInvHolds, WorkInvHolds, PTL
  <1> QED BY <1>1, <1>2, PTL

=============================================================================
